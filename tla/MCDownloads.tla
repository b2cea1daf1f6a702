----------------------------- MODULE MCDownloads -----------------------------
(***************************************************************************)
(* Two accounts of a server and two exports of one file.                   *)
(***************************************************************************)
EXTENDS Downloads

CONSTANTS alice, bob, first, second
=============================================================================
