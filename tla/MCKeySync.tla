------------------------------- MODULE MCKeySync -------------------------------
(***************************************************************************)
(* An instance of KeySync for TLC: a message under the first key.          *)
(***************************************************************************)
EXTENDS KeySync, TLC

CONSTANTS m1

OneMessage == {m1}
UnderFirst == m1 :> 1
=============================================================================
