---------------------------- MODULE MCChunkFlight ----------------------------
(***************************************************************************)
(* A file of two chunks and two GETs.                                      *)
(***************************************************************************)
EXTENDS ChunkFlight

CONSTANTS play, scrub
=============================================================================
