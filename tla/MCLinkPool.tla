------------------------------ MODULE MCLinkPool ------------------------------
(***************************************************************************)
(* Instances of LinkPool for TLC: the subscription line, which a command   *)
(* may use and open too (backup_ops.rs, room_crypto.rs).                   *)
(***************************************************************************)
EXTENDS LinkPool, TLC

CONSTANTS keys, backup

OnlyKeys == <<keys>>
KeysOnly == {keys}
OneOnKeys == backup :> keys

\* A login and no keeper's round, or a round and no login.
EitherOne == {<<1, 1>>, <<2, 0>>}

PoolIds == 1 .. 4
SlotIds == 1 .. 6
=============================================================================
