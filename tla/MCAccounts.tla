----------------------------- MODULE MCAccounts -----------------------------
(* Accounts alone: two logins one after the other. *)
EXTENDS Accounts, TLC

CONSTANTS alice, bob, capital, c1, c2

Spelling == (alice :> alice) @@ (bob :> bob) @@ (capital :> alice)

Bounds(logins, leaves, tasks, faults, crashes) ==
  [logins |-> logins, leaves |-> leaves, tasks |-> tasks, faults |-> faults, crashes |-> crashes]

Twice == {Bounds(2, 0, 0, 0, 0)}

AnyCaller == Permutations(Clients)
=============================================================================
