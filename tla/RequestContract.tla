--------------------------- MODULE RequestContract ---------------------------
(***************************************************************************)
(* What a line promises to whoever asks a question on it, without the      *)
(* table, the queue and the tasks that keep the promise.                   *)
(***************************************************************************)
CONSTANTS
  Requests,
  Alike(_, _)   \* two requests with the same bytes: one reply serves both

VARIABLES
  open,         \* the line; it never opens again
  stage,        \* "idle", asked while the line was "open" or "shut", or the outcome
  replied       \* the requests the server has answered

contractVars == <<open, stage, replied>>

ContractInit ==
  /\ open = TRUE
  /\ stage = [r \in Requests |-> "idle"]
  /\ replied = {}

Ask(r) ==
  /\ stage[r] = "idle"
  /\ stage' = [stage EXCEPT ![r] = IF open THEN "open" ELSE "shut"]
  /\ UNCHANGED <<open, replied>>

\* The key is in use.
Refuse(r) ==
  /\ stage[r] = "idle"
  /\ stage' = [stage EXCEPT ![r] = "usage"]
  /\ UNCHANGED <<open, replied>>

\* The server never answers what was asked on a line already shut.
Reply(r) ==
  /\ stage[r] \notin {"idle", "shut", "usage"}
  /\ replied' = replied \cup {r}
  /\ UNCHANGED <<open, stage>>

\* A question is settled once, by an answer to itself and to nothing else.
Succeed(r) ==
  /\ stage[r] = "open"
  /\ \E q \in replied : Alike(q, r)
  /\ stage' = [stage EXCEPT ![r] = "ok"]
  /\ UNCHANGED <<open, replied>>

\* Timeout says that the line is still there.
TimeOut(r) ==
  /\ stage[r] = "open"
  /\ open
  /\ stage' = [stage EXCEPT ![r] = "timeout"]
  /\ UNCHANGED <<open, replied>>

Fail(r) ==
  /\ stage[r] \in {"open", "shut"}
  /\ stage' = [stage EXCEPT ![r] = "network"]
  /\ UNCHANGED <<open, replied>>

Withdraw(r) ==
  /\ stage[r] = "open"
  /\ stage' = [stage EXCEPT ![r] = "dropped"]
  /\ UNCHANGED <<open, replied>>

Shut ==
  /\ open
  /\ open' = FALSE
  /\ UNCHANGED <<stage, replied>>

ContractNext ==
  \/ Shut
  \/ \E r \in Requests :
       \/ Ask(r) \/ Refuse(r) \/ Reply(r) \/ Succeed(r)
       \/ TimeOut(r) \/ Fail(r) \/ Withdraw(r)

ContractSpec == ContractInit /\ [][ContractNext]_contractVars
=============================================================================
