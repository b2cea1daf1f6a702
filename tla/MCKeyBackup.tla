----------------------------- MODULE MCKeyBackup -----------------------------
(***************************************************************************)
(* One installation, and what its logout asks for.                         *)
(***************************************************************************)
EXTENDS KeyBackup

CONSTANTS only

TwoNames == <<"master", "user_signing">>

Nothing == [what \in Kinds |-> 0]

\* One login; a recovery key and an upload, with SERVER_BACKUP switched in between; a logout.
GateCase == {[Nothing EXCEPT !["logins"] = 1, !["opens"] = 1, !["calls"] = 2, !["switches"] = 1,
                             !["leaves"] = 1]}

=============================================================================
