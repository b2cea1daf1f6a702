-------------------------- MODULE ServerDir_proofs --------------------------
(***************************************************************************)
(* What is proved of the directory of one server: who is logged in         *)
(* (Accounts), and the files on their way to the server (Uploads).  The    *)
(* two share no state; each part stands by itself.                         *)
(***************************************************************************)
EXTENDS Accounts, Uploads, TLAPS

----------------------------------------------------------------------------
(***************************************************************************)
(* Proofs about Accounts.  The invariant says what an operation may rely   *)
(* on at each of its steps (LoginHolds, LeaveHolds), and what is true of   *)
(* server, disk and memory when the operation that is under way is taken   *)
(* into account.  A step of an operation leaves all others idle (Moves,    *)
(* Halts), so that there is one lemma for each, and one for what happens   *)
(* beside them (Elsewhere).                                                *)
(***************************************************************************)

Granting == {"move", "build", "seal", "revoke"}
LoginPcs == {"ask", "point"} \cup Granting
\* Steps of log_out and destroy_account: what comes before the session is deleted, and after.
Before == {"forget", "http", "stop", "unseal"}
Removing == {"dirs", "rest", "dir", "rename", "sweep"}
NoCurrent == {"close", "wipe", "key"} \cup Removing
After == {"engine", "store"} \cup NoCurrent
LeavePcs == Before \cup After

Login == [pc : LoginPcs, as : Names, dev : Nat]
Leave == [pc : LeavePcs, as : Names, all : BOOLEAN, key : BOOLEAN]
Operation == {NoOp} \cup Login \cup Leave

TypeOK ==
  /\ made \in Nat /\ devices \subseteq 1..made
  /\ session \in [Names -> 0..made] /\ keyDb \in [Names -> Nat] /\ engine \in [Names -> Nat]
  /\ dirs \subseteq Names /\ keys \subseteq Names /\ rows \subseteq Names
  /\ cache \in BOOLEAN /\ marked \in BOOLEAN /\ junk \in BOOLEAN /\ open \in BOOLEAN
  /\ busy \in [Names -> {"rest", "begun", "cache"}]
  /\ at \in [Clients -> Operation]
  /\ rest \in [Occasions -> Nat]

\* Only who holds the lock is at work.
OneAtATime == \A p \in Clients : at[p] # NoOp => lock = p

\* What a login that has come so far may rely on: the device is new and on the server, and
\* nobody marks the directory or takes it away.
LoginHolds(p) ==
  LET n == at[p].as d == at[p].dev IN
  /\ ~marked
  /\ at[p].pc \in Granting => d \in devices /\ \A m \in Names : session[m] # d
  /\ at[p].pc \in {"seal", "point"} => n \in dirs
  /\ at[p].pc = "seal" => keyDb[n] = d /\ (Holds(n) => n \in over)

\* The same of one that leaves: what it has taken away does not come back, but for what is
\* written late.
LeaveHolds(p) ==
  LET n == at[p].as IN
  /\ at[p].pc \in {"stop", "unseal"} => session[n] \notin devices
  /\ at[p].pc \in After => ~Holds(n)
  /\ at[p].pc \in NoCurrent => current # n
  /\ at[p].pc = "wipe" => \A m \in Names : ~Holds(m)
  /\ at[p].pc \in {"key"} \cup Removing => at[p].all
  /\ at[p].pc = "rest" => dirs \subseteq {n}
  /\ at[p].all /\ at[p].pc # "forget" /\ n \in rows => <<n, "rows">> \in stay
  /\ at[p].all /\ (~at[p].key \/ at[p].pc \in Removing) /\ n \in keys => <<n, "key">> \in stay

Held ==
  \A p \in Clients :
    /\ at[p].pc \in LoginPcs => LoginHolds(p)
    /\ at[p].pc \in LeavePcs => LeaveHolds(p)

\* A logout or destroy of the account is at one of these.
Logout(n, pcs) == \E p \in Clients : at[p].pc \in pcs /\ at[p].as = n

\* What SessionsAgree says between operations, with the one that is under way.
DevicesAreKept ==
  \A d \in devices : \/ d \in stray \/ \E n \in Names : session[n] = d
                     \/ \E p \in Clients : at[p].pc \in Granting /\ at[p].dev = d

SessionsAreValid ==
  /\ \A m, n \in Names : Holds(n) /\ session[m] = session[n] => m = n
  /\ \A n \in Names \ dead : Holds(n) => session[n] \in devices \/ Logout(n, {"stop", "unseal"})

StoresAreTheirs ==
  \A n \in Names \ over :
    /\ engine[n] \in {0, session[n]} \/ Logout(n, {"engine"})
    /\ Holds(n) => keyDb[n] = session[n]

Agreed == Held /\ DevicesAreKept /\ SessionsAreValid /\ StoresAreTheirs /\ RemainsAreFound

AccountsInv == TypeOK /\ OneAtATime /\ Agreed

----------------------------------------------------------------------------
\* What the operation p is at goes on, and no other operation is under way.
Moves(p, pc) ==
  /\ at' \in [Clients -> Operation] /\ lock' = lock
  /\ at'[p].pc = pc /\ at'[p].as = at[p].as /\ at'[p].as \in Names
  /\ pc \in LoginPcs => at'[p].dev = at[p].dev
  /\ pc \in LeavePcs => at'[p].all = at[p].all /\ at'[p].key = at[p].key /\ at'[p].all \in BOOLEAN
  /\ \A q \in Clients : q # p => at[q] = NoOp /\ at'[q] = NoOp
  /\ at[p] # NoOp /\ lock = p

Halts(p) ==
  /\ at' \in [Clients -> Operation] /\ lock' = None
  /\ \A q \in Clients : at'[q] = NoOp
  /\ \A q \in Clients : q # p => at[q] = NoOp
  /\ at[p] # NoOp /\ lock = p

\* What an operation is at says whether it is a login or a logout.
LEMMA Kinds ==
  ASSUME NEW o \in Operation
  PROVE  /\ o.pc \in LoginPcs => o \in Login
         /\ o.pc \in LeavePcs => o \in Leave
         /\ o.pc \notin LoginPcs \cup LeavePcs => o = NoOp
         /\ o # NoOp => o \in Login \/ o \in Leave
         /\ NoOp.pc = "idle"
         /\ o \in Login => o.pc \in LoginPcs
         /\ o \in Leave => o.pc \in LeavePcs
  BY DEF Operation, Login, Leave, LoginPcs, LeavePcs, Granting, Before, After, NoCurrent,
         Removing, NoOp

\* A step with which an operation goes on moves it alone; one with which it ends leaves
\* nobody at work.
LEMMA GoingLogin ==
  ASSUME TypeOK, OneAtATime, NEW p \in Clients, NEW pc \in LoginPcs, at[p].pc \in LoginPcs,
         Step(p, pc)
  PROVE  Moves(p, pc)
<1>1. at[p] \in Login
  BY Kinds DEF TypeOK
<1>2. at[p] # NoOp
  BY DEF NoOp, LoginPcs, Granting
<1>3. at'[p] = [at[p] EXCEPT !.pc = pc]
  BY DEF Step, TypeOK
<1>4. at'[p] \in Login /\ at'[p].pc = pc /\ at'[p].as = at[p].as /\ at'[p].dev = at[p].dev
  BY <1>1, <1>3 DEF Login
<1>5. \A q \in Clients : q # p => at[q] = NoOp /\ at'[q] = NoOp
  BY <1>2 DEF OneAtATime, Step, TypeOK
<1>6. at' \in [Clients -> Operation]
  BY <1>4 DEF Step, TypeOK, Operation
<1>7. pc \notin LeavePcs
  BY DEF LoginPcs, LeavePcs, Granting, Before, After, NoCurrent, Removing
<1> QED
  BY <1>1, <1>2, <1>4, <1>5, <1>6, <1>7 DEF Moves, Login, OneAtATime, Step

LEMMA GoingLeave ==
  ASSUME TypeOK, OneAtATime, NEW p \in Clients, NEW pc \in LeavePcs, at[p].pc \in LeavePcs,
         Step(p, pc)
  PROVE  Moves(p, pc)
<1>1. at[p] \in Leave
  BY Kinds DEF TypeOK
<1>2. at[p] # NoOp
  BY DEF NoOp, LeavePcs, Before, After, NoCurrent, Removing
<1>3. at'[p] = [at[p] EXCEPT !.pc = pc]
  BY DEF Step, TypeOK
<1>4. /\ at'[p] \in Leave /\ at'[p].pc = pc /\ at'[p].as = at[p].as
      /\ at'[p].all = at[p].all /\ at'[p].key = at[p].key
  BY <1>1, <1>3 DEF Leave
<1>5. \A q \in Clients : q # p => at[q] = NoOp /\ at'[q] = NoOp
  BY <1>2 DEF OneAtATime, Step, TypeOK
<1>6. at' \in [Clients -> Operation]
  BY <1>4 DEF Step, TypeOK, Operation
<1>7. pc \notin LoginPcs
  BY DEF LoginPcs, LeavePcs, Granting, Before, After, NoCurrent, Removing
<1> QED
  BY <1>1, <1>2, <1>4, <1>5, <1>6, <1>7 DEF Moves, Leave, OneAtATime, Step

LEMMA Ending ==
  ASSUME TypeOK, OneAtATime, NEW p \in Clients, at[p].pc \in LoginPcs \cup LeavePcs, Exit(p)
  PROVE  Halts(p)
<1>1. at[p] # NoOp
  BY DEF NoOp, LoginPcs, LeavePcs, Granting, Before, After, NoCurrent, Removing
<1>2. \A q \in Clients : q # p => at[q] = NoOp
  BY <1>1 DEF OneAtATime
<1>3. at' \in [Clients -> Operation] /\ \A q \in Clients : at'[q] = NoOp
  BY <1>2 DEF TypeOK, Exit, Operation
<1> QED
  BY <1>1, <1>2, <1>3 DEF Halts, Exit, OneAtATime

\* Who is at work is alone at work.
LEMMA Alone ==
  ASSUME TypeOK, OneAtATime, NEW p \in Clients, at[p].pc \in LoginPcs \cup LeavePcs
  PROVE  /\ at[p].as \in Names
         /\ at[p].pc \in LoginPcs => at[p] \in Login /\ at[p].dev \in Nat
         /\ at[p].pc \in LeavePcs => at[p] \in Leave
         /\ \A q \in Clients : q # p => at[q].pc = "idle"
<1>1. at[p] # NoOp
  BY DEF NoOp, LoginPcs, LeavePcs, Granting, Before, After, NoCurrent, Removing
<1>2. \A q \in Clients : q # p => at[q] = NoOp
  BY <1>1 DEF OneAtATime
<1> QED
  BY <1>1, <1>2, Kinds DEF TypeOK, NoOp, Login, Leave

\* With that, there is still one operation at a time.
LEMMA StillOne ==
  ASSUME OneAtATime, NEW p \in Clients, Halts(p) \/ \E pc : Moves(p, pc)
  PROVE  OneAtATime'
  BY DEF OneAtATime, Halts, Moves

\* What begins is one operation, and no other is under way.
LEMMA Beginning ==
  ASSUME TypeOK, OneAtATime, Spellings, NEW p \in Clients, NEW job \in Login \cup Leave,
         Enters(p, job)
  PROVE  /\ at' \in [Clients -> Operation] /\ OneAtATime' /\ at'[p] = job
         /\ \A q \in Clients : at[q].pc = "idle" /\ (q # p => at'[q].pc = "idle")
<1>1. \A q \in Clients : at[q] = NoOp
  BY DEF OneAtATime, Enters, Spellings
<1>2. at'[p] = job /\ \A q \in Clients : q # p => at'[q] = NoOp
  BY <1>1 DEF Enters, TypeOK
<1> QED
  BY <1>1, <1>2 DEF Enters, TypeOK, Operation, OneAtATime, NoOp

\* The bounds stay what they are.
LEMMA MayStays ==
  ASSUME TypeOK, NEW what \in Occasions, May(what)
  PROVE  rest' \in [Occasions -> Nat]
  BY DEF TypeOK, May

\* Types, and one operation at a time: the steps of a login, of a logout, the others.
LEMMA LoginTyped ==
  ASSUME Spellings, AccountsInv, NEW p \in Clients, LogsIn(p)
  PROVE  TypeOK' /\ OneAtATime'
<1> USE DEF LoginPcs, Granting, LeavePcs, Before, After, NoCurrent, Removing, AccountsInv, Agreed
<1>1. ASSUME NEW t \in Names, StartLogin(p, t)
      PROVE  TypeOK' /\ OneAtATime'
  <2>1. rest' \in [Occasions -> Nat]
    BY <1>1, MayStays DEF StartLogin, Occasions
  <2>2. [pc |-> "ask", as |-> t, dev |-> 0] \in Login
    BY DEF Login
  <2> QED
    BY <1>1, <2>1, <2>2, Beginning DEF StartLogin, TypeOK, remote, memory
<1>2. at[p].pc \in LoginPcs /\ Exit(p) => at' \in [Clients -> Operation] /\ OneAtATime'
  BY Ending, StillOne DEF Halts
<1>3. \A pc \in LoginPcs : at[p].pc \in LoginPcs /\ Step(p, pc)
                             => at' \in [Clients -> Operation] /\ OneAtATime'
  BY GoingLogin, StillOne DEF Moves
<1>4. rest' = rest \/ (\E what \in Occasions : May(what)) => rest' \in [Occasions -> Nat]
  BY MayStays DEF TypeOK
<1>5. CASE Granted(p)
  <2>1. at[p] \in Login /\ \A q \in Clients : q # p => at[q] = NoOp
    BY <1>5, Kinds DEF Granted, On, TypeOK, OneAtATime, NoOp
  <2>2. at' \in [Clients -> Operation]
    BY <1>5, <2>1 DEF Granted, TypeOK, Operation, Login, Who
  <2>3. OneAtATime'
    BY <1>5, <2>1 DEF Granted, TypeOK, OneAtATime, On, NoOp
  <2> QED
    BY <1>5, <2>2, <2>3 DEF Granted, TypeOK, data, memory
<1>6. CASE GrantIsLost(p)
  BY <1>6, <1>2, <1>4 DEF GrantIsLost, On, TypeOK, data, memory, Occasions
<1>7. CASE Denied(p)
  BY <1>7, <1>2, <1>4 DEF Denied, On, TypeOK, remote, data, memory
<1>8. CASE Move(p)
  BY <1>8, <1>3, <1>4 DEF Move, On, TypeOK, remote, data, memory
<1>9. CASE Build(p)
  BY <1>9, <1>3, <1>4, Alone DEF Build, On, Who, TypeOK, remote, memory, Occasions
<1>10. CASE Seal(p)
  <2>1. at[p].pc = "seal" /\ at[p].as \in Names
    BY <1>10, Alone DEF Seal, On
  <2>2. UNCHANGED <<devices, made, dirs, keys, cache, rows, marked, junk, engine, open, busy>>
    BY <1>10 DEF Seal, remote, memory
  <2>3. at' \in [Clients -> Operation] /\ OneAtATime' /\ rest' \in [Occasions -> Nat]
    BY <1>10, <2>1, <1>3, <1>4 DEF Seal, Occasions
  <2>4. at[p].dev \in 0..made
    BY <2>1 DEF Held, LoginHolds, TypeOK
  <2>5. keyDb' \in [Names -> Nat] /\ session' \in [Names -> 0..made]
    BY <1>10, <2>1, <2>4 DEF Seal, Who, TypeOK
  <2> QED
    BY <2>2, <2>3, <2>5 DEF TypeOK
<1>11. CASE Point(p)
  BY <1>11, <1>2, <1>4 DEF Point, On, TypeOK, remote, memory, Occasions
<1>12. CASE Revoke(p)
  BY <1>12, <1>2, <1>4 DEF Revoke, On, TypeOK, data, memory, Occasions
<1> QED
  BY <1>1, <1>5, <1>6, <1>7, <1>8, <1>9, <1>10, <1>11, <1>12 DEF LogsIn

LEMMA LeaveTyped ==
  ASSUME Spellings, AccountsInv, NEW p \in Clients, Leaves(p)
  PROVE  TypeOK' /\ OneAtATime'
<1> USE DEF LoginPcs, Granting, LeavePcs, Before, After, NoCurrent, Removing, AccountsInv, Agreed
<1>1. ASSUME NEW n \in Names, NEW all \in BOOLEAN, NEW accepts \in BOOLEAN,
             StartLeave(p, n, all, accepts)
      PROVE  TypeOK' /\ OneAtATime'
  <2>1. rest' \in [Occasions -> Nat]
    BY <1>1, MayStays DEF StartLeave, Occasions
  <2>2. [pc |-> IF all THEN "forget" ELSE "http", as |-> n, all |-> all, key |-> n \in keys]
          \in Leave
    BY DEF Leave
  <2> QED
    BY <1>1, <2>1, <2>2, Beginning DEF StartLeave, TypeOK, remote, data, memory
<1>2. at[p].pc \in LeavePcs /\ Exit(p) => at' \in [Clients -> Operation] /\ OneAtATime'
  BY Ending, StillOne DEF Halts
<1>3. \A pc \in LeavePcs : at[p].pc \in LeavePcs /\ Step(p, pc)
                             => at' \in [Clients -> Operation] /\ OneAtATime'
  BY GoingLeave, StillOne DEF Moves
<1>4. rest' = rest \/ (\E what \in Occasions : May(what)) => rest' \in [Occasions -> Nat]
  BY MayStays DEF TypeOK
<1>5. at[p].pc \in LeavePcs => at[p].as \in Names
  BY Alone
<1>6. CASE ForgetRows(p)
  BY <1>6, <1>2, <1>3, <1>4 DEF ForgetRows, On, TypeOK, remote, Occasions
<1>7. CASE TellServer(p)
  BY <1>7, <1>3, <1>4 DEF TellServer, On, TypeOK, data, memory
<1>8. CASE NotTold(p)
  BY <1>8, <1>2, <1>4 DEF NotTold, On, TypeOK, data, memory, Occasions
<1>9. CASE StopTasks(p)
  BY <1>9, <1>3, <1>4 DEF StopTasks, On, TypeOK, remote, data
<1>10. CASE DeleteSession(p)
  BY <1>10, <1>2, <1>3, <1>4, <1>5 DEF DeleteSession, On, Who, TypeOK, remote, memory, Occasions
<1>11. CASE ForgetEngine(p)
  BY <1>11, <1>3, <1>4, <1>5 DEF ForgetEngine, On, Who, TypeOK, remote, data
<1>12. CASE DeleteStore(p)
  BY <1>12, <1>2, <1>3, <1>4, <1>5 DEF DeleteStore, On, Who, TypeOK, remote, memory, Occasions
<1>13. CASE CloseCache(p)
  BY <1>13, <1>2, <1>3, <1>4 DEF CloseCache, Then, On, TypeOK, remote, data
<1>14. CASE RemoveCache(p)
  BY <1>14, <1>2, <1>3, <1>4 DEF RemoveCache, Then, On, TypeOK, remote, memory, Occasions
<1>15. CASE DropRecoveryKey(p)
  BY <1>15, <1>2, <1>3, <1>4 DEF DropRecoveryKey, On, TypeOK, remote, memory, Occasions
<1>16. CASE MarkServer(p)
  BY <1>16, <1>2, <1>3, <1>4 DEF MarkServer, On, TypeOK, remote, Occasions
<1>17. CASE RemoveRest(p)
  BY <1>17, <1>2, <1>3, <1>4 DEF RemoveRest, On, TypeOK, remote, memory, Occasions
<1>18. CASE RemoveDir(p)
  <2>1. at[p].pc = "dir" /\ at[p].as \in Names
    BY <1>18, <1>5 DEF RemoveDir, On
  <2>2. marked' \in BOOLEAN
    BY <1>18 DEF RemoveDir, TypeOK
  <2>3. session' \in [Names -> 0..made] /\ keyDb' \in [Names -> Nat] /\ dirs' \subseteq Names
    BY <1>18, <2>1 DEF RemoveDir, Who, TypeOK
  <2>4. at' \in [Clients -> Operation] /\ OneAtATime' /\ rest' \in [Occasions -> Nat]
    BY <1>18, <2>1, <1>2, <1>3, <1>4 DEF RemoveDir, Occasions
  <2>5. UNCHANGED <<devices, made, keys, cache, rows, junk, engine, open, busy>>
    BY <1>18 DEF RemoveDir, remote, memory
  <2> QED
    BY <2>2, <2>3, <2>4, <2>5 DEF TypeOK
<1>19. CASE RenameServer(p)
  BY <1>19, <1>2, <1>3, <1>4 DEF RenameServer, On, TypeOK, remote, memory, Occasions
<1>20. CASE SweepJunk(p)
  BY <1>20, <1>2, <1>4 DEF SweepJunk, On, TypeOK, remote, memory, Occasions
<1> QED
  BY <1>1, <1>6, <1>7, <1>8, <1>9, <1>10, <1>11, <1>12, <1>13, <1>14, <1>15, <1>16, <1>17,
     <1>18, <1>19, <1>20 DEF Leaves

\* The other steps: those of a name, and those of nobody.
Elsewhere ==
  \/ \E n \in Names : \/ OpenEngine(n) \/ Begin(n) \/ TakeCache(n) \/ WriteRows(n)
                      \/ SaveRecoveryKey(n)
  \/ RemoveByHand \/ ProgramStops

LEMMA ElsewhereTyped ==
  ASSUME Spellings, AccountsInv, Elsewhere
  PROVE  TypeOK' /\ OneAtATime'
<1> USE DEF AccountsInv
<1>1. CASE ProgramStops
  BY <1>1, MayStays DEF ProgramStops, TypeOK, OneAtATime, Operation, remote, data, Nobody, Occasions
<1>2. CASE RemoveByHand
  BY <1>2 DEF RemoveByHand, TypeOK, OneAtATime, remote
<1>3. ASSUME NEW n \in Names, OpenEngine(n)
      PROVE  TypeOK' /\ OneAtATime'
  BY <1>3 DEF OpenEngine, TypeOK, OneAtATime, remote
<1>4. ASSUME NEW n \in Names, Begin(n)
      PROVE  TypeOK' /\ OneAtATime'
  BY <1>4, MayStays DEF Begin, TypeOK, OneAtATime, remote, data, Occasions
<1>5. ASSUME NEW n \in Names, TakeCache(n)
      PROVE  TypeOK' /\ OneAtATime'
  BY <1>5 DEF TakeCache, TypeOK, OneAtATime, remote
<1>6. ASSUME NEW n \in Names, WriteRows(n)
      PROVE  TypeOK' /\ OneAtATime'
  BY <1>6 DEF WriteRows, Returns, TypeOK, OneAtATime, remote
<1>7. ASSUME NEW n \in Names, SaveRecoveryKey(n)
      PROVE  TypeOK' /\ OneAtATime'
  BY <1>7 DEF SaveRecoveryKey, Returns, TypeOK, OneAtATime, remote
<1> QED
  BY <1>1, <1>2, <1>3, <1>4, <1>5, <1>6, <1>7 DEF Elsewhere

----------------------------------------------------------------------------
\* Every step keeps what is agreed.

LEMMA ElsewhereAgrees ==
  ASSUME Spellings, AccountsInv, Elsewhere
  PROVE  Agreed'
<1> USE DEF AccountsInv, Agreed, LoginPcs, LeavePcs, Granting, Before, After, NoCurrent,
           Removing
<1>1. CASE ProgramStops
  <2>1. \A p \in Clients : at'[p] = NoOp /\ at'[p].pc = "idle"
    BY <1>1 DEF ProgramStops, NoOp
  <2>2. UNCHANGED <<devices, session, keyDb, dirs, keys, rows, current, marked, over, stay>>
    BY <1>1 DEF ProgramStops, remote, data
  <2>3. Held'
    BY <2>1 DEF Held
  <2>4. DevicesAreKept'
    BY <1>1, <2>2 DEF DevicesAreKept, ProgramStops, Undone
  <2>5. SessionsAreValid'
    BY <1>1, <2>2 DEF SessionsAreValid, ProgramStops, Undone, Holds, Logout, Who
  <2>6. StoresAreTheirs'
    BY <1>1, <2>2 DEF StoresAreTheirs, ProgramStops, Nobody, Holds
  <2>7. RemainsAreFound'
    BY <2>2 DEF RemainsAreFound, Holds
  <2> QED
    BY <2>3, <2>4, <2>5, <2>6, <2>7 DEF Agreed
<1>2. CASE RemoveByHand
  <2>1. UNCHANGED <<devices, session, keyDb, dirs, keys, current, engine, at, stray, dead,
                    over, stay>>
        /\ rows' = {} /\ marked' = FALSE
    BY <1>2 DEF RemoveByHand, remote, ghosts
  <2>2. Held'
    BY <2>1 DEF Held, LoginHolds, LeaveHolds, Holds
  <2>3. DevicesAreKept' /\ SessionsAreValid'
    BY <2>1 DEF DevicesAreKept, SessionsAreValid, Holds, Logout
  <2>4. StoresAreTheirs' /\ RemainsAreFound'
    BY <2>1 DEF StoresAreTheirs, RemainsAreFound, Holds, Logout
  <2> QED
    BY <2>2, <2>3, <2>4 DEF Agreed
<1>3. ASSUME NEW n \in Names, OpenEngine(n)
      PROVE  Agreed'
  <2>1. /\ UNCHANGED <<devices, session, dirs, keys, rows, current, marked, at, stray, dead,
                       over, stay>>
        /\ keyDb'[n] = session[n] /\ \A m \in Names : m # n => keyDb'[m] = keyDb[m]
        /\ engine'[n] = session[n] /\ \A m \in Names : m # n => engine'[m] = engine[m]
        /\ keyDb[n] \in {0, session[n]} /\ session[n] # 0
    BY <1>3 DEF OpenEngine, remote, ghosts, TypeOK, Suits, Holds
  <2>2. ASSUME NEW p \in Clients, at[p].pc \in LoginPcs
        PROVE  LoginHolds(p)'
    <3>1. LoginHolds(p) /\ at[p].as \in Names /\ (at[p].pc \in Granting => at[p].dev # 0)
      BY <2>2, Alone DEF Held, LoginHolds, TypeOK
    <3> QED
      BY <2>1, <2>2, <3>1 DEF LoginHolds, Holds
  <2>3. Held'
    BY <2>1, <2>2 DEF Held, LeaveHolds, Holds
  <2>4. DevicesAreKept' /\ SessionsAreValid'
    BY <2>1 DEF DevicesAreKept, SessionsAreValid, Holds, Logout
  <2>5. StoresAreTheirs' 
    BY <2>1 DEF StoresAreTheirs, Holds, Logout
  <2>6. RemainsAreFound'
    BY <2>1 DEF RemainsAreFound, Holds
  <2> QED
    BY <2>3, <2>4, <2>5, <2>6 DEF Agreed
<1>4. ASSUME NEW n \in Names, Begin(n) \/ TakeCache(n)
      PROVE  Agreed'
  <2>1. UNCHANGED <<devices, session, keyDb, dirs, keys, rows, current, marked, engine, at,
                    stray, dead, over, stay>>
    BY <1>4 DEF Begin, TakeCache, remote, data, ghosts
  <2>2. Held'
    BY <2>1 DEF Held, LoginHolds, LeaveHolds, Holds
  <2>3. DevicesAreKept' /\ SessionsAreValid'
    BY <2>1 DEF DevicesAreKept, SessionsAreValid, Holds, Logout
  <2>4. StoresAreTheirs' /\ RemainsAreFound'
    BY <2>1 DEF StoresAreTheirs, RemainsAreFound, Holds, Logout
  <2> QED
    BY <2>2, <2>3, <2>4 DEF Agreed
<1>5. ASSUME NEW n \in Names, WriteRows(n) \/ SaveRecoveryKey(n)
      PROVE  Agreed'
  <2>1. UNCHANGED <<devices, session, keyDb, dirs, current, marked, engine, at, stray, dead,
                    over>>
    BY <1>5 DEF WriteRows, SaveRecoveryKey, remote
  <2>2. /\ rows \subseteq rows' /\ rows' \subseteq rows \cup {n}
        /\ keys \subseteq keys' /\ keys' \subseteq keys \cup {n}
        /\ stay \subseteq stay'
        /\ Destroying(n) \/ n \notin dirs =>
             /\ rows' # rows => <<n, "rows">> \in stay'
             /\ keys' # keys => <<n, "key">> \in stay'
    BY <1>5 DEF WriteRows, SaveRecoveryKey, Writes
  <2>3. ASSUME NEW p \in Clients, at[p].pc \in LeavePcs, at[p].all, at[p].as = n
        PROVE  Destroying(n)
    BY <2>3, Alone DEF Destroying, Who, NoOp, Leave
  <2>4. ASSUME NEW p \in Clients, at[p].pc \in LeavePcs
        PROVE  LeaveHolds(p)'
    <3>1. LeaveHolds(p) /\ at[p].as \in Names
      BY <2>4, Alone DEF Held
    <3> QED
      BY <2>1, <2>2, <2>3, <2>4, <3>1 DEF LeaveHolds, Holds
  <2>5. Held'
    BY <2>1, <2>4 DEF Held, LoginHolds, Holds
  <2>6. DevicesAreKept' /\ SessionsAreValid'
    BY <2>1 DEF DevicesAreKept, SessionsAreValid, Holds, Logout
  <2>7. StoresAreTheirs'
    BY <2>1 DEF StoresAreTheirs, Holds, Logout
  <2>8. RemainsAreFound'
    BY <2>1, <2>2 DEF RemainsAreFound, Holds
  <2> QED
    BY <2>5, <2>6, <2>7, <2>8 DEF Agreed
<1> QED
  BY <1>1, <1>2, <1>3, <1>4, <1>5 DEF Elsewhere

LEMMA StartLoginAgrees ==
  ASSUME Spellings, AccountsInv, NEW p \in Clients, NEW t \in Names, StartLogin(p, t)
  PROVE  Agreed'
<1> USE DEF AccountsInv, Agreed, LoginPcs, LeavePcs, Granting, Before, After, NoCurrent,
           Removing
<1>1. /\ at'[p].pc = "ask"
      /\ \A q \in Clients : at[q].pc = "idle" /\ (q # p => at'[q].pc = "idle")
  <2>1. [pc |-> "ask", as |-> t, dev |-> 0] \in Login
    BY DEF Login
  <2> QED
    BY <2>1, Beginning DEF StartLogin
<1>2. /\ UNCHANGED <<devices, session, dirs, keys, rows, current, marked, engine, stray, dead,
                     over, stay>>
      /\ ~marked
      /\ \A m \in Names : keyDb'[m] = keyDb[m] \/ (session[m] = 0 /\ keyDb'[m] = 0)
  BY DEF StartLogin, remote, memory, ghosts, TypeOK, Holds
<1>3. Held'
  BY <1>1, <1>2 DEF Held, LoginHolds
<1>4. DevicesAreKept' /\ SessionsAreValid'
  BY <1>1, <1>2 DEF DevicesAreKept, SessionsAreValid, Holds, Logout
<1>5. StoresAreTheirs' /\ RemainsAreFound'
  BY <1>1, <1>2 DEF StoresAreTheirs, RemainsAreFound, Holds, Logout
<1> QED
  BY <1>3, <1>4, <1>5 DEF Agreed

LEMMA StartLeaveAgrees ==
  ASSUME Spellings, AccountsInv, NEW p \in Clients, NEW n \in Names, NEW all \in BOOLEAN,
         NEW accepts \in BOOLEAN, StartLeave(p, n, all, accepts)
  PROVE  Agreed'
<1> USE DEF AccountsInv, Agreed, LoginPcs, LeavePcs, Granting, Before, After, NoCurrent,
           Removing
<1>1. /\ at'[p].pc = IF all THEN "forget" ELSE "http"
      /\ at'[p].as = n /\ at'[p].all = all /\ at'[p].key = (n \in keys)
      /\ \A q \in Clients : at[q].pc = "idle" /\ (q # p => at'[q].pc = "idle")
  <2>1. [pc |-> IF all THEN "forget" ELSE "http", as |-> n, all |-> all, key |-> n \in keys]
          \in Leave
    BY DEF Leave
  <2> QED
    BY <2>1, Beginning DEF StartLeave
<1>2. UNCHANGED <<devices, session, keyDb, dirs, keys, rows, current, marked, engine, stray,
                  dead, over, stay>>
  BY DEF StartLeave, remote, data, memory, ghosts
<1>3. Held'
  BY <1>1, <1>2 DEF Held, LeaveHolds
<1>4. DevicesAreKept' /\ SessionsAreValid'
  BY <1>1, <1>2 DEF DevicesAreKept, SessionsAreValid, Holds, Logout
<1>5. StoresAreTheirs' /\ RemainsAreFound'
  BY <1>1, <1>2 DEF StoresAreTheirs, RemainsAreFound, Holds, Logout
<1> QED
  BY <1>3, <1>4, <1>5 DEF Agreed

LEMMA GrantedAgrees ==
  ASSUME Spellings, AccountsInv, NEW p \in Clients, Granted(p)
  PROVE  Agreed'
<1> USE DEF AccountsInv, Agreed, LoginPcs, LeavePcs, Granting, Before, After, NoCurrent,
           Removing
<1>1. at[p].pc = "ask" /\ at[p] \in Login /\ \A q \in Clients : q # p => at[q].pc = "idle"
  BY Alone DEF Granted, On
<1>2. /\ at'[p].pc = "move" /\ at'[p].as = at[p].as /\ at'[p].dev = made + 1
      /\ \A q \in Clients : q # p => at'[q].pc = "idle"
  BY <1>1 DEF Granted, TypeOK, Who
<1>3. /\ devices' = devices \cup {made + 1} /\ made + 1 # 0
      /\ UNCHANGED <<session, keyDb, dirs, keys, rows, current, marked, engine, stray, dead,
                     over, stay>>
  BY DEF Granted, data, memory, ghosts, TypeOK
<1>4. \A m \in Names : session[m] # made + 1
  BY DEF TypeOK
<1>5. Held'
  BY <1>1, <1>2, <1>3, <1>4 DEF Held, LoginHolds
<1>6. DevicesAreKept' /\ SessionsAreValid'
  BY <1>1, <1>2, <1>3 DEF DevicesAreKept, SessionsAreValid, Holds, Logout
<1>7. StoresAreTheirs' /\ RemainsAreFound'
  BY <1>1, <1>2, <1>3 DEF StoresAreTheirs, RemainsAreFound, Holds, Logout
<1> QED
  BY <1>5, <1>6, <1>7 DEF Agreed

LEMMA GrantIsLostAgrees ==
  ASSUME Spellings, AccountsInv, NEW p \in Clients, GrantIsLost(p)
  PROVE  Agreed'
<1> USE DEF AccountsInv, Agreed, LoginPcs, LeavePcs, Granting, Before, After, NoCurrent,
           Removing
<1>1. /\ at[p].pc = "ask" /\ at[p].as \in Names /\ at[p] \in Login /\ at[p].dev \in Nat
      /\ \A q \in Clients : q # p => at[q].pc = "idle"
  BY Alone DEF GrantIsLost, On
<1>2. Exit(p) => Halts(p)
  BY <1>1, Ending
<1>3. UNCHANGED <<session, keyDb, dirs, keys, rows, marked, current, engine, dead, over, stay>>
  BY DEF GrantIsLost, data, memory
<1>4. Held'
  BY <1>1, <1>2, <1>3 DEF GrantIsLost, Who, Moves, Halts, NoOp, Held, LoginHolds, Holds
<1>5. DevicesAreKept' /\ SessionsAreValid'
  BY <1>1, <1>2, <1>3 DEF GrantIsLost, Who, Moves, Halts, NoOp, DevicesAreKept, SessionsAreValid,
       Held, LoginHolds, Logout, Holds
<1>6. StoresAreTheirs' /\ RemainsAreFound'
  BY <1>1, <1>2, <1>3 DEF GrantIsLost, Who, Moves, Halts, NoOp, StoresAreTheirs, RemainsAreFound,
       Held, LoginHolds, Logout, Holds
<1> QED
  BY <1>4, <1>5, <1>6

LEMMA DeniedAgrees ==
  ASSUME Spellings, AccountsInv, NEW p \in Clients, Denied(p)
  PROVE  Agreed'
<1> USE DEF AccountsInv, Agreed, LoginPcs, LeavePcs, Granting, Before, After, NoCurrent,
           Removing
<1>1. /\ at[p].pc = "ask" /\ at[p].as \in Names /\ at[p] \in Login /\ at[p].dev \in Nat
      /\ \A q \in Clients : q # p => at[q].pc = "idle"
  BY Alone DEF Denied, On
<1>2. Exit(p) => Halts(p)
  BY <1>1, Ending
<1>3. UNCHANGED <<devices, session, keyDb, dirs, keys, rows, marked, current, engine, stray, dead,
                 over, stay>>
  BY DEF Denied, remote, data, memory, ghosts
<1>4. Held'
  BY <1>1, <1>2, <1>3 DEF Denied, Who, Moves, Halts, NoOp, Held, LoginHolds, Holds
<1>5. DevicesAreKept' /\ SessionsAreValid'
  BY <1>1, <1>2, <1>3 DEF Denied, Who, Moves, Halts, NoOp, DevicesAreKept, SessionsAreValid, Held,
       LoginHolds, Logout, Holds
<1>6. StoresAreTheirs' /\ RemainsAreFound'
  BY <1>1, <1>2, <1>3 DEF Denied, Who, Moves, Halts, NoOp, StoresAreTheirs, RemainsAreFound, Held,
       LoginHolds, Logout, Holds
<1> QED
  BY <1>4, <1>5, <1>6

LEMMA MoveAgrees ==
  ASSUME Spellings, AccountsInv, NEW p \in Clients, Move(p)
  PROVE  Agreed'
<1> USE DEF AccountsInv, Agreed, LoginPcs, LeavePcs, Granting, Before, After, NoCurrent,
           Removing
<1>1. /\ at[p].pc = "move" /\ at[p].as \in Names /\ at[p] \in Login /\ at[p].dev \in Nat
      /\ \A q \in Clients : q # p => at[q].pc = "idle"
  BY Alone DEF Move, On
<1>2. /\ Step(p, "build") => Moves(p, "build")
      /\ Step(p, "revoke") => Moves(p, "revoke")
  BY <1>1, GoingLogin
<1>3. UNCHANGED <<devices, session, keyDb, dirs, keys, rows, marked, current, engine, stray, dead,
                 over, stay>>
  BY DEF Move, remote, data, memory, ghosts
<1>4. Held'
  BY <1>1, <1>2, <1>3 DEF Move, Who, Moves, Halts, NoOp, Held, LoginHolds, Holds
<1>5. DevicesAreKept' /\ SessionsAreValid'
  BY <1>1, <1>2, <1>3 DEF Move, Who, Moves, Halts, NoOp, DevicesAreKept, SessionsAreValid, Held,
       LoginHolds, Logout, Holds
<1>6. StoresAreTheirs' /\ RemainsAreFound'
  BY <1>1, <1>2, <1>3 DEF Move, Who, Moves, Halts, NoOp, StoresAreTheirs, RemainsAreFound, Held,
       LoginHolds, Logout, Holds
<1> QED
  BY <1>4, <1>5, <1>6

LEMMA BuildAgrees ==
  ASSUME Spellings, AccountsInv, NEW p \in Clients, Build(p)
  PROVE  Agreed'
<1> USE DEF AccountsInv, Agreed, LoginPcs, LeavePcs, Granting, Before, After, NoCurrent,
           Removing
<1>1. /\ at[p].pc = "build" /\ at[p].as \in Names /\ at[p] \in Login /\ at[p].dev \in Nat
      /\ \A q \in Clients : q # p => at[q].pc = "idle"
  BY Alone DEF Build, On
<1>2. /\ Step(p, "seal") => Moves(p, "seal")
      /\ Step(p, "revoke") => Moves(p, "revoke")
  BY <1>1, GoingLogin
<1>3. UNCHANGED <<devices, session, keys, rows, marked, current, engine, stray, dead, stay>>
  BY DEF Build, remote, memory
<1>4. Held'
  BY <1>1, <1>2, <1>3 DEF Build, Who, Moves, Halts, NoOp, Suits, TypeOK, Held, LoginHolds, Holds
<1>5. DevicesAreKept' /\ SessionsAreValid'
  BY <1>1, <1>2, <1>3 DEF Build, Who, Moves, Halts, NoOp, Suits, TypeOK, DevicesAreKept,
       SessionsAreValid, Held, LoginHolds, Logout, Holds
<1>6. StoresAreTheirs' /\ RemainsAreFound'
  BY <1>1, <1>2, <1>3 DEF Build, Who, Moves, Halts, NoOp, Suits, TypeOK, StoresAreTheirs,
       RemainsAreFound, Held, LoginHolds, Logout, Holds
<1> QED
  BY <1>4, <1>5, <1>6

LEMMA PointAgrees ==
  ASSUME Spellings, AccountsInv, NEW p \in Clients, Point(p)
  PROVE  Agreed'
<1> USE DEF AccountsInv, Agreed, LoginPcs, LeavePcs, Granting, Before, After, NoCurrent,
           Removing
<1>1. /\ at[p].pc = "point" /\ at[p].as \in Names /\ at[p] \in Login /\ at[p].dev \in Nat
      /\ \A q \in Clients : q # p => at[q].pc = "idle"
  BY Alone DEF Point, On
<1>2. Exit(p) => Halts(p)
  BY <1>1, Ending
<1>3. UNCHANGED <<devices, session, keyDb, dirs, keys, rows, marked, engine, stray, dead, over,
                 stay>>
  BY DEF Point, remote, memory, ghosts
<1>4. Held'
  BY <1>1, <1>2, <1>3 DEF Point, Who, Moves, Halts, NoOp, Held, LoginHolds, Holds
<1>5. DevicesAreKept' /\ SessionsAreValid'
  BY <1>1, <1>2, <1>3 DEF Point, Who, Moves, Halts, NoOp, DevicesAreKept, SessionsAreValid, Held,
       LoginHolds, Logout, Holds
<1>6. StoresAreTheirs' /\ RemainsAreFound'
  BY <1>1, <1>2, <1>3 DEF Point, Who, Moves, Halts, NoOp, StoresAreTheirs, RemainsAreFound, Held,
       LoginHolds, Logout, Holds
<1> QED
  BY <1>4, <1>5, <1>6

LEMMA RevokeAgrees ==
  ASSUME Spellings, AccountsInv, NEW p \in Clients, Revoke(p)
  PROVE  Agreed'
<1> USE DEF AccountsInv, Agreed, LoginPcs, LeavePcs, Granting, Before, After, NoCurrent,
           Removing
<1>1. /\ at[p].pc = "revoke" /\ at[p].as \in Names /\ at[p] \in Login /\ at[p].dev \in Nat
      /\ \A q \in Clients : q # p => at[q].pc = "idle"
  BY Alone DEF Revoke, On
<1>2. Exit(p) => Halts(p)
  BY <1>1, Ending
<1>3. UNCHANGED <<session, keyDb, dirs, keys, rows, marked, current, engine, dead, over, stay>>
  BY DEF Revoke, data, memory
<1>4. Held'
  BY <1>1, <1>2, <1>3 DEF Revoke, Who, Moves, Halts, NoOp, Held, LoginHolds, Holds
<1>5. DevicesAreKept' /\ SessionsAreValid'
  BY <1>1, <1>2, <1>3 DEF Revoke, Who, Moves, Halts, NoOp, DevicesAreKept, SessionsAreValid, Held,
       LoginHolds, Logout, Holds
<1>6. StoresAreTheirs' /\ RemainsAreFound'
  BY <1>1, <1>2, <1>3 DEF Revoke, Who, Moves, Halts, NoOp, StoresAreTheirs, RemainsAreFound, Held,
       LoginHolds, Logout, Holds
<1> QED
  BY <1>4, <1>5, <1>6

LEMMA ForgetRowsAgrees ==
  ASSUME Spellings, AccountsInv, NEW p \in Clients, ForgetRows(p)
  PROVE  Agreed'
<1> USE DEF AccountsInv, Agreed, LoginPcs, LeavePcs, Granting, Before, After, NoCurrent,
           Removing
<1>1. /\ at[p].pc = "forget" /\ at[p].as \in Names /\ at[p] \in Leave
      /\ \A q \in Clients : q # p => at[q].pc = "idle"
  BY Alone DEF ForgetRows, On
<1>2. /\ Step(p, "http") => Moves(p, "http")
      /\ Exit(p) => Halts(p)
  BY <1>1, GoingLeave, Ending
<1>3. UNCHANGED <<devices, session, keyDb, dirs, keys, marked, current, engine, stray, dead,
                 over>>
  BY DEF ForgetRows, remote
<1>4. Held'
  BY <1>1, <1>2, <1>3 DEF ForgetRows, Who, Moves, Halts, NoOp, Held, LeaveHolds, Holds
<1>5. DevicesAreKept' /\ SessionsAreValid'
  BY <1>1, <1>2, <1>3 DEF ForgetRows, Who, Moves, Halts, NoOp, DevicesAreKept, SessionsAreValid,
       Held, LeaveHolds, Logout, Holds
<1>6. StoresAreTheirs' /\ RemainsAreFound'
  BY <1>1, <1>2, <1>3 DEF ForgetRows, Who, Moves, Halts, NoOp, StoresAreTheirs, RemainsAreFound,
       Held, LeaveHolds, Logout, Holds
<1> QED
  BY <1>4, <1>5, <1>6

LEMMA TellServerAgrees ==
  ASSUME Spellings, AccountsInv, NEW p \in Clients, TellServer(p)
  PROVE  Agreed'
<1> USE DEF AccountsInv, Agreed, LoginPcs, LeavePcs, Granting, Before, After, NoCurrent,
           Removing
<1>1. /\ at[p].pc = "http" /\ at[p].as \in Names /\ at[p] \in Leave
      /\ \A q \in Clients : q # p => at[q].pc = "idle"
  BY Alone DEF TellServer, On
<1>2. /\ Step(p, "stop") => Moves(p, "stop")
      /\ Step(p, "engine") => Moves(p, "engine")
  BY <1>1, GoingLeave
<1>3. UNCHANGED <<session, keyDb, dirs, keys, rows, marked, current, engine, stray, dead, over,
                 stay>>
  BY DEF TellServer, data, memory, ghosts
<1>4. Held'
  BY <1>1, <1>2, <1>3 DEF TellServer, Who, Moves, Halts, NoOp, Held, LeaveHolds, Holds
<1>5. DevicesAreKept' /\ SessionsAreValid'
  BY <1>1, <1>2, <1>3 DEF TellServer, Who, Moves, Halts, NoOp, DevicesAreKept, SessionsAreValid,
       Held, LeaveHolds, Logout, Holds
<1>6. StoresAreTheirs' /\ RemainsAreFound'
  BY <1>1, <1>2, <1>3 DEF TellServer, Who, Moves, Halts, NoOp, StoresAreTheirs, RemainsAreFound,
       Held, LeaveHolds, Logout, Holds
<1> QED
  BY <1>4, <1>5, <1>6

LEMMA NotToldAgrees ==
  ASSUME Spellings, AccountsInv, NEW p \in Clients, NotTold(p)
  PROVE  Agreed'
<1> USE DEF AccountsInv, Agreed, LoginPcs, LeavePcs, Granting, Before, After, NoCurrent,
           Removing
<1>1. /\ at[p].pc = "http" /\ at[p].as \in Names /\ at[p] \in Leave
      /\ \A q \in Clients : q # p => at[q].pc = "idle"
  BY Alone DEF NotTold, On
<1>2. Exit(p) => Halts(p)
  BY <1>1, Ending
<1>3. UNCHANGED <<session, keyDb, dirs, keys, rows, marked, current, engine, stray, over, stay>>
  BY DEF NotTold, data, memory
<1>4. Held'
  BY <1>1, <1>2, <1>3 DEF NotTold, Who, Moves, Halts, NoOp, Held, LeaveHolds, Holds
<1>5. DevicesAreKept' /\ SessionsAreValid'
  BY <1>1, <1>2, <1>3 DEF NotTold, Who, Moves, Halts, NoOp, DevicesAreKept, SessionsAreValid,
       Held, LeaveHolds, Logout, Holds
<1>6. StoresAreTheirs' /\ RemainsAreFound'
  BY <1>1, <1>2, <1>3 DEF NotTold, Who, Moves, Halts, NoOp, StoresAreTheirs, RemainsAreFound,
       Held, LeaveHolds, Logout, Holds
<1> QED
  BY <1>4, <1>5, <1>6

LEMMA StopTasksAgrees ==
  ASSUME Spellings, AccountsInv, NEW p \in Clients, StopTasks(p)
  PROVE  Agreed'
<1> USE DEF AccountsInv, Agreed, LoginPcs, LeavePcs, Granting, Before, After, NoCurrent,
           Removing
<1>1. /\ at[p].pc = "stop" /\ at[p].as \in Names /\ at[p] \in Leave
      /\ \A q \in Clients : q # p => at[q].pc = "idle"
  BY Alone DEF StopTasks, On
<1>2. Step(p, "unseal") => Moves(p, "unseal")
  BY <1>1, GoingLeave
<1>3. UNCHANGED <<devices, session, keyDb, dirs, keys, rows, marked, current, engine, stray, dead,
                 over, stay>>
  BY DEF StopTasks, remote, data, ghosts
<1>4. Held'
  <2>1. Moves(p, "unseal")
    BY <1>2 DEF StopTasks
  <2>2. LeaveHolds(p)'
    BY <1>1, <1>3, <2>1 DEF Moves, TypeOK, Held, LeaveHolds, Holds
  <2>3. QED
    BY <2>1, <2>2 DEF Moves, NoOp, Held
<1>5. DevicesAreKept' /\ SessionsAreValid'
  BY <1>1, <1>2, <1>3 DEF StopTasks, Who, Moves, Halts, NoOp, TypeOK, DevicesAreKept,
       SessionsAreValid, Held, LeaveHolds, Logout, Holds
<1>6. StoresAreTheirs' /\ RemainsAreFound'
  BY <1>1, <1>2, <1>3 DEF StopTasks, Who, Moves, Halts, NoOp, TypeOK, StoresAreTheirs,
       RemainsAreFound, Held, LeaveHolds, Logout, Holds
<1> QED
  BY <1>4, <1>5, <1>6

LEMMA CloseCacheAgrees ==
  ASSUME Spellings, AccountsInv, NEW p \in Clients, CloseCache(p)
  PROVE  Agreed'
<1> USE DEF AccountsInv, Agreed, LoginPcs, LeavePcs, Granting, Before, After, NoCurrent,
           Removing
<1>1. /\ at[p].pc = "close" /\ at[p].as \in Names /\ at[p] \in Leave
      /\ \A q \in Clients : q # p => at[q].pc = "idle"
  BY Alone DEF CloseCache, On
<1>2. /\ Step(p, "key") => Moves(p, "key")
      /\ Step(p, "wipe") => Moves(p, "wipe")
      /\ Exit(p) => Halts(p)
  BY <1>1, GoingLeave, Ending
<1>3. UNCHANGED <<devices, session, keyDb, dirs, keys, rows, marked, current, engine, stray, dead,
                 over, stay>>
  BY DEF CloseCache, remote, data, ghosts
<1>4. Held'
  BY <1>1, <1>2, <1>3 DEF CloseCache, Who, Moves, Halts, NoOp, Then, Held, LeaveHolds, Holds
<1>5. DevicesAreKept' /\ SessionsAreValid'
  BY <1>1, <1>2, <1>3 DEF CloseCache, Who, Moves, Halts, NoOp, Then, DevicesAreKept,
       SessionsAreValid, Held, LeaveHolds, Logout, Holds
<1>6. StoresAreTheirs' /\ RemainsAreFound'
  BY <1>1, <1>2, <1>3 DEF CloseCache, Who, Moves, Halts, NoOp, Then, StoresAreTheirs,
       RemainsAreFound, Held, LeaveHolds, Logout, Holds
<1> QED
  BY <1>4, <1>5, <1>6

LEMMA RemoveCacheAgrees ==
  ASSUME Spellings, AccountsInv, NEW p \in Clients, RemoveCache(p)
  PROVE  Agreed'
<1> USE DEF AccountsInv, Agreed, LoginPcs, LeavePcs, Granting, Before, After, NoCurrent,
           Removing
<1>1. /\ at[p].pc = "wipe" /\ at[p].as \in Names /\ at[p] \in Leave
      /\ \A q \in Clients : q # p => at[q].pc = "idle"
  BY Alone DEF RemoveCache, On
<1>2. /\ Step(p, "key") => Moves(p, "key")
      /\ Exit(p) => Halts(p)
  BY <1>1, GoingLeave, Ending
<1>3. UNCHANGED <<devices, session, keyDb, dirs, keys, marked, current, engine, stray, dead, over,
                 stay>>
  BY DEF RemoveCache, remote, memory, ghosts
<1>4. Held'
  BY <1>1, <1>2, <1>3 DEF RemoveCache, Who, Moves, Halts, NoOp, Then, Held, LeaveHolds, Holds
<1>5. DevicesAreKept' /\ SessionsAreValid'
  BY <1>1, <1>2, <1>3 DEF RemoveCache, Who, Moves, Halts, NoOp, Then, DevicesAreKept,
       SessionsAreValid, Held, LeaveHolds, Logout, Holds
<1>6. StoresAreTheirs' /\ RemainsAreFound'
  BY <1>1, <1>2, <1>3 DEF RemoveCache, Who, Moves, Halts, NoOp, Then, StoresAreTheirs,
       RemainsAreFound, Held, LeaveHolds, Logout, Holds
<1> QED
  BY <1>4, <1>5, <1>6

LEMMA DropRecoveryKeyAgrees ==
  ASSUME Spellings, AccountsInv, NEW p \in Clients, DropRecoveryKey(p)
  PROVE  Agreed'
<1> USE DEF AccountsInv, Agreed, LoginPcs, LeavePcs, Granting, Before, After, NoCurrent,
           Removing
<1>1. /\ at[p].pc = "key" /\ at[p].as \in Names /\ at[p] \in Leave
      /\ \A q \in Clients : q # p => at[q].pc = "idle"
  BY Alone DEF DropRecoveryKey, On
<1>2. /\ Step(p, "dirs") => Moves(p, "dirs")
      /\ Exit(p) => Halts(p)
  BY <1>1, GoingLeave, Ending
<1>3. UNCHANGED <<devices, session, keyDb, dirs, rows, marked, current, engine, stray, dead,
                 over>>
  BY DEF DropRecoveryKey, remote, memory
<1>4. Held'
  BY <1>1, <1>2, <1>3 DEF DropRecoveryKey, Who, Moves, Halts, NoOp, Held, LeaveHolds, Holds
<1>5. DevicesAreKept' /\ SessionsAreValid'
  BY <1>1, <1>2, <1>3 DEF DropRecoveryKey, Who, Moves, Halts, NoOp, DevicesAreKept,
       SessionsAreValid, Held, LeaveHolds, Logout, Holds
<1>6. StoresAreTheirs' /\ RemainsAreFound'
  BY <1>1, <1>2, <1>3 DEF DropRecoveryKey, Who, Moves, Halts, NoOp, StoresAreTheirs,
       RemainsAreFound, Held, LeaveHolds, Logout, Holds
<1> QED
  BY <1>4, <1>5, <1>6

LEMMA MarkServerAgrees ==
  ASSUME Spellings, AccountsInv, NEW p \in Clients, MarkServer(p)
  PROVE  Agreed'
<1> USE DEF AccountsInv, Agreed, LoginPcs, LeavePcs, Granting, Before, After, NoCurrent,
           Removing
<1>1. /\ at[p].pc = "dirs" /\ at[p].as \in Names /\ at[p] \in Leave
      /\ \A q \in Clients : q # p => at[q].pc = "idle"
  BY Alone DEF MarkServer, On
<1>2. /\ Step(p, "dir") => Moves(p, "dir")
      /\ Step(p, "rest") => Moves(p, "rest")
      /\ Exit(p) => Halts(p)
  BY <1>1, GoingLeave, Ending
<1>3. UNCHANGED <<devices, session, keyDb, dirs, keys, rows, current, engine, stray, dead, over,
                 stay>>
  BY DEF MarkServer, remote, ghosts
<1>4. Held'
  BY <1>1, <1>2, <1>3 DEF MarkServer, Who, Moves, Halts, NoOp, IsLast, Held, LeaveHolds, Holds
<1>5. DevicesAreKept' /\ SessionsAreValid'
  BY <1>1, <1>2, <1>3 DEF MarkServer, Who, Moves, Halts, NoOp, IsLast, DevicesAreKept,
       SessionsAreValid, Held, LeaveHolds, Logout, Holds
<1>6. StoresAreTheirs' /\ RemainsAreFound'
  BY <1>1, <1>2, <1>3 DEF MarkServer, Who, Moves, Halts, NoOp, IsLast, StoresAreTheirs,
       RemainsAreFound, Held, LeaveHolds, Logout, Holds
<1> QED
  BY <1>4, <1>5, <1>6

LEMMA RemoveRestAgrees ==
  ASSUME Spellings, AccountsInv, NEW p \in Clients, RemoveRest(p)
  PROVE  Agreed'
<1> USE DEF AccountsInv, Agreed, LoginPcs, LeavePcs, Granting, Before, After, NoCurrent,
           Removing
<1>1. /\ at[p].pc = "rest" /\ at[p].as \in Names /\ at[p] \in Leave
      /\ \A q \in Clients : q # p => at[q].pc = "idle"
  BY Alone DEF RemoveRest, On
<1>2. /\ Step(p, "dir") => Moves(p, "dir")
      /\ Exit(p) => Halts(p)
  BY <1>1, GoingLeave, Ending
<1>3. UNCHANGED <<devices, session, keyDb, dirs, keys, marked, current, engine, stray, dead, over,
                 stay>>
  BY DEF RemoveRest, remote, memory, ghosts
<1>4. Held'
  BY <1>1, <1>2, <1>3 DEF RemoveRest, Who, Moves, Halts, NoOp, Held, LeaveHolds, Holds
<1>5. DevicesAreKept' /\ SessionsAreValid'
  BY <1>1, <1>2, <1>3 DEF RemoveRest, Who, Moves, Halts, NoOp, DevicesAreKept, SessionsAreValid,
       Held, LeaveHolds, Logout, Holds
<1>6. StoresAreTheirs' /\ RemainsAreFound'
  BY <1>1, <1>2, <1>3 DEF RemoveRest, Who, Moves, Halts, NoOp, StoresAreTheirs, RemainsAreFound,
       Held, LeaveHolds, Logout, Holds
<1> QED
  BY <1>4, <1>5, <1>6

LEMMA RenameServerAgrees ==
  ASSUME Spellings, AccountsInv, NEW p \in Clients, RenameServer(p)
  PROVE  Agreed'
<1> USE DEF AccountsInv, Agreed, LoginPcs, LeavePcs, Granting, Before, After, NoCurrent,
           Removing
<1>1. /\ at[p].pc = "rename" /\ at[p].as \in Names /\ at[p] \in Leave
      /\ \A q \in Clients : q # p => at[q].pc = "idle"
  BY Alone DEF RenameServer, On
<1>2. /\ Step(p, "sweep") => Moves(p, "sweep")
      /\ Exit(p) => Halts(p)
  BY <1>1, GoingLeave, Ending
<1>3. UNCHANGED <<devices, session, keyDb, dirs, keys, rows, current, engine, stray, dead, over,
                 stay>>
  BY DEF RenameServer, remote, memory, ghosts
<1>4. Held'
  BY <1>1, <1>2, <1>3 DEF RenameServer, Who, Moves, Halts, NoOp, Held, LeaveHolds, Holds
<1>5. DevicesAreKept' /\ SessionsAreValid'
  BY <1>1, <1>2, <1>3 DEF RenameServer, Who, Moves, Halts, NoOp, DevicesAreKept, SessionsAreValid,
       Held, LeaveHolds, Logout, Holds
<1>6. StoresAreTheirs' /\ RemainsAreFound'
  BY <1>1, <1>2, <1>3 DEF RenameServer, Who, Moves, Halts, NoOp, StoresAreTheirs, RemainsAreFound,
       Held, LeaveHolds, Logout, Holds
<1> QED
  BY <1>4, <1>5, <1>6

LEMMA SweepJunkAgrees ==
  ASSUME Spellings, AccountsInv, NEW p \in Clients, SweepJunk(p)
  PROVE  Agreed'
<1> USE DEF AccountsInv, Agreed, LoginPcs, LeavePcs, Granting, Before, After, NoCurrent,
           Removing
<1>1. /\ at[p].pc = "sweep" /\ at[p].as \in Names /\ at[p] \in Leave
      /\ \A q \in Clients : q # p => at[q].pc = "idle"
  BY Alone DEF SweepJunk, On
<1>2. Exit(p) => Halts(p)
  BY <1>1, Ending
<1>3. UNCHANGED <<devices, session, keyDb, dirs, keys, rows, marked, current, engine, stray, dead,
                 over, stay>>
  BY DEF SweepJunk, remote, memory, ghosts
<1>4. Held'
  BY <1>1, <1>2, <1>3 DEF SweepJunk, Who, Moves, Halts, NoOp, Held, LeaveHolds, Holds
<1>5. DevicesAreKept' /\ SessionsAreValid'
  BY <1>1, <1>2, <1>3 DEF SweepJunk, Who, Moves, Halts, NoOp, DevicesAreKept, SessionsAreValid,
       Held, LeaveHolds, Logout, Holds
<1>6. StoresAreTheirs' /\ RemainsAreFound'
  BY <1>1, <1>2, <1>3 DEF SweepJunk, Who, Moves, Halts, NoOp, StoresAreTheirs, RemainsAreFound,
       Held, LeaveHolds, Logout, Holds
<1> QED
  BY <1>4, <1>5, <1>6

LEMMA SealAgrees ==
  ASSUME Spellings, AccountsInv, NEW p \in Clients, Seal(p)
  PROVE  Agreed'
<1> DEFINE n == at[p].as
           d == at[p].dev
<1> USE DEF AccountsInv, Agreed, LoginPcs, LeavePcs, Granting, Before, After, NoCurrent,
           Removing
<1>1. /\ at[p].pc = "seal" /\ n \in Names /\ at[p] \in Login /\ d \in Nat
      /\ \A q \in Clients : q # p => at[q].pc = "idle"
  BY Alone DEF Seal, On
<1>2. (Step(p, "point") => Moves(p, "point")) /\ (Step(p, "revoke") => Moves(p, "revoke"))
  BY <1>1, GoingLogin
<1>3. /\ ~marked /\ d \in devices /\ (\A m \in Names : session[m] # d) /\ n \in dirs
      /\ keyDb[n] = d /\ (session[n] # 0 => n \in over)
  BY <1>1 DEF Held, LoginHolds, Holds
<1>4. UNCHANGED <<devices, dirs, keys, rows, marked, current, engine, over, stay>>
  BY DEF Seal, remote, memory
<1>5. CASE /\ session' = [session EXCEPT ![n] = d] /\ Moves(p, "point") /\ keyDb' = keyDb
           /\ stray' = stray \cup ({session[n]} \ {0}) /\ dead' = dead \ {n}
  <2>1. session'[n] = d /\ \A m \in Names : m # n => session'[m] = session[m]
    BY <1>1, <1>5 DEF TypeOK
  <2>2. at'[p].pc = "point" /\ at'[p].as = n /\ \A q \in Clients : q # p => at'[q].pc = "idle"
    BY <1>5 DEF Moves, NoOp
  <2>3. Held'
    BY <1>3, <1>4, <2>2 DEF Held, LoginHolds
  <2>4. DevicesAreKept'
    BY <1>1, <1>4, <1>5, <2>1 DEF DevicesAreKept, TypeOK
  <2>5. SessionsAreValid'
    BY <1>1, <1>3, <1>4, <1>5, <2>1 DEF SessionsAreValid, Holds, Logout
  <2>6. StoresAreTheirs'
    BY <1>1, <1>3, <1>4, <1>5, <2>1 DEF StoresAreTheirs, Holds, Logout
  <2>7. RemainsAreFound'
    BY <1>1, <1>3, <1>4, <1>5, <2>1 DEF RemainsAreFound, Holds
  <2> QED
    BY <2>3, <2>4, <2>5, <2>6, <2>7
<1>6. CASE /\ keyDb' = [keyDb EXCEPT ![n] = 0] /\ Moves(p, "revoke")
           /\ UNCHANGED <<session, stray, dead>>
  <2>1. keyDb'[n] = 0 /\ \A m \in Names : m # n => keyDb'[m] = keyDb[m]
    BY <1>1, <1>6 DEF TypeOK
  <2>2. /\ at'[p].pc = "revoke" /\ at'[p].as = n /\ at'[p].dev = d
        /\ \A q \in Clients : q # p => at'[q].pc = "idle"
    BY <1>6 DEF Moves, NoOp
  <2>3. Held'
    BY <1>3, <1>4, <1>6, <2>2 DEF Held, LoginHolds
  <2>4. DevicesAreKept'
    BY <1>1, <1>4, <1>6, <2>2 DEF DevicesAreKept
  <2>5. SessionsAreValid'
    BY <1>1, <1>4, <1>6 DEF SessionsAreValid, Holds, Logout
  <2>6. StoresAreTheirs'
    BY <1>1, <1>3, <1>4, <1>6, <2>1 DEF StoresAreTheirs, Holds, Logout
  <2>7. RemainsAreFound'
    BY <1>1, <1>4, <1>6, <2>1 DEF RemainsAreFound, Holds
  <2> QED
    BY <2>3, <2>4, <2>5, <2>6, <2>7
<1> QED
  BY <1>2, <1>5, <1>6 DEF Seal, Who

LEMMA DeleteSessionAgrees ==
  ASSUME Spellings, AccountsInv, NEW p \in Clients, DeleteSession(p)
  PROVE  Agreed'
<1> DEFINE n == at[p].as
<1> USE DEF AccountsInv, Agreed, LoginPcs, LeavePcs, Granting, Before, After, NoCurrent,
           Removing
<1>1. /\ at[p].pc = "unseal" /\ n \in Names /\ at[p] \in Leave
      /\ \A q \in Clients : q # p => at[q].pc = "idle"
  BY Alone DEF DeleteSession, On
<1>2. /\ Step(p, "engine") => Moves(p, "engine")
      /\ Exit(p) => Halts(p)
  BY <1>1, GoingLeave, Ending
<1>3. session[n] \notin devices
  BY <1>1 DEF Held, LeaveHolds
<1>4. UNCHANGED <<devices, keyDb, dirs, keys, rows, marked, current, engine, stray, over, stay>>
  BY DEF DeleteSession, remote, data, memory, ghosts
<1>5. CASE session' = [session EXCEPT ![n] = 0] /\ Moves(p, "engine") /\ dead' = dead
  <2>1. session'[n] = 0 /\ \A m \in Names : m # n => session'[m] = session[m]
    BY <1>1, <1>5 DEF TypeOK
  <2>2. at'[p].pc = "engine" /\ at'[p].as = n /\ \A q \in Clients : q # p => at'[q].pc = "idle"
    BY <1>5 DEF Moves, NoOp
  <2>3. Held'
    BY <1>1, <1>3, <1>4, <1>5, <2>1, <2>2 DEF Held, LeaveHolds, Holds, Moves
  <2>4. DevicesAreKept'
    BY <1>1, <1>3, <1>4, <2>1, <2>2 DEF DevicesAreKept
  <2>5. SessionsAreValid'
    BY <1>1, <1>3, <1>4, <1>5, <2>1, <2>2 DEF SessionsAreValid, Holds, Logout
  <2>6. StoresAreTheirs'
    BY <1>1, <1>3, <1>4, <2>1, <2>2 DEF StoresAreTheirs, Holds, Logout
  <2>7. RemainsAreFound'
    BY <1>1, <1>4, <2>1 DEF RemainsAreFound, Holds
  <2> QED
    BY <2>3, <2>4, <2>5, <2>6, <2>7
<1>6. CASE session' = session /\ Halts(p) /\ dead' = dead \cup {n}
  <2>1. \A q \in Clients : at'[q].pc = "idle"
    BY <1>6 DEF Halts, NoOp
  <2>3. Held'
    BY <2>1 DEF Held
  <2>4. DevicesAreKept'
    BY <1>1, <1>4, <1>6 DEF DevicesAreKept
  <2>5. SessionsAreValid'
    BY <1>1, <1>4, <1>6 DEF SessionsAreValid, Holds, Logout
  <2>6. StoresAreTheirs'
    BY <1>1, <1>4, <1>6 DEF StoresAreTheirs, Holds, Logout
  <2>7. RemainsAreFound'
    BY <1>4, <1>6 DEF RemainsAreFound, Holds
  <2> QED
    BY <2>3, <2>4, <2>5, <2>6, <2>7
<1> QED
  BY <1>2, <1>5, <1>6 DEF DeleteSession, Who

LEMMA ForgetEngineAgrees ==
  ASSUME Spellings, AccountsInv, NEW p \in Clients, ForgetEngine(p)
  PROVE  Agreed'
<1> DEFINE n == at[p].as
<1> USE DEF AccountsInv, Agreed, LoginPcs, LeavePcs, Granting, Before, After, NoCurrent,
           Removing
<1>1. /\ at[p].pc = "engine" /\ n \in Names /\ at[p] \in Leave
      /\ \A q \in Clients : q # p => at[q].pc = "idle"
  BY Alone DEF ForgetEngine, On
<1>2. Moves(p, "store")
  BY <1>1, GoingLeave DEF ForgetEngine
<1>3. session[n] = 0
  BY <1>1 DEF Held, LeaveHolds, Holds
<1>4. /\ UNCHANGED <<devices, session, keyDb, dirs, keys, rows, marked, current, stray, stay>>
      /\ over' = over \ {n} /\ dead' = dead \ {n}
      /\ engine'[n] = 0 /\ \A m \in Names : m # n => engine'[m] = engine[m]
  BY <1>1 DEF ForgetEngine, remote, data, memory, ghosts, Who, TypeOK
<1>5. at'[p].pc = "store" /\ at'[p].as = n /\ \A q \in Clients : q # p => at'[q].pc = "idle"
  BY <1>2 DEF Moves, NoOp
<1>6. Held'
  BY <1>1, <1>2, <1>3, <1>4, <1>5 DEF Held, LeaveHolds, Holds, Moves
<1>7. DevicesAreKept'
  BY <1>1, <1>4 DEF DevicesAreKept
<1>8. SessionsAreValid'
  BY <1>1, <1>3, <1>4 DEF SessionsAreValid, Holds, Logout
<1>9. StoresAreTheirs'
  BY <1>1, <1>3, <1>4 DEF StoresAreTheirs, Holds, Logout
<1>10. RemainsAreFound'
  BY <1>4 DEF RemainsAreFound, Holds
<1> QED
  BY <1>6, <1>7, <1>8, <1>9, <1>10

LEMMA DeleteStoreAgrees ==
  ASSUME Spellings, AccountsInv, NEW p \in Clients, DeleteStore(p)
  PROVE  Agreed'
<1> DEFINE n == at[p].as
<1> USE DEF AccountsInv, Agreed, LoginPcs, LeavePcs, Granting, Before, After, NoCurrent,
           Removing
<1>1. /\ at[p].pc = "store" /\ n \in Names /\ at[p] \in Leave
      /\ \A q \in Clients : q # p => at[q].pc = "idle"
  BY Alone DEF DeleteStore, On
<1>2. (Step(p, "close") => Moves(p, "close")) /\ (Exit(p) => Halts(p))
  BY <1>1, GoingLeave, Ending
<1>3. session[n] = 0
  BY <1>1 DEF Held, LeaveHolds, Holds
<1>4. UNCHANGED <<devices, session, dirs, keys, rows, marked, engine, stray, dead, over, stay>>
  BY DEF DeleteStore, remote, data, memory, ghosts
<1>5. CASE /\ Moves(p, "close") /\ keyDb' = [keyDb EXCEPT ![n] = 0]
           /\ current' = IF current = n THEN None ELSE current
  <2>1. keyDb'[n] = 0 /\ \A m \in Names : m # n => keyDb'[m] = keyDb[m]
    BY <1>1, <1>5 DEF TypeOK
  <2>2. at'[p].pc = "close" /\ at'[p].as = n /\ \A q \in Clients : q # p => at'[q].pc = "idle"
    BY <1>5 DEF Moves, NoOp
  <2>3. None \notin Names
    BY DEF Spellings
  <2>4. current' # n /\ \A m \in Names : current # m => current' # m
    BY <1>1, <1>5, <2>3
  <2>5. Held'
    BY <1>1, <1>3, <1>4, <1>5, <2>1, <2>2, <2>4 DEF Held, LeaveHolds, Holds, Moves
  <2>6. DevicesAreKept'
    BY <1>1, <1>4 DEF DevicesAreKept
  <2>7. SessionsAreValid'
    BY <1>1, <1>4 DEF SessionsAreValid, Holds, Logout
  <2>8. StoresAreTheirs'
    BY <1>1, <1>3, <1>4, <2>1 DEF StoresAreTheirs, Holds, Logout
  <2>9. RemainsAreFound'
    BY <1>1, <1>4, <2>1, <2>4 DEF RemainsAreFound, Holds
  <2> QED
    BY <2>5, <2>6, <2>7, <2>8, <2>9
<1>6. CASE Halts(p) /\ UNCHANGED <<keyDb, current>>
  <2>1. \A q \in Clients : at'[q].pc = "idle"
    BY <1>6 DEF Halts, NoOp
  <2>5. Held'
    BY <2>1 DEF Held
  <2>6. DevicesAreKept'
    BY <1>1, <1>4 DEF DevicesAreKept
  <2>7. SessionsAreValid'
    BY <1>1, <1>4 DEF SessionsAreValid, Holds, Logout
  <2>8. StoresAreTheirs'
    BY <1>1, <1>4, <1>6 DEF StoresAreTheirs, Holds, Logout
  <2>9. RemainsAreFound'
    BY <1>4, <1>6 DEF RemainsAreFound, Holds
  <2> QED
    BY <2>5, <2>6, <2>7, <2>8, <2>9
<1> QED
  BY <1>2, <1>5, <1>6 DEF DeleteStore, Who

LEMMA RemoveDirAgrees ==
  ASSUME Spellings, AccountsInv, NEW p \in Clients, RemoveDir(p)
  PROVE  Agreed'
<1> DEFINE n == at[p].as
<1> USE DEF AccountsInv, Agreed, LoginPcs, LeavePcs, Granting, Before, After, NoCurrent,
           Removing
<1>1. /\ at[p].pc = "dir" /\ n \in Names /\ at[p] \in Leave
      /\ \A q \in Clients : q # p => at[q].pc = "idle"
  BY Alone DEF RemoveDir, On
<1>2. (Step(p, "rename") => Moves(p, "rename")) /\ (Exit(p) => Halts(p))
  BY <1>1, GoingLeave, Ending
<1>3. /\ session[n] = 0 /\ current # n /\ at[p].all
      /\ n \in rows => <<n, "rows">> \in stay
      /\ n \in keys => <<n, "key">> \in stay
  BY <1>1 DEF Held, LeaveHolds, Holds
<1>4. UNCHANGED <<devices, session, keys, rows, current, engine, stray, dead, over, stay>>
  <2>1. [session EXCEPT ![n] = 0] = session
    BY <1>1, <1>3 DEF TypeOK
  <2> QED
    BY <2>1 DEF RemoveDir, Who, remote, memory, ghosts
<1>5. CASE /\ dirs' = dirs \ {n} /\ keyDb' = [keyDb EXCEPT ![n] = 0]
           /\ Halts(p) \/ Moves(p, "rename")
  <2>1. keyDb'[n] = 0 /\ \A m \in Names : m # n => keyDb'[m] = keyDb[m]
    BY <1>1, <1>5 DEF TypeOK
  <2>2. \A q \in Clients : \/ at'[q].pc = "idle"
                           \/ q = p /\ Moves(p, "rename")
    BY <1>5 DEF Moves, Halts, NoOp
  <2>3. Held'
    <3>1. Moves(p, "rename") => LeaveHolds(p)'
      BY <1>1, <1>3, <1>4 DEF LeaveHolds, Holds, Moves
    <3>2. QED
      BY <2>2, <3>1 DEF Held, Moves
  <2>6. DevicesAreKept'
    BY <1>1, <1>4 DEF DevicesAreKept
  <2>7. SessionsAreValid'
    BY <1>1, <1>4 DEF SessionsAreValid, Holds, Logout
  <2>8. StoresAreTheirs'
    BY <1>1, <1>3, <1>4, <2>1 DEF StoresAreTheirs, Holds, Logout
  <2>9. RemainsAreFound'
    BY <1>1, <1>3, <1>4, <1>5, <2>1 DEF RemainsAreFound, Holds
  <2> QED
    BY <2>3, <2>6, <2>7, <2>8, <2>9
<1>6. CASE Halts(p) /\ UNCHANGED <<dirs, keyDb>>
  <2>1. \A q \in Clients : at'[q].pc = "idle"
    BY <1>6 DEF Halts, NoOp
  <2>5. Held'
    BY <2>1 DEF Held
  <2>6. DevicesAreKept'
    BY <1>1, <1>4 DEF DevicesAreKept
  <2>7. SessionsAreValid'
    BY <1>1, <1>4 DEF SessionsAreValid, Holds, Logout
  <2>8. StoresAreTheirs'
    BY <1>1, <1>4, <1>6 DEF StoresAreTheirs, Holds, Logout
  <2>9. RemainsAreFound'
    BY <1>4, <1>6 DEF RemainsAreFound, Holds
  <2> QED
    BY <2>5, <2>6, <2>7, <2>8, <2>9
<1> QED
  BY <1>2, <1>5, <1>6 DEF RemoveDir, Who

----------------------------------------------------------------------------

\* The invariant is true at the start, is kept by every step, and so always.
LEMMA AccountsStart ==
  ASSUME Spellings, AccountsInit
  PROVE  AccountsInv
<1>1. TypeOK
  <2>1. at \in [Clients -> Operation] /\ rest \in [Occasions -> Nat]
    BY DEF AccountsInit, Spellings, Operation
  <2>2. session \in [Names -> 0..made] /\ keyDb \in [Names -> Nat] /\ engine \in [Names -> Nat]
    BY DEF AccountsInit, Nobody
  <2>3. made \in Nat /\ devices \subseteq 1..made
    BY DEF AccountsInit
  <2> QED
    BY <2>1, <2>2, <2>3 DEF AccountsInit, TypeOK
<1>2. OneAtATime /\ Held
  BY DEF AccountsInit, NoOp, OneAtATime, Held, LoginPcs, LeavePcs, Granting, Before, After,
         NoCurrent, Removing
<1>3. DevicesAreKept /\ SessionsAreValid /\ StoresAreTheirs /\ RemainsAreFound
  BY DEF AccountsInit, Nobody, Spellings, DevicesAreKept, SessionsAreValid, StoresAreTheirs,
         RemainsAreFound, Holds
<1> QED
  BY <1>1, <1>2, <1>3 DEF AccountsInv, Agreed

LEMMA AccountsStep ==
  ASSUME Spellings, AccountsInv, AccountsNext
  PROVE  AccountsInv'
<1>1. ASSUME NEW p \in Clients, LogsIn(p)
      PROVE  AccountsInv'
  <2>1. Agreed'
    BY <1>1, StartLoginAgrees, GrantedAgrees, GrantIsLostAgrees, DeniedAgrees, MoveAgrees,
       BuildAgrees, SealAgrees, PointAgrees, RevokeAgrees DEF LogsIn
  <2> QED
    BY <1>1, <2>1, LoginTyped DEF AccountsInv
<1>2. ASSUME NEW p \in Clients, Leaves(p)
      PROVE  AccountsInv'
  <2>1. Agreed'
    BY <1>2, StartLeaveAgrees, ForgetRowsAgrees, TellServerAgrees, NotToldAgrees,
       StopTasksAgrees, DeleteSessionAgrees, ForgetEngineAgrees, DeleteStoreAgrees,
       CloseCacheAgrees, RemoveCacheAgrees, DropRecoveryKeyAgrees, MarkServerAgrees,
       RemoveRestAgrees, RemoveDirAgrees, RenameServerAgrees, SweepJunkAgrees DEF Leaves
  <2> QED
    BY <1>2, <2>1, LeaveTyped DEF AccountsInv
<1>3. CASE Elsewhere
  BY <1>3, ElsewhereTyped, ElsewhereAgrees DEF AccountsInv
<1> QED
  BY <1>1, <1>2, <1>3 DEF AccountsNext, Elsewhere

LEMMA AccountsStutter ==
  ASSUME AccountsInv, UNCHANGED accountVars
  PROVE  AccountsInv'
<1>1. UNCHANGED <<devices, made, session, keyDb, dirs, keys, cache, rows, marked, junk, current,
                  engine, open, busy, lock, at, stray, dead, over, stay, rest>>
  BY DEF accountVars, remote, data, memory, ghosts
<1>2. TypeOK' /\ OneAtATime'
  BY <1>1 DEF AccountsInv, TypeOK, OneAtATime
<1>3. Held'
  BY <1>1 DEF AccountsInv, Agreed, Held, LoginHolds, LeaveHolds, Holds
<1>4. DevicesAreKept' /\ SessionsAreValid'
  BY <1>1 DEF AccountsInv, Agreed, DevicesAreKept, SessionsAreValid, Holds, Logout
<1>5. StoresAreTheirs' /\ RemainsAreFound'
  BY <1>1 DEF AccountsInv, Agreed, StoresAreTheirs, RemainsAreFound, Holds, Logout
<1> QED
  BY <1>2, <1>3, <1>4, <1>5 DEF AccountsInv, Agreed

LEMMA AccountsInvariant ==
  ASSUME Spellings
  PROVE  AccountsSpec => []AccountsInv
<1>1. AccountsInit => AccountsInv
  BY AccountsStart
<1>2. AccountsInv /\ [AccountsNext]_accountVars => AccountsInv'
  BY AccountsStep, AccountsStutter
<1> QED
  BY <1>1, <1>2, PTL DEF AccountsSpec

\* Whatever fails, is lost or stops in a login, a logout or a destroy: when no operation is
\* under way, server, disk and memory agree on who is logged in, and what is left of an
\* account has its directory, so that the next attempt finds it (login_ops.rs, session_ops.rs).
THEOREM AccountsStayWhole ==
  ASSUME Spellings
  PROVE  AccountsSpec => []AccountsAreWhole
<1>1. AccountsInv => AccountsAreWhole
  <2>1. ASSUME AccountsInv, lock = None
        PROVE  \A p \in Clients : at[p] = NoOp /\ at[p].pc = "idle"
    BY <2>1 DEF AccountsInv, OneAtATime, NoOp, Spellings
  <2>2. ASSUME AccountsInv, lock = None
        PROVE  devices \subseteq stray \cup {session[n] : n \in Names}
    BY <2>1, <2>2 DEF AccountsInv, Agreed, DevicesAreKept, Granting
  <2>3. ASSUME AccountsInv, lock = None
        PROVE  \A n \in Names \ dead : Holds(n) => session[n] \in devices
    BY <2>1, <2>3 DEF AccountsInv, Agreed, SessionsAreValid, Logout
  <2>4. ASSUME AccountsInv, lock = None
        PROVE  \A n \in Names \ over :
                 engine[n] \in {0, session[n]} /\ (Holds(n) => keyDb[n] = session[n])
    BY <2>1, <2>4 DEF AccountsInv, Agreed, StoresAreTheirs, Logout
  <2> QED
    BY <2>2, <2>3, <2>4 DEF AccountsAreWhole, SessionsAgree, AccountsInv, Agreed
<1> QED
  BY <1>1, AccountsInvariant, PTL

\* What a step may not take from under an account, and where it may not log one in.
Beneath ==
  /\ cache /\ ~cache' => \A n \in Names : ~Holds(n)
  /\ marked => \A n \in Names : session'[n] \in {0, session[n]}

\* Most steps touch neither the file of the cache nor a session.
LEMMA SameBeneath ==
  ASSUME UNCHANGED <<cache, session>>
  PROVE  Beneath
  BY DEF Beneath

LEMMA LoginBeneath ==
  ASSUME AccountsInv, NEW p \in Clients, LogsIn(p)
  PROVE  Beneath
<1>1. ASSUME NEW t \in Names, StartLogin(p, t)
      PROVE  Beneath
  BY <1>1, SameBeneath DEF StartLogin
<1>2. CASE Granted(p) \/ GrantIsLost(p) \/ Denied(p) \/ Move(p) \/ Revoke(p)
  BY <1>2, SameBeneath DEF Granted, GrantIsLost, Denied, Move, Revoke, data
<1>3. CASE Build(p) \/ Point(p)
  BY <1>3, SameBeneath DEF Build, Point
<1>4. CASE Seal(p)
  <2>1. ~marked
    BY <1>4 DEF Seal, On, AccountsInv, Agreed, Held, LoginHolds, LoginPcs, Granting
  <2> QED
    BY <1>4, <2>1 DEF Seal, Beneath
<1> QED
  BY <1>1, <1>2, <1>3, <1>4 DEF LogsIn

LEMMA LeaveBeneath ==
  ASSUME AccountsInv, NEW p \in Clients, Leaves(p)
  PROVE  Beneath
<1>1. ASSUME NEW n \in Names, NEW all \in BOOLEAN, NEW accepts \in BOOLEAN,
             StartLeave(p, n, all, accepts)
      PROVE  Beneath
  BY <1>1, SameBeneath DEF StartLeave, data
<1>2. CASE TellServer(p) \/ NotTold(p) \/ StopTasks(p) \/ ForgetEngine(p) \/ CloseCache(p)
  BY <1>2, SameBeneath DEF TellServer, NotTold, StopTasks, ForgetEngine, CloseCache, data
<1>3. CASE \/ ForgetRows(p) \/ DeleteStore(p) \/ DropRecoveryKey(p) \/ MarkServer(p)
           \/ RenameServer(p) \/ SweepJunk(p)
  BY <1>3, SameBeneath DEF ForgetRows, DeleteStore, DropRecoveryKey, MarkServer, RenameServer,
     SweepJunk
<1>4. CASE DeleteSession(p)
  BY <1>4 DEF DeleteSession, Beneath, AccountsInv, TypeOK
<1>5. CASE RemoveDir(p)
  BY <1>5 DEF RemoveDir, Beneath, AccountsInv, TypeOK
<1>6. CASE RemoveCache(p)
  <2>1. \A n \in Names : ~Holds(n)
    BY <1>6 DEF RemoveCache, On, AccountsInv, Agreed, Held, LeaveHolds, LeavePcs, After,
       NoCurrent
  <2> QED
    BY <1>6, <2>1 DEF RemoveCache, Beneath
<1>7. CASE RemoveRest(p)
  <2>1. dirs \subseteq {at[p].as} /\ ~Holds(at[p].as)
    BY <1>7 DEF RemoveRest, On, AccountsInv, Agreed, Held, LeaveHolds, LeavePcs, After,
       NoCurrent, Removing
  <2>2. \A n \in Names : ~Holds(n)
    BY <2>1 DEF AccountsInv, Agreed, RemainsAreFound
  <2> QED
    BY <1>7, <2>2 DEF RemoveRest, Beneath
<1> QED
  BY <1>1, <1>2, <1>3, <1>4, <1>5, <1>6, <1>7 DEF Leaves

LEMMA ElsewhereBeneath ==
  ASSUME AccountsInv, Elsewhere
  PROVE  Beneath
<1>1. CASE ProgramStops
  BY <1>1, SameBeneath DEF ProgramStops, data
<1>2. CASE RemoveByHand
  <2>1. \A n \in Names : ~Holds(n)
    BY <1>2 DEF RemoveByHand, AccountsInv, Agreed, RemainsAreFound
  <2> QED
    BY <1>2, <2>1 DEF RemoveByHand, Beneath
<1>3. ASSUME NEW n \in Names,
             OpenEngine(n) \/ Begin(n) \/ WriteRows(n) \/ SaveRecoveryKey(n)
      PROVE  Beneath
  BY <1>3, SameBeneath DEF OpenEngine, Begin, WriteRows, SaveRecoveryKey, data
<1>4. ASSUME NEW n \in Names, TakeCache(n)
      PROVE  Beneath
  BY <1>4 DEF TakeCache, Beneath
<1> QED
  BY <1>1, <1>2, <1>3, <1>4 DEF Elsewhere

\* The cache of a server goes only when nobody of it is logged in (close_server_cache,
\* remove_destroyed_account_dirs), and in a directory that is marked to be removed nobody is
\* logged in (log_in).
THEOREM NothingGoesFromUnderAnAccount ==
  ASSUME Spellings
  PROVE  AccountsSpec => NothingUnderAnAccount
<1>1. AccountsInv /\ [AccountsNext]_accountVars => [Beneath]_accountVars
  BY LoginBeneath, LeaveBeneath, ElsewhereBeneath DEF AccountsNext, Elsewhere
<1>2. NothingUnderAnAccount <=> [][Beneath]_accountVars
  BY DEF NothingUnderAnAccount, Beneath
<1> QED
  BY <1>1, <1>2, AccountsInvariant, PTL DEF AccountsSpec

----------------------------------------------------------------------------
(***************************************************************************)
(* What Uploads promises, for any number of callers, chunks and requests:  *)
(* UploadsInv is inductive.  It has four parts:                            *)
(*   UploadsTyped  the types, and that every caller and every late request *)
(*                 names an upload there is;                               *)
(*   KeyInv        who is about to post holds a block that fits the room   *)
(*                 as it was asked, and an encrypted room stays encrypted; *)
(*   WorkInv       while commands run one at a time, an open upload that   *)
(*                 the state file does not name has no chunk, and none is  *)
(*                 on its way;                                             *)
(*   BodyInv       what every upload holds: of a file or a repeatable body *)
(*                 the chunks in their order, of a stream those of the one *)
(*                 call at it; and what that call knows of the server's    *)
(*                 size limit.                                             *)
(***************************************************************************)

Manifests == [size : Nat, body : Nat, cut : BOOLEAN]

Upload ==
  [at : {"open", "sealed", "gone"}, got : Seq(Nat), done : BOOLEAN, secret : BOOLEAN,
   told : Manifests]

\* Where a caller is with an upload, and at what it gets a body to the server.
AtUpload ==
  {"write", "status", "chunk", "seal", "abort", "whole", "remove", "post"}
Brings == {"create", "write", "status", "chunk", "seal"}
Receives == {"status", "chunk", "seal", "whole"}
Steps == {"idle", "create"} \cup AtUpload

Caller ==
  [at : Steps, up : Nat, next : Nat, len : Nat, body : Nat, cut : BOOLEAN, secret : BOOLEAN,
   posts : BOOLEAN, asked : BOOLEAN]

Asked == [what : Asks, up : Nat, index : Nat, body : Nat, last : BOOLEAN]

\* One request sends a whole file, and nothing else does.
OfKind(what) == (kind = "whole") = (what = "whole")

Proper(x, n) ==
  /\ x \in Caller /\ x.up \in 0..n
  /\ x.at \in AtUpload => x.up # 0
  /\ x.at \notin {"idle", "post"} => OfKind(x.at)

UploadsTyped ==
  /\ kind \in Modes /\ limit \in Nat /\ encrypted \in BOOLEAN
  /\ srv \in Seq(Upload)
  /\ disk \in 0..Len(srv)
  /\ run \in [Callers -> Caller] /\ \A r \in Callers : Proper(run[r], Len(srv))
  /\ late \subseteq Asked /\ \A q \in late : q.up \in 1..Len(srv) /\ OfKind(q.what)
  /\ posted \subseteq (1..Len(srv)) \X BOOLEAN
  /\ more \in [UploadHappenings -> Nat]

\* Who posts has held the block against what the room was when it was asked.
KeyInv ==
  /\ \A r \in Callers : run[r].asked => encrypted
  /\ \A r \in Callers : run[r].at = "post" => srv[run[r].up].secret = run[r].asked
  /\ KeyStaysSecret

\* A manifest is told of a sealed upload.
ToldIsSealed == \A u \in 1..Len(srv) : srv[u].told # NoManifest => srv[u].at = "sealed"

\* A command for a file has its upload in the state file before it sends a chunk of it.
Untouched(u) == srv[u].got = <<>> /\ \A q \in late : ~(q.what = "chunk" /\ q.up = u)

CallerAtWork(x) ==
  /\ x.at \in {"create", "write"} => disk = 0
  /\ x.at = "write" => Untouched(x.up)
  /\ x.at \in {"status", "chunk", "seal", "abort", "remove"} => disk = x.up
  /\ x.at \in {"remove", "post"} => srv[x.up].at # "open"

WorkIsNamed == \A u \in 1..Len(srv) : srv[u].at = "open" /\ disk # u => Untouched(u)

WorkInv ==
  kind = "file" /\ alone =>
    /\ \A r, q \in Callers : run[r] # Free /\ run[q] # Free => r = q
    /\ \A r \in Callers : CallerAtWork(run[r])
    /\ WorkIsNamed

\* What an upload has.  Who sends a file or a body that can be had again does not matter.
UploadHas(u) ==
  LET s == srv[u] IN
  /\ s.told # NoManifest => s.at = "sealed"
  /\ s.done => s.got # <<>>
  /\ kind \in {"file", "put"} =>
       /\ \A i \in 1..Len(s.got) : s.got[i] = 0
       /\ Len(s.got) <= Chunks /\ (s.done <=> Len(s.got) = Chunks)

\* A PUT knows what the server has cut of the chunks that it is told of.
PutKnows(x) ==
  /\ x.next <= Chunks
  /\ Cut(x.next) => x.cut
  /\ x.cut => Cut(Chunks)
  /\ x.at = "seal" => x.next = Chunks

\* A stream's upload has the chunks of the call that is at it, and no others.
StreamIsOwn(x) ==
  LET s == srv[x.up] IN
  /\ x.next <= x.len /\ (x.at = "seal" <=> x.next = x.len)
  /\ x.up \notin overtaken =>
       /\ x.next # 0 => (x.cut <=> Cut(x.next))
       /\ \A i \in 1..Len(s.got) : s.got[i] = x.body
       /\ Len(s.got) <= x.next
       /\ s.done => x.at = "seal" /\ Len(s.got) = x.len

CallerBrings(x) ==
  /\ x.at \in {"create", "write"} => kind = "file"
  /\ kind \in {"file", "put"} => x.body = 0 /\ (x.at \in Brings => x.len = Chunks)
  /\ kind = "put" /\ x.at \in {"chunk", "seal"} => PutKnows(x)
  /\ kind = "stream" => /\ x.at \in Brings => x.len # 0
                        /\ x.at \in {"chunk", "seal"} => StreamIsOwn(x)

OneReceives ==
  kind # "file" =>
    \A r, q \in Callers :
      run[r].at \in Receives /\ run[q].at \in Receives /\ run[r].up = run[q].up => r = q

\* An upload that somebody has a manifest of is as the manifest says.
IsTold(u) ==
  LET m == srv[u].told IN
  m # NoManifest =>
    /\ srv[u].got = [i \in 1..m.size |-> m.body]
    /\ kind \in {"put", "stream"} => m.cut = Cut(m.size)

BodyInv ==
  /\ \A u \in 1..Len(srv) : UploadHas(u) /\ (u \notin overtaken => IsTold(u))
  /\ \A r \in Callers : CallerBrings(run[r])
  /\ \A q \in late : kind \in {"file", "put"} => q.body = 0
  /\ OneReceives

----------------------------------------------------------------------------
\* What an action makes of the state, seen from each part of it.

LEMMA InitTyped ==
  ASSUME UploadShapes, UploadsInit
  PROVE  UploadsTyped
<1>1. PICK case \in UploadCases : kind = case.kind /\ limit = case.limit /\ more = case.left
  BY DEF UploadsInit
<1>2. kind \in Modes /\ limit \in Nat /\ more \in [UploadHappenings -> Nat]
  BY <1>1 DEF UploadShapes
<1>3. Free \in Caller /\ Proper(Free, 0)
  BY DEF Free, Caller, Proper, Steps, AtUpload
<1>4. QED
  <2>1. srv = <<>> /\ srv \in Seq(Upload) /\ Len(srv) = 0
    BY DEF UploadsInit
  <2>2. run \in [Callers -> Caller] /\ \A r \in Callers : Proper(run[r], Len(srv))
    BY <1>3, <2>1 DEF UploadsInit
  <2>3. posted = {} /\ late = {} /\ disk \in 0..Len(srv)
    BY <2>1 DEF UploadsInit
  <2>4. posted \subseteq (1..Len(srv)) \X BOOLEAN
    BY <2>3
  <2>5. encrypted \in BOOLEAN
    BY DEF UploadsInit
  <2>6. QED
    BY <1>2, <2>1, <2>2, <2>3, <2>4, <2>5 DEF UploadsTyped

LEMMA PutAt ==
  ASSUME NEW s \in Seq(Upload), NEW u \in 1..Len(s), NEW n \in Upload
  PROVE  /\ [s EXCEPT ![u] = n] \in Seq(Upload) /\ Len([s EXCEPT ![u] = n]) = Len(s)
         /\ \A v \in 1..Len(s) : [s EXCEPT ![u] = n][v] = IF v = u THEN n ELSE s[v]
OBVIOUS

LEMMA Appended ==
  ASSUME NEW s \in Seq(Upload), NEW n \in Upload
  PROVE  /\ Append(s, n) \in Seq(Upload) /\ Len(Append(s, n)) = Len(s) + 1
         /\ Append(s, n)[Len(s) + 1] = n
         /\ \A v \in 1..Len(s) : Append(s, n)[v] = s[v]
OBVIOUS

LEMMA SpendTyped ==
  ASSUME UploadsTyped, NEW what \in UploadHappenings, Costs(what)
  PROVE  more' \in [UploadHappenings -> Nat] /\ more[what] \in Nat \ {0}
BY DEF UploadsTyped, Costs

\* What the server makes of a request.
Grown(s, q, n) ==
  /\ s.at = "open" /\ ~s.done /\ q.index = Len(s.got)
  /\ n.at = "open" /\ n.got = Append(s.got, q.body)
  /\ n.done = IF kind = "stream" THEN q.last \/ Cut(q.index + 1) ELSE q.index + 1 = Chunks

\* What appending to a sequence gives.
LEMMA AppendIs ==
  ASSUME NEW S, NEW t \in Seq(S), NEW x \in S
  PROVE  /\ Len(Append(t, x)) = Len(t) + 1 /\ Len(t) \in Nat /\ Append(t, x) # <<>>
         /\ Append(t, x)[Len(t) + 1] = x
         /\ \A i \in 1..Len(t) : Append(t, x)[i] = t[i]
<1>1. Append(t, x) \in Seq(S) /\ Len(Append(t, x)) = Len(t) + 1 /\ Len(t) \in Nat
  OBVIOUS
<1>2. Append(t, x)[Len(t) + 1] = x /\ \A i \in 1..Len(t) : Append(t, x)[i] = t[i]
  OBVIOUS
<1> QED
  BY <1>1, <1>2

LEMMA HandledIs ==
  ASSUME UploadsTyped, NEW q \in Asked, q.up \in 1..Len(srv)
  PROVE  LET s == srv[q.up]  n == Handled(q) IN
         /\ n \in Upload /\ n.secret = s.secret /\ n.told = s.told
         /\ s.at # "open" => n = s
         /\ n = s \/ CASE q.what = "chunk" -> Grown(s, q, n)
                       [] q.what = "seal" ->
                            s.done /\ n.at = "sealed" /\ n.got = s.got /\ n.done = s.done
                       [] q.what = "abort" -> n.at = "gone" /\ n.got = s.got /\ n.done = s.done
                       [] q.what = "whole" ->
                            n.at = "sealed" /\ n.got = <<q.body>> /\ n.done = s.done
         /\ s.at = "open" /\ q.what \in {"abort", "whole"} => n.at # "open"
<1> DEFINE s == srv[q.up]
           n == Handled(q)
<1>1. s \in Upload /\ q.what \in Asks /\ q.body \in Nat /\ q.index \in Nat /\ q.last \in BOOLEAN
  BY DEF UploadsTyped, Asked
<1>2. CASE s.at # "open"
  <2>1. n = s
    BY <1>2 DEF Handled
  <2>2. QED
    BY <1>1, <1>2, <2>1
<1>3. CASE s.at = "open" /\ q.what = "chunk"
  <2> DEFINE done == IF kind = "stream" THEN q.last \/ Cut(q.index + 1) ELSE q.index + 1 = Chunks
  <2>1. n = IF ~s.done /\ q.index = Len(s.got)
              THEN [s EXCEPT !.got = Append(@, q.body), !.done = done] ELSE s
    BY <1>3 DEF Handled
  <2>2. done \in BOOLEAN /\ Append(s.got, q.body) \in Seq(Nat)
    <3>1. s.got \in Seq(Nat)
      BY <1>1 DEF Upload
    <3>2. Cut(q.index + 1) \in BOOLEAN
      BY DEF Cut
    <3>3. done \in BOOLEAN
      BY <1>1, <3>2
    <3>4. QED
      BY <1>1, <3>1, <3>3
  <2>3. CASE ~s.done /\ q.index = Len(s.got)
    <3> HIDE DEF done
    <3>1. n = [s EXCEPT !.got = Append(@, q.body), !.done = done]
      BY <2>1, <2>3
    <3> HIDE DEF n, s
    <3>2. /\ n \in Upload /\ n.secret = s.secret /\ n.told = s.told /\ n.at = s.at
          /\ n.got = Append(s.got, q.body) /\ n.done = done
      BY <1>1, <2>2, <3>1 DEF Upload
    <3>3. QED
      BY <1>3, <2>3, <3>2 DEF Grown, done, n, s
  <2>4. QED
    BY <1>1, <1>3, <2>1, <2>3
<1>4. CASE s.at = "open" /\ q.what = "seal"
  <2>1. n = IF s.done THEN [s EXCEPT !.at = "sealed"] ELSE s
    BY <1>4 DEF Handled
  <2>2. QED
    BY <1>1, <1>4, <2>1 DEF Upload
<1>5. CASE s.at = "open" /\ q.what = "abort"
  <2>1. n = [s EXCEPT !.at = "gone"]
    BY <1>5 DEF Handled
  <2>2. QED
    BY <1>1, <1>5, <2>1 DEF Upload
<1>6. CASE s.at = "open" /\ q.what = "whole"
  <2>1. n = [s EXCEPT !.got = <<q.body>>, !.at = "sealed"]
    BY <1>6 DEF Handled
  <2>2. <<q.body>> \in Seq(Nat)
    BY <1>1
  <2>3. QED
    BY <1>1, <1>6, <2>1, <2>2 DEF Upload
<1>7. QED
  BY <1>1, <1>2, <1>3, <1>4, <1>5, <1>6 DEF Asks

----------------------------------------------------------------------------
LEMMA TypedLater ==
  ASSUME UploadsTyped, UNCHANGED <<kind, limit>>, encrypted' \in BOOLEAN,
         srv' \in Seq(Upload), Len(srv) <= Len(srv'), disk' \in 0..Len(srv'),
         run' \in [Callers -> Caller],
         \A r \in Callers : run'[r] = run[r] \/ Proper(run'[r], Len(srv')),
         \A q \in late' : q \in late \/ (q \in Asked /\ q.up \in 1..Len(srv') /\ OfKind(q.what)),
         posted' \subseteq posted \cup ((1..Len(srv')) \X BOOLEAN),
         more' \in [UploadHappenings -> Nat]
  PROVE  UploadsTyped'
<1>1. Len(srv) \in Nat /\ Len(srv') \in Nat
  BY DEF UploadsTyped
<1>2. (\A r \in Callers : Proper(run[r], Len(srv)))'
  <2>1. \A r \in Callers : Proper(run[r], Len(srv)) /\ run[r].up \in 0..Len(srv')
    BY <1>1 DEF UploadsTyped, Proper
  <2>2. \A r \in Callers : Proper(run'[r], Len(srv'))
    BY <2>1 DEF Proper
  <2>3. QED
    BY <2>2 DEF Proper, OfKind
<1>3. /\ late' \subseteq Asked
      /\ \A q \in late' : q.up \in 1..Len(srv') /\ OfKind(q.what)'
  BY <1>1 DEF UploadsTyped, OfKind
<1>4. posted' \subseteq (1..Len(srv')) \X BOOLEAN
  <2>1. (1..Len(srv)) \X BOOLEAN \subseteq (1..Len(srv')) \X BOOLEAN
    BY <1>1
  <2>2. QED
    BY <2>1 DEF UploadsTyped
<1>5. QED
  BY <1>2, <1>3, <1>4 DEF UploadsTyped

\* Keys stay where they are.
SameSecrets ==
  Len(srv) <= Len(srv') /\ \A u \in 1..Len(srv) : srv'[u].secret = srv[u].secret

\* What a caller may be told to do.
MayGo(x, secretOf, room) ==
  (x.asked => room) /\ (x.at = "post" => secretOf = x.asked)

LEMMA KeyLater ==
  ASSUME UploadsTyped, KeyInv, UNCHANGED kind, encrypted => encrypted', SameSecrets,
         posted' = posted,
         \A r \in Callers : run'[r] = run[r] \/ MayGo(run'[r], srv'[run'[r].up].secret, encrypted')
  PROVE  KeyInv'
<1>1. \A r \in Callers : run[r].at = "post" => run[r].up \in 1..Len(srv)
  BY DEF UploadsTyped, Proper, AtUpload
<1>2. \A r \in Callers : run'[r].asked => encrypted'
  BY DEF KeyInv, MayGo
<1>3. \A r \in Callers : run'[r].at = "post" => srv'[run'[r].up].secret = run'[r].asked
  BY <1>1 DEF KeyInv, MayGo, SameSecrets
<1>4. KeyStaysSecret'
  <2>1. \A p \in posted : p[1] \in 1..Len(srv) /\ srv'[p[1]].secret = srv[p[1]].secret
    BY DEF UploadsTyped, SameSecrets
  <2>2. QED
    BY <2>1 DEF KeyInv, KeyStaysSecret
<1>5. QED
  BY <1>2, <1>3, <1>4 DEF KeyInv

\* One caller goes on, and nothing else changes that types or keys depend on.
LEMMA CallerGoes ==
  ASSUME UploadsTyped, KeyInv, NEW r \in Callers, NEW x, Proper(x, Len(srv)),
         MayGo(x, srv[x.up].secret, encrypted), run' = [run EXCEPT ![r] = x],
         UNCHANGED <<kind, limit, encrypted, srv, posted>>, disk' \in 0..Len(srv),
         late' = late \/ \E q \in Asked : q.up \in 1..Len(srv) /\ OfKind(q.what)
                                          /\ late' = late \cup {q},
         more' \in [UploadHappenings -> Nat]
  PROVE  UploadsTyped' /\ KeyInv'
<1>1. \A q \in Callers : run'[q] = IF q = r THEN x ELSE run[q]
  BY DEF UploadsTyped
<1>2. run' \in [Callers -> Caller] /\ srv \in Seq(Upload) /\ Len(srv) \in Nat
  BY DEF UploadsTyped, Proper
<1>3. UploadsTyped'
  <2>1. \A q \in Callers : run'[q] = run[q] \/ Proper(run'[q], Len(srv'))
    BY <1>1
  <2>2. encrypted' \in BOOLEAN
    BY DEF UploadsTyped
  <2>3. \A q \in late' : q \in late \/ (q \in Asked /\ q.up \in 1..Len(srv') /\ OfKind(q.what))
    OBVIOUS
  <2>4. QED
    BY <1>2, <2>1, <2>2, <2>3, TypedLater
<1>4. KeyInv'
  <2>1. SameSecrets
    BY <1>2 DEF SameSecrets
  <2>2. \A q \in Callers :
          run'[q] = run[q] \/ MayGo(run'[q], srv'[run'[q].up].secret, encrypted')
    BY <1>1
  <2>3. QED
    BY <2>1, <2>2, KeyLater
<1>5. QED
  BY <1>3, <1>4

\* The server changes one upload, which keeps its key, and perhaps one caller goes on.
LEMMA ServerChanges ==
  ASSUME UploadsTyped, KeyInv, NEW u \in 1..Len(srv), NEW n \in Upload,
         n.secret = srv[u].secret, srv' = [srv EXCEPT ![u] = n],
         UNCHANGED <<kind, limit, encrypted, disk, posted>>, late' \subseteq late,
         more' \in [UploadHappenings -> Nat],
         \/ run' = run
         \/ \E r \in Callers : \E x \in Caller :
              /\ run' = [run EXCEPT ![r] = x] /\ Proper(x, Len(srv))
              /\ MayGo(x, srv[x.up].secret, encrypted)
              /\ x.at = "post" => FALSE
  PROVE  UploadsTyped' /\ KeyInv'
<1>1. /\ srv' \in Seq(Upload) /\ Len(srv') = Len(srv) /\ Len(srv) \in Nat
      /\ \A v \in 1..Len(srv) : srv'[v] = IF v = u THEN n ELSE srv[v]
  BY PutAt DEF UploadsTyped
<1>2. /\ run' \in [Callers -> Caller]
      /\ \A r \in Callers :
           \/ run'[r] = run[r]
           \/ Proper(run'[r], Len(srv)) /\ (run'[r].asked => encrypted) /\ run'[r].at # "post"
  BY DEF UploadsTyped, MayGo
<1>3. UploadsTyped'
  <2>1. encrypted' \in BOOLEAN /\ disk' \in 0..Len(srv')
    BY <1>1 DEF UploadsTyped
  <2>2. \A q \in Callers : run'[q] = run[q] \/ Proper(run'[q], Len(srv'))
    BY <1>1, <1>2
  <2>3. QED
    BY <1>1, <1>2, <2>1, <2>2, TypedLater
<1>4. KeyInv'
  <2>1. SameSecrets
    BY <1>1 DEF SameSecrets
  <2>2. \A q \in Callers :
          run'[q] = run[q] \/ MayGo(run'[q], srv'[run'[q].up].secret, encrypted')
    BY <1>2 DEF MayGo
  <2>3. QED
    BY <2>1, <2>2, KeyLater
<1>5. QED
  BY <1>3, <1>4

----------------------------------------------------------------------------
LEMMA IdleIsProper ==
  ASSUME NEW n \in Nat
  PROVE  /\ Proper(Free, n) /\ Free.at = "idle" /\ Free.up = 0 /\ ~Free.asked /\ Free.body = 0
         /\ Free \in Caller
BY DEF Free, Proper, Caller, Steps, AtUpload

LEMMA RunIs ==
  ASSUME UploadsTyped, NEW r \in Callers
  PROVE  /\ run[r] \in Caller /\ Proper(run[r], Len(srv)) /\ Len(srv) \in Nat
         /\ run[r].at \in AtUpload => run[r].up \in 1..Len(srv)
         /\ run[r].at \in AtUpload => srv[run[r].up] \in Upload
BY DEF UploadsTyped, Proper

LEMMA BodyIsNat ==
  ASSUME UploadsTyped
  PROVE  Body \in Nat
BY DEF UploadsTyped, Body, UploadHappenings

\* What a caller starts with.
LEMMA StartKeeps ==
  ASSUME UploadsTyped, KeyInv, NEW r \in Callers, NEW x, Begins(r, x), Proper(x, Len(srv)),
         MayGo(x, srv[x.up].secret, encrypted),
         UNCHANGED <<kind, limit, encrypted, srv, disk, late, posted>>
  PROVE  UploadsTyped' /\ KeyInv'
<1>1. more' \in [UploadHappenings -> Nat]
  BY SpendTyped DEF Begins, UploadHappenings
<1>2. disk' \in 0..Len(srv)
  BY DEF UploadsTyped
<1>3. run' = [run EXCEPT ![r] = x] /\ late' = late
  BY DEF Begins
<1>4. QED
  BY <1>1, <1>2, <1>3, CallerGoes

LEMMA StartsAreTyped ==
  ASSUME UploadShapes, UploadsTyped, KeyInv, NEW r \in Callers,
         \/ \E secret, posts \in BOOLEAN : UploadFile(r, secret, posts)
         \/ \E u \in DOMAIN srv : \/ \E len \in 1..Chunks : Put(r, u, len)
                                  \/ Abort(r, u)
                                  \/ SendAttachment(r, u)
  PROVE  UploadsTyped' /\ KeyInv'
<1>1. DOMAIN srv = 1..Len(srv) /\ Len(srv) \in Nat /\ Chunks \in Nat /\ disk \in 0..Len(srv)
      /\ encrypted \in BOOLEAN
  BY DEF UploadsTyped, UploadShapes
<1>2. ASSUME NEW secret \in BOOLEAN, NEW posts \in BOOLEAN, UploadFile(r, secret, posts)
      PROVE  UploadsTyped' /\ KeyInv'
  <2> DEFINE x == [Free EXCEPT !.at = IF disk = 0 THEN "create" ELSE "status", !.up = disk,
                               !.len = Chunks, !.secret = secret, !.posts = posts,
                               !.asked = posts /\ encrypted]
  <2>1. /\ x.at = (IF disk = 0 THEN "create" ELSE "status") /\ x.up = disk
        /\ (x.asked => posts /\ encrypted) /\ x \in Caller
    <3> DEFINE to == IF disk = 0 THEN "create" ELSE "status"
               asked == posts /\ encrypted
    <3>1. to \in Steps /\ asked \in BOOLEAN /\ disk \in Nat
      BY <1>1 DEF Steps, AtUpload
    <3> HIDE DEF to, asked
    <3>2. x = [Free EXCEPT !.at = to, !.up = disk, !.len = Chunks, !.secret = secret,
                           !.posts = posts, !.asked = asked]
      BY DEF to, asked
    <3> HIDE DEF x
    <3>3. x \in Caller /\ x.at = to /\ x.up = disk /\ x.asked = asked
      BY <1>1, <3>1, <3>2, IdleIsProper DEF Caller
    <3>4. QED
      BY <3>3 DEF to, asked
  <2>2. Begins(r, x) /\ kind = "file"
        /\ UNCHANGED <<kind, limit, encrypted, srv, disk, late, posted>>
    BY <1>2 DEF UploadFile
  <2> HIDE DEF x
  <2>3. Proper(x, Len(srv))
    BY <1>1, <2>1, <2>2 DEF Proper, AtUpload, OfKind
  <2>4. MayGo(x, srv[x.up].secret, encrypted)
    BY <2>1 DEF MayGo
  <2>5. QED
    BY <2>2, <2>3, <2>4, StartKeeps
<1>3. ASSUME NEW u \in DOMAIN srv, NEW len \in 1..Chunks, Put(r, u, len)
      PROVE  UploadsTyped' /\ KeyInv'
  <2> DEFINE x == [Free EXCEPT !.at = IF kind = "whole" THEN "whole" ELSE "status",
                               !.up = u, !.len = len, !.body = Body]
  <2>1. /\ x.at = (IF kind = "whole" THEN "whole" ELSE "status") /\ x.up = u /\ ~x.asked
        /\ x \in Caller
    <3> DEFINE to == IF kind = "whole" THEN "whole" ELSE "status"
    <3>1. to \in Steps /\ u \in Nat /\ len \in Nat
      BY <1>1 DEF Steps, AtUpload
    <3> HIDE DEF to
    <3>2. x = [Free EXCEPT !.at = to, !.up = u, !.len = len, !.body = Body]
      BY DEF to
    <3> HIDE DEF x
    <3>3. x \in Caller /\ x.at = to /\ x.up = u /\ x.asked = Free.asked
      BY <3>1, <3>2, BodyIsNat, IdleIsProper DEF Caller
    <3>4. QED
      BY <3>3, IdleIsProper DEF to
  <2>2. Begins(r, x) /\ UNCHANGED <<kind, limit, encrypted, srv, disk, late, posted>>
    BY <1>3 DEF Put, PutBeside
  <2> HIDE DEF x
  <2>3. Proper(x, Len(srv))
    BY <1>1, <2>1, <2>2 DEF Proper, AtUpload, OfKind
  <2>4. MayGo(x, srv[x.up].secret, encrypted)
    BY <2>1 DEF MayGo
  <2>5. QED
    BY <2>2, <2>3, <2>4, StartKeeps
<1>4. ASSUME NEW u \in DOMAIN srv, Abort(r, u)
      PROVE  UploadsTyped' /\ KeyInv'
  <2> DEFINE x == [Free EXCEPT !.at = "abort", !.up = u]
  <2>1. x.at = "abort" /\ x.up = u /\ ~x.asked /\ x \in Caller
    <3>1. u \in Nat
      BY <1>1
    <3>2. x \in Caller /\ x.at = "abort" /\ x.up = u /\ x.asked = Free.asked
      BY <3>1, IdleIsProper DEF Caller, Steps, AtUpload
    <3>3. QED
      BY <3>2, IdleIsProper
  <2>2. Begins(r, x) /\ UNCHANGED <<kind, limit, encrypted, srv, disk, late, posted>>
        /\ kind # "whole"
    BY <1>4 DEF Abort
  <2> HIDE DEF x
  <2>3. Proper(x, Len(srv))
    BY <1>1, <2>1, <2>2 DEF Proper, AtUpload, OfKind
  <2>4. MayGo(x, srv[x.up].secret, encrypted)
    BY <2>1 DEF MayGo
  <2>5. QED
    BY <2>2, <2>3, <2>4, StartKeeps
<1>5. ASSUME NEW u \in DOMAIN srv, SendAttachment(r, u)
      PROVE  UploadsTyped' /\ KeyInv'
  <2> DEFINE x == [Free EXCEPT !.at = "post", !.up = u, !.asked = encrypted]
  <2>1. x.at = "post" /\ x.up = u /\ x.asked = encrypted /\ x \in Caller
    <3>1. u \in Nat
      BY <1>1
    <3>2. QED
      BY <1>1, <3>1, IdleIsProper DEF Caller, Steps, AtUpload
  <2>2. Begins(r, x) /\ UNCHANGED <<kind, limit, encrypted, srv, disk, late, posted>>
        /\ srv[u].secret = encrypted
    BY <1>5 DEF SendAttachment, Fits
  <2> HIDE DEF x
  <2>3. Proper(x, Len(srv))
    BY <1>1, <2>1 DEF Proper, AtUpload
  <2>4. MayGo(x, srv[x.up].secret, encrypted)
    BY <2>1, <2>2 DEF MayGo
  <2>5. QED
    BY <2>2, <2>3, <2>4, StartKeeps
<1>6. QED
  BY <1>2, <1>3, <1>4, <1>5

\* What a caller goes on with.
LEMMA GoesIs ==
  ASSUME NEW r, NEW x \in Caller
  PROVE  \/ Goes(r, x) = Free
         \/ x.next < x.len /\ Goes(r, x) = [x EXCEPT !.at = "chunk"]
         \/ x.next >= x.len /\ Goes(r, x) = [x EXCEPT !.at = "seal"]
BY DEF Goes, Caller

LEMMA GoesProper ==
  ASSUME NEW r, NEW x \in Caller, NEW n \in Nat, x.up \in 1..n, kind # "whole"
  PROVE  /\ Proper(Goes(r, x), n) /\ Goes(r, x).at \in {"idle", "chunk", "seal"}
         /\ Goes(r, x).asked => x.asked
<1>1. \A to \in {"chunk", "seal"} :
        LET y == [x EXCEPT !.at = to] IN y \in Caller /\ y.at = to /\ y.up = x.up /\ y.asked = x.asked
  BY DEF Caller, Steps, AtUpload
<1>2. CASE Goes(r, x) = Free
  BY <1>2, IdleIsProper
<1>3. CASE \E to \in {"chunk", "seal"} : Goes(r, x) = [x EXCEPT !.at = to]
  BY <1>1, <1>3 DEF Proper, OfKind
<1>4. QED
  BY <1>2, <1>3, GoesIs

LEMMA GoesKeeps ==
  ASSUME UploadsTyped, KeyInv, NEW r \in Callers, run[r].at \in Brings, run[r].at # "create"
  PROVE  /\ kind # "whole" /\ run[r].up \in 1..Len(srv) /\ (run[r].asked => encrypted)
         /\ \A x \in Caller : x.up = run[r].up /\ (x.asked => encrypted) =>
              /\ Proper(Goes(r, x), Len(srv)) /\ Goes(r, x).at \in {"idle", "chunk", "seal"}
              /\ Goes(r, x).asked => encrypted
<1>1. kind # "whole" /\ run[r].up \in 1..Len(srv) /\ Len(srv) \in Nat
  BY RunIs DEF Proper, OfKind, Brings, AtUpload
<1>2. QED
  BY <1>1, GoesProper DEF KeyInv

LEMMA RequestIs ==
  ASSUME UploadsTyped, NEW r \in Callers, run[r].at \in Asks
  PROVE  /\ Request(run[r]) \in Asked /\ Request(run[r]).up = run[r].up
         /\ Request(run[r]).what = run[r].at /\ Request(run[r]).body = run[r].body
         /\ Request(run[r]).index = run[r].next
         /\ Request(run[r]).last = (run[r].next + 1 = run[r].len)
         /\ run[r].up \in 1..Len(srv) /\ OfKind(run[r].at)
<1>1. run[r].up \in 1..Len(srv) /\ OfKind(run[r].at) /\ run[r] \in Caller
  BY RunIs DEF Proper, Asks, AtUpload
<1>2. (run[r].next + 1 = run[r].len) \in BOOLEAN
  OBVIOUS
<1>3. QED
  BY <1>1, <1>2 DEF Request, Asked, Caller

LEMMA StepsAreTyped ==
  ASSUME UploadsTyped, KeyInv, NEW r \in Callers,
         WriteState(r) \/ StatusAnswered(r) \/ RemoveState(r) \/ Ends(r)
  PROVE  UploadsTyped' /\ KeyInv'
<1>1. /\ run[r] \in Caller /\ Len(srv) \in Nat /\ disk \in 0..Len(srv) /\ Proper(run[r], Len(srv))
      /\ more \in [UploadHappenings -> Nat] /\ (run[r].asked => encrypted)
  BY RunIs DEF UploadsTyped, KeyInv
<1>2. CASE WriteState(r)
  <2> DEFINE x == Goes(r, run[r])
  <2>1. run[r].at \in Brings /\ run[r].at # "create"
    BY <1>2 DEF WriteState, Brings
  <2>2. Proper(x, Len(srv)) /\ x.at # "post" /\ (x.asked => encrypted) /\ run[r].up \in 1..Len(srv)
    BY <1>1, <2>1, GoesKeeps
  <2>3. /\ disk' = run[r].up /\ run' = [run EXCEPT ![r] = x]
        /\ UNCHANGED <<kind, limit, encrypted, srv, late, posted, more>>
    BY <1>2 DEF WriteState
  <2> HIDE DEF x
  <2>4. MayGo(x, srv[x.up].secret, encrypted) /\ disk' \in 0..Len(srv)
    BY <2>2, <2>3 DEF MayGo
  <2>5. QED
    BY <1>1, <2>2, <2>3, <2>4, CallerGoes
<1>3. CASE StatusAnswered(r)
  <2> DEFINE x == AfterStatus(r)
  <2>1. run[r].at \in Brings /\ run[r].at # "create"
    BY <1>3 DEF StatusAnswered, Brings
  <2>2. Proper(x, Len(srv)) /\ x.at # "post" /\ (x.asked => encrypted)
    <3>1. CASE x = Free
      BY <1>1, <3>1, IdleIsProper
    <3>2. CASE x # Free
      <4> DEFINE received == Len(srv[run[r].up].got)
                 cut == kind = "put" /\ Cut(received)
                 y == [run[r] EXCEPT !.next = received, !.cut = cut]
      <4>1. x = Goes(r, y)
        BY <3>2 DEF AfterStatus
      <4>2. received \in Nat /\ cut \in BOOLEAN
        BY <2>1, GoesKeeps DEF UploadsTyped, Upload, Cut
      <4> HIDE DEF received, cut
      <4>3. y \in Caller /\ y.up = run[r].up /\ y.asked = run[r].asked
        BY <1>1, <4>2 DEF Caller
      <4> HIDE DEF y, x
      <4>4. QED
        BY <1>1, <2>1, <4>1, <4>3, GoesKeeps
    <3>3. QED
      BY <3>1, <3>2
  <2>3. /\ run' = [run EXCEPT ![r] = x]
        /\ UNCHANGED <<kind, limit, encrypted, srv, disk, late, posted, more>>
    BY <1>3 DEF StatusAnswered
  <2> HIDE DEF x
  <2>4. MayGo(x, srv[x.up].secret, encrypted) /\ disk' \in 0..Len(srv)
    BY <1>1, <2>2, <2>3 DEF MayGo
  <2>5. QED
    BY <1>1, <2>2, <2>3, <2>4, CallerGoes
<1>4. CASE RemoveState(r)
  <2> DEFINE x == IF run[r].posts /\ Fits(srv[run[r].up].secret, run[r].asked)
                    THEN [run[r] EXCEPT !.at = "post"] ELSE Free
  <2>1. /\ disk' = 0 /\ run' = [run EXCEPT ![r] = x] /\ run[r].at = "remove"
        /\ UNCHANGED <<kind, limit, encrypted, srv, late, posted, more>>
    BY <1>4 DEF RemoveState
  <2>2. Proper(x, Len(srv)) /\ MayGo(x, srv[x.up].secret, encrypted)
    <3>1. CASE x = Free
      BY <1>1, <3>1, IdleIsProper DEF MayGo
    <3>2. CASE x = [run[r] EXCEPT !.at = "post"] /\ srv[run[r].up].secret = run[r].asked
      <4> HIDE DEF x
      <4>1. x \in Caller /\ x.up = run[r].up /\ x.asked = run[r].asked /\ x.at = "post"
        BY <1>1, <3>2 DEF Caller, Steps, AtUpload
      <4>2. run[r].up \in 1..Len(srv)
        BY <2>1, RunIs DEF AtUpload
      <4>3. QED
        BY <1>1, <3>2, <4>1, <4>2 DEF Proper, MayGo, AtUpload
    <3>3. QED
      BY <3>1, <3>2 DEF Fits
  <2> HIDE DEF x
  <2>3. disk' \in 0..Len(srv)
    BY <1>1, <2>1
  <2>4. QED
    BY <1>1, <2>1, <2>2, <2>3, CallerGoes
<1>5. CASE Ends(r)
  <2>1. more' \in [UploadHappenings -> Nat]
    BY <1>5, SpendTyped DEF Ends, UploadHappenings
  <2>2. Proper(Free, Len(srv)) /\ MayGo(Free, srv[Free.up].secret, encrypted)
    BY <1>1, IdleIsProper DEF MayGo
  <2>3. /\ run' = [run EXCEPT ![r] = Free]
        /\ UNCHANGED <<kind, limit, encrypted, srv, disk, posted>>
        /\ late' = late \/ (run[r].at \in Asks /\ late' = late \cup {Request(run[r])})
    BY <1>5 DEF Ends
  <2>4. late' = late \/ \E q \in Asked : q.up \in 1..Len(srv) /\ OfKind(q.what)
                                          /\ late' = late \cup {q}
    BY <2>3, RequestIs
  <2>5. disk' \in 0..Len(srv)
    BY <1>1, <2>3
  <2>6. QED
    BY <2>1, <2>2, <2>3, <2>4, <2>5, CallerGoes
<1>6. QED
  BY <1>2, <1>3, <1>4, <1>5

LEMMA PostIsTyped ==
  ASSUME UploadsTyped, KeyInv, NEW r \in Callers, Posted(r)
  PROVE  UploadsTyped' /\ KeyInv'
<1> DEFINE x == run[r]
           p == <<x.up, GoesEncrypted(x)>>
<1>1. /\ posted' = posted \cup {p} /\ run' = [run EXCEPT ![r] = Free] /\ x.at = "post"
      /\ UNCHANGED <<kind, limit, encrypted, srv, disk, late, more>>
  BY DEF Posted
<1>2. /\ x.up \in 1..Len(srv) /\ Len(srv) \in Nat /\ x.asked \in BOOLEAN /\ encrypted \in BOOLEAN
      /\ srv[x.up].secret \in BOOLEAN
  BY <1>1, RunIs DEF AtUpload, Caller, Upload, UploadsTyped
<1>3. GoesEncrypted(x) \in BOOLEAN
  BY <1>2 DEF GoesEncrypted
<1>4. \A q \in Callers : run'[q] = IF q = r THEN Free ELSE run[q]
  BY <1>1 DEF UploadsTyped
<1>5. UploadsTyped'
  <2>1. /\ run' \in [Callers -> Caller]
        /\ \A q \in Callers : run'[q] = run[q] \/ Proper(run'[q], Len(srv'))
    BY <1>1, <1>2, <1>4, IdleIsProper DEF UploadsTyped
  <2>2. posted' \subseteq posted \cup ((1..Len(srv')) \X BOOLEAN)
    BY <1>1, <1>2, <1>3
  <2>3. QED
    BY <1>1, <1>2, <2>1, <2>2, TypedLater DEF UploadsTyped
<1>6. KeyInv'
  <2>1. srv[x.up].secret = x.asked /\ (x.asked => encrypted)
    BY <1>1 DEF KeyInv
  <2>2. /\ srv[x.up].secret => GoesEncrypted(x)
        /\ GoesEncrypted(x) => srv[x.up].secret \/ kind = "whole"
    BY <2>1 DEF GoesEncrypted
  <2>3. \A q \in posted' : q = p \/ q \in posted
    BY <1>1
  <2>4. p[1] = x.up /\ p[2] = GoesEncrypted(x)
    OBVIOUS
  <2>5. KeyStaysSecret'
    BY <1>1, <2>2, <2>3, <2>4 DEF KeyInv, KeyStaysSecret
  <2>6. /\ \A q \in Callers : run'[q].asked => encrypted'
        /\ \A q \in Callers : run'[q].at = "post" => srv'[run'[q].up].secret = run'[q].asked
    BY <1>1, <1>2, <1>4, IdleIsProper DEF KeyInv
  <2>7. QED
    BY <2>5, <2>6 DEF KeyInv
<1>7. QED
  BY <1>5, <1>6

\* A caller after the answer to a chunk: it ends, or goes on from x.
GoesOnFrom(r, s, n, x) ==
  LET c == run[r]
      refused == s.at # "open" \/ (s.done /\ c.next = Len(s.got))
  IN /\ x \in Caller /\ x.up = c.up /\ x.asked = c.asked /\ x.body = c.body
     /\ ~refused
     /\ \/ kind = "file" /\ c.next > Len(s.got) /\ x.next = Len(s.got) /\ x.len = c.len
        \/ /\ c.next <= Len(s.got) /\ kind = "stream"
           /\ x.next = c.next + 1 /\ x.cut = Cut(Len(n.got))
           /\ x.len = IF n.done THEN c.next + 1 ELSE c.len
        \/ /\ c.next <= Len(s.got) /\ kind \in {"file", "put"}
           /\ x.next = Len(n.got) /\ x.len = c.len
           /\ kind = "put" => x.cut = (c.cut \/ Cut(Len(n.got)))

LEMMA AfterChunkIs ==
  ASSUME UploadsTyped, NEW r \in Callers, run[r].at = "chunk",
         NEW s \in Upload, NEW n \in Upload
  PROVE  \/ AfterChunk(r, s, n) = Free
         \/ \E x \in Caller : AfterChunk(r, s, n) = Goes(r, x) /\ GoesOnFrom(r, s, n, x)
<1> DEFINE c == run[r]
           refused == s.at # "open" \/ (s.done /\ c.next = Len(s.got))
           outOfOrder == c.next > Len(s.got)
<1>1. /\ c \in Caller /\ kind \in Modes /\ kind # "whole" /\ Len(s.got) \in Nat
      /\ Len(n.got) \in Nat /\ c.next \in Nat /\ n.done \in BOOLEAN
      /\ Cut(Len(n.got)) \in BOOLEAN /\ c.cut \in BOOLEAN
  <2>1. kind # "whole" /\ kind \in Modes
    BY RunIs DEF UploadsTyped, Proper, OfKind
  <2>2. c \in Caller /\ c.next \in Nat /\ c.cut \in BOOLEAN
    BY RunIs DEF Caller
  <2>3. Len(s.got) \in Nat /\ Len(n.got) \in Nat /\ n.done \in BOOLEAN
    BY DEF Upload
  <2>4. Cut(Len(n.got)) \in BOOLEAN
    BY DEF Cut
  <2>5. QED
    BY <2>1, <2>2, <2>3, <2>4
<1>2. CASE refused \/ (outOfOrder /\ kind # "file")
  BY <1>2 DEF AfterChunk
<1>3. CASE ~refused /\ outOfOrder /\ kind = "file"
  <2> DEFINE x == [c EXCEPT !.next = Len(s.got)]
  <2>1. AfterChunk(r, s, n) = Goes(r, x)
    BY <1>3 DEF AfterChunk
  <2>2. x \in Caller /\ x.up = c.up /\ x.asked = c.asked /\ x.body = c.body
        /\ x.next = Len(s.got) /\ x.len = c.len
    BY <1>1 DEF Caller
  <2> HIDE DEF x
  <2>3. GoesOnFrom(r, s, n, x)
    BY <1>3, <2>2 DEF GoesOnFrom
  <2>4. QED
    BY <2>1, <2>2, <2>3
<1>4. CASE ~refused /\ ~outOfOrder
  <2>1. CASE kind = "file"
    <3> DEFINE x == FileGoesOn(c, n)
    <3>1. AfterChunk(r, s, n) = Goes(r, x)
      BY <1>4, <2>1 DEF AfterChunk
    <3>2. x \in Caller /\ x.up = c.up /\ x.asked = c.asked /\ x.body = c.body
          /\ x.next = Len(n.got) /\ x.len = c.len
      BY <1>1 DEF Caller, FileGoesOn
    <3> HIDE DEF x
    <3>3. GoesOnFrom(r, s, n, x)
      BY <1>1, <1>4, <2>1, <3>2 DEF GoesOnFrom
    <3>4. QED
      BY <3>1, <3>2, <3>3
  <2>2. CASE kind = "put"
    <3> DEFINE cut == c.cut \/ Cut(Len(n.got))
               x == [c EXCEPT !.next = Len(n.got), !.cut = cut]
    <3>1. AfterChunk(r, s, n) = Goes(r, x)
      BY <1>4, <2>2 DEF AfterChunk, PutGoesOn
    <3>2. cut \in BOOLEAN
      BY <1>1
    <3> HIDE DEF cut
    <3>3. x \in Caller /\ x.up = c.up /\ x.asked = c.asked /\ x.body = c.body
          /\ x.next = Len(n.got) /\ x.len = c.len /\ x.cut = cut
      BY <1>1, <3>2 DEF Caller
    <3> HIDE DEF x
    <3>4. GoesOnFrom(r, s, n, x)
      BY <1>1, <1>4, <2>2, <3>3 DEF GoesOnFrom, cut
    <3>5. QED
      BY <3>1, <3>3, <3>4
  <2>3. CASE kind = "stream"
    <3> DEFINE cut == Cut(Len(n.got))
               len == IF n.done THEN c.next + 1 ELSE c.len
               x == [c EXCEPT !.next = c.next + 1, !.cut = cut, !.len = len]
    <3>1. AfterChunk(r, s, n) = Goes(r, x)
      BY <1>4, <2>3 DEF AfterChunk, StreamGoesOn
    <3>2. cut \in BOOLEAN /\ len \in Nat /\ c.next + 1 \in Nat
      BY <1>1 DEF Caller
    <3> HIDE DEF cut, len
    <3>3. x \in Caller /\ x.up = c.up /\ x.asked = c.asked /\ x.body = c.body
          /\ x.next = c.next + 1 /\ x.len = len /\ x.cut = cut
      BY <1>1, <3>2 DEF Caller
    <3> HIDE DEF x
    <3>4. GoesOnFrom(r, s, n, x)
      BY <1>1, <1>4, <2>3, <3>3 DEF GoesOnFrom, cut, len
    <3>5. QED
      BY <3>1, <3>3, <3>4
  <2>4. QED
    BY <1>1, <2>1, <2>2, <2>3 DEF Modes
<1>5. QED
  BY <1>2, <1>3, <1>4

LEMMA ManifestIs ==
  ASSUME NEW x \in Caller
  PROVE  Manifest(x) \in Manifests
BY DEF Manifest, Manifests, Caller

\* An answer is here: the server has changed the upload, and the caller goes on.
LEMMA AnswersAreTyped ==
  ASSUME UploadsTyped, KeyInv, NEW r \in Callers,
         ChunkAnswered(r) \/ SealAnswered(r) \/ WholeAnswered(r) \/ AbortAnswered(r)
  PROVE  UploadsTyped' /\ KeyInv'
<1> DEFINE c == run[r]
           q == Request(c)
           u == c.up
           s == srv[u]
           n == Handled(q)
<1>1. /\ c.at \in Asks /\ UNCHANGED <<kind, limit, encrypted, disk, late, posted, more>>
  BY DEF ChunkAnswered, SealAnswered, WholeAnswered, AbortAnswered, Asks
<1>2. /\ q \in Asked /\ q.up = u /\ u \in 1..Len(srv) /\ s \in Upload /\ c \in Caller
      /\ Proper(c, Len(srv)) /\ Len(srv) \in Nat /\ (c.asked => encrypted)
  BY <1>1, RequestIs, RunIs DEF KeyInv, Asks, AtUpload
<1>3. n \in Upload /\ n.secret = s.secret
  BY <1>2, HandledIs
<1>4. more' \in [UploadHappenings -> Nat] /\ late' \subseteq late
  BY <1>1 DEF UploadsTyped
<1>5. \A x \in Caller, m \in Upload :
        /\ Proper(x, Len(srv)) /\ (x.asked => encrypted) /\ x.at # "post"
        /\ m.secret = s.secret /\ srv' = [srv EXCEPT ![u] = m] /\ run' = [run EXCEPT ![r] = x]
        => UploadsTyped' /\ KeyInv'
  <2> TAKE x \in Caller, m \in Upload
  <2> HAVE /\ Proper(x, Len(srv)) /\ (x.asked => encrypted) /\ x.at # "post"
           /\ m.secret = s.secret /\ srv' = [srv EXCEPT ![u] = m] /\ run' = [run EXCEPT ![r] = x]
  <2>1. MayGo(x, srv[x.up].secret, encrypted)
    BY DEF MayGo
  <2>2. m.secret = srv[u].secret
    OBVIOUS
  <2> HIDE DEF c, u, s
  <2>3. QED
    BY <1>1, <1>2, <1>4, <2>1, <2>2, ServerChanges
<1>6. srv = [srv EXCEPT ![u] = s]
  BY <1>2 DEF UploadsTyped
<1>7. \A told \in Manifests : LET m == [n EXCEPT !.told = told] IN
        m \in Upload /\ m.secret = s.secret
  BY <1>3 DEF Upload
<1>8. Proper(Free, Len(srv)) /\ Free \in Caller /\ ~Free.asked /\ Free.at # "post"
  BY <1>2, IdleIsProper
<1>9. c.at \in {"seal", "abort"} =>
        LET x == [c EXCEPT !.at = "remove"] IN
        x \in Caller /\ Proper(x, Len(srv)) /\ x.asked = c.asked /\ x.at = "remove"
  <2> DEFINE x == [c EXCEPT !.at = "remove"]
  <2>1. x \in Caller /\ x.up = c.up /\ x.asked = c.asked /\ x.at = "remove"
    BY <1>2 DEF Caller, Steps, AtUpload
  <2> HIDE DEF x
  <2>2. c.at \in {"seal", "abort"} => Proper(x, Len(srv))
    BY <1>2, <2>1 DEF Proper, AtUpload, OfKind
  <2>3. QED
    BY <2>1, <2>2 DEF x
<1>10. CASE ChunkAnswered(r)
  <2> DEFINE x == AfterChunk(r, s, n)
  <2>1. /\ srv' = [srv EXCEPT ![u] = n] /\ run' = [run EXCEPT ![r] = x] /\ c.at = "chunk"
    BY <1>2, <1>10 DEF ChunkAnswered
  <2>2. x \in Caller /\ Proper(x, Len(srv)) /\ (x.asked => encrypted) /\ x.at # "post"
    <3>1. CASE x = Free
      BY <1>8, <3>1
    <3>2. CASE \E y \in Caller : x = Goes(r, y) /\ y.up = c.up /\ y.asked = c.asked
      <4>1. c.at \in Brings /\ c.at # "create"
        BY <2>1 DEF Brings
      <4>2. QED
        BY <1>2, <3>2, <4>1, GoesKeeps DEF Proper
    <3>3. QED
      BY <1>2, <1>3, <2>1, <3>1, <3>2, AfterChunkIs DEF GoesOnFrom
  <2> HIDE DEF x, n, s
  <2>3. QED
    BY <1>3, <1>5, <2>1, <2>2
<1>11. CASE SealAnswered(r)
  <2> DEFINE sealed == n # s
             m == [n EXCEPT !.told = Manifest(c)]
             x == [c EXCEPT !.at = "remove"]
  <2>1. /\ c.at = "seal"
        /\ srv' = (IF sealed THEN [srv EXCEPT ![u] = m] ELSE srv)
        /\ run' = [run EXCEPT ![r] = IF sealed /\ kind = "file" THEN x ELSE Free]
    BY <1>11 DEF SealAnswered
  <2>2. m \in Upload /\ m.secret = s.secret
    BY <1>2, <1>7, ManifestIs
  <2>3. x \in Caller /\ Proper(x, Len(srv)) /\ x.asked = c.asked /\ x.at = "remove"
    BY <1>9, <2>1
  <2> HIDE DEF m, x, n, s
  <2>4. \E y \in Upload : y.secret = s.secret /\ srv' = [srv EXCEPT ![u] = y]
    BY <1>2, <1>6, <2>1, <2>2
  <2>5. \E y \in Caller : /\ Proper(y, Len(srv)) /\ (y.asked => encrypted) /\ y.at # "post"
                          /\ run' = [run EXCEPT ![r] = y]
    BY <1>2, <1>8, <2>1, <2>3
  <2>6. QED
    BY <1>5, <2>4, <2>5
<1>12. CASE WholeAnswered(r)
  <2> DEFINE one == [c EXCEPT !.len = 1]
             m == [n EXCEPT !.told = Manifest(one)]
  <2>1. /\ srv' = (IF s.at = "open" THEN [srv EXCEPT ![u] = m] ELSE srv)
        /\ run' = [run EXCEPT ![r] = Free]
    BY <1>12 DEF WholeAnswered
  <2>2. one \in Caller
    BY <1>2 DEF Caller
  <2>3. m \in Upload /\ m.secret = s.secret
    BY <1>7, <2>2, ManifestIs
  <2> HIDE DEF m, n, s
  <2>4. \E y \in Upload : y.secret = s.secret /\ srv' = [srv EXCEPT ![u] = y]
    BY <1>2, <1>6, <2>1, <2>3
  <2>5. QED
    BY <1>5, <1>8, <2>1, <2>4
<1>13. CASE AbortAnswered(r)
  <2> DEFINE x == [c EXCEPT !.at = "remove"]
  <2>1. /\ c.at = "abort" /\ srv' = [srv EXCEPT ![u] = n]
        /\ run' = [run EXCEPT ![r] = IF s.at = "open" /\ kind = "file" THEN x ELSE Free]
    BY <1>13 DEF AbortAnswered
  <2>2. x \in Caller /\ Proper(x, Len(srv)) /\ x.asked = c.asked /\ x.at = "remove"
    BY <1>9, <2>1
  <2> HIDE DEF x, n, s
  <2>3. \E y \in Caller : /\ Proper(y, Len(srv)) /\ (y.asked => encrypted) /\ y.at # "post"
                          /\ run' = [run EXCEPT ![r] = y]
    BY <1>2, <1>8, <2>1, <2>2
  <2>4. QED
    BY <1>3, <1>5, <2>1, <2>3
<1>14. QED
  BY <1>10, <1>11, <1>12, <1>13

LEMMA ServerIsTyped ==
  ASSUME UploadsTyped, KeyInv,
         \/ \E q \in late : Late(q)
         \/ \E u \in DOMAIN srv : Sweep(u) \/ Forget(u)
  PROVE  UploadsTyped' /\ KeyInv'
<1>1. \A u \in 1..Len(srv) : srv[u] \in Upload
  BY DEF UploadsTyped
<1>2. ASSUME NEW q \in late, Late(q)
      PROVE  UploadsTyped' /\ KeyInv'
  <2>1. /\ srv' = [srv EXCEPT ![q.up] = Handled(q)] /\ late' \subseteq late
        /\ UNCHANGED <<kind, limit, encrypted, disk, run, posted, more>>
    BY <1>2 DEF Late
  <2>2. q \in Asked /\ q.up \in 1..Len(srv) /\ more' \in [UploadHappenings -> Nat]
    BY <2>1 DEF UploadsTyped
  <2>3. Handled(q) \in Upload /\ Handled(q).secret = srv[q.up].secret
    BY <2>2, HandledIs
  <2>4. QED
    BY <2>1, <2>2, <2>3, ServerChanges
<1>3. ASSUME NEW u \in DOMAIN srv, Sweep(u)
      PROVE  UploadsTyped' /\ KeyInv'
  <2> DEFINE n == [srv[u] EXCEPT !.at = "gone"]
  <2>1. /\ srv' = [srv EXCEPT ![u] = n] /\ late' \subseteq late
        /\ UNCHANGED <<kind, limit, encrypted, disk, run, posted>>
    BY <1>3 DEF Sweep
  <2>2. u \in 1..Len(srv) /\ more' \in [UploadHappenings -> Nat]
    <3>1. Costs("sweeps") /\ "sweeps" \in UploadHappenings
      BY <1>3 DEF Sweep, UploadHappenings
    <3>2. more' \in [UploadHappenings -> Nat]
      BY <3>1, SpendTyped
    <3>3. QED
      BY <3>2 DEF UploadsTyped
  <2>3. n \in Upload /\ n.secret = srv[u].secret
    <3>1. srv[u] \in Upload
      BY <1>1, <2>2
    <3>2. QED
      BY <3>1 DEF Upload
  <2> HIDE DEF n
  <2>4. QED
    BY <2>1, <2>2, <2>3, ServerChanges
<1>4. ASSUME NEW u \in DOMAIN srv, Forget(u)
      PROVE  UploadsTyped' /\ KeyInv'
  <2> DEFINE got == SubSeq(srv[u].got, 1, Len(srv[u].got) - 1)
             n == [srv[u] EXCEPT !.got = got, !.done = FALSE]
  <2>1. /\ srv' = [srv EXCEPT ![u].got = got, ![u].done = FALSE] /\ late' \subseteq late
        /\ UNCHANGED <<kind, limit, encrypted, disk, run, posted>> /\ srv[u].got # <<>>
    BY <1>4 DEF Forget
  <2>2. u \in 1..Len(srv) /\ more' \in [UploadHappenings -> Nat]
    <3>1. Costs("forgets")
      BY <1>4 DEF Forget
    <3>2. more' \in [UploadHappenings -> Nat]
      BY <3>1, SpendTyped DEF UploadHappenings
    <3>3. QED
      BY <3>2 DEF UploadsTyped
  <2>3. got \in Seq(Nat)
    BY <1>1, <2>1, <2>2 DEF Upload
  <2> HIDE DEF got
  <2>4. n \in Upload /\ n.secret = srv[u].secret
    <3>1. srv[u] \in Upload
      BY <1>1, <2>2
    <3>2. QED
      BY <2>3, <3>1 DEF Upload
  <2>5. srv' = [srv EXCEPT ![u] = n]
    BY <1>1, <2>1, <2>2 DEF UploadsTyped
  <2> HIDE DEF n
  <2>6. QED
    BY <2>1, <2>2, <2>4, <2>5, ServerChanges
<1>5. QED
  BY <1>2, <1>3, <1>4

LEMMA NewUploadIs ==
  ASSUME NEW secret \in BOOLEAN
  PROVE  /\ NewUpload(secret) \in Upload /\ NewUpload(secret).at = "open"
         /\ NewUpload(secret).got = <<>> /\ ~NewUpload(secret).done
         /\ NewUpload(secret).told = NoManifest
<1>1. <<>> \in Seq(Nat) /\ NoManifest \in Manifests
  BY DEF NoManifest, Manifests
<1>2. QED
  BY <1>1 DEF NewUpload, Upload

\* An upload more, and perhaps a caller that is at it.
LEMMA CreatedIsTyped ==
  ASSUME UploadsTyped, KeyInv,
         (\E secret \in BOOLEAN : MediaCreate(secret)) \/ \E r \in Callers : Created(r)
  PROVE  UploadsTyped' /\ KeyInv'
<1>1. srv \in Seq(Upload) /\ Len(srv) \in Nat /\ encrypted \in BOOLEAN /\ disk \in 0..Len(srv)
  BY DEF UploadsTyped
<1>2. ASSUME NEW secret \in BOOLEAN, MediaCreate(secret)
      PROVE  UploadsTyped' /\ KeyInv'
  <2> DEFINE new == NewUpload(secret)
  <2>1. /\ srv' = Append(srv, new)
        /\ UNCHANGED <<kind, limit, encrypted, disk, run, late, posted>>
    BY <1>2 DEF MediaCreate
  <2>2. more' \in [UploadHappenings -> Nat] /\ new \in Upload
    BY <1>2, SpendTyped, NewUploadIs DEF MediaCreate, UploadHappenings
  <2> HIDE DEF new
  <2>3. /\ srv' \in Seq(Upload) /\ Len(srv') = Len(srv) + 1
        /\ \A v \in 1..Len(srv) : srv'[v] = srv[v]
    BY <1>1, <2>1, <2>2, Appended
  <2>4. SameSecrets /\ disk' \in 0..Len(srv')
    BY <1>1, <2>1, <2>3 DEF SameSecrets
  <2>5. run' \in [Callers -> Caller] /\ \A r \in Callers : run'[r] = run[r]
    BY <2>1 DEF UploadsTyped
  <2>6. UploadsTyped'
    BY <1>1, <2>1, <2>2, <2>3, <2>4, <2>5, TypedLater
  <2>7. KeyInv'
    BY <2>1, <2>4, <2>5, KeyLater
  <2>8. QED
    BY <2>6, <2>7
<1>3. ASSUME NEW r \in Callers, Created(r)
      PROVE  UploadsTyped' /\ KeyInv'
  <2> DEFINE new == NewUpload(run[r].secret)
             x == [run[r] EXCEPT !.at = "write", !.up = Len(srv) + 1]
  <2>1. /\ srv' = Append(srv, new)
        /\ run' = [run EXCEPT ![r] = x] /\ run[r].at = "create"
        /\ UNCHANGED <<kind, limit, encrypted, disk, late, posted, more>>
    BY <1>3, RunIs DEF Created, UploadsTyped
  <2>2. run[r] \in Caller /\ (run[r].asked => encrypted) /\ OfKind("create")
    BY <2>1, RunIs DEF KeyInv, Proper
  <2>3. new \in Upload /\ more' \in [UploadHappenings -> Nat]
    BY <2>1, <2>2, NewUploadIs DEF Caller, UploadsTyped
  <2>4. /\ x \in Caller /\ x.at = "write" /\ x.up = Len(srv) + 1 /\ x.asked = run[r].asked
    <3>1. Len(srv) + 1 \in Nat
      BY <1>1
    <3>2. QED
      BY <2>2, <3>1 DEF Caller, Steps, AtUpload
  <2> HIDE DEF new, x
  <2>5. /\ srv' \in Seq(Upload) /\ Len(srv') = Len(srv) + 1
        /\ \A v \in 1..Len(srv) : srv'[v] = srv[v]
    BY <1>1, <2>1, <2>3, Appended
  <2>6. SameSecrets /\ disk' \in 0..Len(srv')
    BY <1>1, <2>1, <2>5 DEF SameSecrets
  <2>7. \A q \in Callers : run'[q] = IF q = r THEN x ELSE run[q]
    BY <2>1 DEF UploadsTyped
  <2>8. Proper(x, Len(srv')) /\ (x.asked => encrypted) /\ x.at # "post"
    BY <1>1, <2>2, <2>4, <2>5 DEF Proper, OfKind
  <2>9. run' \in [Callers -> Caller]
        /\ \A q \in Callers : run'[q] = run[q] \/ Proper(run'[q], Len(srv'))
    BY <2>1, <2>4, <2>7, <2>8 DEF UploadsTyped
  <2>10. UploadsTyped'
    BY <1>1, <2>1, <2>3, <2>5, <2>6, <2>9, TypedLater
  <2>11. \A q \in Callers :
           run'[q] = run[q] \/ MayGo(run'[q], srv'[run'[q].up].secret, encrypted')
    BY <2>1, <2>7, <2>8 DEF MayGo
  <2>12. KeyInv'
    BY <2>1, <2>6, <2>11, KeyLater
  <2>13. QED
    BY <2>10, <2>12
<1>4. QED
  BY <1>2, <1>3

LEMMA EncryptIsTyped ==
  ASSUME UploadsTyped, KeyInv, Encrypt
  PROVE  UploadsTyped' /\ KeyInv'
<1>1. encrypted' = TRUE /\ UNCHANGED <<kind, limit, srv, disk, run, late, posted>>
  BY DEF Encrypt
<1>2. more' \in [UploadHappenings -> Nat]
  BY SpendTyped DEF Encrypt, UploadHappenings
<1>3. UploadsTyped'
  BY <1>1, <1>2, TypedLater DEF UploadsTyped
<1>4. KeyInv'
  BY <1>1 DEF KeyInv, KeyStaysSecret
<1>5. QED
  BY <1>3, <1>4

LEMMA NextTyped ==
  ASSUME UploadShapes, UploadsTyped, KeyInv, UploadsNext
  PROVE  UploadsTyped' /\ KeyInv'
<1>1. ASSUME NEW r \in Callers,
             \/ \E secret, posts \in BOOLEAN : UploadFile(r, secret, posts)
             \/ \E u \in DOMAIN srv : \/ \E len \in 1..Chunks : Put(r, u, len)
                                      \/ Abort(r, u)
                                      \/ SendAttachment(r, u)
      PROVE  UploadsTyped' /\ KeyInv'
  BY <1>1, StartsAreTyped
<1>2. ASSUME NEW r \in Callers, WriteState(r) \/ StatusAnswered(r) \/ RemoveState(r) \/ Ends(r)
      PROVE  UploadsTyped' /\ KeyInv'
  BY <1>2, StepsAreTyped
<1>3. ASSUME NEW r \in Callers,
             ChunkAnswered(r) \/ SealAnswered(r) \/ WholeAnswered(r) \/ AbortAnswered(r)
      PROVE  UploadsTyped' /\ KeyInv'
  BY <1>3, AnswersAreTyped
<1>4. ASSUME NEW r \in Callers, Created(r) \/ Posted(r)
      PROVE  UploadsTyped' /\ KeyInv'
  BY <1>4, CreatedIsTyped, PostIsTyped
<1>5. ASSUME \/ \E q \in late : Late(q)
             \/ \E u \in DOMAIN srv : Sweep(u) \/ Forget(u)
             \/ Encrypt
             \/ \E secret \in BOOLEAN : MediaCreate(secret)
      PROVE  UploadsTyped' /\ KeyInv'
  BY <1>5, ServerIsTyped, EncryptIsTyped, CreatedIsTyped
<1>6. QED
  BY <1>1, <1>2, <1>3, <1>4, <1>5 DEF UploadsNext

----------------------------------------------------------------------------
\* WorkIsKept.

LEMMA OtherIsIdle ==
  ASSUME WorkInv, kind = "file", alone, NEW r \in Callers, run[r] # Free
  PROVE  (\A q \in Callers \ {r} : run[q] = Free) /\ CallerAtWork(run[r]) /\ WorkIsNamed
BY DEF WorkInv

LEMMA WorkLater ==
  ASSUME NEW r \in Callers, \A q \in Callers \ {r} : run'[q] = Free,
         CallerAtWork(run[r])', WorkIsNamed'
  PROVE  WorkInv'
<1>1. \A q \in Callers \ {r} : run'[q].at = "idle"
  BY IdleIsProper
<1>2. \A q \in Callers \ {r} : CallerAtWork(run[q])'
  BY <1>1 DEF CallerAtWork
<1>3. QED
  BY <1>2 DEF WorkInv

LEMMA ServerWork ==
  ASSUME UploadsTyped, WorkInv, UNCHANGED <<kind, run, disk, alone>>, late' \subseteq late,
         NEW u \in 1..Len(srv), NEW n \in Upload, srv' = [srv EXCEPT ![u] = n],
         n.at = "open" => srv[u].at = "open",
         kind = "file" /\ Untouched(u) => n.got = <<>>
  PROVE  WorkInv'
<1> SUFFICES ASSUME kind = "file", alone PROVE WorkInv'
  BY DEF WorkInv
<1>1. /\ Len(srv') = Len(srv) /\ Len(srv) \in Nat
      /\ \A v \in 1..Len(srv) : srv'[v] = IF v = u THEN n ELSE srv[v]
  BY PutAt DEF UploadsTyped
<1>2. \A v \in 1..Len(srv) : /\ Untouched(v) => Untouched(v)'
                             /\ srv'[v].at = "open" => srv[v].at = "open"
  BY <1>1 DEF Untouched
<1>3. \A r \in Callers : CallerAtWork(run[r])'
  <2> TAKE r \in Callers
  <2>1. CallerAtWork(run[r]) /\ (run[r].at \in AtUpload => run[r].up \in 1..Len(srv))
    BY RunIs DEF WorkInv
  <2>2. CASE run[r].at \notin AtUpload
    BY <2>1, <2>2 DEF CallerAtWork, AtUpload
  <2>3. CASE run[r].at \in AtUpload
    <3>1. Untouched(run[r].up) => Untouched(run[r].up)'
      BY <1>2, <2>1, <2>3 DEF Untouched
    <3>2. srv'[run[r].up].at = "open" => srv[run[r].up].at = "open"
      BY <1>2, <2>1, <2>3
    <3>3. QED
      BY <2>1, <3>1, <3>2 DEF CallerAtWork
  <2>4. QED
    BY <2>2, <2>3
<1>4. WorkIsNamed'
  BY <1>1, <1>2 DEF WorkInv, WorkIsNamed
<1>5. QED
  BY <1>3, <1>4 DEF WorkInv

LEMMA ServerKeepsWork ==
  ASSUME UploadsTyped, WorkInv,
         \/ \E q \in late : Late(q)
         \/ \E u \in DOMAIN srv : Sweep(u) \/ Forget(u)
  PROVE  WorkInv'
<1>1. \A u \in 1..Len(srv) : srv[u] \in Upload
  BY DEF UploadsTyped
<1>2. ASSUME NEW q \in late, Late(q) PROVE WorkInv'
  <2> DEFINE n == Handled(q)
  <2>1. /\ srv' = [srv EXCEPT ![q.up] = n] /\ late' \subseteq late
        /\ UNCHANGED <<kind, disk, run, alone>>
    BY <1>2 DEF Late
  <2>2. q \in Asked /\ q.up \in 1..Len(srv) /\ OfKind(q.what)
    BY DEF UploadsTyped
  <2>3. n \in Upload /\ (n.at = "open" => srv[q.up].at = "open")
    BY <2>2, HandledIs
  <2>4. kind = "file" /\ Untouched(q.up) => n.got = <<>>
    <3>1. kind = "file" /\ Untouched(q.up) => q.what \in {"seal", "abort"}
      BY <2>2 DEF Untouched, OfKind, Asked, Asks
    <3>2. q.what \in {"seal", "abort"} => n.got = srv[q.up].got
      BY <2>2, HandledIs
    <3>3. QED
      BY <3>1, <3>2 DEF Untouched
  <2> HIDE DEF n
  <2>5. QED
    BY <2>1, <2>2, <2>3, <2>4, ServerWork
<1>3. ASSUME NEW u \in DOMAIN srv, Sweep(u) PROVE WorkInv'
  <2> DEFINE n == [srv[u] EXCEPT !.at = "gone"]
  <2>1. /\ srv' = [srv EXCEPT ![u] = n] /\ late' \subseteq late /\ srv[u].at = "open"
        /\ UNCHANGED <<kind, disk, run, alone>> /\ u \in 1..Len(srv)
    BY <1>3 DEF Sweep, UploadsTyped
  <2>2. n \in Upload /\ n.got = srv[u].got
    BY <1>1, <2>1 DEF Upload
  <2> HIDE DEF n
  <2>3. QED
    BY <2>1, <2>2, ServerWork DEF Untouched
<1>4. ASSUME NEW u \in DOMAIN srv, Forget(u) PROVE WorkInv'
  <2> DEFINE got == SubSeq(srv[u].got, 1, Len(srv[u].got) - 1)
             n == [srv[u] EXCEPT !.got = got, !.done = FALSE]
  <2>1. /\ srv' = [srv EXCEPT ![u].got = got, ![u].done = FALSE] /\ late' \subseteq late
        /\ UNCHANGED <<kind, disk, run, alone>> /\ srv[u].got # <<>> /\ u \in 1..Len(srv)
        /\ srv[u].at = "open"
    <3>1. u \in 1..Len(srv)
      BY DEF UploadsTyped
    <3>2. QED
      BY <1>4, <3>1 DEF Forget
  <2>2. got \in Seq(Nat)
    BY <1>1, <2>1 DEF Upload
  <2> HIDE DEF got
  <2>3. n \in Upload
    BY <1>1, <2>1, <2>2 DEF Upload
  <2>4. srv' = [srv EXCEPT ![u] = n]
    BY <1>1, <2>1 DEF UploadsTyped
  <2> HIDE DEF n
  <2>5. QED
    BY <2>1, <2>3, <2>4, ServerWork DEF Untouched
<1>5. QED
  BY <1>2, <1>3, <1>4

LEMMA StartKeepsWork ==
  ASSUME UploadShapes, UploadsTyped, WorkInv, ToldIsSealed, NEW r \in Callers,
         \/ \E secret, posts \in BOOLEAN : UploadFile(r, secret, posts)
         \/ \E u \in DOMAIN srv : \/ \E len \in 1..Chunks : Put(r, u, len)
                                  \/ Abort(r, u)
                                  \/ SendAttachment(r, u)
  PROVE  WorkInv'
<1> DEFINE Going(x) == /\ Begins(r, x) /\ UNCHANGED <<kind, srv, disk, late>> /\ kind = "file"
                       /\ CallerAtWork(x)
<1>1. ASSUME kind # "file" PROVE WorkInv'
  <2>1. kind' = kind
    BY DEF UploadFile, Put, PutBeside, Abort, SendAttachment
  <2>2. QED
    BY <1>1, <2>1 DEF WorkInv
<1>2. ASSUME NEW x, Going(x) PROVE WorkInv'
  <2> SUFFICES ASSUME alone' PROVE WorkInv'
    BY DEF WorkInv
  <2>1. alone /\ \A q \in Callers : run[q] = Free
    BY <1>2 DEF Begins
  <2>2. \A q \in Callers : run'[q] = IF q = r THEN x ELSE Free
    BY <1>2, <2>1 DEF Begins, UploadsTyped
  <2>3. CallerAtWork(run[r])'
    BY <1>2, <2>2 DEF CallerAtWork, Untouched
  <2>4. WorkIsNamed'
    BY <1>2, <2>1 DEF WorkInv, WorkIsNamed, Untouched
  <2>5. QED
    BY <2>2, <2>3, <2>4, WorkLater
<1>3. ASSUME NEW secret \in BOOLEAN, NEW posts \in BOOLEAN, UploadFile(r, secret, posts)
      PROVE  WorkInv'
  <2> DEFINE x == [Free EXCEPT !.at = IF disk = 0 THEN "create" ELSE "status", !.up = disk,
                               !.len = Chunks, !.secret = secret, !.posts = posts,
                               !.asked = posts /\ encrypted]
  <2>1. x.at = (IF disk = 0 THEN "create" ELSE "status") /\ x.up = disk
    BY DEF Free
  <2>2. Begins(r, x) /\ UNCHANGED <<kind, srv, disk, late>> /\ kind = "file"
    BY <1>3 DEF UploadFile
  <2> HIDE DEF x
  <2>3. CallerAtWork(x)
    BY <2>1 DEF CallerAtWork
  <2>4. QED
    BY <1>2, <2>2, <2>3
<1>4. ASSUME NEW u \in DOMAIN srv, Abort(r, u), kind = "file" PROVE WorkInv'
  <2> DEFINE x == [Free EXCEPT !.at = "abort", !.up = u]
  <2>1. x.at = "abort" /\ x.up = u /\ u = disk
    BY <1>4 DEF Free, Abort
  <2>2. Begins(r, x) /\ UNCHANGED <<kind, srv, disk, late>>
    BY <1>4 DEF Abort
  <2> HIDE DEF x
  <2>3. CallerAtWork(x)
    BY <2>1 DEF CallerAtWork
  <2>4. QED
    BY <1>2, <1>4, <2>2, <2>3
<1>5. ASSUME NEW u \in DOMAIN srv, SendAttachment(r, u), kind = "file" PROVE WorkInv'
  <2> DEFINE x == [Free EXCEPT !.at = "post", !.up = u, !.asked = encrypted]
  <2>1. x.at = "post" /\ x.up = u /\ srv[u].told # NoManifest /\ u \in 1..Len(srv)
    <3>1. x.at = "post" /\ x.up = u
      BY DEF Free
    <3>2. srv[u].told # NoManifest
      BY <1>5 DEF SendAttachment
    <3>3. QED
      BY <3>1, <3>2 DEF UploadsTyped
  <2>2. Begins(r, x) /\ UNCHANGED <<kind, srv, disk, late>>
    BY <1>5 DEF SendAttachment
  <2> HIDE DEF x
  <2>3. CallerAtWork(x)
    BY <2>1 DEF CallerAtWork, ToldIsSealed
  <2>4. QED
    BY <1>2, <1>5, <2>2, <2>3
<1>6. ASSUME NEW u \in DOMAIN srv, NEW len \in 1..Chunks, Put(r, u, len) PROVE kind # "file"
  BY <1>6 DEF Put, PutBeside
<1>7. QED
  BY <1>1, <1>3, <1>4, <1>5, <1>6

LEMMA CreatedKeepsWork ==
  ASSUME UploadsTyped, WorkInv,
         (\E secret \in BOOLEAN : MediaCreate(secret)) \/ \E r \in Callers : Created(r)
  PROVE  WorkInv'
<1>1. CASE \E secret \in BOOLEAN : MediaCreate(secret)
  BY <1>1 DEF MediaCreate, WorkInv
<1>2. ASSUME NEW r \in Callers, Created(r) PROVE WorkInv'
  <2> SUFFICES ASSUME kind = "file", alone PROVE WorkInv'
    BY <1>2 DEF Created, WorkInv
  <2> DEFINE new == NewUpload(run[r].secret)
  <2>1. /\ srv' = Append(srv, new) /\ run[r].at = "create"
        /\ run' = [run EXCEPT ![r].at = "write", ![r].up = Len(srv) + 1]
        /\ UNCHANGED <<disk, late>>
    BY <1>2 DEF Created
  <2>2. new \in Upload /\ new.got = <<>>
    BY RunIs, NewUploadIs DEF Caller
  <2> HIDE DEF new
  <2>3. /\ Len(srv') = Len(srv) + 1 /\ Len(srv) \in Nat /\ srv'[Len(srv) + 1] = new
        /\ \A v \in 1..Len(srv) : srv'[v] = srv[v]
    BY <2>1, <2>2, Appended DEF UploadsTyped
  <2>4. (\A q \in Callers \ {r} : run[q] = Free) /\ disk = 0 /\ WorkIsNamed
    BY <2>1, OtherIsIdle, IdleIsProper DEF CallerAtWork
  <2>5. PICK up \in Nat : up = Len(srv) + 1
    BY <2>3
  <2>6. run'[r].at = "write" /\ run'[r].up = up /\ \A q \in Callers \ {r} : run'[q] = Free
    BY <2>1, <2>4, <2>5, RunIs DEF UploadsTyped, Caller
  <2>7. Untouched(up)'
    BY <2>1, <2>2, <2>3, <2>5 DEF UploadsTyped, Untouched
  <2>8. CallerAtWork(run[r])'
    BY <2>1, <2>4, <2>6, <2>7 DEF CallerAtWork, Untouched
  <2>9. WorkIsNamed'
    <3> SUFFICES ASSUME NEW v \in 1..Len(srv'), srv'[v].at = "open", disk' # v
                 PROVE  Untouched(v)'
      BY DEF WorkIsNamed
    <3>1. CASE v = up
      BY <2>7, <3>1 DEF Untouched
    <3>2. CASE v # up
      <4>1. v \in 1..Len(srv) /\ srv'[v] = srv[v]
        BY <2>3, <2>5, <3>2
      <4>2. QED
        BY <2>1, <2>4, <4>1 DEF WorkIsNamed, Untouched
    <3>3. QED
      BY <3>1, <3>2
  <2>10. QED
    BY <2>6, <2>8, <2>9, WorkLater
<1>3. QED
  BY <1>1, <1>2

LEMMA GoesToChunks ==
  ASSUME NEW r, NEW x \in Caller
  PROVE  Goes(r, x) = Free \/ (Goes(r, x).at \in {"chunk", "seal"} /\ Goes(r, x).up = x.up)
BY GoesIs DEF Caller

LEMMA StepsKeepWork ==
  ASSUME UploadsTyped, WorkInv, NEW r \in Callers,
         WriteState(r) \/ StatusAnswered(r) \/ RemoveState(r) \/ Ends(r) \/ Posted(r)
  PROVE  WorkInv'
<1> SUFFICES ASSUME kind = "file", alone PROVE WorkInv'
  BY DEF WriteState, StatusAnswered, RemoveState, Ends, Posted, WorkInv
<1> DEFINE c == run[r]
<1>1. /\ c # Free /\ c \in Caller /\ UNCHANGED srv /\ Len(srv) \in Nat
      /\ c.at \in AtUpload => c.up \in 1..Len(srv)
  BY RunIs, IdleIsProper DEF WriteState, StatusAnswered, RemoveState, Ends, Posted
<1>2. (\A q \in Callers \ {r} : run[q] = Free) /\ CallerAtWork(c) /\ WorkIsNamed
  BY <1>1, OtherIsIdle
<1>3. \A x : run' = [run EXCEPT ![r] = x] =>
        run'[r] = x /\ \A q \in Callers \ {r} : run'[q] = Free
  BY <1>2 DEF UploadsTyped
<1>4. ASSUME NEW x, run' = [run EXCEPT ![r] = x], late' = late,
             x = Free \/ (x.at \in {"chunk", "seal"} /\ disk' = x.up)
                      \/ (x.at = "post" /\ srv[x.up].at # "open"),
             \A v \in 1..Len(srv) : srv[v].at = "open" /\ disk' # v => disk # v
      PROVE  WorkInv'
  <2>1. run'[r] = x /\ \A q \in Callers \ {r} : run'[q] = Free
    BY <1>3, <1>4
  <2>2. CallerAtWork(run[r])'
    BY <1>1, <1>4, <2>1, IdleIsProper DEF CallerAtWork
  <2>3. WorkIsNamed'
    BY <1>1, <1>2, <1>4 DEF WorkIsNamed, Untouched
  <2>4. QED
    BY <2>1, <2>2, <2>3, WorkLater
<1>5. CASE WriteState(r)
  <2>1. /\ disk' = c.up /\ run' = [run EXCEPT ![r] = Goes(r, c)] /\ late' = late /\ disk = 0
    BY <1>2, <1>5 DEF WriteState, CallerAtWork
  <2>2. \A v \in 1..Len(srv) : disk # v
    BY <2>1
  <2>3. QED
    BY <1>1, <1>4, <2>1, <2>2, GoesToChunks
<1>6. CASE StatusAnswered(r)
  <2> DEFINE x == AfterStatus(r)
  <2>1. /\ run' = [run EXCEPT ![r] = x] /\ late' = late /\ disk' = disk /\ disk = c.up
    BY <1>2, <1>6 DEF StatusAnswered, CallerAtWork
  <2>2. x = Free \/ (x.at \in {"chunk", "seal"} /\ x.up = c.up)
    <3> DEFINE received == Len(srv[c.up].got)
               cut == kind = "put" /\ Cut(received)
               y == [c EXCEPT !.next = received, !.cut = cut]
    <3>1. x = Free \/ x = Goes(r, y)
      BY DEF AfterStatus
    <3>2. received \in Nat /\ cut \in BOOLEAN
      BY <1>6, RunIs DEF StatusAnswered, AtUpload, Upload, Cut
    <3> HIDE DEF received, cut
    <3>3. y \in Caller /\ y.up = c.up
      BY <1>1, <3>2 DEF Caller
    <3> HIDE DEF y, x
    <3>4. QED
      BY <3>1, <3>3, GoesToChunks
  <2> HIDE DEF x
  <2>3. QED
    BY <1>4, <2>1, <2>2
<1>7. CASE RemoveState(r)
  <2> DEFINE x == IF c.posts /\ Fits(srv[c.up].secret, c.asked)
                    THEN [c EXCEPT !.at = "post"] ELSE Free
  <2>1. /\ run' = [run EXCEPT ![r] = x] /\ late' = late /\ disk' = 0 /\ c.at = "remove"
    BY <1>7 DEF RemoveState
  <2>2. disk = c.up /\ srv[c.up].at # "open"
    BY <1>2, <2>1 DEF CallerAtWork
  <2>3. x = Free \/ (x.at = "post" /\ srv[x.up].at # "open")
    BY <1>1, <2>2 DEF Caller
  <2> HIDE DEF x
  <2>4. QED
    BY <1>4, <2>1, <2>2, <2>3
<1>8. CASE Posted(r)
  <2>1. run' = [run EXCEPT ![r] = Free] /\ UNCHANGED <<late, disk>>
    BY <1>8 DEF Posted
  <2>2. QED
    BY <1>4, <2>1
<1>9. CASE Ends(r)
  <2>1. /\ run' = [run EXCEPT ![r] = Free] /\ disk' = disk
        /\ late' = late \/ (c.at \in Asks /\ late' = late \cup {Request(c)})
    BY <1>9 DEF Ends
  <2>2. \A q \in late' : q \in late \/ (q.what = "chunk" => q.up = disk)
    <3>1. c.at \in Asks => Request(c).what = c.at /\ Request(c).up = c.up
      BY RequestIs
    <3>2. c.at = "chunk" => disk = c.up
      BY <1>2 DEF CallerAtWork
    <3>3. QED
      BY <2>1, <3>1, <3>2
  <2>3. run'[r] = Free /\ \A q \in Callers \ {r} : run'[q] = Free
    BY <1>3, <2>1
  <2>4. CallerAtWork(run[r])'
    BY <2>3, IdleIsProper DEF CallerAtWork
  <2>5. WorkIsNamed'
    BY <1>1, <1>2, <2>1, <2>2 DEF WorkIsNamed, Untouched
  <2>6. QED
    BY <2>3, <2>4, <2>5, WorkLater
<1>10. QED
  BY <1>5, <1>6, <1>7, <1>8, <1>9

LEMMA AnswersKeepWork ==
  ASSUME UploadsTyped, WorkInv, NEW r \in Callers,
         ChunkAnswered(r) \/ SealAnswered(r) \/ WholeAnswered(r) \/ AbortAnswered(r)
  PROVE  WorkInv'
<1> SUFFICES ASSUME kind = "file", alone PROVE WorkInv'
  BY DEF ChunkAnswered, SealAnswered, WholeAnswered, AbortAnswered, WorkInv
<1> DEFINE c == run[r]
           q == Request(c)
           u == c.up
           s == srv[u]
           n == Handled(q)
<1>1. /\ c.at \in Asks /\ UNCHANGED <<disk, late>>
  BY DEF ChunkAnswered, SealAnswered, WholeAnswered, AbortAnswered, Asks
<1>2. /\ q \in Asked /\ q.up = u /\ q.what = c.at /\ u \in 1..Len(srv) /\ s \in Upload
      /\ c \in Caller /\ c.at # "whole" /\ Len(srv) \in Nat
  BY <1>1, RequestIs, RunIs DEF OfKind, Asks, AtUpload
<1>3. /\ n \in Upload /\ (s.at # "open" => n = s)
      /\ c.at = "seal" => n = s \/ n.at = "sealed"
      /\ c.at = "abort" /\ s.at = "open" => n.at # "open"
  BY <1>2, HandledIs
<1>4. (\A p \in Callers \ {r} : run[p] = Free) /\ disk = u /\ WorkIsNamed
  <2>1. c # Free
    BY <1>1, IdleIsProper DEF Asks
  <2>2. QED
    BY <1>1, <1>2, <2>1, OtherIsIdle DEF Asks, CallerAtWork
<1>5. ASSUME NEW x, NEW m \in Upload, run' = [run EXCEPT ![r] = x],
             srv' = [srv EXCEPT ![u] = m] \/ srv' = srv,
             x = Free \/ (x.at \in {"chunk", "seal"} /\ x.up = u)
                      \/ (x.at = "remove" /\ x.up = u /\ srv'[u].at # "open")
      PROVE  WorkInv'
  <2>1. run'[r] = x /\ \A p \in Callers \ {r} : run'[p] = Free
    BY <1>4, <1>5 DEF UploadsTyped
  <2>2. Len(srv') = Len(srv) /\ \A v \in 1..Len(srv) : v # u => srv'[v] = srv[v]
    BY <1>2, <1>5, PutAt DEF UploadsTyped
  <2>3. CallerAtWork(run[r])'
    BY <1>1, <1>4, <1>5, <2>1, IdleIsProper DEF CallerAtWork
  <2>4. WorkIsNamed'
    BY <1>1, <1>4, <2>2 DEF WorkIsNamed, Untouched
  <2>5. QED
    BY <2>1, <2>3, <2>4, WorkLater
<1>6. CASE ChunkAnswered(r)
  <2> DEFINE x == AfterChunk(r, s, n)
  <2>1. /\ srv' = [srv EXCEPT ![u] = n] /\ run' = [run EXCEPT ![r] = x] /\ c.at = "chunk"
    BY <1>2, <1>6 DEF ChunkAnswered
  <2>2. x = Free \/ (x.at \in {"chunk", "seal"} /\ x.up = u)
    BY <1>2, <1>3, <2>1, AfterChunkIs, GoesToChunks DEF GoesOnFrom
  <2> HIDE DEF x, n
  <2>3. QED
    BY <1>3, <1>5, <2>1, <2>2
<1>7. CASE SealAnswered(r)
  <2> DEFINE sealed == n # s
             m == [n EXCEPT !.told = Manifest(c)]
             x == [c EXCEPT !.at = "remove"]
  <2>1. /\ c.at = "seal"
        /\ srv' = (IF sealed THEN [srv EXCEPT ![u] = m] ELSE srv)
        /\ run' = [run EXCEPT ![r] = IF sealed /\ kind = "file" THEN x ELSE Free]
    BY <1>7 DEF SealAnswered
  <2>2. m \in Upload /\ m.at = n.at /\ x.at = "remove" /\ x.up = u
    BY <1>2, <1>3, ManifestIs DEF Upload, Caller
  <2> HIDE DEF m, x, n, s
  <2>3. CASE sealed
    <3>1. srv' = [srv EXCEPT ![u] = m] /\ run' = [run EXCEPT ![r] = x] /\ n.at = "sealed"
      BY <1>3, <2>1, <2>3
    <3>2. srv'[u] = m
      BY <1>2, <2>2, <3>1, PutAt DEF UploadsTyped
    <3>3. x.at = "remove" /\ x.up = u /\ srv'[u].at # "open"
      BY <2>2, <3>1, <3>2
    <3>4. QED
      BY <1>5, <2>2, <3>1, <3>3
  <2>4. CASE ~sealed
    BY <1>3, <1>5, <2>1, <2>4
  <2>5. QED
    BY <2>3, <2>4
<1>8. CASE WholeAnswered(r)
  BY <1>2, <1>8 DEF WholeAnswered
<1>9. CASE AbortAnswered(r)
  <2> DEFINE x == [c EXCEPT !.at = "remove"]
  <2>1. /\ c.at = "abort" /\ srv' = [srv EXCEPT ![u] = n]
        /\ run' = [run EXCEPT ![r] = IF s.at = "open" /\ kind = "file" THEN x ELSE Free]
    BY <1>9 DEF AbortAnswered
  <2>2. x.at = "remove" /\ x.up = u
    BY <1>2 DEF Caller
  <2> HIDE DEF x, n, s
  <2>3. srv'[u] = n
    BY <1>2, <1>3, <2>1, PutAt DEF UploadsTyped
  <2>4. CASE s.at = "open"
    <3>1. run' = [run EXCEPT ![r] = x] /\ srv'[u].at # "open"
      BY <1>3, <2>1, <2>3, <2>4
    <3>2. QED
      BY <1>3, <1>5, <2>1, <2>2, <3>1
  <2>5. CASE s.at # "open"
    BY <1>3, <1>5, <2>1, <2>5
  <2>6. QED
    BY <2>4, <2>5
<1>10. QED
  BY <1>6, <1>7, <1>8, <1>9

LEMMA NextWork ==
  ASSUME UploadShapes, UploadsTyped, WorkInv, ToldIsSealed, UploadsNext
  PROVE  WorkInv'
<1>1. ASSUME NEW r \in Callers,
             \/ \E secret, posts \in BOOLEAN : UploadFile(r, secret, posts)
             \/ \E u \in DOMAIN srv : \/ \E len \in 1..Chunks : Put(r, u, len)
                                      \/ Abort(r, u)
                                      \/ SendAttachment(r, u)
      PROVE  WorkInv'
  BY <1>1, StartKeepsWork
<1>2. ASSUME NEW r \in Callers,
             WriteState(r) \/ StatusAnswered(r) \/ RemoveState(r) \/ Ends(r) \/ Posted(r)
      PROVE  WorkInv'
  BY <1>2, StepsKeepWork
<1>3. ASSUME NEW r \in Callers,
             ChunkAnswered(r) \/ SealAnswered(r) \/ WholeAnswered(r) \/ AbortAnswered(r)
      PROVE  WorkInv'
  BY <1>3, AnswersKeepWork
<1>4. ASSUME (\E secret \in BOOLEAN : MediaCreate(secret)) \/ \E r \in Callers : Created(r)
      PROVE  WorkInv'
  BY <1>4, CreatedKeepsWork
<1>5. ASSUME (\E q \in late : Late(q)) \/ \E u \in DOMAIN srv : Sweep(u) \/ Forget(u)
      PROVE  WorkInv'
  BY <1>5, ServerKeepsWork
<1>6. CASE Encrypt
  BY <1>6 DEF Encrypt, WorkInv, CallerAtWork, WorkIsNamed, Untouched
<1>7. QED
  BY <1>1, <1>2, <1>3, <1>4, <1>5, <1>6 DEF UploadsNext

----------------------------------------------------------------------------
\* SealedIsOneBody.

\* A caller goes on, and the uploads stay.
LEMMA CallerKeepsBody ==
  ASSUME UploadsTyped, BodyInv, NEW r \in Callers, NEW x, run' = [run EXCEPT ![r] = x],
         UNCHANGED <<kind, limit, srv, overtaken>>, CallerBrings(x),
         \A q \in late' : q \in late \/ (kind \in {"file", "put"} => q.body = 0),
         \/ kind = "file" \/ x.at \notin Receives
         \/ run[r].at \in Receives /\ x.up = run[r].up
         \/ \A q \in Callers : run[q].at \in Receives => run[q].up # x.up
  PROVE  BodyInv'
<1>1. \A q \in Callers : run'[q] = IF q = r THEN x ELSE run[q]
  BY DEF UploadsTyped
<1>2. \A q \in Callers : CallerBrings(run'[q])
  BY <1>1 DEF BodyInv
<1>3. (\A q \in Callers : CallerBrings(run[q]))'
  BY <1>2 DEF CallerBrings, PutKnows, StreamIsOwn, Cut
<1>4. \A u \in 1..Len(srv) : UploadHas(u)' /\ (u \notin overtaken => IsTold(u)')
  BY DEF BodyInv, UploadHas, IsTold, Cut
<1>5. OneReceives'
  BY <1>1 DEF BodyInv, OneReceives
<1>6. QED
  BY <1>3, <1>4, <1>5 DEF BodyInv

LEMMA QuietKeepsBody ==
  ASSUME BodyInv, UNCHANGED <<kind, limit, srv, run, late, overtaken>>
  PROVE  BodyInv'
<1>1. (\A r \in Callers : CallerBrings(run[r]))'
  BY DEF BodyInv, CallerBrings, PutKnows, StreamIsOwn, Cut
<1>2. \A u \in 1..Len(srv) : UploadHas(u)' /\ (u \notin overtaken => IsTold(u)')
  BY DEF BodyInv, UploadHas, IsTold, Cut
<1>3. OneReceives'
  BY DEF BodyInv, OneReceives
<1>4. QED
  BY <1>1, <1>2, <1>3 DEF BodyInv

\* Nothing is there that was not: a change that another caller of the upload may stand.
Shorter(s, n) ==
  \/ n.got = s.got /\ n.done = s.done
  \/ /\ ~n.done /\ Len(n.got) <= Len(s.got)
     /\ \A i \in 1..Len(n.got) : n.got[i] = s.got[i]

\* An upload changes, and perhaps callers (`R`) go on.
Alters(u, n, R) ==
  /\ kind' = kind /\ limit' = limit /\ late' \subseteq late
  /\ srv' = [srv EXCEPT ![u] = n]
  /\ overtaken \subseteq overtaken' /\ overtaken' \subseteq overtaken \cup {u}
  /\ UploadHas(u)' /\ (u \notin overtaken' => IsTold(u)')
  /\ \A r \in Callers \ R : run'[r] = run[r]
  /\ (\A r \in R : CallerBrings(run[r]))'
  /\ \A r \in R :
       run'[r].at \in Receives => run[r].at \in Receives /\ run'[r].up = run[r].up
  /\ \A r \in Callers \ R :
       kind = "stream" /\ u \notin overtaken' /\ run[r].up = u /\ run[r].at \in {"chunk", "seal"}
         => Shorter(srv[u], n)

LEMMA UploadKeepsBody ==
  ASSUME UploadsTyped, UploadsTyped', BodyInv, NEW u \in 1..Len(srv), NEW n \in Upload,
         NEW R \in SUBSET Callers, Alters(u, n, R)
  PROVE  BodyInv'
<1>now. /\ kind' = kind /\ limit' = limit /\ late' \subseteq late
        /\ overtaken \subseteq overtaken' /\ overtaken' \subseteq overtaken \cup {u}
        /\ UploadHas(u)' /\ (u \notin overtaken' => IsTold(u)')
  BY DEF Alters
<1>srv. srv' = [srv EXCEPT ![u] = n]
  BY DEF Alters
<1>rest. \A r \in Callers \ R : run'[r] = run[r]
  BY DEF Alters
<1>those. (\A r \in R : CallerBrings(run[r]))'
  BY DEF Alters
<1>keep. \A r \in R :
           run'[r].at \in Receives => run[r].at \in Receives /\ run'[r].up = run[r].up
  BY DEF Alters
<1>stand. \A r \in Callers \ R :
       kind = "stream" /\ u \notin overtaken' /\ run[r].up = u /\ run[r].at \in {"chunk", "seal"}
         => Shorter(srv[u], n)
  BY DEF Alters
<1>1. /\ Len(srv') = Len(srv) /\ Len(srv) \in Nat
      /\ \A v \in 1..Len(srv) : srv'[v] \in Upload /\ srv'[v] = IF v = u THEN n ELSE srv[v]
  BY <1>srv, PutAt DEF UploadsTyped
<1>2. \A v \in 1..Len(srv) : UploadHas(v)' /\ (v \notin overtaken' => IsTold(v)')
  <2> TAKE v \in 1..Len(srv)
  <2>1. CASE v = u
    BY <1>now, <2>1
  <2>2. CASE v # u
    <3>1. srv'[v] = srv[v] /\ UploadHas(v) /\ (v \notin overtaken => IsTold(v))
      BY <1>1, <2>2 DEF BodyInv
    <3>2. QED
      BY <1>now, <2>2, <3>1 DEF UploadHas, IsTold, Cut
  <2>3. QED
    BY <2>1, <2>2
<1>3. \A r \in Callers : CallerBrings(run[r])'
  <2> SUFFICES ASSUME NEW r \in Callers \ R PROVE CallerBrings(run[r])'
    BY <1>those
  <2>1. run'[r] = run[r] /\ CallerBrings(run[r])
    BY <1>rest DEF BodyInv
  <2>2. kind = "put" /\ run[r].at \in {"chunk", "seal"} => PutKnows(run[r])'
    BY <1>now, <2>1 DEF CallerBrings, PutKnows, Cut
  <2>3. ASSUME kind = "stream", run[r].at \in {"chunk", "seal"} PROVE StreamIsOwn(run[r])'
    <3> DEFINE x == run[r]
               s == srv[x.up]
               t == srv'[x.up]
    <3>1. StreamIsOwn(x) /\ x.up \in 1..Len(srv) /\ x \in Caller /\ s \in Upload
      BY <2>1, <2>3, RunIs DEF CallerBrings, AtUpload
    <3>2. ASSUME x.up \notin overtaken'
          PROVE  /\ \A i \in 1..Len(t.got) : t.got[i] = x.body
                 /\ Len(t.got) <= x.next
                 /\ t.done => x.at = "seal" /\ Len(t.got) = x.len
      <4>1. /\ \A i \in 1..Len(s.got) : s.got[i] = x.body
            /\ Len(s.got) <= x.next
            /\ s.done => x.at = "seal" /\ Len(s.got) = x.len
        BY <1>now, <3>1, <3>2 DEF StreamIsOwn
      <4>2. t = s \/ Shorter(s, t)
        BY <1>1, <1>stand, <2>1, <2>3, <3>1, <3>2
      <4>3. Len(s.got) \in Nat /\ x.next \in Nat /\ t \in Upload /\ Len(t.got) \in Nat
        <5>1. t \in Upload
          BY <1>1, <3>1
        <5> HIDE DEF s, t, x
        <5>2. QED
          BY <3>1, <5>1 DEF Upload, Caller
      <4> HIDE DEF s, t, x
      <4>4. CASE Shorter(s, t)
        BY <4>1, <4>3, <4>4 DEF Shorter
      <4>5. QED
        BY <4>1, <4>2, <4>4
    <3>3. QED
      BY <1>now, <2>1, <3>1, <3>2 DEF StreamIsOwn, Cut
  <2>4. QED
    BY <1>now, <2>1, <2>2, <2>3 DEF CallerBrings
<1>4. OneReceives'
  <2>1. \A r \in Callers :
          run'[r].at \in Receives => run[r].at \in Receives /\ run'[r].up = run[r].up
    BY <1>rest, <1>keep
  <2>2. QED
    BY <1>now, <2>1 DEF BodyInv, OneReceives
<1>5. QED
  BY <1>now, <1>1, <1>2, <1>3, <1>4 DEF BodyInv

LEMMA InitBody ==
  ASSUME UploadShapes, UploadsInit
  PROVE  KeyInv /\ WorkInv /\ BodyInv
<1>1. /\ srv = <<>> /\ Len(srv) = 0 /\ late = {} /\ posted = {} /\ disk = 0
      /\ \A r \in Callers : run[r] = Free
  BY DEF UploadsInit
<1>2. KeyInv
  BY <1>1, IdleIsProper DEF KeyInv, KeyStaysSecret
<1>3. WorkInv
  BY <1>1, IdleIsProper DEF WorkInv, CallerAtWork, WorkIsNamed
<1>4. \A r \in Callers : CallerBrings(run[r]) /\ run[r].at \notin Receives
  BY <1>1, IdleIsProper DEF CallerBrings, Brings, Receives
<1>5. BodyInv
  BY <1>1, <1>4 DEF BodyInv, OneReceives
<1>6. QED
  BY <1>2, <1>3, <1>5

LEMMA StartKeepsBody ==
  ASSUME UploadShapes, UploadsTyped, BodyInv, NEW r \in Callers,
         \/ \E secret, posts \in BOOLEAN : UploadFile(r, secret, posts)
         \/ \E u \in DOMAIN srv : \/ \E len \in 1..Chunks : Put(r, u, len)
                                  \/ Abort(r, u)
                                  \/ SendAttachment(r, u)
  PROVE  BodyInv'
<1>1. ASSUME NEW x, Begins(r, x), UNCHANGED <<kind, limit, srv, overtaken, late>>,
             CallerBrings(x),
             \/ kind = "file" \/ x.at \notin Receives
             \/ \A q \in Callers : run[q].at \in Receives => run[q].up # x.up
      PROVE  BodyInv'
  <2>1. run' = [run EXCEPT ![r] = x] /\ \A q \in late' : q \in late
    BY <1>1 DEF Begins
  <2>2. QED
    BY <1>1, <2>1, CallerKeepsBody
<1>2. ASSUME NEW secret \in BOOLEAN, NEW posts \in BOOLEAN, UploadFile(r, secret, posts)
      PROVE  BodyInv'
  <2> DEFINE x == [Free EXCEPT !.at = IF disk = 0 THEN "create" ELSE "status", !.up = disk,
                               !.len = Chunks, !.secret = secret, !.posts = posts,
                               !.asked = posts /\ encrypted]
  <2>1. x.at \in {"create", "status"} /\ x.len = Chunks /\ x.body = 0
    BY DEF Free
  <2>2. Begins(r, x) /\ UNCHANGED <<kind, limit, srv, overtaken, late>> /\ kind = "file"
    BY <1>2 DEF UploadFile
  <2> HIDE DEF x
  <2>3. CallerBrings(x)
    BY <2>1, <2>2 DEF CallerBrings
  <2>4. QED
    BY <1>1, <2>2, <2>3
<1>3. ASSUME NEW u \in DOMAIN srv, NEW len \in 1..Chunks, Put(r, u, len)
      PROVE  BodyInv'
  <2> DEFINE x == [Free EXCEPT !.at = IF kind = "whole" THEN "whole" ELSE "status",
                               !.up = u, !.len = len, !.body = Body]
  <2>1. /\ x.at = (IF kind = "whole" THEN "whole" ELSE "status") /\ x.len = len /\ x.body = Body
        /\ x.up = u
    BY DEF Free
  <2>2. /\ Begins(r, x) /\ UNCHANGED <<kind, limit, srv, overtaken, late>> /\ kind # "file"
        /\ len = Chunks \/ kind = "stream"
        /\ \A q \in Callers : run[q].at \in Receives => run[q].up # u
    BY <1>3 DEF Put, PutBeside, Receives
  <2> HIDE DEF x
  <2>3. CallerBrings(x)
    <3>1. kind \in {"file", "put"} => Body = 0
      BY DEF Body
    <3>2. len # 0
      BY DEF UploadShapes
    <3>3. QED
      BY <2>1, <2>2, <3>1, <3>2 DEF CallerBrings
  <2>4. QED
    BY <1>1, <2>1, <2>2, <2>3
<1>4. ASSUME NEW u \in DOMAIN srv, Abort(r, u)
      PROVE  BodyInv'
  <2> DEFINE x == [Free EXCEPT !.at = "abort", !.up = u]
  <2>1. x.at = "abort" /\ x.body = 0
    BY DEF Free
  <2>2. Begins(r, x) /\ UNCHANGED <<kind, limit, srv, overtaken, late>>
    BY <1>4 DEF Abort
  <2> HIDE DEF x
  <2>3. CallerBrings(x) /\ x.at \notin Receives
    BY <2>1 DEF CallerBrings, Brings, Receives
  <2>4. QED
    BY <1>1, <2>2, <2>3
<1>5. ASSUME NEW u \in DOMAIN srv, SendAttachment(r, u)
      PROVE  BodyInv'
  <2> DEFINE x == [Free EXCEPT !.at = "post", !.up = u, !.asked = encrypted]
  <2>1. x.at = "post" /\ x.body = 0
    BY DEF Free
  <2>2. Begins(r, x) /\ UNCHANGED <<kind, limit, srv, overtaken, late>>
    BY <1>5 DEF SendAttachment
  <2> HIDE DEF x
  <2>3. CallerBrings(x) /\ x.at \notin Receives
    BY <2>1 DEF CallerBrings, Brings, Receives
  <2>4. QED
    BY <1>1, <2>2, <2>3
<1>6. QED
  BY <1>2, <1>3, <1>4, <1>5

LEMMA CutGrows ==
  ASSUME UploadsTyped, NEW m \in Nat, NEW n \in Nat, m <= n, Cut(m)
  PROVE  Cut(n)
BY DEF UploadsTyped, Cut

LEMMA StepsKeepBody ==
  ASSUME UploadShapes, UploadsTyped, BodyInv, NEW r \in Callers,
         WriteState(r) \/ StatusAnswered(r) \/ RemoveState(r) \/ Ends(r) \/ Posted(r)
  PROVE  BodyInv'
<1> DEFINE c == run[r]
<1>1. /\ UNCHANGED <<kind, limit, srv, overtaken>> /\ c \in Caller /\ CallerBrings(c)
      /\ CallerBrings(Free) /\ Free.at \notin Receives
  BY RunIs, IdleIsProper
     DEF WriteState, StatusAnswered, RemoveState, Ends, Posted, BodyInv, CallerBrings, Brings,
         Receives
<1>2. CASE WriteState(r)
  <2> DEFINE x == Goes(r, c)
  <2>1. run' = [run EXCEPT ![r] = x] /\ late' = late /\ c.at = "write"
    BY <1>2 DEF WriteState
  <2>2. kind = "file" /\ c.len = Chunks /\ c.body = 0
    BY <1>1, <2>1 DEF CallerBrings, Brings
  <2>3. x = Free \/ (x.at \in {"chunk", "seal"} /\ x.len = c.len /\ x.body = c.body)
    BY <1>1, GoesIs DEF Caller
  <2> HIDE DEF x
  <2>4. CallerBrings(x)
    BY <1>1, <2>2, <2>3 DEF CallerBrings
  <2>5. QED
    BY <1>1, <2>1, <2>2, <2>4, CallerKeepsBody
<1>3. CASE StatusAnswered(r)
  <2> DEFINE x == AfterStatus(r)
             s == srv[c.up]
             received == Len(s.got)
             cut == kind = "put" /\ Cut(received)
             y == [c EXCEPT !.next = received, !.cut = cut]
  <2>1. run' = [run EXCEPT ![r] = x] /\ late' = late /\ c.at = "status"
    BY <1>3 DEF StatusAnswered
  <2>2. c.up \in 1..Len(srv) /\ s \in Upload /\ received \in Nat /\ cut \in BOOLEAN /\ UploadHas(c.up)
    BY <2>1, RunIs DEF AtUpload, Upload, Cut, BodyInv
  <2>3. x = Free \/ (x = Goes(r, y) /\ (kind = "stream" => received = 0))
    BY DEF AfterStatus
  <2> HIDE DEF received, cut
  <2>4. /\ y \in Caller /\ y.up = c.up /\ y.len = c.len /\ y.body = c.body
        /\ y.next = received /\ y.cut = cut
    BY <1>1, <2>2 DEF Caller
  <2> HIDE DEF y, x
  <2>5. x = Free \/ /\ x.at \in {"chunk", "seal"} /\ x.up = c.up /\ x.len = c.len
                    /\ x.body = c.body /\ x.next = received /\ x.cut = cut
                    /\ (x.at = "seal" <=> x.next >= x.len)
                    /\ kind = "stream" => received = 0
    BY <2>3, <2>4, GoesIs DEF Caller
  <2>6. ASSUME x # Free PROVE CallerBrings(x)
    <3>1. /\ c.len \in Nat /\ c.at \in Brings /\ c.body \in Nat
          /\ x.at \in Brings
      BY <1>1, <2>1, <2>5, <2>6 DEF Caller, Brings
    <3>2. kind \in {"file", "put"} => x.body = 0 /\ x.len = Chunks
      BY <1>1, <2>5, <2>6, <3>1 DEF CallerBrings
    <3>3. kind = "put" => PutKnows(x)
      <4> SUFFICES ASSUME kind = "put" PROVE PutKnows(x)
        OBVIOUS
      <4>1. received <= Chunks
        BY <2>2 DEF UploadHas, received
      <4>2. Cut(received) => Cut(Chunks)
        BY <2>2, <4>1, CutGrows DEF UploadShapes
      <4>3. cut <=> Cut(received)
        BY DEF cut
      <4>4. QED
        BY <2>2, <2>5, <2>6, <3>2, <4>1, <4>2, <4>3 DEF PutKnows, UploadShapes
    <3>4. kind = "stream" => x.len # 0 /\ StreamIsOwn(x)
      <4> SUFFICES ASSUME kind = "stream" PROVE x.len # 0 /\ StreamIsOwn(x)
        OBVIOUS
      <4>1. x.len # 0 /\ x.len \in Nat
        BY <1>1, <2>5, <2>6, <3>1 DEF CallerBrings
      <4>2. x.next = 0 /\ Len(srv[x.up].got) = 0 /\ ~srv[x.up].done
        <5>1. received = 0 /\ s.got = <<>>
          BY <2>2, <2>5, <2>6 DEF received, Upload
        <5>2. QED
          BY <2>2, <2>5, <2>6, <5>1 DEF UploadHas
      <4>3. QED
        BY <2>5, <2>6, <4>1, <4>2 DEF StreamIsOwn
    <3>5. QED
      BY <2>5, <2>6, <3>2, <3>3, <3>4 DEF CallerBrings
  <2>7. x.at \notin Receives \/ (c.at \in Receives /\ x.up = c.up)
    BY <1>1, <2>1, <2>5 DEF Receives
  <2>8. CallerBrings(x)
    BY <1>1, <2>6
  <2>9. QED
    BY <1>1, <2>1, <2>7, <2>8, CallerKeepsBody
<1>4. CASE RemoveState(r)
  <2> DEFINE x == IF c.posts /\ Fits(srv[c.up].secret, c.asked)
                    THEN [c EXCEPT !.at = "post"] ELSE Free
  <2>1. run' = [run EXCEPT ![r] = x] /\ late' = late
    BY <1>4 DEF RemoveState
  <2>2. x = Free \/ (x.at = "post" /\ x.body = c.body)
    BY <1>1 DEF Caller
  <2> HIDE DEF x
  <2>3. CallerBrings(x) /\ x.at \notin Receives
    BY <1>1, <2>2 DEF CallerBrings, Brings, Receives
  <2>4. QED
    BY <1>1, <2>1, <2>3, CallerKeepsBody
<1>5. CASE Posted(r)
  <2>1. run' = [run EXCEPT ![r] = Free] /\ late' = late
    BY <1>5 DEF Posted
  <2>2. QED
    BY <1>1, <2>1, CallerKeepsBody
<1>6. CASE Ends(r)
  <2>1. /\ run' = [run EXCEPT ![r] = Free]
        /\ late' = late \/ (c.at \in Asks /\ late' = late \cup {Request(c)})
    BY <1>6 DEF Ends
  <2>2. \A q \in late' : q \in late \/ (kind \in {"file", "put"} => q.body = 0)
    BY <1>1, <2>1, RequestIs DEF CallerBrings
  <2>3. QED
    BY <1>1, <2>1, <2>2, CallerKeepsBody
<1>7. QED
  BY <1>2, <1>3, <1>4, <1>5, <1>6

LEMMA CreatedKeepsBody ==
  ASSUME UploadShapes, UploadsTyped, UploadsTyped', BodyInv,
         (\E secret \in BOOLEAN : MediaCreate(secret)) \/ \E r \in Callers : Created(r)
  PROVE  BodyInv'
<1>1. /\ srv \in Seq(Upload) /\ Len(srv) \in Nat
      /\ UNCHANGED <<kind, limit, late, overtaken>>
  <2>1. UNCHANGED <<kind, limit, late, overtaken>>
    BY DEF MediaCreate, Created
  <2>2. QED
    BY <2>1 DEF UploadsTyped
<1>2. PICK secret \in BOOLEAN : srv' = Append(srv, NewUpload(secret))
  BY RunIs DEF MediaCreate, Created, Caller
<1>3. PICK new \in Upload : /\ srv' = Append(srv, new) /\ new.at = "open" /\ new.got = <<>>
                            /\ ~new.done /\ new.told = NoManifest
  BY <1>2, NewUploadIs
<1>4. /\ Len(srv') = Len(srv) + 1 /\ srv'[Len(srv) + 1] = new
      /\ \A v \in 1..Len(srv) : srv'[v] = srv[v]
  BY <1>1, <1>3, Appended
<1>5. \A v \in 1..Len(srv') : UploadHas(v)' /\ (v \notin overtaken' => IsTold(v)')
  <2> TAKE v \in 1..Len(srv')
  <2>1. CASE v \in 1..Len(srv)
    <3>1. srv'[v] = srv[v] /\ UploadHas(v) /\ (v \notin overtaken => IsTold(v))
      BY <1>4, <2>1 DEF BodyInv
    <3>2. QED
      BY <1>1, <3>1 DEF UploadHas, IsTold, Cut
  <2>2. CASE v \notin 1..Len(srv)
    <3>1. srv'[v] = new
      BY <1>1, <1>4, <2>2
    <3>2. Len(new.got) = 0 /\ Chunks \in Nat \ {0}
      BY <1>3 DEF UploadShapes
    <3>3. QED
      BY <1>3, <3>1, <3>2 DEF UploadHas, IsTold
  <2>3. QED
    BY <2>1, <2>2
<1>6. \A r \in Callers : CallerBrings(run[r]) => (run'[r] = run[r] => CallerBrings(run[r])')
  <2> SUFFICES ASSUME NEW r \in Callers, CallerBrings(run[r]), run'[r] = run[r]
               PROVE  CallerBrings(run[r])'
    OBVIOUS
  <2>1. run[r].at \in {"chunk", "seal"} => srv'[run[r].up] = srv[run[r].up]
    BY <1>4, RunIs DEF AtUpload
  <2>2. QED
    BY <1>1, <2>1 DEF CallerBrings, PutKnows, StreamIsOwn, Cut
<1>7. CASE \E s \in BOOLEAN : MediaCreate(s)
  <2>1. run' = run
    BY <1>7 DEF MediaCreate
  <2>2. QED
    BY <1>1, <1>5, <1>6, <2>1 DEF BodyInv, OneReceives
<1>8. ASSUME NEW r \in Callers, Created(r) PROVE BodyInv'
  <2>1. run' = [run EXCEPT ![r].at = "write", ![r].up = Len(srv) + 1] /\ run[r].at = "create"
    BY <1>8 DEF Created
  <2>2. CallerBrings(run[r]) /\ run[r] \in Caller
    BY RunIs DEF BodyInv
  <2>3. /\ run'[r].at = "write" /\ run'[r].len = run[r].len /\ run'[r].body = run[r].body
        /\ \A q \in Callers \ {r} : run'[q] = run[q]
    BY <2>1, <2>2 DEF UploadsTyped, Caller
  <2>4. kind = "file" /\ run[r].len = Chunks /\ run[r].body = 0
    BY <2>1, <2>2 DEF CallerBrings, Brings
  <2>5. \A q \in Callers : CallerBrings(run[q])'
    BY <1>1, <1>6, <2>3, <2>4 DEF BodyInv, CallerBrings
  <2>6. QED
    BY <1>1, <1>5, <2>4, <2>5 DEF BodyInv, OneReceives
<1>9. QED
  BY <1>7, <1>8

\* A change that leaves an upload as UploadHas says.
Sound(s, n) ==
  /\ n.told = s.told /\ (s.told # NoManifest => n = s)
  /\ n.done => n.got # <<>>
  /\ kind \in {"file", "put"} =>
       /\ \A i \in 1..Len(n.got) : n.got[i] = 0
       /\ Len(n.got) <= Chunks /\ (n.done <=> Len(n.got) = Chunks)

\* What a request makes of an upload.
LEMMA HandledHas ==
  ASSUME UploadShapes, UploadsTyped, BodyInv, NEW q \in Asked, q.up \in 1..Len(srv), OfKind(q.what),
         kind \in {"file", "put"} => q.body = 0
  PROVE  LET s == srv[q.up]  n == Handled(q) IN
         /\ n \in Upload /\ Sound(s, n)
         /\ n = s \/ Grown(s, q, n) \/ (n.got = s.got /\ n.done = s.done) \/ kind = "whole"
<1> DEFINE s == srv[q.up]
           n == Handled(q)
<1>1. s \in Upload /\ n \in Upload /\ UploadHas(q.up)
  <2>1. n \in Upload
    BY HandledIs
  <2>2. QED
    BY <2>1 DEF BodyInv, UploadsTyped
<1>2. \/ n = s \/ Grown(s, q, n) \/ (n.got = s.got /\ n.done = s.done)
      \/ kind = "whole" /\ n.got = <<q.body>>
  BY HandledIs DEF OfKind, Asked, Asks
<1>3. n.told = s.told /\ (s.told # NoManifest => n = s)
  BY <1>1, HandledIs DEF UploadHas
<1>4. CASE Grown(s, q, n)
  <2>1. /\ n.got = Append(s.got, q.body) /\ s.got \in Seq(Nat) /\ q.body \in Nat /\ q.index = Len(s.got)
        /\ ~s.done
    BY <1>1, <1>4 DEF Grown, Upload, Asked
  <2>2. /\ Len(n.got) = Len(s.got) + 1 /\ Len(s.got) \in Nat /\ n.got # <<>>
        /\ n.got[Len(s.got) + 1] = q.body
        /\ \A i \in 1..Len(s.got) : n.got[i] = s.got[i]
    <3> HIDE DEF s, n
    <3>1. QED
      BY <2>1, AppendIs
  <2>3. ASSUME kind \in {"file", "put"}
        PROVE  /\ \A i \in 1..Len(n.got) : n.got[i] = 0
               /\ Len(n.got) <= Chunks /\ (n.done <=> Len(n.got) = Chunks)
    <3>1. /\ \A i \in 1..Len(s.got) : s.got[i] = 0
          /\ Len(s.got) <= Chunks /\ Len(s.got) # Chunks /\ q.body = 0
      BY <1>1, <2>1, <2>3 DEF UploadHas
    <3>2. n.done <=> Len(s.got) + 1 = Chunks
      BY <1>4, <2>1, <2>3 DEF Grown
    <3>3. \A i \in 1..Len(n.got) : i = Len(s.got) + 1 \/ i \in 1..Len(s.got)
      BY <2>2
    <3>4. \A i \in 1..Len(n.got) : n.got[i] = 0
      BY <2>2, <3>1, <3>3
    <3>5. Len(n.got) <= Chunks /\ (n.done <=> Len(n.got) = Chunks)
      <4>1. Len(n.got) = Len(s.got) + 1 /\ Len(s.got) \in Nat /\ Chunks \in Nat
        BY <2>2 DEF UploadShapes
      <4>2. QED
        BY <3>1, <3>2, <4>1
    <3>6. QED
      BY <3>4, <3>5
  <2>4. n.done => n.got # <<>>
    BY <2>2
  <2>5. Sound(s, n)
    BY <1>3, <2>3, <2>4 DEF Sound
  <2>6. QED
    BY <1>1, <1>4, <2>5
<1>5. CASE kind = "whole" /\ n.got = <<q.body>>
  BY <1>1, <1>3, <1>5 DEF Sound
<1>6. CASE n = s \/ (n.got = s.got /\ n.done = s.done)
  BY <1>1, <1>3, <1>6 DEF UploadHas, Sound
<1>7. QED
  BY <1>2, <1>4, <1>5, <1>6

\* An upload that a request, or the server itself, has changed.
LEMMA ChangedHas ==
  ASSUME UploadsTyped, BodyInv, UNCHANGED <<kind, limit>>, NEW u \in 1..Len(srv), NEW n \in Upload,
         srv' = [srv EXCEPT ![u] = n], overtaken \subseteq overtaken', Sound(srv[u], n)
  PROVE  UploadHas(u)' /\ (u \notin overtaken' => IsTold(u)')
<1>1. srv'[u] = n /\ UploadHas(u) /\ (u \notin overtaken => IsTold(u))
  BY PutAt DEF UploadsTyped, BodyInv
<1>2. UploadHas(u)'
  BY <1>1 DEF UploadHas, Sound
<1>3. ASSUME u \notin overtaken' PROVE IsTold(u)'
  BY <1>1, <1>3 DEF IsTold, Cut, Sound
<1>4. QED
  BY <1>2, <1>3

LEMMA ServerKeepsBody ==
  ASSUME UploadShapes, UploadsTyped, UploadsTyped', BodyInv,
         \/ \E q \in late : Late(q)
         \/ \E u \in DOMAIN srv : Sweep(u) \/ Forget(u)
  PROVE  BodyInv'
<1>1. \A u \in 1..Len(srv) : srv[u] \in Upload /\ UploadHas(u)
  BY DEF UploadsTyped, BodyInv
<1>2. ASSUME NEW u \in 1..Len(srv), NEW n \in Upload, srv' = [srv EXCEPT ![u] = n],
             Sound(srv[u], n),
             overtaken \subseteq overtaken', overtaken' \subseteq overtaken \cup {u},
             UNCHANGED <<kind, limit, run>>, late' \subseteq late,
             \A r \in Callers :
               kind = "stream" /\ u \notin overtaken' /\ run[r].up = u
                 /\ run[r].at \in {"chunk", "seal"}
                 => Shorter(srv[u], n)
      PROVE  BodyInv'
  <2>1. UploadHas(u)' /\ (u \notin overtaken' => IsTold(u)')
    BY <1>2, ChangedHas
  <2> DEFINE R == {}
  <2>2. R \in SUBSET Callers /\ Callers \ R = Callers /\ (\A r \in R : FALSE)
    OBVIOUS
  <2> HIDE DEF R
  <2>3. /\ \A r \in Callers \ R : run'[r] = run[r]
        /\ \A r \in Callers \ R :
             kind = "stream" /\ u \notin overtaken' /\ run[r].up = u
               /\ run[r].at \in {"chunk", "seal"}
               => Shorter(srv[u], n)
    BY <1>2
  <2>4. /\ (\A r \in R : CallerBrings(run[r]))'
        /\ \A r \in R :
             run'[r].at \in Receives => run[r].at \in Receives /\ run'[r].up = run[r].up
    BY <2>2
  <2>5. Alters(u, n, R)
    BY <1>2, <2>1, <2>2, <2>3, <2>4 DEF Alters
  <2>6. QED
    BY <2>2, <2>5, UploadKeepsBody
<1>3. ASSUME NEW q \in late, Late(q) PROVE BodyInv'
  <2> DEFINE n == Handled(q)
             u == q.up
             s == srv[u]
  <2>1. /\ srv' = [srv EXCEPT ![u] = n] /\ late' \subseteq late
        /\ UNCHANGED <<kind, limit, run>>
        /\ overtaken' = IF /\ kind = "stream" /\ n.got # s.got
                           /\ \E r \in Callers : run[r].at # "idle" /\ run[r].up = u
                        THEN overtaken \union {u} ELSE overtaken
    BY <1>3 DEF Late
  <2>2. q \in Asked /\ u \in 1..Len(srv) /\ OfKind(q.what) /\ (kind \in {"file", "put"} => q.body = 0)
    BY DEF UploadsTyped, BodyInv
  <2>3. s \in Upload
    BY <1>1, <2>2
  <2>4. /\ n \in Upload /\ Sound(s, n)
        /\ n = s \/ Grown(s, q, n) \/ (n.got = s.got /\ n.done = s.done) \/ kind = "whole"
    BY <2>2, HandledHas
  <2>5. Grown(s, q, n) => n.got # s.got
    <3>1. Grown(s, q, n) => n.got = Append(s.got, q.body)
      BY DEF Grown
    <3>2. s.got \in Seq(Nat) /\ q.body \in Nat
      BY <2>2, <2>3 DEF Upload, Asked
    <3>3. Append(s.got, q.body) # s.got
      <4>1. Len(Append(s.got, q.body)) = Len(s.got) + 1 /\ Len(s.got) \in Nat
        BY <3>2
      <4>2. QED
        BY <4>1
    <3>4. QED
      BY <3>1, <3>3
  <2> HIDE DEF n, s, u
  <2>6. ASSUME NEW r \in Callers, kind = "stream", u \notin overtaken', run[r].up = u,
               run[r].at \in {"chunk", "seal"}
        PROVE  Shorter(s, n)
    <3>1. n.got = s.got
      BY <2>1, <2>6
    <3>2. QED
      BY <2>4, <2>5, <2>6, <3>1 DEF Shorter
  <2>7. overtaken \subseteq overtaken' /\ overtaken' \subseteq overtaken \cup {u}
    BY <2>1
  <2>8. QED
    BY <1>2, <2>1, <2>2, <2>3, <2>4, <2>6, <2>7 DEF s
<1>4. ASSUME NEW u \in DOMAIN srv, Sweep(u) PROVE BodyInv'
  <2> DEFINE n == [srv[u] EXCEPT !.at = "gone"]
  <2>1. /\ srv' = [srv EXCEPT ![u] = n] /\ late' \subseteq late /\ srv[u].at = "open"
        /\ UNCHANGED <<kind, limit, run, overtaken>>
    BY <1>4 DEF Sweep
  <2>2. u \in 1..Len(srv)
    BY DEF UploadsTyped
  <2>3. n \in Upload /\ n.got = srv[u].got /\ n.done = srv[u].done /\ n.told = srv[u].told
    BY <1>1, <2>2 DEF Upload
  <2> HIDE DEF n
  <2>4. Sound(srv[u], n)
    BY <1>1, <2>1, <2>2, <2>3 DEF UploadHas, Sound
  <2>5. Shorter(srv[u], n)
    BY <2>3 DEF Shorter
  <2>6. QED
    BY <1>2, <2>1, <2>2, <2>3, <2>4, <2>5
<1>5. ASSUME NEW u \in DOMAIN srv, Forget(u) PROVE BodyInv'
  <2> DEFINE s == srv[u]
             got == SubSeq(s.got, 1, Len(s.got) - 1)
             n == [s EXCEPT !.got = got, !.done = FALSE]
  <2>1. /\ srv' = [srv EXCEPT ![u].got = got, ![u].done = FALSE] /\ late' \subseteq late
        /\ UNCHANGED <<kind, limit, run, overtaken>> /\ s.got # <<>> /\ s.at = "open"
    BY <1>5 DEF Forget
  <2>2. u \in 1..Len(srv)
    BY DEF UploadsTyped
  <2>3. /\ got \in Seq(Nat) /\ Len(got) = Len(s.got) - 1 /\ Len(s.got) \in Nat
        /\ \A i \in 1..Len(got) : got[i] = s.got[i] /\ i \in 1..Len(s.got)
    <3>1. s.got \in Seq(Nat) /\ s.got # <<>>
      BY <1>1, <2>1, <2>2 DEF Upload
    <3> HIDE DEF s
    <3>2. Len(s.got) \in Nat /\ Len(s.got) - 1 \in Nat
      BY <3>1
    <3>3. QED
      BY <3>1, <3>2
  <2> HIDE DEF got
  <2>4. n \in Upload /\ n.got = got /\ ~n.done /\ n.told = s.told
    BY <1>1, <2>2, <2>3 DEF Upload
  <2>5. srv' = [srv EXCEPT ![u] = n]
    BY <1>1, <2>1, <2>2 DEF UploadsTyped
  <2> HIDE DEF n
  <2>6. kind \in {"file", "put"} => /\ \A i \in 1..Len(n.got) : n.got[i] = 0
                                    /\ Len(n.got) <= Chunks /\ (n.done <=> Len(n.got) = Chunks)
    <3> SUFFICES ASSUME kind \in {"file", "put"}
                 PROVE  /\ \A i \in 1..Len(n.got) : n.got[i] = 0
                        /\ Len(n.got) <= Chunks /\ (n.done <=> Len(n.got) = Chunks)
      OBVIOUS
    <3>1. (\A i \in 1..Len(s.got) : s.got[i] = 0) /\ Len(s.got) <= Chunks
      BY <1>1, <2>2 DEF UploadHas
    <3> HIDE DEF s
    <3>2. Len(n.got) <= Chunks /\ Len(n.got) # Chunks
      BY <2>3, <2>4, <3>1 DEF UploadShapes
    <3>3. \A i \in 1..Len(n.got) : n.got[i] = 0
      BY <2>3, <2>4, <3>1
    <3>4. QED
      BY <2>4, <3>2, <3>3
  <2>7. Shorter(s, n)
    BY <2>3, <2>4 DEF Shorter
  <2>8. s.told = NoManifest
    BY <1>1, <2>1, <2>2 DEF UploadHas
  <2>9. Sound(s, n)
    BY <2>4, <2>6, <2>8 DEF Sound
  <2>10. QED
    BY <1>2, <2>1, <2>2, <2>4, <2>5, <2>7, <2>9
<1>6. QED
  BY <1>3, <1>4, <1>5

\* A caller that is answered, and the upload as the answer leaves it.
Answers(r, x, u, n) ==
  /\ run' = [run EXCEPT ![r] = x]
  /\ kind' = kind /\ limit' = limit /\ late' = late /\ overtaken' = overtaken
  /\ srv' = [srv EXCEPT ![u] = n]
  /\ UploadHas(u)' /\ (u \notin overtaken' => IsTold(u)')
  /\ CallerBrings(run[r])' /\ (x.at \in Receives => run[r].at \in Receives /\ x.up = u)
  /\ kind = "stream" => Shorter(srv[u], n) \/ run[r].at \in Receives

LEMMA AnswerKeepsBody ==
  ASSUME UploadsTyped, UploadsTyped', BodyInv, NEW r \in Callers, NEW x,
         NEW u \in 1..Len(srv), run[r].up = u, NEW n \in Upload, Answers(r, x, u, n)
  PROVE  BodyInv'
<1> DEFINE R == {r}
<1>1. \A q \in Callers : run'[q] = IF q = r THEN x ELSE run[q]
  BY DEF UploadsTyped, Answers
<1>2. ASSUME NEW q \in Callers \ R, kind = "stream", u \notin overtaken', run[q].up = u,
             run[q].at \in {"chunk", "seal"}
      PROVE  Shorter(srv[u], n)
  <2>1. run[r].at \notin Receives
    BY <1>2 DEF BodyInv, OneReceives, Receives
  <2>2. QED
    BY <1>2, <2>1 DEF Answers
<1>3. R \in SUBSET Callers
  OBVIOUS
<1>4. /\ (\A q \in R : CallerBrings(run[q]))'
      /\ \A q \in R :
           run'[q].at \in Receives => run[q].at \in Receives /\ run'[q].up = run[q].up
  BY <1>1 DEF Answers
<1>5. \A q \in Callers \ R : run'[q] = run[q]
  BY <1>1
<1>6. \A q \in Callers \ R :
        kind = "stream" /\ u \notin overtaken' /\ run[q].up = u /\ run[q].at \in {"chunk", "seal"}
          => Shorter(srv[u], n)
  BY <1>2
<1>7. overtaken \subseteq overtaken' /\ overtaken' \subseteq overtaken \cup {u}
      /\ late' \subseteq late
  BY DEF Answers
<1> HIDE DEF R
<1>8. Alters(u, n, R)
  BY <1>4, <1>5, <1>6, <1>7 DEF Alters, Answers
<1>9. QED
  BY <1>3, <1>8, UploadKeepsBody

\* A chunk is answered: what the caller goes on with fits what the upload has now.
LEMMA ChunkKeepsBody ==
  ASSUME UploadShapes, UploadsTyped, UploadsTyped', BodyInv, NEW r \in Callers, ChunkAnswered(r)
  PROVE  BodyInv'
<1> DEFINE c == run[r]
           q == Request(c)
           u == c.up
           s == srv[u]
           n == Handled(q)
           x == AfterChunk(r, s, n)
<1>1. /\ srv' = [srv EXCEPT ![u] = n] /\ run' = [run EXCEPT ![r] = x] /\ c.at = "chunk"
      /\ UNCHANGED <<kind, limit, late, overtaken>>
  <2>1. q.up = u
    BY DEF Request
  <2>2. QED
    BY <2>1 DEF ChunkAnswered
<1>2. /\ q \in Asked /\ q.up = u /\ q.what = "chunk" /\ u \in 1..Len(srv) /\ s \in Upload
      /\ q.body = c.body /\ q.index = c.next /\ (q.last <=> c.next + 1 = c.len)
      /\ c \in Caller /\ OfKind(q.what) /\ kind # "whole" /\ CallerBrings(c)
  BY <1>1, RequestIs, RunIs DEF OfKind, Asks, AtUpload, BodyInv
<1>4. kind \in {"file", "put"} => q.body = 0
  BY <1>2 DEF CallerBrings
<1>3. /\ n \in Upload /\ Sound(s, n)
      /\ n = s \/ Grown(s, q, n) \/ (n.got = s.got /\ n.done = s.done)
  BY <1>2, <1>4, HandledHas
<1>5. PICK v \in 1..Len(srv) : v = u
  BY <1>2
<1>6. UploadHas(v)' /\ (v \notin overtaken' => IsTold(v)')
  <2>1. srv' = [srv EXCEPT ![v] = n] /\ UNCHANGED <<kind, limit>> /\ overtaken \subseteq overtaken'
    BY <1>1, <1>5
  <2>2. Sound(srv[v], n) /\ n \in Upload
    BY <1>3, <1>5
  <2> HIDE DEF c, q, u, s, n
  <2>3. QED
    BY <2>1, <2>2, ChangedHas
<1>7. x = Free \/ \E y \in Caller : x = Goes(r, y) /\ GoesOnFrom(r, s, n, y)
  BY <1>1, <1>2, <1>3, AfterChunkIs
<1>8. /\ s.at = "open" => n = s \/ Grown(s, q, n)
      /\ s.at = "open" /\ ~s.done /\ c.next = Len(s.got) => Grown(s, q, n)
  <2>1. s.at = "open" => n = s \/ Grown(s, q, n)
    BY <1>2, HandledIs
  <2>2. ASSUME s.at = "open", ~s.done, c.next = Len(s.got) PROVE Grown(s, q, n)
    <3> DEFINE done == IF kind = "stream" THEN q.last \/ Cut(q.index + 1)
                                          ELSE q.index + 1 = Chunks
    <3>1. n = [s EXCEPT !.got = Append(@, q.body), !.done = done]
      BY <1>2, <2>2 DEF Handled
    <3> HIDE DEF done
    <3>2. n.got = Append(s.got, q.body) /\ n.done = done /\ n.at = s.at
      BY <1>2, <3>1 DEF Upload
    <3>3. QED
      BY <1>2, <2>2, <3>2 DEF Grown, done
  <2>3. QED
    BY <2>1, <2>2
<1>9. srv'[u] = n /\ run'[r] = x
  BY <1>1, <1>2, <1>3, PutAt DEF UploadsTyped
<1>answer. ASSUME CallerBrings(run[r])', x.at \in Receives => x.up = u PROVE BodyInv'
  <2>1. run[r].up = u /\ run[r].at \in Receives
    BY <1>1 DEF Receives
  <2>2. Answers(r, x, v, n)
    <3> HIDE DEF c, u, s, n, x
    <3>1. QED
      BY <1>1, <1>5, <1>6, <1>answer, <2>1 DEF Answers
  <2> HIDE DEF c, u, s, n, x
  <2>3. QED
    BY <1>3, <1>5, <2>1, <2>2, AnswerKeepsBody
<1>10. CASE x = Free
  <2>1. CallerBrings(run[r])' /\ x.at \notin Receives
    BY <1>1, <1>9, <1>10, IdleIsProper DEF CallerBrings, Brings, Receives
  <2>2. QED
    BY <1>answer, <2>1
<1>11. ASSUME NEW y \in Caller, x # Free, x = Goes(r, y), GoesOnFrom(r, s, n, y)
       PROVE  BodyInv'
  <2>1. /\ x.at \in {"chunk", "seal"} /\ x.up = u /\ x.len = y.len /\ x.body = c.body
        /\ x.next = y.next /\ x.cut = y.cut /\ (x.at = "seal" <=> x.next >= x.len)
        /\ x.next \in Nat /\ x.len \in Nat /\ c.next \in Nat /\ c.len \in Nat
        /\ Len(s.got) \in Nat /\ Len(n.got) \in Nat /\ c.at \in Brings /\ x.at \in Brings
    <3>1. y.up = u /\ y.body = c.body
      BY <1>11 DEF GoesOnFrom
    <3>2. Len(s.got) \in Nat /\ Len(n.got) \in Nat
      BY <1>2, <1>3 DEF Upload
    <3> HIDE DEF n, x, s
    <3>3. /\ x.at \in {"chunk", "seal"} /\ x.up = y.up /\ x.len = y.len /\ x.body = y.body
          /\ x.next = y.next /\ x.cut = y.cut /\ (x.at = "seal" <=> x.next >= x.len)
          /\ x.next \in Nat /\ x.len \in Nat
      BY <1>11, GoesIs DEF Caller
    <3>4. QED
      BY <1>1, <1>2, <3>1, <3>2, <3>3 DEF Brings, Caller
  <2>2. CASE kind = "file"
    <3>1. y.len = c.len /\ c.len = Chunks /\ c.body = 0
      BY <1>2, <1>11, <2>1, <2>2 DEF GoesOnFrom, CallerBrings
    <3> HIDE DEF n, x, s
    <3>2. CallerBrings(run[r])'
      BY <1>1, <1>9, <2>1, <2>2, <3>1 DEF CallerBrings
    <3>3. QED
      BY <1>answer, <2>1, <3>2
  <2>3. CASE kind = "put"
    <3>1. y.next = Len(n.got) /\ y.len = c.len /\ (y.cut <=> c.cut \/ Cut(Len(n.got)))
      BY <1>11, <2>3 DEF GoesOnFrom
    <3>2. c.len = Chunks /\ c.body = 0 /\ PutKnows(c)
      BY <1>1, <1>2, <2>1, <2>3 DEF CallerBrings
    <3>3. Len(n.got) <= Chunks /\ (Cut(Len(n.got)) => Cut(Chunks))
      BY <1>3, <2>1, <2>3, CutGrows DEF UploadShapes, Sound
    <3> HIDE DEF n, x, s
    <3>4. PutKnows(run[r])'
      BY <1>1, <1>9, <2>1, <3>1, <3>2, <3>3 DEF PutKnows, Cut, UploadShapes
    <3>5. CallerBrings(run[r])'
      BY <1>1, <1>9, <2>1, <2>3, <3>1, <3>2, <3>4 DEF CallerBrings
    <3>6. QED
      BY <1>answer, <2>1, <3>5
  <2>4. CASE kind = "stream"
    <3>1. /\ y.next = c.next + 1 /\ (y.cut <=> Cut(Len(n.got)))
          /\ y.len = (IF n.done THEN c.next + 1 ELSE c.len) /\ c.next <= Len(s.got)
          /\ s.at = "open" /\ ~(s.done /\ c.next = Len(s.got))
      BY <1>11, <2>4 DEF GoesOnFrom
    <3>2. c.len # 0 /\ StreamIsOwn(c)
      BY <1>1, <1>2, <2>1, <2>4 DEF CallerBrings
    <3>3. ASSUME u \notin overtaken PROVE Grown(s, q, n) /\ \A i \in 1..Len(s.got) : s.got[i] = c.body
      <4>1. /\ \A i \in 1..Len(s.got) : s.got[i] = c.body
            /\ Len(s.got) <= c.next /\ ~s.done
        BY <1>1, <3>2, <3>3 DEF StreamIsOwn
      <4>2. QED
        BY <1>8, <2>1, <3>1, <4>1
    <3>4. c.next < c.len /\ x.next = c.next + 1
      BY <1>1, <1>11, <2>1, <2>4, <3>1, <3>2 DEF StreamIsOwn
    <3>5. x.next <= x.len /\ (x.at = "seal" <=> x.next = x.len) /\ x.len # 0
      BY <2>1, <3>1, <3>4
    <3>6. ASSUME u \notin overtaken
          PROVE  /\ x.cut <=> Cut(x.next)
                 /\ \A i \in 1..Len(n.got) : n.got[i] = x.body
                 /\ Len(n.got) <= x.next
                 /\ n.done => x.at = "seal" /\ Len(n.got) = x.len
      <4>1. /\ n.got = Append(s.got, c.body) /\ s.got \in Seq(Nat) /\ c.body \in Nat
            /\ c.next = Len(s.got)
        BY <1>2, <3>3, <3>6 DEF Grown, Upload, Caller
      <4>2. Len(n.got) = c.next + 1 /\ \A i \in 1..Len(n.got) : n.got[i] = c.body
        <5> HIDE DEF n, s, c
        <5>1. /\ Len(n.got) = Len(s.got) + 1 /\ Len(s.got) \in Nat
              /\ n.got[Len(s.got) + 1] = c.body /\ \A i \in 1..Len(s.got) : n.got[i] = s.got[i]
          BY <4>1
        <5>2. QED
          BY <3>3, <3>6, <4>1, <5>1
      <4>3. x.cut <=> Cut(x.next)
        BY <2>1, <3>1, <3>4, <4>2
      <4>4. n.done => x.len = x.next
        BY <2>1, <3>1, <3>4
      <4> HIDE DEF n, x, c
      <4>5. QED
        BY <2>1, <3>4, <3>5, <4>2, <4>3, <4>4
    <3>7. StreamIsOwn(run[r])'
      <4> HIDE DEF n, x, s, c, u
      <4>1. QED
        BY <1>1, <1>9, <2>1, <3>5, <3>6 DEF StreamIsOwn, Cut
    <3>8. CallerBrings(run[r])'
      <4> HIDE DEF n, x, s, c, u
      <4>1. QED
        BY <1>1, <1>9, <2>1, <2>4, <3>5, <3>7 DEF CallerBrings
    <3>9. QED
      BY <1>answer, <2>1, <3>8
  <2>5. QED
    BY <1>2, <2>2, <2>3, <2>4 DEF UploadsTyped, Modes
<1>12. QED
  BY <1>7, <1>10, <1>11

LEMMA SameEverywhere ==
  ASSUME NEW got \in Seq(Nat), NEW body, \A i \in 1..Len(got) : got[i] = body
  PROVE  got = [i \in 1..Len(got) |-> body]
OBVIOUS

\* Who brings no body any more has nothing to keep.
LEMMA BringsNothing ==
  ASSUME NEW r, NEW x, run'[r] = x, UNCHANGED kind, x.at \notin Brings, CallerBrings(x)
  PROVE  CallerBrings(run[r])'
<1>1. run'[r].at \notin {"create", "write", "chunk", "seal"}
  BY DEF Brings
<1>2. kind \in {"file", "put"} => run'[r].body = 0
  BY DEF CallerBrings
<1> QED
  BY <1>1, <1>2 DEF CallerBrings, Brings

\* Seal is answered: the manifest says what the server has.
LEMMA SealKeepsBody ==
  ASSUME UploadShapes, UploadsTyped, UploadsTyped', BodyInv, NEW r \in Callers, SealAnswered(r)
  PROVE  BodyInv'
<1> DEFINE c == run[r]
           q == Request(c)
           s == srv[c.up]
           h == Handled(q)
           m == Manifest(c)
           n == [h EXCEPT !.told = m]
           x == IF h # s /\ kind = "file" THEN [c EXCEPT !.at = "remove"] ELSE Free
<1>1. /\ c.at = "seal" /\ run' = [run EXCEPT ![r] = x]
      /\ srv' = IF h # s THEN [srv EXCEPT ![c.up] = n] ELSE srv
      /\ UNCHANGED <<kind, limit, late, overtaken>>
  BY DEF SealAnswered
<1>2. /\ q \in Asked /\ q.up = c.up /\ q.what = "seal" /\ c.up \in 1..Len(srv) /\ s \in Upload
      /\ c \in Caller /\ kind # "whole" /\ CallerBrings(c)
  BY <1>1, RequestIs, RunIs DEF OfKind, Asks, AtUpload, BodyInv
<1>3. /\ h \in Upload /\ (s.at # "open" => h = s)
      /\ h # s => s.done /\ h.at = "sealed" /\ h.got = s.got /\ h.done = s.done
  BY <1>2, HandledIs
<1>4. PICK v \in 1..Len(srv) : v = c.up
  BY <1>2
<1>5. UploadHas(v) /\ (v \notin overtaken => IsTold(v)) /\ srv[v] = s
  BY <1>4 DEF BodyInv
<1>6. m \in Manifests /\ m.size = c.len /\ m.body = c.body /\ m.cut = c.cut
  BY <1>2, ManifestIs DEF Manifest
<1>7. run'[r] = x /\ x.at \in {"idle", "remove"} /\ x.at \notin Receives /\ CallerBrings(x)
  <2>1. run'[r] = x
    BY <1>1 DEF UploadsTyped
  <2>2. CASE x = Free
    BY <2>1, <2>2, IdleIsProper DEF CallerBrings, Brings, Receives
  <2>3. CASE x = [c EXCEPT !.at = "remove"]
    <3>1. x.at = "remove" /\ x.body = c.body
      BY <1>2, <2>3 DEF Caller
    <3> HIDE DEF c, x
    <3>2. QED
      BY <1>2, <2>1, <2>3, <3>1 DEF CallerBrings, Brings, Receives
  <2>4. QED
    BY <2>2, <2>3
<1>8. CASE h = s
  <2> HIDE DEF c, q, s, h, n, x
  <2>1. QED
    BY <1>1, <1>7, <1>8, CallerKeepsBody
<1>9. CASE h # s
  <2>1. n \in Upload /\ n.at = "sealed" /\ n.got = s.got /\ n.done /\ n.told = m /\ s.done
    BY <1>3, <1>6, <1>9 DEF Upload
  <2>2. srv'[v] = n /\ srv' = [srv EXCEPT ![v] = n]
    <3> HIDE DEF c, q, s, h, n, x, m
    <3>1. QED
      BY <1>1, <1>4, <1>9, <2>1, PutAt DEF UploadsTyped
  <2>3. UploadHas(v)'
    <3> HIDE DEF c, q, s, h, n, x, m
    <3>1. QED
      BY <1>1, <1>5, <2>1, <2>2 DEF UploadHas
  <2>4. ASSUME v \notin overtaken
        PROVE  /\ Len(s.got) = c.len /\ \A i \in 1..Len(s.got) : s.got[i] = c.body
               /\ kind \in {"put", "stream"} => (c.cut <=> Cut(c.len))
    <3>1. CASE kind = "file"
      BY <1>1, <1>2, <1>5, <2>1, <3>1 DEF CallerBrings, UploadHas, Brings
    <3>2. CASE kind = "put"
      BY <1>1, <1>2, <1>5, <2>1, <3>2 DEF CallerBrings, UploadHas, Brings, PutKnows
    <3>3. CASE kind = "stream"
      <4>1. StreamIsOwn(c) /\ c.len # 0
        BY <1>1, <1>2, <3>3 DEF CallerBrings, Brings
      <4>2. QED
        BY <1>1, <1>4, <2>1, <2>4, <3>3, <4>1 DEF StreamIsOwn
    <3>4. QED
      BY <1>2, <3>1, <3>2, <3>3 DEF UploadsTyped, Modes
  <2>5. ASSUME v \notin overtaken' PROVE IsTold(v)'
    <3>1. s.got = [i \in 1..c.len |-> c.body] /\ (kind \in {"put", "stream"} => (c.cut <=> Cut(c.len)))
      <4>1. s.got \in Seq(Nat) /\ v \notin overtaken
        BY <1>1, <1>2, <2>5 DEF Upload
      <4> HIDE DEF s, c
      <4>2. QED
        BY <2>4, <4>1, SameEverywhere
    <3>2. c.cut \in BOOLEAN /\ Cut(c.len) \in BOOLEAN
      BY <1>2 DEF Caller, Cut
    <3>3. kind \in {"put", "stream"} => m.cut = Cut(m.size)
      <4> HIDE DEF c, m
      <4>1. QED
        BY <1>6, <3>1, <3>2
    <3> HIDE DEF c, q, s, h, n, x, m
    <3>4. srv'[v].told = m /\ srv'[v].got = [i \in 1..m.size |-> m.body]
      BY <1>6, <2>1, <2>2, <3>1
    <3>5. kind' = kind /\ limit' = limit
      BY <1>1
    <3>6. QED
      BY <3>3, <3>4, <3>5 DEF IsTold, Cut
  <2>6. CallerBrings(run[r])'
    <3> HIDE DEF c, q, s, h, n, x, m
    <3>1. QED
      BY <1>1, <1>7, BringsNothing DEF Brings
  <2>7. run[r].up = v /\ run[r].at \in Receives
    BY <1>1, <1>4 DEF Receives
  <2>8. Answers(r, x, v, n)
    <3> HIDE DEF c, q, s, h, n, x, m
    <3>1. QED
      BY <1>1, <1>7, <2>2, <2>3, <2>5, <2>6, <2>7 DEF Answers
  <2> HIDE DEF c, q, s, h, n, x, m
  <2>9. QED
    BY <2>1, <2>7, <2>8, AnswerKeepsBody
<1>10. QED
  BY <1>8, <1>9

\* One request has sent a whole file.
LEMMA WholeKeepsBody ==
  ASSUME UploadShapes, UploadsTyped, UploadsTyped', BodyInv, NEW r \in Callers, WholeAnswered(r)
  PROVE  BodyInv'
<1> DEFINE c == run[r]
           q == Request(c)
           s == srv[c.up]
           h == Handled(q)
           m == Manifest([c EXCEPT !.len = 1])
           n == [h EXCEPT !.told = m]
<1>1. /\ c.at = "whole" /\ run' = [run EXCEPT ![r] = Free]
      /\ srv' = IF s.at = "open" THEN [srv EXCEPT ![c.up] = n] ELSE srv
      /\ UNCHANGED <<kind, limit, late, overtaken>>
  BY DEF WholeAnswered
<1>2. /\ q \in Asked /\ q.up = c.up /\ q.what = "whole" /\ c.up \in 1..Len(srv) /\ s \in Upload
      /\ q.body = c.body /\ c \in Caller /\ kind = "whole"
  BY <1>1, RequestIs, RunIs DEF OfKind, Asks, AtUpload
<1>3. PICK v \in 1..Len(srv) : v = c.up
  BY <1>2
<1>4. Free.at = "idle" /\ CallerBrings(Free) /\ Free.at \notin Receives
  BY <1>2, IdleIsProper DEF CallerBrings, Brings, Receives
<1>5. CASE s.at # "open"
  <2> HIDE DEF c, q, s, h, n
  <2>1. QED
    BY <1>1, <1>4, <1>5, CallerKeepsBody
<1>6. CASE s.at = "open"
  <2>1. h \in Upload /\ h.at = "sealed" /\ h.got = <<q.body>>
    <3>1. h = [s EXCEPT !.got = <<q.body>>, !.at = "sealed"]
      BY <1>2, <1>6 DEF Handled
    <3>2. h \in Upload
      BY <1>2, HandledIs
    <3> HIDE DEF h
    <3>3. QED
      BY <1>2, <3>1, <3>2 DEF Upload
  <2>2. [c EXCEPT !.len = 1] \in Caller /\ m.size = 1 /\ m.body = c.body /\ m \in Manifests
    <3>1. [c EXCEPT !.len = 1] \in Caller
      BY <1>2 DEF Caller
    <3>2. m \in Manifests
      BY <3>1, ManifestIs
    <3>3. QED
      BY <1>2, <3>1, <3>2 DEF Manifest, Caller
  <2>3. n \in Upload /\ n.at = "sealed" /\ n.got = <<c.body>> /\ n.told = m
    <3> HIDE DEF h, m
    <3>1. QED
      BY <1>2, <2>1, <2>2 DEF Upload
  <2>4. n.got # <<>> /\ n.got = [i \in 1..1 |-> c.body]
    <3>1. <<c.body>> \in Seq(Nat) /\ Len(<<c.body>>) = 1 /\ <<c.body>>[1] = c.body
      BY <1>2 DEF Caller
    <3> HIDE DEF n, c
    <3>2. n.got \in Seq(Nat) /\ Len(n.got) = 1 /\ \A i \in 1..Len(n.got) : n.got[i] = c.body
      BY <2>3, <3>1
    <3>3. QED
      BY <3>2, SameEverywhere
  <2>5. srv'[v] = n /\ srv' = [srv EXCEPT ![v] = n] /\ run'[r] = Free
    <3> HIDE DEF c, q, s, h, n, m
    <3>1. QED
      BY <1>1, <1>3, <1>6, <2>3, PutAt DEF UploadsTyped
  <2>6. UploadHas(v)' /\ IsTold(v)'
    <3> HIDE DEF c, q, s, h, n, m
    <3>1. UploadHas(v)'
      BY <1>1, <1>2, <2>3, <2>4, <2>5 DEF UploadHas
    <3>2. IsTold(v)'
      BY <1>1, <1>2, <2>2, <2>3, <2>4, <2>5 DEF IsTold
    <3>3. QED
      BY <3>1, <3>2
  <2>7. CallerBrings(run[r])'
    <3> HIDE DEF c, q, s, h, n, m
    <3>1. QED
      BY <1>1, <1>4, <2>5 DEF CallerBrings
  <2>8. run[r].up = v /\ run[r].at \in Receives
    BY <1>1, <1>3 DEF Receives
  <2>9. Answers(r, Free, v, n)
    <3> HIDE DEF c, q, s, h, n, m
    <3>1. QED
      BY <1>1, <1>4, <2>5, <2>6, <2>7, <2>8 DEF Answers
  <2> HIDE DEF c, q, s, h, n, m
  <2>10. QED
    BY <2>3, <2>8, <2>9, AnswerKeepsBody
<1>7. QED
  BY <1>5, <1>6

\* An upload is given up.
LEMMA AbortKeepsBody ==
  ASSUME UploadShapes, UploadsTyped, UploadsTyped', BodyInv, NEW r \in Callers, AbortAnswered(r)
  PROVE  BodyInv'
<1> DEFINE c == run[r]
           q == Request(c)
           s == srv[c.up]
           n == Handled(q)
           x == IF s.at = "open" /\ kind = "file" THEN [c EXCEPT !.at = "remove"] ELSE Free
<1>1. /\ c.at = "abort" /\ run' = [run EXCEPT ![r] = x]
      /\ srv' = [srv EXCEPT ![c.up] = n]
      /\ UNCHANGED <<kind, limit, late, overtaken>>
  BY DEF AbortAnswered
<1>2. /\ q \in Asked /\ q.up = c.up /\ q.what = "abort" /\ c.up \in 1..Len(srv) /\ s \in Upload
      /\ q.body = c.body /\ OfKind(q.what) /\ c \in Caller /\ CallerBrings(c)
  BY <1>1, RequestIs, RunIs DEF Asks, AtUpload, BodyInv
<1>3. n \in Upload /\ Sound(s, n) /\ n.got = s.got /\ (n.done <=> s.done)
  <2>1. kind \in {"file", "put"} => q.body = 0
    BY <1>2 DEF CallerBrings
  <2>2. n \in Upload /\ Sound(s, n)
    BY <1>2, <2>1, HandledHas
  <2>3. n.got = s.got /\ (n.done <=> s.done)
    BY <1>2, HandledIs
  <2>4. QED
    BY <2>2, <2>3
<1>4. PICK v \in 1..Len(srv) : v = c.up
  BY <1>2
<1>5. run'[r] = x /\ x.at \in {"idle", "remove"} /\ x.at \notin Receives /\ CallerBrings(x)
  <2>1. run'[r] = x
    BY <1>1 DEF UploadsTyped
  <2>2. CASE x = Free
    BY <2>1, <2>2, IdleIsProper DEF CallerBrings, Brings, Receives
  <2>3. CASE x = [c EXCEPT !.at = "remove"]
    <3>1. x.at = "remove" /\ x.body = c.body
      BY <1>2, <2>3 DEF Caller
    <3> HIDE DEF c, x
    <3>2. QED
      BY <1>2, <2>1, <2>3, <3>1 DEF CallerBrings, Brings, Receives
  <2>4. QED
    BY <2>2, <2>3
<1>6. UploadHas(v)' /\ (v \notin overtaken' => IsTold(v)')
  <2>1. srv' = [srv EXCEPT ![v] = n] /\ UNCHANGED <<kind, limit>> /\ overtaken \subseteq overtaken'
    BY <1>1, <1>4
  <2>2. Sound(srv[v], n) /\ n \in Upload
    BY <1>3, <1>4
  <2> HIDE DEF c, q, s, n
  <2>3. QED
    BY <2>1, <2>2, ChangedHas
<1>7. CallerBrings(run[r])'
  <2> HIDE DEF c, q, s, n, x
  <2>1. QED
    BY <1>1, <1>5 DEF CallerBrings
<1>8. run[r].up = v
  BY <1>4
<1>9. Answers(r, x, v, n)
  <2>1. Shorter(srv[v], n)
    <3>1. n.done \in BOOLEAN /\ s.done \in BOOLEAN /\ srv[v] = s
      BY <1>2, <1>3, <1>4 DEF Upload
    <3> HIDE DEF s, n
    <3>2. n.done = s.done
      BY <1>3, <3>1
    <3>3. QED
      BY <1>3, <3>1, <3>2 DEF Shorter
  <2> HIDE DEF c, q, s, n, x
  <2>2. QED
    BY <1>1, <1>4, <1>5, <1>6, <1>7, <2>1 DEF Answers
<1> HIDE DEF c, q, s, n, x
<1>10. QED
  BY <1>3, <1>8, <1>9, AnswerKeepsBody

LEMMA NextBody ==
  ASSUME UploadShapes, UploadsTyped, UploadsTyped', BodyInv, UploadsNext
  PROVE  BodyInv'
<1>1. ASSUME NEW r \in Callers,
             \/ \E secret, posts \in BOOLEAN : UploadFile(r, secret, posts)
             \/ \E u \in DOMAIN srv : \/ \E len \in 1..Chunks : Put(r, u, len)
                                      \/ Abort(r, u)
                                      \/ SendAttachment(r, u)
      PROVE  BodyInv'
  BY <1>1, StartKeepsBody
<1>2. ASSUME NEW r \in Callers,
             WriteState(r) \/ StatusAnswered(r) \/ RemoveState(r) \/ Ends(r) \/ Posted(r)
      PROVE  BodyInv'
  BY <1>2, StepsKeepBody
<1>3. ASSUME NEW r \in Callers,
             ChunkAnswered(r) \/ SealAnswered(r) \/ WholeAnswered(r) \/ AbortAnswered(r)
      PROVE  BodyInv'
  BY <1>3, ChunkKeepsBody, SealKeepsBody, WholeKeepsBody, AbortKeepsBody
<1>4. ASSUME (\E secret \in BOOLEAN : MediaCreate(secret)) \/ \E r \in Callers : Created(r)
      PROVE  BodyInv'
  BY <1>4, CreatedKeepsBody
<1>5. ASSUME (\E q \in late : Late(q)) \/ \E u \in DOMAIN srv : Sweep(u) \/ Forget(u)
      PROVE  BodyInv'
  BY <1>5, ServerKeepsBody
<1>6. CASE Encrypt
  <2>1. UNCHANGED <<kind, limit, srv, run, late, overtaken>>
    BY <1>6 DEF Encrypt
  <2>2. QED
    BY <2>1, QuietKeepsBody
<1>7. QED
  BY <1>1, <1>2, <1>3, <1>4, <1>5, <1>6 DEF UploadsNext

----------------------------------------------------------------------------
\* What holds in every state.
UploadsInv == UploadsTyped /\ KeyInv /\ WorkInv /\ BodyInv

LEMMA ToldFromBody ==
  ASSUME BodyInv
  PROVE  ToldIsSealed
BY DEF BodyInv, UploadHas, ToldIsSealed

LEMMA StepKeepsAll ==
  ASSUME UploadShapes, UploadsInv, [UploadsNext]_uploadVars
  PROVE  UploadsInv'
<1>1. CASE UploadsNext
  BY <1>1, NextTyped, NextWork, NextBody, ToldFromBody DEF UploadsInv
<1>2. CASE UNCHANGED uploadVars
  <2>1. UNCHANGED <<kind, limit, encrypted, srv, disk, run, late, posted, alone, overtaken, more>>
    BY <1>2 DEF uploadVars
  <2>2. UploadsTyped'
    BY <2>1 DEF UploadsInv, UploadsTyped, OfKind, Proper
  <2>3. KeyInv'
    BY <2>1 DEF UploadsInv, KeyInv, KeyStaysSecret
  <2>4. WorkInv'
    BY <2>1 DEF UploadsInv, WorkInv, CallerAtWork, WorkIsNamed, Untouched
  <2>5. BodyInv'
    BY <2>1, QuietKeepsBody DEF UploadsInv
  <2>6. QED
    BY <2>2, <2>3, <2>4, <2>5 DEF UploadsInv
<1>3. QED
  BY <1>1, <1>2

\* UploadsInv is inductive; the properties of the runs follow from it.
THEOREM UploadsAreSafe ==
  ASSUME UploadShapes
  PROVE  UploadsSpec => []UploadsInv
<1>1. UploadsInit => UploadsInv
  BY InitTyped, InitBody DEF UploadsInv
<1>2. UploadsInv /\ [UploadsNext]_uploadVars => UploadsInv'
  BY StepKeepsAll
<1>3. QED
  BY <1>1, <1>2, PTL DEF UploadsSpec

\* No event in the clear carries a file's key, and an encrypted room of a wbf server no
\* file that the server can read, however many commands and callers there are and
\* whatever is lost or late.
THEOREM KeysStaySecret ==
  ASSUME UploadShapes
  PROVE  UploadsSpec => []KeyStaysSecret
<1>1. UploadsInv => KeyStaysSecret
  BY DEF UploadsInv, KeyInv
<1>2. QED
  BY <1>1, UploadsAreSafe, PTL

\* Chunks of a file that the server has are found by the next command, at any number of
\* commands, chunks, crashes and late requests, as long as no two commands run at once.
THEOREM WorkIsFound ==
  ASSUME UploadShapes
  PROVE  UploadsSpec => []WorkIsKept
<1>1. ASSUME UploadsInv PROVE WorkIsKept
  <2> SUFFICES ASSUME kind = "file", alone, NEW u \in DOMAIN srv,
                      srv[u].at = "open", srv[u].got # <<>>
               PROVE  disk = u
    BY DEF WorkIsKept
  <2>1. u \in 1..Len(srv) /\ WorkIsNamed
    BY <1>1 DEF UploadsInv, UploadsTyped, WorkInv
  <2>2. QED
    BY <2>1 DEF WorkIsNamed, Untouched
<1>2. QED
  BY <1>1, UploadsAreSafe, PTL

\* What is under a manifest is, chunk for chunk, the body of the call that got it, and the
\* call knows whether the server has cut it: for every number of chunks and callers and
\* every size limit.
THEOREM WhatIsSealedIsTheBody ==
  ASSUME UploadShapes
  PROVE  UploadsSpec => []SealedIsOneBody
<1>1. ASSUME UploadsInv PROVE SealedIsOneBody
  <2>1. DOMAIN srv = 1..Len(srv)
    BY <1>1 DEF UploadsInv, UploadsTyped
  <2>2. QED
    BY <1>1, <2>1 DEF UploadsInv, BodyInv, IsTold, SealedIsOneBody
<1>2. QED
  BY <1>1, UploadsAreSafe, PTL

=============================================================================
