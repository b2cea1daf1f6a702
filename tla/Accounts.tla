------------------------------ MODULE Accounts ------------------------------
(***************************************************************************)
(* Logging in, logging out and destroying accounts of one wbf server:      *)
(* login_ops.rs, session_ops.rs, account_lock.rs, accounts.rs, handles.rs  *)
(* of wbf-core, login.rs of wbf-sdk.  An operation is a sequence of steps  *)
(* on the server, on the disk and in memory; each may fail, an answer of   *)
(* the server may be lost, and the process may stop between any two.       *)
(* Meanwhile commands and background tasks of the accounts go on.          *)
(*                                                                         *)
(* A device of the server is the number of the login that made it.  The    *)
(* lines of an account are LinkPool's, what is written to the cache is     *)
(* Rooms' and Timeline's; here they are who holds the cache open, and      *)
(* whether there are rows of an account.  The pool of media files goes     *)
(* with the server's directory, and its files in between do not count.     *)
(***************************************************************************)
EXTENDS Naturals, FiniteSets

CONSTANTS
  Names,        \* localparts as they may be typed: each has a directory of its own
  Canon,        \* the spelling the server answers with
  Clients,      \* who may ask for an operation
  Cases,        \* how often what may happen: bounds
  None

Occasions == {"logins", "leaves", "tasks", "faults", "crashes"}

Spellings ==
  /\ Canon \in [Names -> Names] /\ \A n \in Names : Canon[Canon[n]] = Canon[n]
  /\ Cases \subseteq [Occasions -> Nat] /\ None \notin Clients \cup Names

VARIABLES
  devices, made,   \* the server: devices, and how many there ever were
  session, keyDb,  \* session.sealed and m/: whose they are, 0 is that they are not there
  dirs,            \* the directories of accounts
  keys,            \* recovery keys under r/
  cache, rows,     \* cache.db is there, and has rows of these accounts
  marked, junk,    \* to_be_deleted.lock, and a directory that was renamed
  current,
  engine,          \* crypto_engines
  open,            \* server_caches: whether the cache is open
  busy,            \* where a command or a task of an account is
  lock, at,        \* account.lock, and where each operation is
  stray,           \* devices that nobody could log out
  dead,            \* accounts whose device may be gone and whose session is still there
  over,            \* accounts that were logged in once more
  stay,            \* what was written of an account while it was being destroyed
  rest             \* what is left of the bounds

remote == <<devices, made>>
data == <<session, keyDb, dirs, keys, cache, rows, marked, junk, current>>
memory == <<engine, open, busy>>
ghosts == <<stray, dead, over, stay>>
accountVars == <<remote, data, memory, lock, at, ghosts, rest>>

NoOp == [pc |-> "idle"]
Nobody == [n \in Names |-> 0]

May(what) == rest[what] > 0 /\ rest' = [rest EXCEPT ![what] = @ - 1]

AccountsInit ==
  /\ rest \in Cases
  /\ devices = {} /\ made = 0
  /\ session = Nobody /\ keyDb = Nobody /\ dirs = {} /\ keys = {}
  /\ cache = FALSE /\ rows = {} /\ marked = FALSE /\ junk = FALSE /\ current = None
  /\ engine = Nobody /\ open = FALSE /\ busy = [n \in Names |-> "rest"]
  /\ lock = None /\ at = [p \in Clients |-> NoOp]
  /\ stray = {} /\ dead = {} /\ over = {} /\ stay = {}

----------------------------------------------------------------------------
\* Operations: one at a time, the others are told AccountBusy and change nothing.

\* Mutant: the lock is not asked for.
StartsAnyway(p, job) ==
  /\ at[p] = NoOp
  /\ lock' = p /\ at' = [at EXCEPT ![p] = job]
Enters(p, job) ==
  /\ at[p] = NoOp /\ lock = None
  /\ lock' = p /\ at' = [at EXCEPT ![p] = job]

On(p, pc) == at[p].pc = pc
Who(p) == at[p].as
Step(p, pc) == at' = [at EXCEPT ![p].pc = pc] /\ UNCHANGED lock
Exit(p) == at' = [at EXCEPT ![p] = NoOp] /\ lock' = None

Holds(n) == session[n] # 0
Users == {n \in Names : busy[n] = "cache"}

\* log_in: not into a directory that is being removed; a store without a session is
\* of a device before, and goes first.
StartLogin(p, t) ==
  /\ May("logins") /\ ~marked
  /\ Enters(p, [pc |-> "ask", as |-> t, dev |-> 0])
  /\ keyDb' = IF Holds(t) THEN keyDb ELSE [keyDb EXCEPT ![t] = 0]
  /\ UNCHANGED <<remote, session, dirs, keys, cache, rows, marked, junk, current, memory,
                 ghosts>>

\* login_with_password.
Granted(p) ==
  /\ On(p, "ask")
  /\ made' = made + 1 /\ devices' = devices \cup {made + 1}
  /\ at' = [at EXCEPT ![p] = [pc |-> "move", as |-> Who(p), dev |-> made + 1]]
  /\ UNCHANGED <<data, memory, lock, ghosts, rest>>

GrantIsLost(p) ==
  /\ On(p, "ask") /\ May("faults")
  /\ made' = made + 1 /\ devices' = devices \cup {made + 1} /\ stray' = stray \cup {made + 1}
  /\ Exit(p)
  /\ UNCHANGED <<data, memory, dead, over, stay>>

Denied(p) ==
  /\ On(p, "ask") /\ Exit(p)
  /\ UNCHANGED <<remote, data, memory, ghosts, rest>>

\* move_to_canonical_dir.  With another spelling there is nothing at the directory that
\* was typed: the rename fails as it does when the right one is taken.
Move(p) ==
  /\ On(p, "move")
  /\ Step(p, IF Canon[Who(p)] = Who(p) THEN "build" ELSE "revoke")
  /\ UNCHANGED <<remote, data, memory, ghosts, rest>>

\* OlmEngine::open: a store that is there opens for its own device only.
Suits(n, dev) == keyDb[n] \in {0, dev}

\* create_crypto_store_for: what cannot be opened is deleted, whoever's it is.
Build(p) ==
  LET n == Who(p) IN
  /\ On(p, "build")
  /\ \/ /\ Suits(n, at[p].dev) /\ UNCHANGED rest
        /\ keyDb' = [keyDb EXCEPT ![n] = at[p].dev] /\ Step(p, "seal")
     \/ /\ IF Suits(n, at[p].dev) THEN May("faults") ELSE UNCHANGED rest
        /\ keyDb' = [keyDb EXCEPT ![n] = 0] /\ Step(p, "revoke")
  /\ dirs' = dirs \cup {n}
  /\ over' = IF Holds(n) THEN over \cup {n} ELSE over
  /\ UNCHANGED <<remote, session, keys, cache, rows, marked, junk, current, memory, stray, dead,
                 stay>>

Seal(p) ==
  LET n == Who(p) IN
  /\ On(p, "seal")
  /\ \/ /\ session' = [session EXCEPT ![n] = at[p].dev]
        /\ stray' = stray \cup ({session[n]} \ {0}) /\ dead' = dead \ {n}
        /\ Step(p, "point") /\ UNCHANGED <<keyDb, rest>>
     \/ /\ May("faults") /\ keyDb' = [keyDb EXCEPT ![n] = 0]
        /\ Step(p, "revoke") /\ UNCHANGED <<session, stray, dead>>
  /\ UNCHANGED <<remote, dirs, keys, cache, rows, marked, junk, current, memory, over, stay>>

\* switch_current_to; when it fails the caller is told an error, and is logged in.
Point(p) ==
  /\ On(p, "point") /\ Exit(p)
  /\ \/ current' = Who(p) /\ UNCHANGED rest
     \/ May("faults") /\ UNCHANGED current
  /\ UNCHANGED <<remote, session, keyDb, dirs, keys, cache, rows, marked, junk, memory, ghosts>>

\* Mutant: what the server granted is left there.
RevokeNothing(p) ==
  /\ On(p, "revoke") /\ Exit(p)
  /\ \/ UNCHANGED <<devices, stray, rest>>
     \/ May("faults") /\ stray' = stray \cup {at[p].dev} /\ UNCHANGED devices
  /\ UNCHANGED <<made, data, memory, dead, over, stay>>
\* The token that was granted is given back, if the server can be reached.
Revoke(p) ==
  /\ On(p, "revoke") /\ Exit(p)
  /\ \/ devices' = devices \ {at[p].dev} /\ UNCHANGED <<stray, rest>>
     \/ May("faults") /\ stray' = stray \cup {at[p].dev} /\ UNCHANGED devices
  /\ UNCHANGED <<made, data, memory, dead, over, stay>>

----------------------------------------------------------------------------
\* log_out and destroy_account.

\* refuse_if_history_would_be_lost, or the user accepts that it is.
MayLose(n, accepts) == accepts \/ ~Holds(n) \/ n \in keys

StartLeave(p, n, all, accepts) ==
  /\ May("leaves") /\ n \in dirs /\ MayLose(n, accepts)
  /\ Enters(p, [pc |-> IF all THEN "forget" ELSE "http", as |-> n, all |-> all,
                key |-> n \in keys])
  /\ UNCHANGED <<remote, data, memory, ghosts>>

\* Mutant: the directory goes next, not last.
ForgetRowsAndDir(p) ==
  /\ On(p, "forget")
  /\ \/ rows' = rows \ {Who(p)} /\ stay' = stay \ {<<Who(p), "rows">>}
        /\ open' = (open \/ cache)
        /\ Step(p, "dir") /\ UNCHANGED rest
     \/ May("faults") /\ Exit(p) /\ UNCHANGED <<rows, stay, open>>
  /\ UNCHANGED <<remote, session, keyDb, dirs, keys, cache, marked, junk, current, engine, busy,
                 stray, dead, over>>

\* forget_cached_account: the cache is opened if it is there.
ForgetRows(p) ==
  /\ On(p, "forget")
  /\ \/ rows' = rows \ {Who(p)} /\ stay' = stay \ {<<Who(p), "rows">>}
        /\ open' = (open \/ cache)
        /\ Step(p, "http") /\ UNCHANGED rest
     \/ May("faults") /\ Exit(p) /\ UNCHANGED <<rows, stay, open>>
  /\ UNCHANGED <<remote, session, keyDb, dirs, keys, cache, marked, junk, current, engine, busy,
                 stray, dead, over>>

\* logout; without a session there is nothing to tell the server.
TellServer(p) ==
  LET n == Who(p) IN
  /\ On(p, "http")
  /\ IF Holds(n) THEN session[n] \in devices /\ devices' = devices \ {session[n]} /\ Step(p, "stop")
     ELSE UNCHANGED devices /\ Step(p, "engine")
  /\ UNCHANGED <<made, data, memory, ghosts, rest>>

\* It is an error that the token is not valid any more; or no answer comes, be it
\* that the server did it or did not.
NotTold(p) ==
  LET n == Who(p) IN
  /\ On(p, "http") /\ Holds(n) /\ Exit(p)
  /\ IF session[n] \notin devices THEN UNCHANGED <<devices, dead, rest>>
     ELSE /\ May("faults")
          /\ \/ devices' = devices \ {session[n]} /\ dead' = dead \cup {n}
             \/ UNCHANGED <<devices, dead>>
  /\ UNCHANGED <<made, data, memory, stray, over, stay>>

\* The tasks and lines of the account end; a command that is in between goes on.
StopTasks(p) ==
  /\ On(p, "stop") /\ busy' \in {busy, [busy EXCEPT ![Who(p)] = "rest"]} /\ Step(p, "unseal")
  /\ UNCHANGED <<remote, data, engine, open, ghosts, rest>>

DeleteSession(p) ==
  LET n == Who(p) IN
  /\ On(p, "unseal")
  /\ \/ session' = [session EXCEPT ![n] = 0] /\ Step(p, "engine") /\ UNCHANGED <<dead, rest>>
     \/ May("faults") /\ dead' = dead \cup {n} /\ Exit(p) /\ UNCHANGED session
  /\ UNCHANGED <<remote, keyDb, dirs, keys, cache, rows, marked, junk, current, memory, stray,
                 over, stay>>

\* forget_crypto_engine: no session is left with which it could be opened again.
ForgetEngine(p) ==
  /\ On(p, "engine")
  /\ engine' = [engine EXCEPT ![Who(p)] = 0] /\ over' = over \ {Who(p)} /\ dead' = dead \ {Who(p)}
  /\ Step(p, "store")
  /\ UNCHANGED <<remote, data, open, busy, stray, stay, rest>>

\* delete_matrix_store and the snapshot of the room keys; clear_current_if.
DeleteStore(p) ==
  LET n == Who(p) IN
  /\ On(p, "store")
  /\ \/ /\ keyDb' = [keyDb EXCEPT ![n] = 0] /\ Step(p, "close") /\ UNCHANGED rest
        /\ current' = IF current = n THEN None ELSE current
     \/ May("faults") /\ Exit(p) /\ UNCHANGED <<keyDb, current>>
  /\ UNCHANGED <<remote, session, dirs, keys, cache, rows, marked, junk, memory, ghosts>>

\* What comes after the device: the recovery key, for destroy.
Then(p) == IF at[p].all THEN Step(p, "key") ELSE Exit(p)

\* close_server_cache, when no account of the server is logged in any more; it is an
\* error that somebody holds it.
CloseCache(p) ==
  /\ On(p, "close")
  /\ IF \E m \in Names : Holds(m) THEN Then(p) /\ UNCHANGED open
     ELSE IF Users # {} THEN Exit(p) /\ UNCHANGED open
     ELSE open' = FALSE /\ Step(p, "wipe")
  /\ UNCHANGED <<remote, data, engine, busy, ghosts, rest>>

RemoveCache(p) ==
  /\ On(p, "wipe")
  /\ \/ cache' = FALSE /\ rows' = {} /\ Then(p) /\ UNCHANGED rest
     \/ May("faults") /\ Exit(p) /\ UNCHANGED <<cache, rows>>
  /\ UNCHANGED <<remote, session, keyDb, dirs, keys, marked, junk, current, memory, ghosts>>

\* Only one that was there when the operation began.
DropRecoveryKey(p) ==
  /\ On(p, "key")
  /\ \/ /\ IF at[p].key THEN keys' = keys \ {Who(p)} /\ stay' = stay \ {<<Who(p), "key">>}
           ELSE UNCHANGED <<keys, stay>>
        /\ Step(p, "dirs") /\ UNCHANGED rest
     \/ at[p].key /\ May("faults") /\ Exit(p) /\ UNCHANGED <<keys, stay>>
  /\ UNCHANGED <<remote, session, keyDb, dirs, cache, rows, marked, junk, current, memory, stray,
                 dead, over>>

\* remove_destroyed_account_dirs: the directory of the server goes with that of its
\* last account, and is marked first.
IsLast(n) == dirs \subseteq {n}

MarkServer(p) ==
  /\ On(p, "dirs")
  /\ IF ~IsLast(Who(p)) THEN Step(p, "dir") /\ UNCHANGED <<marked, open, rest>>
     ELSE \/ Users = {} /\ open' = FALSE /\ marked' = TRUE /\ Step(p, "rest") /\ UNCHANGED rest
          \/ Users # {} /\ Exit(p) /\ UNCHANGED <<marked, open, rest>>
          \/ Users = {} /\ open' = FALSE /\ May("faults") /\ Exit(p) /\ UNCHANGED marked
  /\ UNCHANGED <<remote, session, keyDb, dirs, keys, cache, rows, junk, current, engine, busy,
                 ghosts>>

RemoveRest(p) ==
  /\ On(p, "rest")
  /\ \/ cache' = FALSE /\ rows' = {} /\ Step(p, "dir") /\ UNCHANGED rest
     \/ May("faults") /\ Exit(p) /\ UNCHANGED <<cache, rows>>
  /\ UNCHANGED <<remote, session, keyDb, dirs, keys, marked, junk, current, memory, ghosts>>

\* The directory of the account, as the last that may fail.  The mark goes when it
\* turns out that there is another account.
RemoveDir(p) ==
  LET n == Who(p)
      stays == marked /\ IsLast(n) IN
  /\ On(p, "dir")
  /\ \/ /\ dirs' = dirs \ {n} /\ session' = [session EXCEPT ![n] = 0]
        /\ keyDb' = [keyDb EXCEPT ![n] = 0] /\ UNCHANGED rest
        /\ marked' = stays
        /\ IF stays THEN Step(p, "rename") ELSE Exit(p)
     \/ May("faults") /\ Exit(p) /\ UNCHANGED <<dirs, session, keyDb, marked>>
  /\ UNCHANGED <<remote, keys, cache, rows, junk, current, memory, ghosts>>

\* What is left goes under another name, so that it is in nobody's way.
RenameServer(p) ==
  /\ On(p, "rename")
  /\ \/ ~junk /\ marked' = FALSE /\ junk' = TRUE /\ Step(p, "sweep") /\ UNCHANGED rest
     \/ junk /\ Exit(p) /\ UNCHANGED <<marked, junk, rest>>
     \/ May("faults") /\ Exit(p) /\ UNCHANGED <<marked, junk>>
  /\ UNCHANGED <<remote, session, keyDb, dirs, keys, cache, rows, current, memory, ghosts>>

SweepJunk(p) ==
  /\ On(p, "sweep") /\ Exit(p)
  /\ \/ junk' = FALSE /\ UNCHANGED rest
     \/ May("faults") /\ UNCHANGED junk
  /\ UNCHANGED <<remote, session, keyDb, dirs, keys, cache, rows, marked, current, memory, ghosts>>

----------------------------------------------------------------------------
\* What else happens.

\* olm_engine_of: with the session; a store that is not there is made anew, empty.
OpenEngine(n) ==
  /\ Holds(n) /\ engine[n] = 0 /\ Suits(n, session[n])
  /\ engine' = [engine EXCEPT ![n] = session[n]] /\ keyDb' = [keyDb EXCEPT ![n] = session[n]]
  /\ UNCHANGED <<remote, session, dirs, keys, cache, rows, marked, junk, current, open, busy,
                 lock, at, ghosts, rest>>

\* A command or a task of the account begins with the session it reads, and goes on
\* with it: it takes the handle of the cache, which is opened or made, and writes what
\* was pushed or read, or keeps the recovery key it made.  It does not ask for the lock.
Begin(n) ==
  /\ Holds(n) /\ busy[n] = "rest" /\ May("tasks") /\ busy' = [busy EXCEPT ![n] = "begun"]
  /\ UNCHANGED <<remote, data, engine, open, lock, at, ghosts>>

TakeCache(n) ==
  /\ busy[n] = "begun" /\ busy' = [busy EXCEPT ![n] = "cache"]
  /\ open' = TRUE /\ cache' = (cache \/ ~open)
  /\ UNCHANGED <<remote, session, keyDb, dirs, keys, rows, marked, junk, current, engine, lock,
                 at, ghosts, rest>>

Returns(n) == busy' = [busy EXCEPT ![n] = "rest"]
Destroying(n) ==
  \E p \in Clients : at[p] # NoOp /\ Who(p) = n /\ "key" \in DOMAIN at[p] /\ at[p].all
Writes(n, what) ==
  stay' = IF Destroying(n) \/ n \notin dirs THEN stay \cup {<<n, what>>} ELSE stay

\* Rows that go to a file that was removed are nowhere.
WriteRows(n) ==
  /\ busy[n] = "cache" /\ Returns(n)
  /\ IF cache THEN rows' = rows \cup {n} /\ Writes(n, "rows") ELSE UNCHANGED <<rows, stay>>
  /\ UNCHANGED <<remote, session, keyDb, dirs, keys, cache, marked, junk, current, engine, open,
                 lock, at, stray, dead, over, rest>>

SaveRecoveryKey(n) ==
  /\ busy[n] = "begun" /\ Returns(n) /\ keys' = keys \cup {n} /\ Writes(n, "key")
  /\ UNCHANGED <<remote, session, keyDb, dirs, cache, rows, marked, junk, current, engine, open,
                 lock, at, stray, dead, over, rest>>

\* The user does what he is told to do with a directory that stays marked.
RemoveByHand ==
  /\ marked /\ lock = None /\ dirs = {} /\ Users = {}
  /\ marked' = FALSE /\ cache' = FALSE /\ rows' = {} /\ open' = FALSE
  /\ UNCHANGED <<remote, session, keyDb, dirs, keys, junk, current, engine, busy, lock, at,
                 ghosts, rest>>

\* The process stops, and with it the lock is free.
Undone(pcs) == {p \in Clients : at[p].pc \in pcs}
ProgramStops ==
  /\ May("crashes")
  /\ lock' = None /\ at' = [p \in Clients |-> NoOp]
  /\ engine' = Nobody /\ open' = FALSE /\ busy' = [n \in Names |-> "rest"]
  /\ stray' = stray \cup {at[p].dev : p \in Undone({"move", "build", "seal", "revoke"})}
  /\ dead' = dead \cup {Who(p) : p \in Undone({"stop", "unseal"})}
  /\ UNCHANGED <<remote, data, over, stay>>

LogsIn(p) ==
  \/ \E t \in Names : StartLogin(p, t)
  \/ Granted(p) \/ GrantIsLost(p) \/ Denied(p) \/ Move(p) \/ Build(p) \/ Seal(p) \/ Point(p)
  \/ Revoke(p)

Leaves(p) ==
  \/ \E n \in Names, all, accepts \in BOOLEAN : StartLeave(p, n, all, accepts)
  \/ ForgetRows(p) \/ TellServer(p) \/ NotTold(p) \/ StopTasks(p) \/ DeleteSession(p)
  \/ ForgetEngine(p) \/ DeleteStore(p) \/ CloseCache(p) \/ RemoveCache(p) \/ DropRecoveryKey(p)
  \/ MarkServer(p) \/ RemoveRest(p) \/ RemoveDir(p) \/ RenameServer(p) \/ SweepJunk(p)

AccountsNext ==
  \/ \E p \in Clients : LogsIn(p) \/ Leaves(p)
  \/ \E n \in Names : \/ OpenEngine(n) \/ Begin(n) \/ TakeCache(n) \/ WriteRows(n)
                      \/ SaveRecoveryKey(n)
  \/ RemoveByHand \/ ProgramStops

AccountsSpec == AccountsInit /\ [][AccountsNext]_accountVars

----------------------------------------------------------------------------
\* Between operations server, disk and memory agree on who is logged in.  The devices
\* of the server are those of the sessions that are kept here, but for what an answer
\* or a stop that was lost explains: a login that fails halfway leaves no device behind,
\* a logout no session.  The key store and the engine are of the session's device, and
\* without a session no engine is there; not so after a login over a login.
SessionsAgree ==
  lock = None =>
    /\ devices \subseteq stray \cup {session[n] : n \in Names}
    /\ \A n \in Names \ dead : Holds(n) => session[n] \in devices
    /\ \A n \in Names \ over :
         engine[n] \in {0, session[n]} /\ (Holds(n) => keyDb[n] = session[n])

\* Whatever an operation that failed or stopped leaves of an account, its directory is
\* still there, so that the next one finds it; what was written while the account was
\* being destroyed excepted.
RemainsAreFound ==
  \A n \in Names \ dirs :
    /\ ~Holds(n) /\ keyDb[n] = 0 /\ current # n
    /\ n \in rows => <<n, "rows">> \in stay
    /\ n \in keys => <<n, "key">> \in stay

\* Both: between operations nothing of an account is on one side only.
AccountsAreWhole == SessionsAgree /\ RemainsAreFound

\* The cache goes only when nobody of the server is logged in, and nobody is logged in
\* anew in a directory that is being removed.
NothingUnderAnAccount ==
  [][/\ cache /\ ~cache' => \A n \in Names : ~Holds(n)
     /\ marked => \A n \in Names : session'[n] \in {0, session[n]}]_accountVars

\* A comment of the code (login_ops.rs) has it that no account is left that is logged in
\* and has no key store.
SessionHasStore == lock = None => \A n \in Names : Holds(n) => keyDb[n] = session[n]
=============================================================================
