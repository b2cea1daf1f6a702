------------------------------- MODULE LinkPool -------------------------------
(***************************************************************************)
(* The lines of one account: `LinkPool` (wbf-core/src/link_pool.rs), the   *)
(* round that keeps them open (link_keeper.rs), the task that follows a    *)
(* subscription (key_sync.rs, room_sync.rs) and the login and logout that  *)
(* replace them (login_ops.rs, session_ops.rs).                            *)
(*                                                                         *)
(* A pool has one slot per role; a slot is a line behind a read-write lock *)
(* and the mutex of its opener.  Whoever uses a line holds the lock for    *)
(* reading, whoever opens or closes one holds it for writing; the guards   *)
(* are scopes, so where an actor is (pc) says which it holds.  The lock is *)
(* fair: no reader passes a writer that waits.  Pools and slots are        *)
(* reference-counted: the last reference takes the line with it, and the   *)
(* identity may be used again here.                                        *)
(***************************************************************************)
EXTENDS Naturals, Sequences, FiniteSets

CONSTANTS
  Commands,     \* commands in flight; each may run again and again
  RoleOrder,    \* LinkRole::ALL, in its order
  Subscribed,   \* the role with a subscription (init_connection)
  CommandRole,  \* the line each command uses
  Pools, Slots, \* bound: identities of pools and slots; a new one is one not in use
  MaxSession,   \* bound: how many sessions the server ever hands out
  Rounds,       \* bound: how many rounds the keeper starts
  Starts,       \* how much of the two bounds is spent at the start: pairs
  keeper, owner, watcher,   \* ensure_links, login and logout, the sync task
  None

Actors == Commands \cup {keeper, owner, watcher}
Roles == {RoleOrder[i] : i \in DOMAIN RoleOrder}
Sessions == 1 .. MaxSession

ASSUME Distinct ==
  /\ keeper # owner /\ keeper # watcher /\ owner # watcher
  /\ {keeper, owner, watcher} \cap Commands = {}
  /\ None \notin Actors \cup Pools \cup Slots \cup Sessions \cup Roles
ASSUME Shapes ==
  /\ RoleOrder \in Seq(Roles)
  /\ \E r \in Roles : Subscribed = {r}
  /\ CommandRole \in [Commands -> Roles]
  /\ MaxSession \in Nat \ {0} /\ Rounds \in Nat
  /\ Starts \subseteq Sessions \X (0 .. Rounds)

VARIABLES
  session,      \* session.sealed: the session in use, or None
  valid,        \* the server's token table
  issued,       \* sessions handed out so far
  sealed,       \* Core.logging_out holds this account
  registry,     \* Core.link_pools: this account's pool, or None
  slotOf,       \* the slots of each pool
  line,         \* what is behind the lock of each slot
  pc, pool, slot, ses,      \* where each actor is and what it holds
  join,         \* the pool that the task it is about to start will use
  turn, rounds, \* the keeper: which role, which round
  phase, toClose            \* login and logout: which close_links, which slots

tokens == <<session, valid, issued, sealed>>
pools == <<registry, slotOf, line>>
refs == <<pool, slot, ses, join>>
keeping == <<turn, rounds>>
owned == <<phase, toClose>>
vars == <<tokens, pools, pc, refs, keeping, owned>>

NoLine == [of |-> None, up |-> FALSE, stray |-> FALSE]
NoSlots == [r \in Roles |-> None]

----------------------------------------------------------------------------
\* References.

Held == {registry} \cup {pool[a] : a \in Actors} \cup {join[a] : a \in Actors}
Reached == {slotOf[p][r] : p \in Held \cap Pools, r \in Roles} \cup {slot[a] : a \in Actors}
             \cup toClose

\* The last reference to a pool or to a slot is gone: its line closes.
Dropping(lines) ==
  /\ LET held == Held' IN slotOf' = [p \in Pools |-> IF p \in held THEN slotOf[p] ELSE NoSlots]
  /\ LET reached == Reached' IN line' = [s \in Slots |-> IF s \in reached THEN lines[s] ELSE NoLine]

NewPool == CHOOSE p \in Pools : p \notin Held
NewSlot == CHOOSE s \in Slots : s \notin Reached

RoleOf(a) == IF a = keeper THEN RoleOrder[turn]
             ELSE IF a = watcher THEN CHOOSE r \in Subscribed : TRUE
             ELSE CommandRole[a]

Alive(s) == line[s].up

----------------------------------------------------------------------------
\* The locks of a slot, read off the places of the actors.

Opening == {"connect", "join", "follow", "opened"}
At(s, places) == {a \in Actors : slot[a] = s /\ pc[a] \in places}

Users(s) == At(s, {"using"})
Writing(s) == At(s, Opening) # {}
Queued(s) == At(s, {"upgrade", "closing"}) # {}
\* Mutants: the second look waits for the door its own actor holds; a line is
\* closed under those who use it.
ReadableAtFreeDoor(s) == ~Writing(s) /\ ~Queued(s) /\ At(s, {"again"}) = {}
WritableAtOnce(s) == ~Writing(s)

Readable(s) == ~Writing(s) /\ ~Queued(s)
Writable(s) == ~Writing(s) /\ Users(s) = {}
DoorIsFree(s) == At(s, {"again", "upgrade"} \cup Opening) = {}

GoTo(a, place) == pc' = [pc EXCEPT ![a] = place]

----------------------------------------------------------------------------
\* pool_of_account: the registered pool, or a new one.

AccountIsOpen == ~sealed /\ session # None
Registered == IF registry = None THEN NewPool ELSE registry
RegisterPool ==
  /\ registry = None => Pools \ Held # {}
  /\ registry' = Registered
  /\ slotOf' = IF registry = None THEN [slotOf EXCEPT ![NewPool] = NoSlots] ELSE slotOf

\* The seal and the session were looked at before.
TakePool(a) ==
  /\ pc[a] = "pool"
  /\ RegisterPool
  /\ pool' = [pool EXCEPT ![a] = Registered]
  /\ GoTo(a, IF a = keeper THEN "try" ELSE "enter")
  /\ UNCHANGED <<tokens, line, slot, ses, join, keeping, owned>>

----------------------------------------------------------------------------
\* acquire.

\* LinkPool::slot: the slot of this role, a new one if there is none.
SlotFor(p, r) == IF slotOf[p][r] = None THEN NewSlot ELSE slotOf[p][r]
TakeSlot(a) ==
  LET s == SlotFor(pool[a], RoleOf(a)) IN
    /\ slotOf[pool[a]][RoleOf(a)] = None => Slots \ Reached # {}
    /\ slotOf' = [slotOf EXCEPT ![pool[a]][RoleOf(a)] = s]
    /\ slot' = [slot EXCEPT ![a] = s]

Enter(a) ==
  /\ pc[a] = "enter"
  /\ TakeSlot(a)
  /\ GoTo(a, "look")
  /\ UNCHANGED <<tokens, registry, line, pool, ses, join, keeping, owned>>

\* pooled_if_alive: the guard stays with the client, or goes.
Look(a) ==
  /\ pc[a] = "look"
  /\ Readable(slot[a])
  /\ GoTo(a, IF Alive(slot[a]) THEN "using" ELSE "door")
  /\ UNCHANGED <<tokens, pools, refs, keeping, owned>>

\* One opener per slot; it looks again in case another has opened meanwhile.
Door(a) ==
  /\ pc[a] = "door"
  /\ DoorIsFree(slot[a])
  /\ GoTo(a, "again")
  /\ UNCHANGED <<tokens, pools, refs, keeping, owned>>

LookAgain(a) ==
  /\ pc[a] = "again"
  /\ Readable(slot[a])
  /\ GoTo(a, IF Alive(slot[a]) THEN "using" ELSE "upgrade")
  /\ UNCHANGED <<tokens, pools, refs, keeping, owned>>

\* open_link failed: the slot stays empty and everything is let go.
GiveUpOpening(a) ==
  /\ GoTo(a, "gaveUp")
  /\ join' = [join EXCEPT ![a] = None]
  /\ UNCHANGED <<tokens, registry, pool, slot, ses, keeping, owned>>
  /\ Dropping([line EXCEPT ![slot[a]] = NoLine])

\* The write lock: a dead line is dropped, and open_link takes the session of
\* this moment.  (acquire also asks whether a live line is there after all:
\* nobody but the one at the door opens one, see TypeOK.)
Dial(a) ==
  /\ pc[a] = "upgrade"
  /\ Writable(slot[a])
  /\ ~Alive(slot[a])
  /\ session # None
  /\ line' = [line EXCEPT ![slot[a]] = NoLine]
  /\ ses' = [ses EXCEPT ![a] = session]
  /\ GoTo(a, "connect")
  /\ UNCHANGED <<tokens, registry, slotOf, pool, slot, join, keeping, owned>>

DialFails(a) ==
  /\ pc[a] = "upgrade"
  /\ Writable(slot[a])
  /\ ~Alive(slot[a])
  /\ session = None
  /\ GiveUpOpening(a)

\* A slot that no close_links will find: not in the registered pool, nor in one
\* that is about to be emptied, nor among those about to be closed.
Stray(a) ==
  /\ slot[a] \notin toClose
  /\ registry # None => slotOf[registry][RoleOf(a)] # slot[a]
  /\ pc[owner] = "drain" /\ pool[owner] # None => slotOf[pool[owner]][RoleOf(a)] # slot[a]

\* connect and hello: the server takes a token it knows.
Connect(a) ==
  /\ pc[a] = "connect"
  /\ ses[a] \in valid
  /\ line' = [line EXCEPT ![slot[a]] = [of |-> ses[a], up |-> TRUE, stray |-> Stray(a)]]
  /\ GoTo(a, IF RoleOf(a) \in Subscribed THEN "join" ELSE "opened")
  /\ UNCHANGED <<tokens, registry, slotOf, refs, keeping, owned>>

\* The server refuses, or does not answer.
ConnectFails(a) == pc[a] = "connect" /\ GiveUpOpening(a)

\* init_connection of a subscription line: not on an account that is logging
\* out, and with the pool that is registered at this moment.
Join(a) ==
  /\ pc[a] = "join"
  /\ AccountIsOpen
  /\ RegisterPool
  /\ join' = [join EXCEPT ![a] = Registered]
  /\ GoTo(a, "follow")
  /\ UNCHANGED <<tokens, line, pool, slot, ses, keeping, owned>>

JoinFails(a) == pc[a] = "join" /\ ~AccountIsOpen /\ GiveUpOpening(a)

\* The server acknowledged: the task that follows the subscription replaces
\* the one before it, which is aborted where it waits.
Follow(a) ==
  /\ pc[a] = "follow"
  /\ pc' = [pc EXCEPT ![a] = "opened", ![watcher] = "watching"]
  /\ pool' = [pool EXCEPT ![watcher] = join[a]]
  /\ slot' = [slot EXCEPT ![watcher] = None]
  /\ join' = [join EXCEPT ![a] = None]
  /\ UNCHANGED <<tokens, registry, ses, keeping, owned>>
  /\ Dropping(line)

\* The line closed meanwhile, or the server refused.
FollowFails(a) == pc[a] = "follow" /\ GiveUpOpening(a)

\* The line is in its slot; it may have closed right after it was opened.
Opened(a) ==
  /\ pc[a] = "opened"
  /\ GoTo(a, IF Alive(slot[a]) THEN "using" ELSE "gaveUp")
  /\ UNCHANGED <<tokens, pools, refs, keeping, owned>>

Acquire(a) ==
  \/ TakePool(a) \/ Enter(a) \/ Look(a) \/ Door(a) \/ LookAgain(a)
  \/ Dial(a) \/ DialFails(a) \/ Connect(a) \/ ConnectFails(a)
  \/ Join(a) \/ JoinFails(a) \/ Follow(a) \/ FollowFails(a) \/ Opened(a)

----------------------------------------------------------------------------
\* The commands: client_of, then whatever the command asks on its client.

Begin(c) ==
  /\ pc[c] = "idle"
  /\ AccountIsOpen
  /\ GoTo(c, "pool")
  /\ UNCHANGED <<tokens, pools, refs, keeping, owned>>

Forgets(a) ==
  /\ pool' = [pool EXCEPT ![a] = None]
  /\ slot' = [slot EXCEPT ![a] = None]
  /\ ses' = [ses EXCEPT ![a] = None]
  /\ UNCHANGED join

\* It is done, or it failed: the client goes, and the read lock with it.
End(c) ==
  /\ pc[c] \in {"using", "gaveUp"}
  /\ Forgets(c)
  /\ GoTo(c, "idle")
  /\ UNCHANGED <<tokens, registry, keeping, owned>>
  /\ Dropping(line)

----------------------------------------------------------------------------
\* The keeper: ensure_links, one round.

\* The lifecycle lock is free at this moment, and let go at once.
StartRound ==
  /\ pc[keeper] = "idle"
  /\ rounds < Rounds
  /\ pc[owner] = "idle"
  /\ AccountIsOpen
  /\ rounds' = rounds + 1
  /\ turn' = 1
  /\ GoTo(keeper, "pool")
  /\ UNCHANGED <<tokens, pools, refs, owned>>

\* On to the next role, with the pool it took for the account.
Advance ==
  \/ /\ turn < Len(RoleOrder)
     /\ turn' = turn + 1
     /\ slot' = [slot EXCEPT ![keeper] = None]
     /\ ses' = [ses EXCEPT ![keeper] = None]
     /\ GoTo(keeper, "try")
     /\ UNCHANGED <<pool, join>>
  \/ /\ turn = Len(RoleOrder)
     /\ turn' = 0
     /\ Forgets(keeper)
     /\ GoTo(keeper, "idle")

\* ensure_open: a slot somebody writes to, or waits to, counts as open.
IsOpen(s) == s # None /\ (Alive(s) \/ ~Readable(s))

TryOpen ==
  /\ pc[keeper] = "try"
  /\ ~IsOpen(slotOf[pool[keeper]][RoleOf(keeper)])
  /\ GoTo(keeper, "enter")
  /\ UNCHANGED <<tokens, pools, refs, keeping, owned>>

MoveOn ==
  /\ \/ pc[keeper] = "try" /\ IsOpen(slotOf[pool[keeper]][RoleOf(keeper)])
     \/ pc[keeper] \in {"using", "gaveUp"}
  /\ Advance
  /\ UNCHANGED <<tokens, registry, rounds, owned>>
  /\ Dropping(line)

----------------------------------------------------------------------------
\* The task of the subscription.

\* The session ended with its line, or the server ended it on a live line.
WatchEnds ==
  /\ pc[watcher] = "watching"
  /\ TakeSlot(watcher)
  /\ GoTo(watcher, "closing")
  /\ UNCHANGED <<tokens, registry, line, pool, ses, join, keeping, owned>>

\* LinkPool::close, once nobody uses the line.
WatcherCloses ==
  /\ pc[watcher] = "closing"
  /\ Writable(slot[watcher])
  /\ Forgets(watcher)
  /\ GoTo(watcher, "idle")
  /\ UNCHANGED <<tokens, registry, keeping, owned>>
  /\ Dropping([line EXCEPT ![slot[watcher]] = NoLine])

----------------------------------------------------------------------------
\* Login and logout, one at a time (the account lifecycle lock).

OwnerAt(step, stage) == GoTo(owner, step) /\ phase' = stage

\* The seal goes up before the token goes.
StartLogout ==
  /\ pc[owner] = "idle"
  /\ \/ session = None /\ OwnerAt("unregister", "loggedOut") /\ UNCHANGED sealed
     \/ session # None /\ OwnerAt("revoke", "logout") /\ sealed' = TRUE
  /\ UNCHANGED <<session, valid, issued, pools, refs, keeping, toClose>>

\* HTTP /logout: on success the task of the subscription is stopped next.
Revoke ==
  /\ pc[owner] = "revoke"
  /\ valid' = valid \ {session}
  /\ OwnerAt("stop", "logout")
  /\ UNCHANGED <<session, issued, sealed, pools, refs, keeping, toClose>>

\* It failed: nothing else happens.  The server may have done it all the same.
RevokeFails ==
  /\ pc[owner] = "revoke"
  /\ \/ UNCHANGED valid
     \/ valid' = valid \ {session}
  /\ sealed' = FALSE
  /\ OwnerAt("idle", "idle")
  /\ UNCHANGED <<session, issued, pools, refs, keeping, toClose>>

\* stop_key_sync_of: the task returns, or is aborted where it waits.
StopWatcher ==
  /\ pc[owner] = "stop"
  /\ pc' = [pc EXCEPT ![owner] = "unregister", ![watcher] = "idle"]
  /\ Forgets(watcher)
  /\ UNCHANGED <<tokens, registry, keeping, owned>>
  /\ Dropping(line)

\* The server hands out a token; the old session is still the one in use.
StartLogin ==
  /\ pc[owner] = "idle"
  /\ issued + 1 \in Sessions
  /\ issued' = issued + 1
  /\ valid' = valid \cup {issued + 1}
  /\ OwnerAt("unregister", "login")
  /\ UNCHANGED <<session, sealed, pools, refs, keeping, toClose>>

\* close_links: out of the registry, then close_all empties the pool's table.
Unregister ==
  /\ pc[owner] = "unregister"
  /\ registry' = None
  /\ pool' = [pool EXCEPT ![owner] = registry]
  /\ OwnerAt("drain", phase)
  /\ UNCHANGED <<tokens, slotOf, line, slot, ses, join, keeping, toClose>>

Drain ==
  /\ pc[owner] = "drain"
  /\ OwnerAt("close", phase)
  /\ \/ pool[owner] = None /\ UNCHANGED <<slotOf, toClose>>
     \/ /\ pool[owner] # None
        /\ toClose' = {slotOf[pool[owner]][r] : r \in Roles} \ {None}
        /\ slotOf' = [slotOf EXCEPT ![pool[owner]] = NoSlots]
  /\ UNCHANGED <<tokens, registry, line, refs, keeping>>

\* One slot after another, each when nobody uses it any more.
WaitForUsers ==
  /\ pc[owner] = "close"
  /\ \E s \in toClose : slot' = [slot EXCEPT ![owner] = s]
  /\ OwnerAt("closing", phase)
  /\ UNCHANGED <<tokens, pools, pool, ses, join, keeping, toClose>>

CloseSlot ==
  /\ pc[owner] = "closing"
  /\ Writable(slot[owner])
  /\ toClose' = toClose \ {slot[owner]}
  /\ slot' = [slot EXCEPT ![owner] = None]
  /\ OwnerAt("close", phase)
  /\ UNCHANGED <<tokens, registry, pool, ses, join, keeping>>
  /\ Dropping([line EXCEPT ![slot[owner]] = NoLine])

\* All closed.  Logout deletes the session, lifts the seal and sweeps once more.
LeaveSession ==
  /\ phase = "logout"
  /\ session' = None /\ sealed' = FALSE
  /\ OwnerAt("unregister", "loggedOut")
  /\ UNCHANGED valid

\* Mutant: login leaves the lines of the old session alone.
SealSessionOnly ==
  /\ phase = "login"
  /\ session' = issued
  /\ OwnerAt("idle", "idle")
  /\ UNCHANGED <<valid, sealed>>

\* Login seals the new session and closes what the old one still has.
SealSession ==
  /\ phase = "login"
  /\ session' = issued
  /\ OwnerAt("unregister", "loggedIn")
  /\ UNCHANGED <<valid, sealed>>

\* A local step of the login failed: the new token is revoked again.
TakeBack ==
  /\ phase = "login"
  /\ valid' = valid \ {issued}
  /\ OwnerAt("idle", "idle")
  /\ UNCHANGED <<session, sealed>>

Finish ==
  /\ phase \in {"loggedOut", "loggedIn"}
  /\ OwnerAt("idle", "idle")
  /\ UNCHANGED <<session, valid, sealed>>

AllClosed ==
  /\ pc[owner] = "close"
  /\ toClose = {}
  /\ pool' = [pool EXCEPT ![owner] = None]
  /\ LeaveSession \/ SealSession \/ TakeBack \/ Finish
  /\ UNCHANGED <<issued, registry, slot, ses, join, keeping, toClose>>
  /\ Dropping(line)

----------------------------------------------------------------------------
\* The other end closes, the heartbeat is not answered, the token is no longer
\* good: the WsLink shuts down by itself.
LineDies ==
  /\ \E s \in Slots : Alive(s) /\ line' = [line EXCEPT ![s].up = FALSE]
  /\ UNCHANGED <<tokens, registry, slotOf, pc, refs, keeping, owned>>

Init ==
  /\ \E start \in Starts : session = start[1] /\ rounds = start[2]
  /\ valid = {session} /\ issued = session /\ sealed = FALSE
  /\ registry = None
  /\ slotOf = [p \in Pools |-> NoSlots]
  /\ line = [s \in Slots |-> NoLine]
  /\ pc = [a \in Actors |-> "idle"]
  /\ pool = [a \in Actors |-> None] /\ slot = [a \in Actors |-> None]
  /\ ses = [a \in Actors |-> None] /\ join = [a \in Actors |-> None]
  /\ turn = 0
  /\ phase = "idle" /\ toClose = {}

CommandStep(c) == Acquire(c) \/ End(c)
KeeperStep == Acquire(keeper) \/ TryOpen \/ MoveOn
OwnerStep == \/ Revoke \/ RevokeFails \/ StopWatcher \/ Unregister \/ Drain
             \/ WaitForUsers \/ CloseSlot \/ AllClosed

Next ==
  \/ \E c \in Commands : Begin(c) \/ CommandStep(c)
  \/ StartRound \/ KeeperStep
  \/ WatchEnds \/ WatcherCloses
  \/ StartLogout \/ StartLogin \/ OwnerStep
  \/ LineDies

Spec == Init /\ [][Next]_vars

\* Every task goes on: a command lets go of its line in the end, the locks are
\* fair.  Nothing has to begin, and no line has to die.
Fairness ==
  /\ \A c \in Commands : SF_vars(CommandStep(c))
  /\ SF_vars(KeeperStep) /\ SF_vars(OwnerStep) /\ SF_vars(WatcherCloses)
FairSpec == Spec /\ Fairness

----------------------------------------------------------------------------
\* Properties.

Places == {"idle", "pool", "try", "enter", "look", "door", "again", "upgrade", "using",
           "gaveUp", "watching", "closing", "revoke", "stop", "unregister", "drain",
           "close"} \cup Opening
Lines == [of : Sessions \cup {None}, up : BOOLEAN, stray : BOOLEAN]

\* Every variable has its type, and at any time a slot has one actor at its door
\* and either one who writes or those who read; who has looked twice and waits to
\* write finds no live line any more.
TypeOK ==
  /\ session \in Sessions \cup {None} /\ valid \subseteq Sessions /\ issued \in Sessions
  /\ sealed \in BOOLEAN /\ registry \in Pools \cup {None}
  /\ slotOf \in [Pools -> [Roles -> Slots \cup {None}]]
  /\ line \in [Slots -> Lines]
  /\ pc \in [Actors -> Places]
  /\ pool \in [Actors -> Pools \cup {None}] /\ join \in [Actors -> Pools \cup {None}]
  /\ slot \in [Actors -> Slots \cup {None}] /\ ses \in [Actors -> Sessions \cup {None}]
  /\ turn \in 0 .. Len(RoleOrder) /\ rounds \in 0 .. Rounds
  /\ phase \in {"idle", "login", "loggedIn", "logout", "loggedOut"}
  /\ toClose \subseteq Slots
  /\ \A s \in Slots :
       /\ Cardinality(At(s, {"again", "upgrade"} \cup Opening)) <= 1
       /\ Writing(s) => Users(s) = {}
       /\ At(s, {"upgrade"}) # {} => ~Alive(s)

\* When no login or logout runs, a line that was opened in the account's pool
\* is a line of the session in use: close_links left none of a session before
\* it, neither one in use nor one that was being opened (close_all waits for
\* both).
NoOldLine ==
  pc[owner] = "idle" => \A s \in Slots : Alive(s) /\ ~line[s].stray => line[s].of = session

\* A live line is never replaced by another, and never closed while somebody
\* goes on using it: login, logout and the subscription's task wait for the
\* commands on it (LinkPool::close, close_all; acquire drops only a dead one).
LiveLineIsKept ==
  [][\A s \in Slots : Alive(s) =>
        \/ line'[s].of = line[s].of
        \/ ~line'[s].up /\ Users(s) \cap Users(s)' = {}]_vars

\* Every command gets its line or an error, the keeper's round passes and a login
\* or logout comes to its end, whatever the others do with the lines they wait
\* for: nobody stays at the door of a line or in the queue of its lock.
EveryoneEnds ==
  \A a \in Commands \cup {keeper, owner} : pc[a] # "idle" ~> pc[a] = "idle"

=============================================================================
