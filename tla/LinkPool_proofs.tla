--------------------------- MODULE LinkPool_proofs ---------------------------
(***************************************************************************)
(* What the lines of an account never do, proved of LinkPool for any       *)
(* number of commands, roles, pools, slots, sessions and rounds.           *)
(*                                                                         *)
(* The inductive invariant, PoolInv: the types, what an actor has in hand  *)
(* by where it is, where login and logout are, that nothing is behind a    *)
(* slot nobody can reach, that close_links will find every live line but a *)
(* stray one, that what it would find is of the session in use (except     *)
(* between the change of the session and the moment the pool leaves the    *)
(* registry), and that who opens a line is alone with it.  TypeOK needs    *)
(* DoorsHold besides: one opener at the door of a slot.                    *)
(***************************************************************************)
EXTENDS LinkPool, FiniteSetTheorems, TLAPS

\* Who opens lines.
Takers == Commands \cup {keeper}
OwnerPlaces == {"idle", "revoke", "stop", "unregister", "drain", "close", "closing"}
\* Where an actor has no pool in hand, and where it has no slot.
Poolless == {"idle", "pool", "revoke", "stop", "unregister"}
Slotless == Poolless \cup {"try", "enter", "watching", "drain", "close"}

PoolTyped ==
  /\ session \in Sessions \cup {None} /\ issued \in Sessions
  /\ registry \in Pools \cup {None}
  /\ slotOf \in [Pools -> [Roles -> Slots \cup {None}]]
  /\ line \in [Slots -> Lines]
  /\ pc \in [Actors -> Places]
  /\ pool \in [Actors -> Pools \cup {None}] /\ join \in [Actors -> Pools \cup {None}]
  /\ slot \in [Actors -> Slots \cup {None}] /\ ses \in [Actors -> Sessions \cup {None}]
  /\ turn \in Nat /\ toClose \subseteq Slots
  /\ phase \in {"idle", "login", "loggedIn", "logout", "loggedOut"}

\* What an actor has in hand, by where it is.
HandsAreKnown ==
  /\ pc[watcher] \in {"idle", "watching", "closing"} /\ pc[owner] \in OwnerPlaces
  /\ \A a \in Actors :
       /\ pc[a] \in Poolless => pool[a] = None
       /\ pc[a] \notin Poolless /\ a # owner => pool[a] # None
       /\ slot[a] = None <=> pc[a] \in Slotless
       /\ join[a] = None <=> pc[a] # "follow"
  /\ pc[keeper] # "idle" => turn \in DOMAIN RoleOrder

OwnerIsKnown ==
  /\ pc[owner] = "idle" <=> phase = "idle"
  /\ pc[owner] \in {"revoke", "stop"} => phase = "logout"
  /\ toClose # {} => pc[owner] \in {"close", "closing"}
  /\ pc[owner] = "drain" /\ pool[owner] # None => registry # pool[owner]

\* Nothing is behind the lock of a slot that nobody can reach.
UnreachedIsEmpty == \A s \in Slots : s \notin Reached => line[s] = NoLine

\* close_links will find it.
IsFound(s) ==
  \/ s \in toClose
  \/ registry # None /\ \E r \in Roles : slotOf[registry][r] = s
  \/ pc[owner] = "drain" /\ pool[owner] # None /\ \E r \in Roles : slotOf[pool[owner]][r] = s

LivesAreFound == \A s \in Slots : Alive(s) /\ ~line[s].stray => IsFound(s)

\* What is there, and what is about to be there, is of the session in use.
Current(s) ==
  /\ Alive(s) /\ ~line[s].stray => line[s].of = session
  /\ \A a \in Actors : pc[a] = "connect" /\ slot[a] = s => ses[a] = session

AllCurrent(p) == p # None => \A s \in Slots : (\E r \in Roles : slotOf[p][r] = s) => Current(s)

\* Between the change of the session and Unregister, the registered pool may still have
\* lines of the session before; what is emptied after it has them.
FoundIsCurrent ==
  /\ ~(pc[owner] = "unregister" /\ phase \in {"loggedIn", "loggedOut"}) => AllCurrent(registry)
  /\ pc[owner] = "drain" /\ phase \in {"login", "logout"} => AllCurrent(pool[owner])
  /\ phase \in {"login", "logout"} => \A s \in toClose : Current(s)

\* One actor at most writes to a slot, and while it does nobody uses the line.
LocksHold ==
  \A a \in Actors : pc[a] \in Opening =>
    /\ \A b \in Actors : b # a /\ slot[b] = slot[a] => pc[b] \notin Opening \cup {"using"}
    /\ pc[a] = "connect" => ~Alive(slot[a])

PoolInv ==
  /\ PoolTyped /\ HandsAreKnown /\ OwnerIsKnown /\ UnreachedIsEmpty
  /\ LivesAreFound /\ FoundIsCurrent /\ LocksHold

\* The variables that the other parts say nothing of.
RestTyped ==
  /\ valid \subseteq Sessions /\ sealed \in {TRUE, FALSE}
  /\ turn <= Len(RoleOrder) /\ rounds \in 0 .. Rounds

\* One actor at most is at the door of a slot, and no line is alive behind the one who has
\* looked twice.
DoorPlaces == {"again", "upgrade"} \cup Opening
DoorsHold ==
  \A a \in Actors :
    /\ pc[a] \in DoorPlaces =>
         \A b \in Actors : b # a /\ slot[b] = slot[a] => pc[b] \notin DoorPlaces
    /\ pc[a] = "upgrade" => ~Alive(slot[a])

----------------------------------------------------------------------------
\* The constants, and what the operators do.

\* The roles, and the line each actor takes.
LEMMA RolesAre ==
  /\ DOMAIN RoleOrder = 1 .. Len(RoleOrder) /\ Len(RoleOrder) \in Nat
  /\ \A i \in DOMAIN RoleOrder : RoleOrder[i] \in Roles
  /\ 1 \in DOMAIN RoleOrder
  /\ (CHOOSE r \in Subscribed : TRUE) \in Roles
<1>1. RoleOrder \in Seq(Roles) /\ \E r \in Roles : Subscribed = {r}
  BY Shapes
<1>2. DOMAIN RoleOrder = 1 .. Len(RoleOrder) /\ Len(RoleOrder) \in Nat
  BY <1>1
<1>3. \A i \in DOMAIN RoleOrder : RoleOrder[i] \in Roles
  BY DEF Roles
<1>4. DOMAIN RoleOrder # {}
  BY <1>1 DEF Roles
<1>5. (CHOOSE r \in Subscribed : TRUE) \in Roles
  BY <1>1
<1> QED BY <1>2, <1>3, <1>4, <1>5

\* Who is who.
LEMMA ActorsAre ==
  /\ keeper \in Actors /\ owner \in Actors /\ watcher \in Actors /\ Takers \subseteq Actors
  /\ Commands \subseteq Takers /\ keeper \in Takers
  /\ owner \notin Takers /\ watcher \notin Takers /\ owner # watcher
  /\ keeper \notin Commands
  /\ None \notin Pools /\ None \notin Slots /\ None \notin Sessions
BY Distinct DEF Takers, Actors

\* An actor that takes a line takes it for a role.
LEMMA RoleOfIs ==
  ASSUME NEW a \in Takers \cup {watcher}, a = keeper => turn \in DOMAIN RoleOrder
  PROVE  RoleOf(a) \in Roles
BY RolesAre, ActorsAre, Shapes DEF RoleOf, Takers

\* What a step does to pools and lines that lets go of references, and closes the lines of
\* the slots `closed`.
LetsGo(closed) ==
  /\ slotOf' \in [Pools -> [Roles -> Slots \cup {None}]]
  /\ line' \in [Slots -> Lines]
  /\ \A s \in Slots :
       \/ line'[s] = line[s] /\ s \notin closed
       \/ line'[s] = NoLine /\ (s \in closed \/ \A a \in Actors : slot'[a] # s)
  /\ \A s \in Slots : s \notin Reached' => line'[s] = NoLine
  /\ registry' \in Pools => slotOf'[registry'] = slotOf[registry']
  /\ \A a \in Actors : pool'[a] \in Pools => slotOf'[pool'[a]] = slotOf[pool'[a]]
  /\ \A p \in Pools, r \in Roles : slotOf'[p][r] \in {slotOf[p][r], None}

\* An empty slot.
LEMMA NoLineIs == NoLine \in Lines /\ NoLine.up = FALSE
BY DEF NoLine, Lines

\* Dropping lets go, and closes `closed` besides.
LEMMA DropIs ==
  ASSUME PoolTyped, NEW closed \in SUBSET Slots, NEW lines \in [Slots -> Lines],
         \A s \in Slots : lines[s] = IF s \in closed THEN NoLine ELSE line[s],
         Dropping(lines)
  PROVE  LetsGo(closed)
<1>1. NoLine \in Lines /\ NoSlots \in [Roles -> Slots \cup {None}]
  BY NoLineIs DEF NoSlots
<1>2. slotOf' = [p \in Pools |-> IF p \in Held' THEN slotOf[p] ELSE NoSlots]
  BY DEF Dropping
<1>3. line' = [s \in Slots |-> IF s \in Reached' THEN lines[s] ELSE NoLine]
  BY DEF Dropping
<1>4. registry' \in Held' /\ \A a \in Actors : pool'[a] \in Held'
  BY DEF Held
<1>5. \A a \in Actors : slot'[a] \in Reached'
  BY DEF Reached
<1>6. slotOf \in [Pools -> [Roles -> Slots \cup {None}]]
  BY DEF PoolTyped
<1>7. slotOf' \in [Pools -> [Roles -> Slots \cup {None}]]
  BY <1>1, <1>2, <1>6
<1>8. line' \in [Slots -> Lines]
  BY <1>1, <1>3
<1>9. \A p \in Pools, r \in Roles : slotOf'[p][r] \in {slotOf[p][r], None}
  BY <1>2 DEF NoSlots
<1>10. \A s \in Slots : \/ line'[s] = line[s] /\ s \notin closed
                        \/ line'[s] = NoLine /\ (s \in closed \/ \A a \in Actors : slot'[a] # s)
  BY <1>3, <1>5
<1>11. \A s \in Slots : s \notin Reached' => line'[s] = NoLine
  BY <1>3
<1>12. /\ registry' \in Pools => slotOf'[registry'] = slotOf[registry']
       /\ \A a \in Actors : pool'[a] \in Pools => slotOf'[pool'[a]] = slotOf[pool'[a]]
  BY <1>2, <1>4
<1> HIDE DEF NoLine
<1> QED BY <1>7, <1>8, <1>9, <1>10, <1>11, <1>12 DEF LetsGo

\* The two ways it is used.
LEMMA DropsAll ==
  ASSUME PoolTyped, Dropping(line)
  PROVE  LetsGo({})
BY DropIs DEF PoolTyped

LEMMA DropsAndCloses ==
  ASSUME PoolTyped, NEW s \in Slots, Dropping([line EXCEPT ![s] = NoLine])
  PROVE  LetsGo({s})
<1> DEFINE lines == [line EXCEPT ![s] = NoLine]
<1>1. lines \in [Slots -> Lines]
  BY NoLineIs DEF PoolTyped
<1>2. \A t \in Slots : lines[t] = IF t \in {s} THEN NoLine ELSE line[t]
  BY DEF PoolTyped
<1>3. Dropping(lines)
  OBVIOUS
<1> HIDE DEF lines
<1> QED BY <1>1, <1>2, <1>3, DropIs

\* The steps that let go.
LEMMA WhoLetsGo ==
  ASSUME PoolTyped, HandsAreKnown
  PROVE  /\ MoveOn \/ StopWatcher \/ AllClosed => LetsGo({})
         /\ \A c \in Commands : End(c) => LetsGo({})
         /\ \A a \in Takers : Follow(a) => LetsGo({})
         /\ \A a \in Takers : DialFails(a) \/ ConnectFails(a) \/ JoinFails(a) \/ FollowFails(a)
                             => slot[a] \in Slots /\ LetsGo({slot[a]})
         /\ WatcherCloses => slot[watcher] \in Slots /\ LetsGo({slot[watcher]})
         /\ CloseSlot => slot[owner] \in Slots /\ LetsGo({slot[owner]})
<1>1. MoveOn \/ StopWatcher \/ AllClosed => LetsGo({})
  BY DropsAll DEF MoveOn, StopWatcher, AllClosed
<1>2. \A c \in Commands : End(c) => LetsGo({})
  BY DropsAll DEF End
<1>3. \A a \in Takers : Follow(a) => LetsGo({})
  BY DropsAll DEF Follow
<1>4. ASSUME NEW a \in Takers, DialFails(a) \/ ConnectFails(a) \/ JoinFails(a) \/ FollowFails(a)
      PROVE  slot[a] \in Slots /\ LetsGo({slot[a]})
  <2>1. slot[a] \in Slots
    BY <1>4, ActorsAre DEF DialFails, ConnectFails, JoinFails, FollowFails, HandsAreKnown,
                           Slotless, Poolless, PoolTyped
  <2>2. Dropping([line EXCEPT ![slot[a]] = NoLine])
    BY <1>4 DEF DialFails, ConnectFails, JoinFails, FollowFails, GiveUpOpening
  <2> QED BY <2>1, <2>2, DropsAndCloses
<1>5. ASSUME WatcherCloses PROVE slot[watcher] \in Slots /\ LetsGo({slot[watcher]})
  <2>1. slot[watcher] \in Slots
    BY <1>5, ActorsAre DEF WatcherCloses, HandsAreKnown, Slotless, Poolless, PoolTyped
  <2> QED BY <1>5, <2>1, DropsAndCloses DEF WatcherCloses
<1>6. ASSUME CloseSlot PROVE slot[owner] \in Slots /\ LetsGo({slot[owner]})
  <2>1. slot[owner] \in Slots
    BY <1>6, ActorsAre DEF CloseSlot, OwnerAt, HandsAreKnown, Slotless, Poolless, PoolTyped
  <2> QED BY <1>6, <2>1, DropsAndCloses DEF CloseSlot
<1> QED BY <1>1, <1>2, <1>3, <1>4, <1>5, <1>6

\* A pool for the account: the registered one, or one that nobody has.
LEMMA RegisteredIs ==
  ASSUME PoolTyped, RegisterPool
  PROVE  /\ Registered \in Pools /\ registry' = Registered
         /\ slotOf' \in [Pools -> [Roles -> Slots \cup {None}]]
         /\ \/ registry # None /\ Registered = registry /\ slotOf' = slotOf
            \/ /\ registry = None /\ Registered \notin Held
               /\ slotOf' = [slotOf EXCEPT ![Registered] = NoSlots]
<1>1. NoSlots \in [Roles -> Slots \cup {None}]
  BY DEF NoSlots
<1>2. registry = None => NewPool \in Pools /\ NewPool \notin Held
  BY DEF RegisterPool, NewPool
<1> QED BY <1>1, <1>2 DEF RegisterPool, Registered, PoolTyped

\* A slot for a role of the pool in hand: the one that is there, or one out of reach.
LEMMA TakenIs ==
  ASSUME PoolTyped, NEW a \in Takers \cup {watcher}, pool[a] # None, TakeSlot(a),
         a = keeper => turn \in DOMAIN RoleOrder
  PROVE  \E s \in Slots :
           /\ slot' = [slot EXCEPT ![a] = s]
           /\ slotOf' \in [Pools -> [Roles -> Slots \cup {None}]]
           /\ slotOf'[pool[a]][RoleOf(a)] = s
           /\ \A p \in Pools, r \in Roles : slotOf'[p][r] \in {slotOf[p][r], s}
           /\ \A p \in Pools, r \in Roles : slotOf[p][r] # None => slotOf'[p][r] = slotOf[p][r]
           /\ s \notin Reached \/ slotOf' = slotOf
<1> DEFINE s == SlotFor(pool[a], RoleOf(a))
<1>1. a \in Actors /\ pool[a] \in Pools /\ RoleOf(a) \in Roles
  BY ActorsAre, RoleOfIs DEF PoolTyped
<1>2. slotOf[pool[a]][RoleOf(a)] = None => NewSlot \in Slots /\ NewSlot \notin Reached
  BY DEF TakeSlot, NewSlot
<1>3. slotOf \in [Pools -> [Roles -> Slots \cup {None}]]
  BY DEF PoolTyped
<1>4. s \in Slots
  BY <1>1, <1>2, <1>3 DEF SlotFor
<1>5. slot' = [slot EXCEPT ![a] = s] /\ slotOf' = [slotOf EXCEPT ![pool[a]][RoleOf(a)] = s]
  BY DEF TakeSlot
<1>6. slotOf[pool[a]][RoleOf(a)] # None => s = slotOf[pool[a]][RoleOf(a)]
  BY DEF SlotFor
<1>7. slotOf[pool[a]][RoleOf(a)] = None => s \notin Reached
  BY <1>2 DEF SlotFor
<1>8. slotOf[pool[a]][RoleOf(a)] # None => slotOf' = slotOf
  BY <1>1, <1>3, <1>5, <1>6
<1> HIDE DEF s
<1> QED BY <1>1, <1>3, <1>4, <1>5, <1>6, <1>7, <1>8

----------------------------------------------------------------------------
\* Types, hands and owner.

\* Every variable keeps its type.
LEMMA TypedStep == PoolTyped /\ HandsAreKnown /\ [Next]_vars => PoolTyped'
<1> SUFFICES ASSUME PoolTyped, HandsAreKnown, [Next]_vars
             PROVE  PoolTyped'
  OBVIOUS
<1>1. ASSUME NEW a \in Takers, TakePool(a) PROVE PoolTyped'
  <2>1. RegisterPool
    BY <1>1 DEF TakePool
  <2> QED BY <1>1, ActorsAre, <2>1, RegisteredIs
     DEF TakePool, GoTo, tokens, keeping, owned, PoolTyped, Places, Opening
<1>2. ASSUME NEW a \in Takers, Enter(a) PROVE PoolTyped'
  <2>1. TakeSlot(a) /\ pool[a] # None /\ (a = keeper => turn \in DOMAIN RoleOrder)
    BY <1>2, ActorsAre, Distinct DEF Enter, HandsAreKnown, Poolless
  <2>2. PICK s \in Slots : /\ slot' = [slot EXCEPT ![a] = s]
                           /\ slotOf' \in [Pools -> [Roles -> Slots \cup {None}]]
    BY <2>1, TakenIs
  <2> QED BY <1>2, <2>2, ActorsAre DEF Enter, tokens, keeping, owned, GoTo, PoolTyped, Places
<1>3. ASSUME NEW a \in Takers, Look(a) PROVE PoolTyped'
  BY <1>3, ActorsAre
     DEF Look, GoTo, tokens, pools, refs, keeping, owned, PoolTyped, Places, Opening
<1>4. ASSUME NEW a \in Takers, Door(a) PROVE PoolTyped'
  BY <1>4, ActorsAre
     DEF Door, GoTo, tokens, pools, refs, keeping, owned, PoolTyped, Places, Opening
<1>5. ASSUME NEW a \in Takers, LookAgain(a) PROVE PoolTyped'
  BY <1>5, ActorsAre
     DEF LookAgain, GoTo, tokens, pools, refs, keeping, owned, PoolTyped, Places, Opening
<1>6. ASSUME NEW a \in Takers, Dial(a) PROVE PoolTyped'
  BY <1>6, ActorsAre
     DEF Dial, GoTo, tokens, keeping, owned, PoolTyped, Places, Opening, NoLine, Lines
<1>7. ASSUME NEW a \in Takers, DialFails(a) PROVE PoolTyped'
  BY <1>7, ActorsAre, WhoLetsGo
     DEF DialFails, GiveUpOpening, GoTo, tokens, keeping, owned, PoolTyped, Places, Opening,
         LetsGo
<1>8. ASSUME NEW a \in Takers, Connect(a) PROVE PoolTyped'
  <2>1. [of |-> ses[a], up |-> TRUE, stray |-> Stray(a)] \in Lines
    BY ActorsAre DEF PoolTyped, Lines, Stray
  <2> QED BY <1>8, <2>1, ActorsAre
     DEF Connect, tokens, pools, refs, keeping, owned, GoTo, PoolTyped, Places, Opening
<1>9. ASSUME NEW a \in Takers, ConnectFails(a) PROVE PoolTyped'
  BY <1>9, ActorsAre, WhoLetsGo
     DEF ConnectFails, GiveUpOpening, GoTo, tokens, keeping, owned, PoolTyped, Places, Opening,
         LetsGo
<1>10. ASSUME NEW a \in Takers, Join(a) PROVE PoolTyped'
  <2>1. RegisterPool
    BY <1>10 DEF Join
  <2> QED BY <1>10, ActorsAre, <2>1, RegisteredIs
     DEF Join, GoTo, tokens, keeping, owned, PoolTyped, Places, Opening
<1>11. ASSUME NEW a \in Takers, JoinFails(a) PROVE PoolTyped'
  BY <1>11, ActorsAre, WhoLetsGo
     DEF JoinFails, GiveUpOpening, GoTo, tokens, keeping, owned, PoolTyped, Places, Opening,
         LetsGo
<1>12. ASSUME NEW a \in Takers, Follow(a) PROVE PoolTyped'
  BY <1>12, ActorsAre, WhoLetsGo
     DEF Follow, tokens, keeping, owned, PoolTyped, Places, Opening, LetsGo
<1>13. ASSUME NEW a \in Takers, FollowFails(a) PROVE PoolTyped'
  BY <1>13, ActorsAre, WhoLetsGo
     DEF FollowFails, GiveUpOpening, GoTo, tokens, keeping, owned, PoolTyped, Places, Opening,
         LetsGo
<1>14. ASSUME NEW a \in Takers, Opened(a) PROVE PoolTyped'
  BY <1>14, ActorsAre
     DEF Opened, GoTo, tokens, pools, refs, keeping, owned, PoolTyped, Places, Opening
<1>15. ASSUME NEW c \in Commands, Begin(c) PROVE PoolTyped'
  BY <1>15, ActorsAre
     DEF Begin, GoTo, tokens, pools, refs, keeping, owned, PoolTyped, Places, Opening
<1>16. ASSUME NEW c \in Commands, End(c) PROVE PoolTyped'
  BY <1>16, ActorsAre, WhoLetsGo
     DEF End, Forgets, GoTo, tokens, keeping, owned, PoolTyped, Places, Opening, LetsGo
<1>17. CASE StartRound
  BY <1>17, ActorsAre DEF StartRound, GoTo, tokens, pools, refs, owned, PoolTyped, Places, Opening
<1>18. CASE TryOpen
  BY <1>18, ActorsAre
     DEF TryOpen, GoTo, tokens, pools, refs, keeping, owned, PoolTyped, Places, Opening
<1>19. CASE MoveOn
  <2>1. LetsGo({})
    BY <1>19, WhoLetsGo
  <2>2. turn' \in Nat
    <3>1. turn \in Nat /\ (turn' = turn + 1 \/ turn' = 0)
      BY <1>19 DEF MoveOn, Advance, PoolTyped
    <3> QED BY <3>1
  <2>3. /\ pc' \in [Actors -> Places] /\ slot' \in [Actors -> Slots \cup {None}]
        /\ pool' \in [Actors -> Pools \cup {None}] /\ join' \in [Actors -> Pools \cup {None}]
        /\ ses' \in [Actors -> Sessions \cup {None}]
    BY <1>19, ActorsAre DEF MoveOn, Advance, Forgets, GoTo, PoolTyped, Places
  <2> QED BY <1>19, <2>1, <2>2, <2>3 DEF MoveOn, tokens, owned, PoolTyped, LetsGo
<1>20. CASE WatchEnds
  <2>1. TakeSlot(watcher) /\ pool[watcher] # None /\ (watcher = keeper => turn \in DOMAIN RoleOrder)
    BY <1>20, ActorsAre, Distinct DEF WatchEnds, HandsAreKnown, Poolless
  <2> QED BY <1>20, ActorsAre, <2>1, TakenIs
     DEF WatchEnds, GoTo, tokens, keeping, owned, PoolTyped, Places, Opening
<1>21. CASE WatcherCloses
  BY <1>21, ActorsAre, WhoLetsGo
     DEF WatcherCloses, Forgets, GoTo, tokens, keeping, owned, PoolTyped, Places, Opening, LetsGo
<1>22. CASE StartLogout
  BY <1>22, ActorsAre
     DEF StartLogout, OwnerAt, GoTo, pools, refs, keeping, PoolTyped, Places, Opening
<1>23. CASE StartLogin
  BY <1>23, ActorsAre
     DEF StartLogin, OwnerAt, GoTo, pools, refs, keeping, PoolTyped, Places, Opening
<1>24. CASE Revoke
  BY <1>24, ActorsAre DEF Revoke, OwnerAt, GoTo, pools, refs, keeping, PoolTyped, Places, Opening
<1>25. CASE RevokeFails
  BY <1>25, ActorsAre
     DEF RevokeFails, OwnerAt, GoTo, pools, refs, keeping, PoolTyped, Places, Opening
<1>26. CASE StopWatcher
  BY <1>26, ActorsAre, WhoLetsGo
     DEF StopWatcher, Forgets, tokens, keeping, owned, PoolTyped, Places, Opening, LetsGo
<1>27. CASE Unregister
  BY <1>27, ActorsAre DEF Unregister, OwnerAt, GoTo, tokens, keeping, PoolTyped, Places, Opening
<1>28. CASE Drain
  <2>1. toClose' \subseteq Slots /\ slotOf' \in [Pools -> [Roles -> Slots \cup {None}]]
    BY <1>28, ActorsAre DEF Drain, PoolTyped, NoSlots
  <2> QED BY <1>28, <2>1 DEF Drain, OwnerAt, GoTo, tokens, refs, keeping, PoolTyped, Places
<1>29. CASE WaitForUsers
  BY <1>29, ActorsAre
     DEF WaitForUsers, OwnerAt, GoTo, tokens, pools, keeping, PoolTyped, Places, Opening
<1>30. CASE CloseSlot
  BY <1>30, ActorsAre, WhoLetsGo
     DEF CloseSlot, OwnerAt, GoTo, tokens, keeping, PoolTyped, Places, Opening, LetsGo
<1>31. CASE AllClosed
  <2>1. LetsGo({})
    BY <1>31, WhoLetsGo
  <2>2. /\ session' \in Sessions \cup {None} /\ phase' \in {"idle", "loggedIn", "loggedOut"}
        /\ pc' = [pc EXCEPT ![owner] = "unregister"] \/ pc' = [pc EXCEPT ![owner] = "idle"]
    BY <1>31 DEF AllClosed, LeaveSession, SealSession, TakeBack, Finish, OwnerAt, GoTo, PoolTyped
  <2>3. pc' \in [Actors -> Places] /\ pool' \in [Actors -> Pools \cup {None}]
    BY <1>31, <2>2, ActorsAre DEF AllClosed, PoolTyped, Places
  <2> QED BY <1>31, <2>1, <2>2, <2>3 DEF AllClosed, keeping, PoolTyped, LetsGo
<1>32. CASE LineDies
  <2>1. PICK s \in Slots : line' = [line EXCEPT ![s].up = FALSE]
    BY <1>32 DEF LineDies
  <2>2. [line[s] EXCEPT !.up = FALSE] \in Lines
    BY DEF PoolTyped, Lines
  <2> QED BY <1>32, <2>1, <2>2 DEF LineDies, tokens, refs, keeping, owned, PoolTyped
<1>33. CASE UNCHANGED vars
  BY <1>33 DEF vars, tokens, pools, refs, keeping, owned, PoolTyped, Places, Opening
<1> QED
  BY <1>1, <1>2, <1>3, <1>4, <1>5, <1>6, <1>7, <1>8, <1>9, <1>10, <1>11,
     <1>12, <1>13, <1>14, <1>15, <1>16, <1>17, <1>18, <1>19, <1>20, <1>21, <1>22,
     <1>23, <1>24, <1>25, <1>26, <1>27, <1>28, <1>29, <1>30, <1>31, <1>32, <1>33
     DEF Next, Acquire, CommandStep, KeeperStep, OwnerStep, Takers

\* What an actor holds follows from where it is, after the step too.
LEMMA HandsStep == PoolTyped /\ HandsAreKnown /\ [Next]_vars => HandsAreKnown'
<1> SUFFICES ASSUME PoolTyped, HandsAreKnown, [Next]_vars
             PROVE  HandsAreKnown'
  OBVIOUS
<1>1. ASSUME NEW a \in Takers, TakePool(a) PROVE HandsAreKnown'
  <2>1. RegisterPool
    BY <1>1 DEF TakePool
  <2> QED BY <1>1, ActorsAre, <2>1, RegisteredIs
     DEF TakePool, GoTo, tokens, keeping, owned, PoolTyped, HandsAreKnown, Poolless, Slotless,
         OwnerPlaces
<1>2. ASSUME NEW a \in Takers, Enter(a) PROVE HandsAreKnown'
  <2>1. TakeSlot(a) /\ pool[a] # None /\ (a = keeper => turn \in DOMAIN RoleOrder)
    BY <1>2, ActorsAre, Distinct DEF Enter, HandsAreKnown, Poolless
  <2> QED BY <1>2, ActorsAre, <2>1, TakenIs
     DEF Enter, GoTo, tokens, keeping, owned, PoolTyped, HandsAreKnown, Poolless, Slotless,
         OwnerPlaces
<1>3. ASSUME NEW a \in Takers, Look(a) PROVE HandsAreKnown'
  BY <1>3, ActorsAre
     DEF Look, GoTo, tokens, pools, refs, keeping, owned, PoolTyped, HandsAreKnown, Poolless,
         Slotless, OwnerPlaces
<1>4. ASSUME NEW a \in Takers, Door(a) PROVE HandsAreKnown'
  BY <1>4, ActorsAre
     DEF Door, GoTo, tokens, pools, refs, keeping, owned, PoolTyped, HandsAreKnown, Poolless,
         Slotless, OwnerPlaces
<1>5. ASSUME NEW a \in Takers, LookAgain(a) PROVE HandsAreKnown'
  BY <1>5, ActorsAre
     DEF LookAgain, GoTo, tokens, pools, refs, keeping, owned, PoolTyped, HandsAreKnown, Poolless,
         Slotless, OwnerPlaces
<1>6. ASSUME NEW a \in Takers, Dial(a) PROVE HandsAreKnown'
  BY <1>6, ActorsAre
     DEF Dial, GoTo, tokens, keeping, owned, PoolTyped, HandsAreKnown, Poolless, Slotless,
         OwnerPlaces
<1>7. ASSUME NEW a \in Takers, DialFails(a) PROVE HandsAreKnown'
  BY <1>7, ActorsAre, WhoLetsGo
     DEF DialFails, GiveUpOpening, GoTo, tokens, keeping, owned, PoolTyped, HandsAreKnown,
         Poolless, Slotless, OwnerPlaces, LetsGo
<1>8. ASSUME NEW a \in Takers, Connect(a) PROVE HandsAreKnown'
  BY <1>8, ActorsAre
     DEF Connect, GoTo, tokens, refs, keeping, owned, PoolTyped, HandsAreKnown, Poolless,
         Slotless, OwnerPlaces
<1>9. ASSUME NEW a \in Takers, ConnectFails(a) PROVE HandsAreKnown'
  BY <1>9, ActorsAre, WhoLetsGo
     DEF ConnectFails, GiveUpOpening, GoTo, tokens, keeping, owned, PoolTyped, HandsAreKnown,
         Poolless, Slotless, OwnerPlaces, LetsGo
<1>10. ASSUME NEW a \in Takers, Join(a) PROVE HandsAreKnown'
  <2>1. RegisterPool
    BY <1>10 DEF Join
  <2> QED BY <1>10, ActorsAre, <2>1, RegisteredIs
     DEF Join, GoTo, tokens, keeping, owned, PoolTyped, HandsAreKnown, Poolless, Slotless,
         OwnerPlaces
<1>11. ASSUME NEW a \in Takers, JoinFails(a) PROVE HandsAreKnown'
  BY <1>11, ActorsAre, WhoLetsGo
     DEF JoinFails, GiveUpOpening, GoTo, tokens, keeping, owned, PoolTyped, HandsAreKnown,
         Poolless, Slotless, OwnerPlaces, LetsGo
<1>12. ASSUME NEW a \in Takers, Follow(a) PROVE HandsAreKnown'
  BY <1>12, ActorsAre, WhoLetsGo
     DEF Follow, tokens, keeping, owned, PoolTyped, HandsAreKnown, Poolless, Slotless,
         OwnerPlaces, LetsGo
<1>13. ASSUME NEW a \in Takers, FollowFails(a) PROVE HandsAreKnown'
  BY <1>13, ActorsAre, WhoLetsGo
     DEF FollowFails, GiveUpOpening, GoTo, tokens, keeping, owned, PoolTyped, HandsAreKnown,
         Poolless, Slotless, OwnerPlaces, LetsGo
<1>14. ASSUME NEW a \in Takers, Opened(a) PROVE HandsAreKnown'
  BY <1>14, ActorsAre
     DEF Opened, GoTo, tokens, pools, refs, keeping, owned, PoolTyped, HandsAreKnown, Poolless,
         Slotless, OwnerPlaces
<1>15. ASSUME NEW c \in Commands, Begin(c) PROVE HandsAreKnown'
  BY <1>15, ActorsAre
     DEF Begin, GoTo, tokens, pools, refs, keeping, owned, PoolTyped, HandsAreKnown, Poolless,
         Slotless, OwnerPlaces
<1>16. ASSUME NEW c \in Commands, End(c) PROVE HandsAreKnown'
  BY <1>16, ActorsAre, WhoLetsGo
     DEF End, Forgets, GoTo, tokens, keeping, owned, PoolTyped, HandsAreKnown, Poolless, Slotless,
         OwnerPlaces, LetsGo
<1>17. CASE StartRound
  BY <1>17, ActorsAre, RolesAre
     DEF StartRound, GoTo, tokens, pools, refs, owned, PoolTyped, HandsAreKnown, Poolless,
         Slotless, OwnerPlaces
<1>18. CASE TryOpen
  BY <1>18, ActorsAre
     DEF TryOpen, GoTo, tokens, pools, refs, keeping, owned, PoolTyped, HandsAreKnown, Poolless,
         Slotless, OwnerPlaces
<1>19. CASE MoveOn
  <2>1. \/ /\ turn' = turn + 1 /\ turn < Len(RoleOrder) /\ pc' = [pc EXCEPT ![keeper] = "try"]
           /\ slot' = [slot EXCEPT ![keeper] = None] /\ pool' = pool /\ join' = join
        \/ /\ pc' = [pc EXCEPT ![keeper] = "idle"] /\ slot' = [slot EXCEPT ![keeper] = None]
           /\ pool' = [pool EXCEPT ![keeper] = None] /\ join' = join
    BY <1>19 DEF MoveOn, Advance, Forgets, GoTo
  <2>2. pc[keeper] \in {"try", "using", "gaveUp"}
    BY <1>19 DEF MoveOn
  <2>3. \A b \in Actors : b # keeper => pc'[b] = pc[b] /\ slot'[b] = slot[b] /\ pool'[b] = pool[b]
    BY <2>1, ActorsAre DEF PoolTyped
  <2>4. CASE /\ turn' = turn + 1 /\ turn < Len(RoleOrder) /\ pc' = [pc EXCEPT ![keeper] = "try"]
             /\ slot' = [slot EXCEPT ![keeper] = None] /\ pool' = pool /\ join' = join
    <3>1. turn' \in DOMAIN RoleOrder
      <4>1. turn \in Nat /\ turn < Len(RoleOrder)
        BY <2>4 DEF PoolTyped
      <4> QED BY <2>4, <4>1, RolesAre
    <3>2. pc'[keeper] = "try" /\ slot'[keeper] = None /\ pool'[keeper] = pool[keeper]
      BY <2>4, ActorsAre DEF PoolTyped
    <3> QED BY <2>2, <2>3, <2>4, <3>1, <3>2, ActorsAre
            DEF HandsAreKnown, Poolless, Slotless, OwnerPlaces
  <2>5. CASE /\ pc' = [pc EXCEPT ![keeper] = "idle"] /\ slot' = [slot EXCEPT ![keeper] = None]
             /\ pool' = [pool EXCEPT ![keeper] = None] /\ join' = join
    <3>1. pc'[keeper] = "idle" /\ slot'[keeper] = None /\ pool'[keeper] = None
      BY <2>5, ActorsAre DEF PoolTyped
    <3> QED BY <2>2, <2>3, <2>5, <3>1, ActorsAre
            DEF HandsAreKnown, Poolless, Slotless, OwnerPlaces
  <2> QED BY <2>1, <2>4, <2>5
<1>20. CASE WatchEnds
  <2>1. TakeSlot(watcher) /\ pool[watcher] # None /\ (watcher = keeper => turn \in DOMAIN RoleOrder)
    BY <1>20, ActorsAre, Distinct DEF WatchEnds, HandsAreKnown, Poolless
  <2> QED BY <1>20, ActorsAre, <2>1, TakenIs
     DEF WatchEnds, GoTo, tokens, keeping, owned, PoolTyped, HandsAreKnown, Poolless, Slotless,
         OwnerPlaces
<1>21. CASE WatcherCloses
  BY <1>21, ActorsAre, WhoLetsGo
     DEF WatcherCloses, Forgets, GoTo, tokens, keeping, owned, PoolTyped, HandsAreKnown, Poolless,
         Slotless, OwnerPlaces, LetsGo
<1>22. CASE StartLogout
  BY <1>22, ActorsAre
     DEF StartLogout, OwnerAt, GoTo, pools, refs, keeping, PoolTyped, HandsAreKnown, Poolless,
         Slotless, OwnerPlaces
<1>23. CASE StartLogin
  BY <1>23, ActorsAre
     DEF StartLogin, OwnerAt, GoTo, pools, refs, keeping, PoolTyped, HandsAreKnown, Poolless,
         Slotless, OwnerPlaces
<1>24. CASE Revoke
  BY <1>24, ActorsAre
     DEF Revoke, OwnerAt, GoTo, pools, refs, keeping, PoolTyped, HandsAreKnown, Poolless,
         Slotless, OwnerPlaces
<1>25. CASE RevokeFails
  BY <1>25, ActorsAre
     DEF RevokeFails, OwnerAt, GoTo, pools, refs, keeping, PoolTyped, HandsAreKnown, Poolless,
         Slotless, OwnerPlaces
<1>26. CASE StopWatcher
  BY <1>26, ActorsAre, WhoLetsGo
     DEF StopWatcher, Forgets, tokens, keeping, owned, PoolTyped, HandsAreKnown, Poolless,
         Slotless, OwnerPlaces, LetsGo
<1>27. CASE Unregister
  BY <1>27, ActorsAre
     DEF Unregister, OwnerAt, GoTo, tokens, keeping, PoolTyped, HandsAreKnown, Poolless, Slotless,
         OwnerPlaces
<1>28. CASE Drain
  BY <1>28, ActorsAre
     DEF Drain, OwnerAt, GoTo, tokens, refs, keeping, PoolTyped, HandsAreKnown, Poolless,
         Slotless, OwnerPlaces
<1>29. CASE WaitForUsers
  BY <1>29, ActorsAre
     DEF WaitForUsers, OwnerAt, GoTo, tokens, pools, keeping, PoolTyped, HandsAreKnown, Poolless,
         Slotless, OwnerPlaces
<1>30. CASE CloseSlot
  BY <1>30, ActorsAre, WhoLetsGo
     DEF CloseSlot, OwnerAt, GoTo, tokens, keeping, PoolTyped, HandsAreKnown, Poolless, Slotless,
         OwnerPlaces, LetsGo
<1>31. CASE AllClosed
  BY <1>31, ActorsAre, WhoLetsGo
     DEF AllClosed, LeaveSession, SealSession, TakeBack, Finish, OwnerAt, GoTo, keeping,
         PoolTyped, HandsAreKnown, Poolless, Slotless, OwnerPlaces, LetsGo
<1>32. CASE LineDies
  BY <1>32, ActorsAre
     DEF LineDies, tokens, refs, keeping, owned, PoolTyped, HandsAreKnown, Poolless, Slotless,
         OwnerPlaces
<1>33. CASE UNCHANGED vars
  BY <1>33
     DEF vars, tokens, pools, refs, keeping, owned, PoolTyped, HandsAreKnown, Poolless, Slotless,
         OwnerPlaces
<1> QED
  BY <1>1, <1>2, <1>3, <1>4, <1>5, <1>6, <1>7, <1>8, <1>9, <1>10, <1>11,
     <1>12, <1>13, <1>14, <1>15, <1>16, <1>17, <1>18, <1>19, <1>20, <1>21, <1>22,
     <1>23, <1>24, <1>25, <1>26, <1>27, <1>28, <1>29, <1>30, <1>31, <1>32, <1>33
     DEF Next, Acquire, CommandStep, KeeperStep, OwnerStep, Takers

\* Where login and logout are, and what they are about to close.
LEMMA OwnerStepIs ==
  PoolTyped /\ HandsAreKnown /\ OwnerIsKnown /\ [Next]_vars
    => OwnerIsKnown'
<1> SUFFICES ASSUME PoolTyped, HandsAreKnown, OwnerIsKnown, [Next]_vars
             PROVE  OwnerIsKnown'
  OBVIOUS
<1>1. ASSUME NEW a \in Takers, TakePool(a) PROVE OwnerIsKnown'
  <2>1. RegisterPool
    BY <1>1 DEF TakePool
  <2>2. pool[owner] \in Held
    BY ActorsAre DEF Held
  <2> QED BY <1>1, <2>1, <2>2, RegisteredIs, ActorsAre
     DEF TakePool, GoTo, tokens, owned, PoolTyped, OwnerIsKnown
<1>2. ASSUME NEW a \in Takers, Enter(a) PROVE OwnerIsKnown'
  <2>1. TakeSlot(a) /\ pool[a] # None /\ (a = keeper => turn \in DOMAIN RoleOrder)
    BY <1>2, ActorsAre, Distinct DEF Enter, HandsAreKnown, Poolless
  <2> QED BY <1>2, ActorsAre, <2>1, TakenIs
     DEF Enter, GoTo, tokens, keeping, owned, PoolTyped, HandsAreKnown, Poolless, OwnerPlaces,
         OwnerIsKnown
<1>3. ASSUME NEW a \in Takers, Look(a) PROVE OwnerIsKnown'
  BY <1>3, ActorsAre
     DEF Look, GoTo, tokens, pools, refs, keeping, owned, PoolTyped, HandsAreKnown, Poolless,
         OwnerPlaces, OwnerIsKnown
<1>4. ASSUME NEW a \in Takers, Door(a) PROVE OwnerIsKnown'
  BY <1>4, ActorsAre
     DEF Door, GoTo, tokens, pools, refs, keeping, owned, PoolTyped, HandsAreKnown, Poolless,
         OwnerPlaces, OwnerIsKnown
<1>5. ASSUME NEW a \in Takers, LookAgain(a) PROVE OwnerIsKnown'
  BY <1>5, ActorsAre
     DEF LookAgain, GoTo, tokens, pools, refs, keeping, owned, PoolTyped, HandsAreKnown, Poolless,
         OwnerPlaces, OwnerIsKnown
<1>6. ASSUME NEW a \in Takers, Dial(a) PROVE OwnerIsKnown'
  BY <1>6, ActorsAre
     DEF Dial, GoTo, tokens, keeping, owned, PoolTyped, HandsAreKnown, Poolless, OwnerPlaces,
         OwnerIsKnown
<1>7. ASSUME NEW a \in Takers, DialFails(a) PROVE OwnerIsKnown'
  BY <1>7, ActorsAre, WhoLetsGo
     DEF DialFails, GiveUpOpening, GoTo, tokens, keeping, owned, PoolTyped, HandsAreKnown,
         Poolless, OwnerPlaces, OwnerIsKnown, LetsGo
<1>8. ASSUME NEW a \in Takers, Connect(a) PROVE OwnerIsKnown'
  BY <1>8, ActorsAre
     DEF Connect, GoTo, tokens, refs, keeping, owned, PoolTyped, HandsAreKnown, Poolless,
         OwnerPlaces, OwnerIsKnown
<1>9. ASSUME NEW a \in Takers, ConnectFails(a) PROVE OwnerIsKnown'
  BY <1>9, ActorsAre, WhoLetsGo
     DEF ConnectFails, GiveUpOpening, GoTo, tokens, keeping, owned, PoolTyped, HandsAreKnown,
         Poolless, OwnerPlaces, OwnerIsKnown, LetsGo
<1>10. ASSUME NEW a \in Takers, Join(a) PROVE OwnerIsKnown'
  <2>1. RegisterPool
    BY <1>10 DEF Join
  <2>2. pool[owner] \in Held
    BY ActorsAre DEF Held
  <2> QED BY <1>10, <2>1, <2>2, RegisteredIs, ActorsAre
     DEF Join, GoTo, tokens, owned, PoolTyped, OwnerIsKnown
<1>11. ASSUME NEW a \in Takers, JoinFails(a) PROVE OwnerIsKnown'
  BY <1>11, ActorsAre, WhoLetsGo
     DEF JoinFails, GiveUpOpening, GoTo, tokens, keeping, owned, PoolTyped, HandsAreKnown,
         Poolless, OwnerPlaces, OwnerIsKnown, LetsGo
<1>12. ASSUME NEW a \in Takers, Follow(a) PROVE OwnerIsKnown'
  BY <1>12, ActorsAre, WhoLetsGo
     DEF Follow, tokens, keeping, owned, PoolTyped, HandsAreKnown, Poolless, OwnerPlaces,
         OwnerIsKnown, LetsGo
<1>13. ASSUME NEW a \in Takers, FollowFails(a) PROVE OwnerIsKnown'
  BY <1>13, ActorsAre, WhoLetsGo
     DEF FollowFails, GiveUpOpening, GoTo, tokens, keeping, owned, PoolTyped, HandsAreKnown,
         Poolless, OwnerPlaces, OwnerIsKnown, LetsGo
<1>14. ASSUME NEW a \in Takers, Opened(a) PROVE OwnerIsKnown'
  BY <1>14, ActorsAre
     DEF Opened, GoTo, tokens, pools, refs, keeping, owned, PoolTyped, HandsAreKnown, Poolless,
         OwnerPlaces, OwnerIsKnown
<1>15. ASSUME NEW c \in Commands, Begin(c) PROVE OwnerIsKnown'
  BY <1>15, ActorsAre
     DEF Begin, GoTo, tokens, pools, refs, keeping, owned, PoolTyped, HandsAreKnown, Poolless,
         OwnerPlaces, OwnerIsKnown
<1>16. ASSUME NEW c \in Commands, End(c) PROVE OwnerIsKnown'
  BY <1>16, ActorsAre, WhoLetsGo
     DEF End, Forgets, GoTo, tokens, keeping, owned, PoolTyped, HandsAreKnown, Poolless,
         OwnerPlaces, OwnerIsKnown, LetsGo
<1>17. CASE StartRound
  BY <1>17, ActorsAre
     DEF StartRound, GoTo, tokens, pools, refs, owned, PoolTyped, HandsAreKnown, Poolless,
         OwnerPlaces, OwnerIsKnown
<1>18. CASE TryOpen
  BY <1>18, ActorsAre
     DEF TryOpen, GoTo, tokens, pools, refs, keeping, owned, PoolTyped, HandsAreKnown, Poolless,
         OwnerPlaces, OwnerIsKnown
<1>19. CASE MoveOn
  BY <1>19, ActorsAre, WhoLetsGo
     DEF MoveOn, Advance, Forgets, GoTo, tokens, owned, PoolTyped, HandsAreKnown, Poolless,
         OwnerPlaces, OwnerIsKnown, LetsGo
<1>20. CASE WatchEnds
  <2>1. TakeSlot(watcher) /\ pool[watcher] # None /\ (watcher = keeper => turn \in DOMAIN RoleOrder)
    BY <1>20, ActorsAre, Distinct DEF WatchEnds, HandsAreKnown, Poolless
  <2> QED BY <1>20, ActorsAre, <2>1, TakenIs
     DEF WatchEnds, GoTo, tokens, keeping, owned, PoolTyped, HandsAreKnown, Poolless, OwnerPlaces,
         OwnerIsKnown
<1>21. CASE WatcherCloses
  BY <1>21, ActorsAre, WhoLetsGo
     DEF WatcherCloses, Forgets, GoTo, tokens, keeping, owned, PoolTyped, HandsAreKnown, Poolless,
         OwnerPlaces, OwnerIsKnown, LetsGo
<1>22. CASE StartLogout
  BY <1>22, ActorsAre
     DEF StartLogout, OwnerAt, GoTo, pools, refs, keeping, PoolTyped, HandsAreKnown, Poolless,
         OwnerPlaces, OwnerIsKnown
<1>23. CASE StartLogin
  BY <1>23, ActorsAre
     DEF StartLogin, OwnerAt, GoTo, pools, refs, keeping, PoolTyped, HandsAreKnown, Poolless,
         OwnerPlaces, OwnerIsKnown
<1>24. CASE Revoke
  BY <1>24, ActorsAre
     DEF Revoke, OwnerAt, GoTo, pools, refs, keeping, PoolTyped, HandsAreKnown, Poolless,
         OwnerPlaces, OwnerIsKnown
<1>25. CASE RevokeFails
  BY <1>25, ActorsAre
     DEF RevokeFails, OwnerAt, GoTo, pools, refs, keeping, PoolTyped, HandsAreKnown, Poolless,
         OwnerPlaces, OwnerIsKnown
<1>26. CASE StopWatcher
  BY <1>26, ActorsAre, WhoLetsGo
     DEF StopWatcher, Forgets, tokens, keeping, owned, PoolTyped, HandsAreKnown, Poolless,
         OwnerPlaces, OwnerIsKnown, LetsGo
<1>27. CASE Unregister
  BY <1>27, ActorsAre
     DEF Unregister, OwnerAt, GoTo, tokens, keeping, PoolTyped, HandsAreKnown, Poolless,
         OwnerPlaces, OwnerIsKnown
<1>28. CASE Drain
  BY <1>28, ActorsAre
     DEF Drain, OwnerAt, GoTo, tokens, refs, keeping, PoolTyped, HandsAreKnown, Poolless,
         OwnerPlaces, OwnerIsKnown
<1>29. CASE WaitForUsers
  BY <1>29, ActorsAre
     DEF WaitForUsers, OwnerAt, GoTo, tokens, pools, keeping, PoolTyped, HandsAreKnown, Poolless,
         OwnerPlaces, OwnerIsKnown
<1>30. CASE CloseSlot
  BY <1>30, ActorsAre, WhoLetsGo
     DEF CloseSlot, OwnerAt, GoTo, tokens, keeping, PoolTyped, HandsAreKnown, Poolless,
         OwnerPlaces, OwnerIsKnown, LetsGo
<1>31. CASE AllClosed
  BY <1>31, ActorsAre, WhoLetsGo
     DEF AllClosed, LeaveSession, SealSession, TakeBack, Finish, OwnerAt, GoTo, keeping,
         PoolTyped, HandsAreKnown, Poolless, OwnerPlaces, OwnerIsKnown, LetsGo
<1>32. CASE LineDies
  BY <1>32, ActorsAre
     DEF LineDies, tokens, refs, keeping, owned, PoolTyped, HandsAreKnown, Poolless, OwnerPlaces,
         OwnerIsKnown
<1>33. CASE UNCHANGED vars
  BY <1>33
     DEF vars, tokens, pools, refs, keeping, owned, PoolTyped, HandsAreKnown, Poolless,
         OwnerPlaces, OwnerIsKnown
<1> QED
  BY <1>1, <1>2, <1>3, <1>4, <1>5, <1>6, <1>7, <1>8, <1>9, <1>10, <1>11,
     <1>12, <1>13, <1>14, <1>15, <1>16, <1>17, <1>18, <1>19, <1>20, <1>21, <1>22,
     <1>23, <1>24, <1>25, <1>26, <1>27, <1>28, <1>29, <1>30, <1>31, <1>32, <1>33
     DEF Next, Acquire, CommandStep, KeeperStep, OwnerStep, Takers

----------------------------------------------------------------------------
\* The locks and the doors.

\* Lines that close and actors that go on opening, or begin to use what they opened.
LEMMA LocksLast ==
  ASSUME PoolTyped, HandsAreKnown, LocksHold,
         \A s \in Slots : line'[s].up => line[s].up,
         \A a \in Actors : pc'[a] \in Opening \cup {"using"} =>
           /\ pc'[a] = pc[a] \/ (pc[a] \in Opening /\ pc'[a] # "connect")
           /\ slot'[a] = slot[a]
  PROVE  LocksHold'
<1> SUFFICES ASSUME NEW a \in Actors, pc'[a] \in Opening
             PROVE  /\ \A b \in Actors : b # a /\ slot'[b] = slot'[a]
                                           => pc'[b] \notin Opening \cup {"using"}
                    /\ pc'[a] = "connect" => ~line'[slot'[a]].up
  BY DEF LocksHold, Alive
<1>1. pc[a] \in Opening /\ slot'[a] = slot[a]
  OBVIOUS
<1>2. ASSUME NEW b \in Actors, b # a, slot'[b] = slot'[a], pc'[b] \in Opening \cup {"using"}
      PROVE  FALSE
  BY <1>1, <1>2 DEF LocksHold
<1>3. ASSUME pc'[a] = "connect" PROVE ~line'[slot'[a]].up
  BY <1>1, <1>3 DEF LocksHold, Alive, HandsAreKnown, Slotless, Poolless, PoolTyped
<1> QED BY <1>2, <1>3

\* Who opens a line is alone with it: one actor writes, and nobody uses.
LEMMA LocksStep == PoolTyped /\ HandsAreKnown /\ LocksHold /\ [Next]_vars => LocksHold'
<1> SUFFICES ASSUME PoolTyped, HandsAreKnown, LocksHold, [Next]_vars
             PROVE  LocksHold'
  OBVIOUS
<1>1. ASSUME NEW a \in Takers, TakePool(a) PROVE LocksHold'
  <2>1. RegisterPool
    BY <1>1 DEF TakePool
  <2> QED BY <1>1, ActorsAre, <2>1, RegisteredIs
     DEF TakePool, GoTo, tokens, keeping, owned, PoolTyped, HandsAreKnown, OwnerPlaces, Opening,
         LocksHold, Alive
<1>2. ASSUME NEW a \in Takers, Enter(a) PROVE LocksHold'
  <2>1. TakeSlot(a) /\ pool[a] # None /\ (a = keeper => turn \in DOMAIN RoleOrder)
    BY <1>2, ActorsAre, Distinct DEF Enter, HandsAreKnown, Poolless
  <2> QED BY <1>2, ActorsAre, <2>1, TakenIs
     DEF Enter, GoTo, tokens, keeping, owned, PoolTyped, HandsAreKnown, OwnerPlaces, Opening,
         LocksHold, Alive, Poolless, Slotless
<1>3. ASSUME NEW a \in Takers, Look(a) PROVE LocksHold'
  BY <1>3, ActorsAre
     DEF Look, GoTo, tokens, pools, refs, keeping, owned, PoolTyped, HandsAreKnown, OwnerPlaces,
         Opening, LocksHold, Alive, Readable, Writing, At
<1>4. ASSUME NEW a \in Takers, Door(a) PROVE LocksHold'
  BY <1>4, ActorsAre
     DEF Door, GoTo, tokens, pools, refs, keeping, owned, PoolTyped, HandsAreKnown, OwnerPlaces,
         Opening, LocksHold, Alive
<1>5. ASSUME NEW a \in Takers, LookAgain(a) PROVE LocksHold'
  BY <1>5, ActorsAre
     DEF LookAgain, GoTo, tokens, pools, refs, keeping, owned, PoolTyped, HandsAreKnown,
         OwnerPlaces, Opening, LocksHold, Alive, Readable, Writing, At
<1>6. ASSUME NEW a \in Takers, Dial(a) PROVE LocksHold'
  <2>1. slot[a] \in Slots
    BY <1>6, ActorsAre DEF Dial, HandsAreKnown, Slotless, Poolless, PoolTyped
  <2>2. \A b \in Actors : slot[b] = slot[a] => pc[b] \notin Opening \cup {"using"}
    BY <1>6 DEF Dial, Writable, Writing, Users, At
  <2>3. ~line'[slot[a]].up
    BY <1>6, <2>1 DEF Dial, PoolTyped, NoLine
  <2>4. \A s \in Slots : s # slot[a] => line'[s] = line[s]
    BY <1>6 DEF Dial, PoolTyped
  <2>5. pc' = [pc EXCEPT ![a] = "connect"] /\ slot' = slot
    BY <1>6 DEF Dial, GoTo
  <2>6. pc' \in [Actors -> Places]
    BY <2>5, ActorsAre DEF PoolTyped, Places, Opening
  <2>7. ASSUME NEW b \in Actors, pc'[b] \in Opening
        PROVE  /\ \A d \in Actors : d # b /\ slot'[d] = slot'[b]
                                      => pc'[d] \notin Opening \cup {"using"}
               /\ pc'[b] = "connect" => ~line'[slot'[b]].up
    <3>1. CASE b = a
      BY <3>1, <2>2, <2>3, <2>5, ActorsAre DEF PoolTyped
    <3>2. CASE b # a
      <4>1. pc[b] \in Opening /\ slot[b] # slot[a] /\ slot[b] \in Slots
        BY <3>2, <2>2, <2>5, <2>7, ActorsAre
           DEF PoolTyped, HandsAreKnown, Slotless, Poolless, Opening
      <4> QED BY <3>2, <4>1, <2>4, <2>5, <2>7, ActorsAre DEF PoolTyped, LocksHold, Alive
    <3> QED BY <3>1, <3>2
  <2> QED BY <2>7 DEF LocksHold, Alive
<1>7. ASSUME NEW a \in Takers, DialFails(a) PROVE LocksHold'
  <2>1. \A s \in Slots : line'[s].up => line[s].up
    BY <1>7, WhoLetsGo, NoLineIs DEF LetsGo
  <2>2. pc' = [pc EXCEPT ![a] = "gaveUp"] /\ slot' = slot
    BY <1>7 DEF DialFails, GiveUpOpening, GoTo
  <2>3. a \in Actors
    BY <1>7, ActorsAre DEF DialFails, HandsAreKnown, OwnerPlaces
  <2>4. ASSUME NEW b \in Actors, pc'[b] \in Opening \cup {"using"}
        PROVE  /\ pc'[b] = pc[b] \/ (pc[b] \in Opening /\ pc'[b] # "connect")
               /\ slot'[b] = slot[b]
    BY <2>2, <2>3, <2>4, ActorsAre DEF Opening, PoolTyped
  <2> QED BY <2>1, <2>4, LocksLast
<1>8. ASSUME NEW a \in Takers, Connect(a) PROVE LocksHold'
  BY <1>8, ActorsAre
     DEF Connect, GoTo, tokens, refs, keeping, owned, PoolTyped, Opening, LocksHold, Alive
<1>9. ASSUME NEW a \in Takers, ConnectFails(a) PROVE LocksHold'
  <2>1. \A s \in Slots : line'[s].up => line[s].up
    BY <1>9, WhoLetsGo, NoLineIs DEF LetsGo
  <2>2. pc' = [pc EXCEPT ![a] = "gaveUp"] /\ slot' = slot
    BY <1>9 DEF ConnectFails, GiveUpOpening, GoTo
  <2>3. a \in Actors
    BY <1>9, ActorsAre DEF ConnectFails, HandsAreKnown, OwnerPlaces
  <2>4. ASSUME NEW b \in Actors, pc'[b] \in Opening \cup {"using"}
        PROVE  /\ pc'[b] = pc[b] \/ (pc[b] \in Opening /\ pc'[b] # "connect")
               /\ slot'[b] = slot[b]
    BY <2>2, <2>3, <2>4, ActorsAre DEF Opening, PoolTyped
  <2> QED BY <2>1, <2>4, LocksLast
<1>10. ASSUME NEW a \in Takers, Join(a) PROVE LocksHold'
  <2>1. RegisterPool
    BY <1>10 DEF Join
  <2> QED BY <1>10, ActorsAre, <2>1, RegisteredIs
     DEF Join, GoTo, tokens, keeping, owned, PoolTyped, HandsAreKnown, OwnerPlaces, Opening,
         LocksHold, Alive
<1>11. ASSUME NEW a \in Takers, JoinFails(a) PROVE LocksHold'
  <2>1. \A s \in Slots : line'[s].up => line[s].up
    BY <1>11, WhoLetsGo, NoLineIs DEF LetsGo
  <2>2. pc' = [pc EXCEPT ![a] = "gaveUp"] /\ slot' = slot
    BY <1>11 DEF JoinFails, GiveUpOpening, GoTo
  <2>3. a \in Actors
    BY <1>11, ActorsAre DEF JoinFails, HandsAreKnown, OwnerPlaces
  <2>4. ASSUME NEW b \in Actors, pc'[b] \in Opening \cup {"using"}
        PROVE  /\ pc'[b] = pc[b] \/ (pc[b] \in Opening /\ pc'[b] # "connect")
               /\ slot'[b] = slot[b]
    BY <2>2, <2>3, <2>4, ActorsAre DEF Opening, PoolTyped
  <2> QED BY <2>1, <2>4, LocksLast
<1>12. ASSUME NEW a \in Takers, Follow(a) PROVE LocksHold'
  <2>1. \A s \in Slots : line'[s].up => line[s].up
    BY <1>12, WhoLetsGo, NoLineIs DEF LetsGo
  <2>2. /\ pc' = [pc EXCEPT ![a] = "opened", ![watcher] = "watching"]
        /\ slot' = [slot EXCEPT ![watcher] = None]
    BY <1>12 DEF Follow
  <2>3. pc[a] = "follow"
    BY <1>12, ActorsAre DEF Follow, HandsAreKnown, OwnerPlaces
  <2>4. ASSUME NEW b \in Actors, pc'[b] \in Opening \cup {"using"}
        PROVE  /\ pc'[b] = pc[b] \/ (pc[b] \in Opening /\ pc'[b] # "connect")
               /\ slot'[b] = slot[b]
    BY <2>2, <2>3, <2>4, ActorsAre DEF Opening, PoolTyped
  <2> QED BY <2>1, <2>4, LocksLast
<1>13. ASSUME NEW a \in Takers, FollowFails(a) PROVE LocksHold'
  <2>1. \A s \in Slots : line'[s].up => line[s].up
    BY <1>13, WhoLetsGo, NoLineIs DEF LetsGo
  <2>2. pc' = [pc EXCEPT ![a] = "gaveUp"] /\ slot' = slot
    BY <1>13 DEF FollowFails, GiveUpOpening, GoTo
  <2>3. a \in Actors
    BY <1>13, ActorsAre DEF FollowFails, HandsAreKnown, OwnerPlaces
  <2>4. ASSUME NEW b \in Actors, pc'[b] \in Opening \cup {"using"}
        PROVE  /\ pc'[b] = pc[b] \/ (pc[b] \in Opening /\ pc'[b] # "connect")
               /\ slot'[b] = slot[b]
    BY <2>2, <2>3, <2>4, ActorsAre DEF Opening, PoolTyped
  <2> QED BY <2>1, <2>4, LocksLast
<1>14. ASSUME NEW a \in Takers, Opened(a) PROVE LocksHold'
  BY <1>14, ActorsAre
     DEF Opened, GoTo, tokens, pools, refs, keeping, owned, PoolTyped, HandsAreKnown, OwnerPlaces,
         Opening, LocksHold, Alive
<1>15. ASSUME NEW c \in Commands, Begin(c) PROVE LocksHold'
  BY <1>15, ActorsAre
     DEF Begin, GoTo, tokens, pools, refs, keeping, owned, PoolTyped, HandsAreKnown, OwnerPlaces,
         Opening, LocksHold, Alive
<1>16. ASSUME NEW c \in Commands, End(c) PROVE LocksHold'
  <2>1. \A s \in Slots : line'[s].up => line[s].up
    BY <1>16, WhoLetsGo, NoLineIs DEF LetsGo
  <2>2. pc' = [pc EXCEPT ![c] = "idle"] /\ slot' = [slot EXCEPT ![c] = None]
    BY <1>16 DEF End, Forgets, GoTo
  <2>3. c \in Actors
    BY <1>16, ActorsAre DEF End, HandsAreKnown, OwnerPlaces
  <2>4. ASSUME NEW b \in Actors, pc'[b] \in Opening \cup {"using"}
        PROVE  /\ pc'[b] = pc[b] \/ (pc[b] \in Opening /\ pc'[b] # "connect")
               /\ slot'[b] = slot[b]
    BY <2>2, <2>3, <2>4, ActorsAre DEF Opening, PoolTyped
  <2> QED BY <2>1, <2>4, LocksLast
<1>17. CASE StartRound
  BY <1>17, ActorsAre
     DEF StartRound, GoTo, tokens, pools, refs, owned, PoolTyped, HandsAreKnown, OwnerPlaces,
         Opening, LocksHold, Alive
<1>18. CASE TryOpen
  BY <1>18, ActorsAre
     DEF TryOpen, GoTo, tokens, pools, refs, keeping, owned, PoolTyped, HandsAreKnown,
         OwnerPlaces, Opening, LocksHold, Alive
<1>19. CASE MoveOn
  <2>1. \A s \in Slots : line'[s].up => line[s].up
    BY <1>19, WhoLetsGo, NoLineIs DEF LetsGo
  <2>2. /\ pc' = [pc EXCEPT ![keeper] = "try"] \/ pc' = [pc EXCEPT ![keeper] = "idle"]
        /\ slot' = [slot EXCEPT ![keeper] = None]
    BY <1>19 DEF MoveOn, Advance, Forgets, GoTo
  <2>3. ASSUME NEW b \in Actors, pc'[b] \in Opening \cup {"using"}
        PROVE  pc'[b] = pc[b] /\ slot'[b] = slot[b]
    BY <2>2, <2>3, ActorsAre DEF Opening, PoolTyped
  <2> QED BY <2>1, <2>3, LocksLast
<1>20. CASE WatchEnds
  <2>1. TakeSlot(watcher) /\ pool[watcher] # None /\ (watcher = keeper => turn \in DOMAIN RoleOrder)
    BY <1>20, ActorsAre, Distinct DEF WatchEnds, HandsAreKnown, Poolless
  <2> QED BY <1>20, ActorsAre, <2>1, TakenIs
     DEF WatchEnds, GoTo, tokens, keeping, owned, PoolTyped, HandsAreKnown, OwnerPlaces, Opening,
         LocksHold, Alive, Poolless, Slotless
<1>21. CASE WatcherCloses
  <2>1. \A s \in Slots : line'[s].up => line[s].up
    BY <1>21, WhoLetsGo, NoLineIs DEF LetsGo
  <2>2. pc' = [pc EXCEPT ![watcher] = "idle"] /\ slot' = [slot EXCEPT ![watcher] = None]
    BY <1>21 DEF WatcherCloses, Forgets, GoTo
  <2>3. watcher \in Actors
    BY <1>21, ActorsAre DEF WatcherCloses, HandsAreKnown, OwnerPlaces
  <2>4. ASSUME NEW b \in Actors, pc'[b] \in Opening \cup {"using"}
        PROVE  /\ pc'[b] = pc[b] \/ (pc[b] \in Opening /\ pc'[b] # "connect")
               /\ slot'[b] = slot[b]
    BY <2>2, <2>3, <2>4, ActorsAre DEF Opening, PoolTyped
  <2> QED BY <2>1, <2>4, LocksLast
<1>22. CASE StartLogout
  BY <1>22, ActorsAre
     DEF StartLogout, OwnerAt, GoTo, pools, refs, keeping, PoolTyped, HandsAreKnown, OwnerPlaces,
         Opening, LocksHold, Alive
<1>23. CASE StartLogin
  BY <1>23, ActorsAre
     DEF StartLogin, OwnerAt, GoTo, pools, refs, keeping, PoolTyped, HandsAreKnown, OwnerPlaces,
         Opening, LocksHold, Alive
<1>24. CASE Revoke
  BY <1>24, ActorsAre
     DEF Revoke, OwnerAt, GoTo, pools, refs, keeping, PoolTyped, HandsAreKnown, OwnerPlaces,
         Opening, LocksHold, Alive
<1>25. CASE RevokeFails
  BY <1>25, ActorsAre
     DEF RevokeFails, OwnerAt, GoTo, pools, refs, keeping, PoolTyped, HandsAreKnown, OwnerPlaces,
         Opening, LocksHold, Alive
<1>26. CASE StopWatcher
  <2>1. \A s \in Slots : line'[s].up => line[s].up
    BY <1>26, WhoLetsGo, NoLineIs DEF LetsGo
  <2>2. /\ pc' = [pc EXCEPT ![owner] = "unregister", ![watcher] = "idle"]
        /\ slot' = [slot EXCEPT ![watcher] = None]
    BY <1>26 DEF StopWatcher, Forgets
  <2>3. watcher \in Actors /\ owner \in Actors
    BY <1>26, ActorsAre DEF StopWatcher, HandsAreKnown, OwnerPlaces
  <2>4. ASSUME NEW b \in Actors, pc'[b] \in Opening \cup {"using"}
        PROVE  /\ pc'[b] = pc[b] \/ (pc[b] \in Opening /\ pc'[b] # "connect")
               /\ slot'[b] = slot[b]
    BY <2>2, <2>3, <2>4, ActorsAre DEF Opening, PoolTyped
  <2> QED BY <2>1, <2>4, LocksLast
<1>27. CASE Unregister
  BY <1>27, ActorsAre
     DEF Unregister, OwnerAt, GoTo, tokens, keeping, PoolTyped, HandsAreKnown, OwnerPlaces,
         Opening, LocksHold, Alive
<1>28. CASE Drain
  BY <1>28, ActorsAre
     DEF Drain, OwnerAt, GoTo, tokens, refs, keeping, PoolTyped, HandsAreKnown, OwnerPlaces,
         Opening, LocksHold, Alive
<1>29. CASE WaitForUsers
  BY <1>29, ActorsAre
     DEF WaitForUsers, OwnerAt, GoTo, tokens, pools, keeping, PoolTyped, HandsAreKnown,
         OwnerPlaces, Opening, LocksHold, Alive
<1>30. CASE CloseSlot
  <2>1. \A s \in Slots : line'[s].up => line[s].up
    BY <1>30, WhoLetsGo, NoLineIs DEF LetsGo
  <2>2. pc' = [pc EXCEPT ![owner] = "close"] /\ slot' = [slot EXCEPT ![owner] = None]
    BY <1>30 DEF CloseSlot, OwnerAt, GoTo
  <2>3. owner \in Actors
    BY <1>30, ActorsAre DEF CloseSlot, HandsAreKnown, OwnerPlaces
  <2>4. ASSUME NEW b \in Actors, pc'[b] \in Opening \cup {"using"}
        PROVE  /\ pc'[b] = pc[b] \/ (pc[b] \in Opening /\ pc'[b] # "connect")
               /\ slot'[b] = slot[b]
    BY <2>2, <2>3, <2>4, ActorsAre DEF Opening, PoolTyped
  <2> QED BY <2>1, <2>4, LocksLast
<1>31. CASE AllClosed
  <2>1. \A s \in Slots : line'[s].up => line[s].up
    BY <1>31, WhoLetsGo, NoLineIs DEF LetsGo
  <2>2. /\ pc' = [pc EXCEPT ![owner] = "unregister"] \/ pc' = [pc EXCEPT ![owner] = "idle"]
        /\ slot' = slot
    BY <1>31 DEF AllClosed, LeaveSession, SealSession, TakeBack, Finish, OwnerAt, GoTo
  <2>3. ASSUME NEW b \in Actors, pc'[b] \in Opening \cup {"using"}
        PROVE  pc'[b] = pc[b] /\ slot'[b] = slot[b]
    BY <2>2, <2>3, ActorsAre DEF Opening, PoolTyped
  <2> QED BY <2>1, <2>3, LocksLast
<1>32. CASE LineDies
  BY <1>32, ActorsAre
     DEF LineDies, tokens, refs, keeping, owned, PoolTyped, HandsAreKnown, OwnerPlaces, Opening,
         LocksHold, Alive
<1>33. CASE UNCHANGED vars
  BY <1>33 DEF vars, tokens, pools, refs, keeping, owned, LocksHold, Alive
<1> QED
  BY <1>1, <1>2, <1>3, <1>4, <1>5, <1>6, <1>7, <1>8, <1>9, <1>10, <1>11,
     <1>12, <1>13, <1>14, <1>15, <1>16, <1>17, <1>18, <1>19, <1>20, <1>21, <1>22,
     <1>23, <1>24, <1>25, <1>26, <1>27, <1>28, <1>29, <1>30, <1>31, <1>32, <1>33
     DEF Next, Acquire, CommandStep, KeeperStep, OwnerStep, Takers

\* Actors that stay at the door they were at, or leave it, and lines that close.
LEMMA DoorsLast ==
  ASSUME PoolTyped, HandsAreKnown, DoorsHold,
         \A s \in Slots : line'[s].up =>
           line[s].up \/ \E a \in Actors : slot[a] = s /\ pc[a] = "connect",
         \A a \in Actors : pc'[a] \in DoorPlaces => pc[a] \in DoorPlaces /\ slot'[a] = slot[a],
         \A a \in Actors : pc'[a] = "upgrade" =>
           pc[a] = "upgrade" \/ (pc[a] = "again" /\ ~line[slot[a]].up)
  PROVE  DoorsHold'
<1> SUFFICES ASSUME NEW a \in Actors, pc'[a] \in DoorPlaces
             PROVE  /\ \A b \in Actors : b # a /\ slot'[b] = slot'[a] => pc'[b] \notin DoorPlaces
                    /\ pc'[a] = "upgrade" => ~line'[slot'[a]].up
  BY DEF DoorsHold, Alive, DoorPlaces
<1>1. pc[a] \in DoorPlaces /\ slot'[a] = slot[a]
  OBVIOUS
<1>2. ASSUME NEW b \in Actors, b # a, slot'[b] = slot'[a], pc'[b] \in DoorPlaces
      PROVE  FALSE
  BY <1>1, <1>2 DEF DoorsHold
<1>3. ASSUME pc'[a] = "upgrade" PROVE ~line'[slot'[a]].up
  <2>1. slot[a] \in Slots /\ ~line[slot[a]].up
    BY <1>1, <1>3
       DEF DoorsHold, Alive, HandsAreKnown, Slotless, Poolless, DoorPlaces, Opening, PoolTyped
  <2>2. \A b \in Actors : slot[b] = slot[a] => pc[b] # "connect" \/ b = a
    BY <1>1 DEF DoorsHold, DoorPlaces, Opening
  <2>3. pc[a] # "connect"
    BY <1>3
  <2> QED BY <1>1, <2>1, <2>2, <2>3
<1> QED BY <1>2, <1>3

LEMMA RestStep == PoolTyped /\ RestTyped /\ [Next]_vars => RestTyped'
<1> SUFFICES ASSUME PoolTyped, RestTyped, [Next]_vars
             PROVE  RestTyped'
  OBVIOUS
<1>1. ASSUME NEW a \in Takers, TakePool(a) PROVE RestTyped'
  BY <1>1 DEF TakePool, tokens, keeping, owned, RestTyped, PoolTyped
<1>2. ASSUME NEW a \in Takers, Enter(a) PROVE RestTyped'
  BY <1>2 DEF Enter, tokens, keeping, owned, RestTyped, PoolTyped
<1>3. ASSUME NEW a \in Takers, Look(a) PROVE RestTyped'
  BY <1>3 DEF Look, tokens, pools, refs, keeping, owned, RestTyped, PoolTyped
<1>4. ASSUME NEW a \in Takers, Door(a) PROVE RestTyped'
  BY <1>4 DEF Door, tokens, pools, refs, keeping, owned, RestTyped, PoolTyped
<1>5. ASSUME NEW a \in Takers, LookAgain(a) PROVE RestTyped'
  BY <1>5 DEF LookAgain, tokens, pools, refs, keeping, owned, RestTyped, PoolTyped
<1>6. ASSUME NEW a \in Takers, Dial(a) PROVE RestTyped'
  BY <1>6 DEF Dial, tokens, keeping, owned, RestTyped, PoolTyped
<1>7. ASSUME NEW a \in Takers, DialFails(a) PROVE RestTyped'
  BY <1>7 DEF DialFails, GiveUpOpening, tokens, keeping, owned, RestTyped, PoolTyped
<1>8. ASSUME NEW a \in Takers, Connect(a) PROVE RestTyped'
  BY <1>8 DEF Connect, tokens, refs, keeping, owned, RestTyped, PoolTyped
<1>9. ASSUME NEW a \in Takers, ConnectFails(a) PROVE RestTyped'
  BY <1>9 DEF ConnectFails, GiveUpOpening, tokens, keeping, owned, RestTyped, PoolTyped
<1>10. ASSUME NEW a \in Takers, Join(a) PROVE RestTyped'
  BY <1>10 DEF Join, tokens, keeping, owned, RestTyped, PoolTyped
<1>11. ASSUME NEW a \in Takers, JoinFails(a) PROVE RestTyped'
  BY <1>11 DEF JoinFails, GiveUpOpening, tokens, keeping, owned, RestTyped, PoolTyped
<1>12. ASSUME NEW a \in Takers, Follow(a) PROVE RestTyped'
  BY <1>12 DEF Follow, tokens, keeping, owned, RestTyped, PoolTyped
<1>13. ASSUME NEW a \in Takers, FollowFails(a) PROVE RestTyped'
  BY <1>13 DEF FollowFails, GiveUpOpening, tokens, keeping, owned, RestTyped, PoolTyped
<1>14. ASSUME NEW a \in Takers, Opened(a) PROVE RestTyped'
  BY <1>14 DEF Opened, tokens, pools, refs, keeping, owned, RestTyped, PoolTyped
<1>15. ASSUME NEW c \in Commands, Begin(c) PROVE RestTyped'
  BY <1>15 DEF Begin, tokens, pools, refs, keeping, owned, RestTyped, PoolTyped
<1>16. ASSUME NEW c \in Commands, End(c) PROVE RestTyped'
  BY <1>16 DEF End, Forgets, tokens, keeping, owned, RestTyped, PoolTyped
<1>17. CASE StartRound
  <2>1. turn' = 1 /\ rounds' = rounds + 1 /\ rounds < Rounds /\ valid' = valid /\ sealed' = sealed
    BY <1>17 DEF StartRound, tokens
  <2>2. rounds' \in 0 .. Rounds
    BY <2>1, Shapes DEF RestTyped
  <2>3. turn' <= Len(RoleOrder)
    BY <2>1, RolesAre
  <2> QED BY <2>1, <2>2, <2>3 DEF RestTyped
<1>18. CASE TryOpen
  BY <1>18 DEF TryOpen, tokens, pools, refs, keeping, owned, RestTyped, PoolTyped
<1>19. CASE MoveOn
  <2>1. (turn' = turn + 1 /\ turn < Len(RoleOrder)) \/ turn' = 0
    BY <1>19 DEF MoveOn, Advance
  <2>2. turn' <= Len(RoleOrder)
    BY <2>1, RolesAre DEF PoolTyped
  <2> QED BY <1>19, <2>2 DEF MoveOn, tokens, RestTyped
<1>20. CASE WatchEnds
  BY <1>20 DEF WatchEnds, tokens, keeping, owned, RestTyped, PoolTyped
<1>21. CASE WatcherCloses
  BY <1>21 DEF WatcherCloses, Forgets, tokens, keeping, owned, RestTyped, PoolTyped
<1>22. CASE StartLogout
  BY <1>22 DEF StartLogout, OwnerAt, pools, refs, keeping, RestTyped, PoolTyped
<1>23. CASE StartLogin
  BY <1>23 DEF StartLogin, OwnerAt, pools, refs, keeping, RestTyped, PoolTyped
<1>24. CASE Revoke
  BY <1>24 DEF Revoke, OwnerAt, pools, refs, keeping, RestTyped, PoolTyped
<1>25. CASE RevokeFails
  BY <1>25 DEF RevokeFails, OwnerAt, pools, refs, keeping, RestTyped, PoolTyped
<1>26. CASE StopWatcher
  BY <1>26 DEF StopWatcher, Forgets, tokens, keeping, owned, RestTyped, PoolTyped
<1>27. CASE Unregister
  BY <1>27 DEF Unregister, OwnerAt, tokens, keeping, RestTyped, PoolTyped
<1>28. CASE Drain
  BY <1>28 DEF Drain, OwnerAt, tokens, refs, keeping, RestTyped, PoolTyped
<1>29. CASE WaitForUsers
  BY <1>29 DEF WaitForUsers, OwnerAt, tokens, pools, keeping, RestTyped, PoolTyped
<1>30. CASE CloseSlot
  BY <1>30 DEF CloseSlot, OwnerAt, tokens, keeping, RestTyped, PoolTyped
<1>31. CASE AllClosed
  BY <1>31
     DEF AllClosed, LeaveSession, SealSession, TakeBack, Finish, OwnerAt, keeping, RestTyped,
         PoolTyped
<1>32. CASE LineDies
  BY <1>32 DEF LineDies, tokens, refs, keeping, owned, RestTyped, PoolTyped
<1>33. CASE UNCHANGED vars
  BY <1>33 DEF vars, tokens, pools, refs, keeping, owned, RestTyped
<1> QED
  BY <1>1, <1>2, <1>3, <1>4, <1>5, <1>6, <1>7, <1>8, <1>9, <1>10, <1>11,
     <1>12, <1>13, <1>14, <1>15, <1>16, <1>17, <1>18, <1>19, <1>20, <1>21, <1>22,
     <1>23, <1>24, <1>25, <1>26, <1>27, <1>28, <1>29, <1>30, <1>31, <1>32, <1>33
     DEF Next, Acquire, CommandStep, KeeperStep, OwnerStep, Takers

\* The mutex of the opener: one actor at the door of a slot, up to the end of the opening.
LEMMA DoorsStep == PoolTyped /\ HandsAreKnown /\ DoorsHold /\ [Next]_vars => DoorsHold'
<1> SUFFICES ASSUME PoolTyped, HandsAreKnown, DoorsHold, [Next]_vars
             PROVE  DoorsHold'
  OBVIOUS
<1>1. ASSUME NEW a \in Takers, TakePool(a) PROVE DoorsHold'
  <2>1. line' = line
    BY <1>1 DEF TakePool
  <2>2. /\ pc' = [pc EXCEPT ![a] = IF a = keeper THEN "try" ELSE "enter"]
        /\ slot' = slot
    BY <1>1 DEF TakePool, GoTo, tokens, keeping, owned
  <2>3. ASSUME NEW b \in Actors, pc'[b] \in DoorPlaces PROVE pc'[b] = pc[b] /\ slot'[b] = slot[b]
    BY <2>2, <2>3, ActorsAre DEF DoorPlaces, Opening, PoolTyped
  <2> QED BY <2>1, <2>3, DoorsLast DEF DoorPlaces
<1>2. ASSUME NEW a \in Takers, Enter(a) PROVE DoorsHold'
  <2>1. TakeSlot(a) /\ pool[a] # None /\ (a = keeper => turn \in DOMAIN RoleOrder)
    BY <1>2, ActorsAre, Distinct DEF Enter, HandsAreKnown, Poolless
  <2>2. line' = line /\ pc' = [pc EXCEPT ![a] = "look"]
    BY <1>2 DEF Enter, GoTo
  <2>3. PICK s \in Slots : slot' = [slot EXCEPT ![a] = s]
    BY <2>1, TakenIs
  <2>4. ASSUME NEW b \in Actors, pc'[b] \in DoorPlaces PROVE pc'[b] = pc[b] /\ slot'[b] = slot[b]
    BY <2>2, <2>3, <2>4, ActorsAre DEF DoorPlaces, Opening, PoolTyped
  <2> QED BY <2>2, <2>4, DoorsLast DEF DoorPlaces
<1>3. ASSUME NEW a \in Takers, Look(a) PROVE DoorsHold'
  <2>1. line' = line
    BY <1>3 DEF Look, pools
  <2>2. /\ pc' = [pc EXCEPT ![a] = IF Alive(slot[a]) THEN "using" ELSE "door"]
        /\ slot' = slot
    BY <1>3 DEF Look, GoTo, tokens, pools, refs, keeping, owned
  <2>3. ASSUME NEW b \in Actors, pc'[b] \in DoorPlaces PROVE pc'[b] = pc[b] /\ slot'[b] = slot[b]
    BY <2>2, <2>3, ActorsAre DEF DoorPlaces, Opening, PoolTyped
  <2> QED BY <2>1, <2>3, DoorsLast DEF DoorPlaces
<1>4. ASSUME NEW a \in Takers, Door(a) PROVE DoorsHold'
  <2>1. line' = line /\ slot' = slot /\ pc' = [pc EXCEPT ![a] = "again"]
    BY <1>4 DEF Door, pools, refs, GoTo
  <2>2. \A b \in Actors : slot[b] = slot[a] => pc[b] \notin DoorPlaces
    BY <1>4 DEF Door, DoorIsFree, At, DoorPlaces
  <2>3. ASSUME NEW b \in Actors, pc'[b] \in DoorPlaces, NEW d \in Actors, d # b, slot[d] = slot[b]
        PROVE  pc'[d] \notin DoorPlaces
    BY <2>1, <2>2, <2>3, ActorsAre DEF DoorsHold, PoolTyped
  <2>4. \A b \in Actors : pc'[b] = "upgrade" => pc[b] = "upgrade"
    BY <2>1, ActorsAre DEF PoolTyped
  <2> QED BY <2>1, <2>3, <2>4 DEF DoorsHold, Alive
<1>5. ASSUME NEW a \in Takers, LookAgain(a) PROVE DoorsHold'
  <2>1. line' = line
    BY <1>5 DEF LookAgain, pools
  <2>2. /\ pc[a] = "again"
        /\ slot' = slot
        /\ pc' = [pc EXCEPT ![a] = IF Alive(slot[a]) THEN "using" ELSE "upgrade"]
    BY <1>5 DEF LookAgain, refs, GoTo
  <2>3. ASSUME NEW b \in Actors, pc'[b] \in DoorPlaces
        PROVE  /\ pc[b] \in DoorPlaces /\ slot'[b] = slot[b]
               /\ pc'[b] = "upgrade" =>
                    pc[b] = "upgrade" \/ (pc[b] = "again" /\ ~line[slot[b]].up)
    BY <2>2, <2>3, ActorsAre DEF DoorPlaces, Opening, PoolTyped, Alive
  <2> QED BY <2>1, <2>3, DoorsLast DEF DoorPlaces
<1>6. ASSUME NEW a \in Takers, Dial(a) PROVE DoorsHold'
  <2>1. \A s \in Slots : line'[s].up => line[s].up
    BY <1>6, NoLineIs DEF Dial, PoolTyped
  <2>2. /\ pc[a] = "upgrade"
        /\ slot' = slot
        /\ pc' = [pc EXCEPT ![a] = "connect"]
    BY <1>6 DEF Dial, refs, GoTo
  <2>3. ASSUME NEW b \in Actors, pc'[b] \in DoorPlaces
        PROVE  /\ pc[b] \in DoorPlaces /\ slot'[b] = slot[b]
               /\ pc'[b] = "upgrade" =>
                    pc[b] = "upgrade" \/ (pc[b] = "again" /\ ~line[slot[b]].up)
    BY <2>2, <2>3, ActorsAre DEF DoorPlaces, Opening, PoolTyped, Alive
  <2> QED BY <2>1, <2>3, DoorsLast DEF DoorPlaces
<1>7. ASSUME NEW a \in Takers, DialFails(a) PROVE DoorsHold'
  <2>1. \A s \in Slots : line'[s].up => line[s].up
    BY <1>7, WhoLetsGo, NoLineIs DEF LetsGo
  <2>2. /\ pc' = [pc EXCEPT ![a] = "gaveUp"]
        /\ slot' = slot
    BY <1>7 DEF DialFails, GiveUpOpening, GoTo, tokens, keeping, owned
  <2>3. ASSUME NEW b \in Actors, pc'[b] \in DoorPlaces PROVE pc'[b] = pc[b] /\ slot'[b] = slot[b]
    BY <2>2, <2>3, ActorsAre DEF DoorPlaces, Opening, PoolTyped
  <2> QED BY <2>1, <2>3, DoorsLast DEF DoorPlaces
<1>8. ASSUME NEW a \in Takers, Connect(a) PROVE DoorsHold'
  <2>1. \A s \in Slots : line'[s].up =>
          line[s].up \/ \E b \in Actors : slot[b] = s /\ pc[b] = "connect"
    BY <1>8, ActorsAre DEF Connect, PoolTyped
  <2>2. /\ pc[a] = "connect"
        /\ slot' = slot
        /\ pc' = [pc EXCEPT ![a] = IF RoleOf(a) \in Subscribed THEN "join" ELSE "opened"]
    BY <1>8 DEF Connect, refs, GoTo
  <2>3. ASSUME NEW b \in Actors, pc'[b] \in DoorPlaces
        PROVE  /\ pc[b] \in DoorPlaces /\ slot'[b] = slot[b]
               /\ pc'[b] = "upgrade" =>
                    pc[b] = "upgrade" \/ (pc[b] = "again" /\ ~line[slot[b]].up)
    BY <2>2, <2>3, ActorsAre DEF DoorPlaces, Opening, PoolTyped, Alive
  <2> QED BY <2>1, <2>3, DoorsLast DEF DoorPlaces
<1>9. ASSUME NEW a \in Takers, ConnectFails(a) PROVE DoorsHold'
  <2>1. \A s \in Slots : line'[s].up => line[s].up
    BY <1>9, WhoLetsGo, NoLineIs DEF LetsGo
  <2>2. /\ pc' = [pc EXCEPT ![a] = "gaveUp"]
        /\ slot' = slot
    BY <1>9 DEF ConnectFails, GiveUpOpening, GoTo, tokens, keeping, owned
  <2>3. ASSUME NEW b \in Actors, pc'[b] \in DoorPlaces PROVE pc'[b] = pc[b] /\ slot'[b] = slot[b]
    BY <2>2, <2>3, ActorsAre DEF DoorPlaces, Opening, PoolTyped
  <2> QED BY <2>1, <2>3, DoorsLast DEF DoorPlaces
<1>10. ASSUME NEW a \in Takers, Join(a) PROVE DoorsHold'
  <2>1. line' = line
    BY <1>10 DEF Join
  <2>2. /\ pc[a] = "join"
        /\ slot' = slot
        /\ pc' = [pc EXCEPT ![a] = "follow"]
    BY <1>10 DEF Join, refs, GoTo
  <2>3. ASSUME NEW b \in Actors, pc'[b] \in DoorPlaces
        PROVE  /\ pc[b] \in DoorPlaces /\ slot'[b] = slot[b]
               /\ pc'[b] = "upgrade" =>
                    pc[b] = "upgrade" \/ (pc[b] = "again" /\ ~line[slot[b]].up)
    BY <2>2, <2>3, ActorsAre DEF DoorPlaces, Opening, PoolTyped, Alive
  <2> QED BY <2>1, <2>3, DoorsLast DEF DoorPlaces
<1>11. ASSUME NEW a \in Takers, JoinFails(a) PROVE DoorsHold'
  <2>1. \A s \in Slots : line'[s].up => line[s].up
    BY <1>11, WhoLetsGo, NoLineIs DEF LetsGo
  <2>2. /\ pc' = [pc EXCEPT ![a] = "gaveUp"]
        /\ slot' = slot
    BY <1>11 DEF JoinFails, GiveUpOpening, GoTo, tokens, keeping, owned
  <2>3. ASSUME NEW b \in Actors, pc'[b] \in DoorPlaces PROVE pc'[b] = pc[b] /\ slot'[b] = slot[b]
    BY <2>2, <2>3, ActorsAre DEF DoorPlaces, Opening, PoolTyped
  <2> QED BY <2>1, <2>3, DoorsLast DEF DoorPlaces
<1>12. ASSUME NEW a \in Takers, Follow(a) PROVE DoorsHold'
  <2>1. \A s \in Slots : line'[s].up => line[s].up
    BY <1>12, WhoLetsGo, NoLineIs DEF LetsGo
  <2>2. /\ pc[a] = "follow"
        /\ slot' = [slot EXCEPT ![watcher] = None]
        /\ pc' = [pc EXCEPT ![a] = "opened", ![watcher] = "watching"]
    BY <1>12 DEF Follow, refs, GoTo
  <2>3. ASSUME NEW b \in Actors, pc'[b] \in DoorPlaces
        PROVE  /\ pc[b] \in DoorPlaces /\ slot'[b] = slot[b]
               /\ pc'[b] = "upgrade" =>
                    pc[b] = "upgrade" \/ (pc[b] = "again" /\ ~line[slot[b]].up)
    BY <2>2, <2>3, ActorsAre DEF DoorPlaces, Opening, PoolTyped, Alive
  <2> QED BY <2>1, <2>3, DoorsLast DEF DoorPlaces
<1>13. ASSUME NEW a \in Takers, FollowFails(a) PROVE DoorsHold'
  <2>1. \A s \in Slots : line'[s].up => line[s].up
    BY <1>13, WhoLetsGo, NoLineIs DEF LetsGo
  <2>2. /\ pc' = [pc EXCEPT ![a] = "gaveUp"]
        /\ slot' = slot
    BY <1>13 DEF FollowFails, GiveUpOpening, GoTo, tokens, keeping, owned
  <2>3. ASSUME NEW b \in Actors, pc'[b] \in DoorPlaces PROVE pc'[b] = pc[b] /\ slot'[b] = slot[b]
    BY <2>2, <2>3, ActorsAre DEF DoorPlaces, Opening, PoolTyped
  <2> QED BY <2>1, <2>3, DoorsLast DEF DoorPlaces
<1>14. ASSUME NEW a \in Takers, Opened(a) PROVE DoorsHold'
  <2>1. line' = line
    BY <1>14 DEF Opened, pools
  <2>2. /\ pc' = [pc EXCEPT ![a] = IF Alive(slot[a]) THEN "using" ELSE "gaveUp"]
        /\ slot' = slot
    BY <1>14 DEF Opened, GoTo, tokens, pools, refs, keeping, owned
  <2>3. ASSUME NEW b \in Actors, pc'[b] \in DoorPlaces PROVE pc'[b] = pc[b] /\ slot'[b] = slot[b]
    BY <2>2, <2>3, ActorsAre DEF DoorPlaces, Opening, PoolTyped
  <2> QED BY <2>1, <2>3, DoorsLast DEF DoorPlaces
<1>15. ASSUME NEW c \in Commands, Begin(c) PROVE DoorsHold'
  <2>1. line' = line
    BY <1>15 DEF Begin, pools
  <2>2. /\ pc' = [pc EXCEPT ![c] = "pool"]
        /\ slot' = slot
    BY <1>15 DEF Begin, GoTo, tokens, pools, refs, keeping, owned
  <2>3. ASSUME NEW b \in Actors, pc'[b] \in DoorPlaces PROVE pc'[b] = pc[b] /\ slot'[b] = slot[b]
    BY <2>2, <2>3, ActorsAre DEF DoorPlaces, Opening, PoolTyped
  <2> QED BY <2>1, <2>3, DoorsLast DEF DoorPlaces
<1>16. ASSUME NEW c \in Commands, End(c) PROVE DoorsHold'
  <2>1. \A s \in Slots : line'[s].up => line[s].up
    BY <1>16, WhoLetsGo, NoLineIs DEF LetsGo
  <2>2. /\ pc' = [pc EXCEPT ![c] = "idle"]
        /\ slot' = [slot EXCEPT ![c] = None]
    BY <1>16 DEF End, Forgets, GoTo, tokens, keeping, owned
  <2>3. ASSUME NEW b \in Actors, pc'[b] \in DoorPlaces PROVE pc'[b] = pc[b] /\ slot'[b] = slot[b]
    BY <2>2, <2>3, ActorsAre DEF DoorPlaces, Opening, PoolTyped
  <2> QED BY <2>1, <2>3, DoorsLast DEF DoorPlaces
<1>17. CASE StartRound
  <2>1. line' = line
    BY <1>17 DEF StartRound, pools
  <2>2. /\ pc' = [pc EXCEPT ![keeper] = "pool"]
        /\ slot' = slot
    BY <1>17 DEF StartRound, GoTo, tokens, pools, refs, owned
  <2>3. ASSUME NEW b \in Actors, pc'[b] \in DoorPlaces PROVE pc'[b] = pc[b] /\ slot'[b] = slot[b]
    BY <2>2, <2>3, ActorsAre DEF DoorPlaces, Opening, PoolTyped
  <2> QED BY <2>1, <2>3, DoorsLast DEF DoorPlaces
<1>18. CASE TryOpen
  <2>1. line' = line
    BY <1>18 DEF TryOpen, pools
  <2>2. /\ pc' = [pc EXCEPT ![keeper] = "enter"]
        /\ slot' = slot
    BY <1>18 DEF TryOpen, GoTo, tokens, pools, refs, keeping, owned
  <2>3. ASSUME NEW b \in Actors, pc'[b] \in DoorPlaces PROVE pc'[b] = pc[b] /\ slot'[b] = slot[b]
    BY <2>2, <2>3, ActorsAre DEF DoorPlaces, Opening, PoolTyped
  <2> QED BY <2>1, <2>3, DoorsLast DEF DoorPlaces
<1>19. CASE MoveOn
  <2>1. \A s \in Slots : line'[s].up => line[s].up
    BY <1>19, WhoLetsGo, NoLineIs DEF LetsGo
  <2>2. /\ pc' = [pc EXCEPT ![keeper] = "try"] \/ pc' = [pc EXCEPT ![keeper] = "idle"]
        /\ slot' = [slot EXCEPT ![keeper] = None]
    BY <1>19 DEF MoveOn, Advance, Forgets, GoTo, tokens, owned
  <2>3. ASSUME NEW b \in Actors, pc'[b] \in DoorPlaces PROVE pc'[b] = pc[b] /\ slot'[b] = slot[b]
    BY <2>2, <2>3, ActorsAre DEF DoorPlaces, Opening, PoolTyped
  <2> QED BY <2>1, <2>3, DoorsLast DEF DoorPlaces
<1>20. CASE WatchEnds
  <2>1. TakeSlot(watcher) /\ pool[watcher] # None /\ (watcher = keeper => turn \in DOMAIN RoleOrder)
    BY <1>20, ActorsAre, Distinct DEF WatchEnds, HandsAreKnown, Poolless
  <2>2. line' = line /\ pc' = [pc EXCEPT ![watcher] = "closing"]
    BY <1>20 DEF WatchEnds, GoTo
  <2>3. PICK s \in Slots : slot' = [slot EXCEPT ![watcher] = s]
    BY <2>1, TakenIs
  <2>4. ASSUME NEW b \in Actors, pc'[b] \in DoorPlaces PROVE pc'[b] = pc[b] /\ slot'[b] = slot[b]
    BY <2>2, <2>3, <2>4, ActorsAre DEF DoorPlaces, Opening, PoolTyped
  <2> QED BY <2>2, <2>4, DoorsLast DEF DoorPlaces
<1>21. CASE WatcherCloses
  <2>1. \A s \in Slots : line'[s].up => line[s].up
    BY <1>21, WhoLetsGo, NoLineIs DEF LetsGo
  <2>2. /\ pc' = [pc EXCEPT ![watcher] = "idle"]
        /\ slot' = [slot EXCEPT ![watcher] = None]
    BY <1>21 DEF WatcherCloses, Forgets, GoTo, tokens, keeping, owned
  <2>3. ASSUME NEW b \in Actors, pc'[b] \in DoorPlaces PROVE pc'[b] = pc[b] /\ slot'[b] = slot[b]
    BY <2>2, <2>3, ActorsAre DEF DoorPlaces, Opening, PoolTyped
  <2> QED BY <2>1, <2>3, DoorsLast DEF DoorPlaces
<1>22. CASE StartLogout
  <2>1. line' = line
    BY <1>22 DEF StartLogout, pools
  <2>2. /\ pc' = [pc EXCEPT ![owner] = "unregister"] \/ pc' = [pc EXCEPT ![owner] = "revoke"]
        /\ slot' = slot
    BY <1>22 DEF StartLogout, OwnerAt, GoTo, pools, refs, keeping
  <2>3. ASSUME NEW b \in Actors, pc'[b] \in DoorPlaces PROVE pc'[b] = pc[b] /\ slot'[b] = slot[b]
    BY <2>2, <2>3, ActorsAre DEF DoorPlaces, Opening, PoolTyped
  <2> QED BY <2>1, <2>3, DoorsLast DEF DoorPlaces
<1>23. CASE StartLogin
  <2>1. line' = line
    BY <1>23 DEF StartLogin, pools
  <2>2. /\ pc' = [pc EXCEPT ![owner] = "unregister"]
        /\ slot' = slot
    BY <1>23 DEF StartLogin, OwnerAt, GoTo, pools, refs, keeping
  <2>3. ASSUME NEW b \in Actors, pc'[b] \in DoorPlaces PROVE pc'[b] = pc[b] /\ slot'[b] = slot[b]
    BY <2>2, <2>3, ActorsAre DEF DoorPlaces, Opening, PoolTyped
  <2> QED BY <2>1, <2>3, DoorsLast DEF DoorPlaces
<1>24. CASE Revoke
  <2>1. line' = line
    BY <1>24 DEF Revoke, pools
  <2>2. /\ pc' = [pc EXCEPT ![owner] = "stop"]
        /\ slot' = slot
    BY <1>24 DEF Revoke, OwnerAt, GoTo, pools, refs, keeping
  <2>3. ASSUME NEW b \in Actors, pc'[b] \in DoorPlaces PROVE pc'[b] = pc[b] /\ slot'[b] = slot[b]
    BY <2>2, <2>3, ActorsAre DEF DoorPlaces, Opening, PoolTyped
  <2> QED BY <2>1, <2>3, DoorsLast DEF DoorPlaces
<1>25. CASE RevokeFails
  <2>1. line' = line
    BY <1>25 DEF RevokeFails, pools
  <2>2. /\ pc' = [pc EXCEPT ![owner] = "idle"]
        /\ slot' = slot
    BY <1>25 DEF RevokeFails, OwnerAt, GoTo, pools, refs, keeping
  <2>3. ASSUME NEW b \in Actors, pc'[b] \in DoorPlaces PROVE pc'[b] = pc[b] /\ slot'[b] = slot[b]
    BY <2>2, <2>3, ActorsAre DEF DoorPlaces, Opening, PoolTyped
  <2> QED BY <2>1, <2>3, DoorsLast DEF DoorPlaces
<1>26. CASE StopWatcher
  <2>1. \A s \in Slots : line'[s].up => line[s].up
    BY <1>26, WhoLetsGo, NoLineIs DEF LetsGo
  <2>2. /\ pc' = [pc EXCEPT ![owner] = "unregister", ![watcher] = "idle"]
        /\ slot' = [slot EXCEPT ![watcher] = None]
    BY <1>26 DEF StopWatcher, Forgets, tokens, keeping, owned
  <2>3. ASSUME NEW b \in Actors, pc'[b] \in DoorPlaces PROVE pc'[b] = pc[b] /\ slot'[b] = slot[b]
    BY <2>2, <2>3, ActorsAre DEF DoorPlaces, Opening, PoolTyped
  <2> QED BY <2>1, <2>3, DoorsLast DEF DoorPlaces
<1>27. CASE Unregister
  <2>1. line' = line
    BY <1>27 DEF Unregister
  <2>2. /\ pc' = [pc EXCEPT ![owner] = "drain"]
        /\ slot' = slot
    BY <1>27 DEF Unregister, OwnerAt, GoTo, tokens, keeping
  <2>3. ASSUME NEW b \in Actors, pc'[b] \in DoorPlaces PROVE pc'[b] = pc[b] /\ slot'[b] = slot[b]
    BY <2>2, <2>3, ActorsAre DEF DoorPlaces, Opening, PoolTyped
  <2> QED BY <2>1, <2>3, DoorsLast DEF DoorPlaces
<1>28. CASE Drain
  <2>1. line' = line
    BY <1>28 DEF Drain
  <2>2. /\ pc' = [pc EXCEPT ![owner] = "close"]
        /\ slot' = slot
    BY <1>28 DEF Drain, OwnerAt, GoTo, tokens, refs, keeping
  <2>3. ASSUME NEW b \in Actors, pc'[b] \in DoorPlaces PROVE pc'[b] = pc[b] /\ slot'[b] = slot[b]
    BY <2>2, <2>3, ActorsAre DEF DoorPlaces, Opening, PoolTyped
  <2> QED BY <2>1, <2>3, DoorsLast DEF DoorPlaces
<1>29. CASE WaitForUsers
  <2>1. line' = line
    BY <1>29 DEF WaitForUsers, pools
  <2>2. /\ pc' = [pc EXCEPT ![owner] = "closing"]
        /\ (\E s \in toClose : slot' = [slot EXCEPT ![owner] = s])
    BY <1>29 DEF WaitForUsers, OwnerAt, GoTo, tokens, pools, keeping
  <2>3. ASSUME NEW b \in Actors, pc'[b] \in DoorPlaces PROVE pc'[b] = pc[b] /\ slot'[b] = slot[b]
    BY <2>2, <2>3, ActorsAre DEF DoorPlaces, Opening, PoolTyped
  <2> QED BY <2>1, <2>3, DoorsLast DEF DoorPlaces
<1>30. CASE CloseSlot
  <2>1. \A s \in Slots : line'[s].up => line[s].up
    BY <1>30, WhoLetsGo, NoLineIs DEF LetsGo
  <2>2. /\ pc' = [pc EXCEPT ![owner] = "close"]
        /\ slot' = [slot EXCEPT ![owner] = None]
    BY <1>30 DEF CloseSlot, OwnerAt, GoTo, tokens, keeping
  <2>3. ASSUME NEW b \in Actors, pc'[b] \in DoorPlaces PROVE pc'[b] = pc[b] /\ slot'[b] = slot[b]
    BY <2>2, <2>3, ActorsAre DEF DoorPlaces, Opening, PoolTyped
  <2> QED BY <2>1, <2>3, DoorsLast DEF DoorPlaces
<1>31. CASE AllClosed
  <2>1. \A s \in Slots : line'[s].up => line[s].up
    BY <1>31, WhoLetsGo, NoLineIs DEF LetsGo
  <2>2. /\ pc' = [pc EXCEPT ![owner] = "unregister"] \/ pc' = [pc EXCEPT ![owner] = "idle"]
        /\ slot' = slot
    BY <1>31 DEF AllClosed, LeaveSession, SealSession, TakeBack, Finish, OwnerAt, GoTo, keeping
  <2>3. ASSUME NEW b \in Actors, pc'[b] \in DoorPlaces PROVE pc'[b] = pc[b] /\ slot'[b] = slot[b]
    BY <2>2, <2>3, ActorsAre DEF DoorPlaces, Opening, PoolTyped
  <2> QED BY <2>1, <2>3, DoorsLast DEF DoorPlaces
<1>32. CASE LineDies
  <2>1. \A s \in Slots : line'[s].up => line[s].up
    BY <1>32 DEF LineDies, PoolTyped, Lines
  <2>2. pc' = pc /\ slot' = slot
    BY <1>32 DEF LineDies, refs
  <2> QED BY <2>1, <2>2, DoorsLast
<1>33. CASE UNCHANGED vars
  BY <1>33 DEF vars, tokens, pools, refs, keeping, owned, DoorsHold, Alive
<1> QED
  BY <1>1, <1>2, <1>3, <1>4, <1>5, <1>6, <1>7, <1>8, <1>9, <1>10, <1>11,
     <1>12, <1>13, <1>14, <1>15, <1>16, <1>17, <1>18, <1>19, <1>20, <1>21, <1>22,
     <1>23, <1>24, <1>25, <1>26, <1>27, <1>28, <1>29, <1>30, <1>31, <1>32, <1>33
     DEF Next, Acquire, CommandStep, KeeperStep, OwnerStep, Takers

----------------------------------------------------------------------------
\* What a step does to lines, slots and pools.

\* Who connects does so with the session it took, which was the one in use.
Connects ==
  \A a \in Actors : pc'[a] = "connect" =>
    \/ pc[a] = "connect" /\ slot'[a] = slot[a] /\ ses'[a] = ses[a]
    \/ ses'[a] = session

\* A line is alive because it was, or because it was connected in this step.
LinesLast ==
  \A s \in Slots : line'[s].up =>
    \/ line'[s] = line[s]
    \/ \E a \in Takers : /\ pc[a] = "connect" /\ slot[a] = s
                         /\ line'[s] = [of |-> ses[a], up |-> TRUE, stray |-> Stray(a)]

\* A pool gets no slot that anybody could reach elsewhere.
SlotsAreFresh ==
  \A p \in Pools, r \in Roles :
    \/ slotOf'[p][r] = slotOf[p][r] \/ slotOf'[p][r] = None
    \/ slotOf'[p][r] \notin Reached

\* Login and logout do nothing, and the pools they are about to close keep their slots.
OwnerStays ==
  /\ pc'[owner] = pc[owner] /\ phase' = phase /\ session' = session
  /\ toClose' = toClose /\ pool'[owner] = pool[owner]
  /\ \/ registry' = registry
     \/ registry = None /\ \A r \in Roles : slotOf'[registry'][r] = None
  /\ \A p \in {registry, pool[owner]} \cap Pools : \A r \in Roles :
       slotOf[p][r] # None => slotOf'[p][r] = slotOf[p][r]

LEMMA ConnectsStep == PoolTyped /\ HandsAreKnown /\ [Next]_vars => Connects
<1> SUFFICES ASSUME PoolTyped, HandsAreKnown, [Next]_vars
             PROVE  Connects
  OBVIOUS
<1>1. ASSUME NEW a \in Takers, TakePool(a) PROVE Connects
  BY <1>1, ActorsAre
     DEF TakePool, GoTo, tokens, keeping, owned, Connects, PoolTyped, HandsAreKnown, OwnerPlaces
<1>2. ASSUME NEW a \in Takers, Enter(a) PROVE Connects
  <2>1. TakeSlot(a) /\ pool[a] # None /\ (a = keeper => turn \in DOMAIN RoleOrder)
    BY <1>2, ActorsAre, Distinct DEF Enter, HandsAreKnown, Poolless
  <2>2. ses' = ses /\ pc' = [pc EXCEPT ![a] = "look"]
    BY <1>2 DEF Enter, GoTo
  <2>3. PICK s \in Slots : slot' = [slot EXCEPT ![a] = s]
    BY <2>1, TakenIs
  <2> QED BY <2>2, <2>3, ActorsAre DEF Connects, PoolTyped
<1>3. ASSUME NEW a \in Takers, Look(a) PROVE Connects
  BY <1>3, ActorsAre
     DEF Look, GoTo, tokens, pools, refs, keeping, owned, Connects, PoolTyped, HandsAreKnown,
         OwnerPlaces
<1>4. ASSUME NEW a \in Takers, Door(a) PROVE Connects
  BY <1>4, ActorsAre
     DEF Door, GoTo, tokens, pools, refs, keeping, owned, Connects, PoolTyped, HandsAreKnown,
         OwnerPlaces
<1>5. ASSUME NEW a \in Takers, LookAgain(a) PROVE Connects
  BY <1>5, ActorsAre
     DEF LookAgain, GoTo, tokens, pools, refs, keeping, owned, Connects, PoolTyped, HandsAreKnown,
         OwnerPlaces
<1>6. ASSUME NEW a \in Takers, Dial(a) PROVE Connects
  BY <1>6, ActorsAre DEF Dial, GoTo, tokens, keeping, owned, Connects, PoolTyped
<1>7. ASSUME NEW a \in Takers, DialFails(a) PROVE Connects
  BY <1>7, ActorsAre
     DEF DialFails, GiveUpOpening, GoTo, tokens, keeping, owned, Connects, PoolTyped,
         HandsAreKnown, OwnerPlaces
<1>8. ASSUME NEW a \in Takers, Connect(a) PROVE Connects
  BY <1>8, ActorsAre
     DEF Connect, GoTo, tokens, refs, keeping, owned, Connects, PoolTyped, HandsAreKnown,
         OwnerPlaces
<1>9. ASSUME NEW a \in Takers, ConnectFails(a) PROVE Connects
  BY <1>9, ActorsAre
     DEF ConnectFails, GiveUpOpening, GoTo, tokens, keeping, owned, Connects, PoolTyped,
         HandsAreKnown, OwnerPlaces
<1>10. ASSUME NEW a \in Takers, Join(a) PROVE Connects
  BY <1>10, ActorsAre
     DEF Join, GoTo, tokens, keeping, owned, Connects, PoolTyped, HandsAreKnown, OwnerPlaces
<1>11. ASSUME NEW a \in Takers, JoinFails(a) PROVE Connects
  BY <1>11, ActorsAre
     DEF JoinFails, GiveUpOpening, GoTo, tokens, keeping, owned, Connects, PoolTyped,
         HandsAreKnown, OwnerPlaces
<1>12. ASSUME NEW a \in Takers, Follow(a) PROVE Connects
  BY <1>12, ActorsAre
     DEF Follow, tokens, keeping, owned, Connects, PoolTyped, HandsAreKnown, OwnerPlaces
<1>13. ASSUME NEW a \in Takers, FollowFails(a) PROVE Connects
  BY <1>13, ActorsAre
     DEF FollowFails, GiveUpOpening, GoTo, tokens, keeping, owned, Connects, PoolTyped,
         HandsAreKnown, OwnerPlaces
<1>14. ASSUME NEW a \in Takers, Opened(a) PROVE Connects
  BY <1>14, ActorsAre
     DEF Opened, GoTo, tokens, pools, refs, keeping, owned, Connects, PoolTyped, HandsAreKnown,
         OwnerPlaces
<1>15. ASSUME NEW c \in Commands, Begin(c) PROVE Connects
  BY <1>15, ActorsAre
     DEF Begin, GoTo, tokens, pools, refs, keeping, owned, Connects, PoolTyped, HandsAreKnown,
         OwnerPlaces
<1>16. ASSUME NEW c \in Commands, End(c) PROVE Connects
  BY <1>16, ActorsAre
     DEF End, Forgets, GoTo, tokens, keeping, owned, Connects, PoolTyped, HandsAreKnown,
         OwnerPlaces
<1>17. CASE StartRound
  BY <1>17, ActorsAre
     DEF StartRound, GoTo, tokens, pools, refs, owned, Connects, PoolTyped, HandsAreKnown,
         OwnerPlaces
<1>18. CASE TryOpen
  BY <1>18, ActorsAre
     DEF TryOpen, GoTo, tokens, pools, refs, keeping, owned, Connects, PoolTyped, HandsAreKnown,
         OwnerPlaces
<1>19. CASE MoveOn
  BY <1>19, ActorsAre
     DEF MoveOn, Advance, Forgets, GoTo, tokens, owned, Connects, PoolTyped, HandsAreKnown,
         OwnerPlaces
<1>20. CASE WatchEnds
  <2>1. TakeSlot(watcher) /\ pool[watcher] # None /\ (watcher = keeper => turn \in DOMAIN RoleOrder)
    BY <1>20, ActorsAre, Distinct DEF WatchEnds, HandsAreKnown, Poolless
  <2>2. ses' = ses /\ pc' = [pc EXCEPT ![watcher] = "closing"]
    BY <1>20 DEF WatchEnds, GoTo
  <2>3. PICK s \in Slots : slot' = [slot EXCEPT ![watcher] = s]
    BY <2>1, TakenIs
  <2> QED BY <2>2, <2>3, ActorsAre DEF Connects, PoolTyped
<1>21. CASE WatcherCloses
  BY <1>21, ActorsAre
     DEF WatcherCloses, Forgets, GoTo, tokens, keeping, owned, Connects, PoolTyped, HandsAreKnown,
         OwnerPlaces
<1>22. CASE StartLogout
  BY <1>22, ActorsAre
     DEF StartLogout, OwnerAt, GoTo, pools, refs, keeping, Connects, PoolTyped, HandsAreKnown,
         OwnerPlaces
<1>23. CASE StartLogin
  BY <1>23, ActorsAre
     DEF StartLogin, OwnerAt, GoTo, pools, refs, keeping, Connects, PoolTyped, HandsAreKnown,
         OwnerPlaces
<1>24. CASE Revoke
  BY <1>24, ActorsAre
     DEF Revoke, OwnerAt, GoTo, pools, refs, keeping, Connects, PoolTyped, HandsAreKnown,
         OwnerPlaces
<1>25. CASE RevokeFails
  BY <1>25, ActorsAre
     DEF RevokeFails, OwnerAt, GoTo, pools, refs, keeping, Connects, PoolTyped, HandsAreKnown,
         OwnerPlaces
<1>26. CASE StopWatcher
  BY <1>26, ActorsAre
     DEF StopWatcher, Forgets, tokens, keeping, owned, Connects, PoolTyped, HandsAreKnown,
         OwnerPlaces
<1>27. CASE Unregister
  BY <1>27, ActorsAre
     DEF Unregister, OwnerAt, GoTo, tokens, keeping, Connects, PoolTyped, HandsAreKnown,
         OwnerPlaces
<1>28. CASE Drain
  BY <1>28, ActorsAre
     DEF Drain, OwnerAt, GoTo, tokens, refs, keeping, Connects, PoolTyped, HandsAreKnown,
         OwnerPlaces
<1>29. CASE WaitForUsers
  BY <1>29, ActorsAre
     DEF WaitForUsers, OwnerAt, GoTo, tokens, pools, keeping, Connects, PoolTyped, HandsAreKnown,
         OwnerPlaces
<1>30. CASE CloseSlot
  BY <1>30, ActorsAre
     DEF CloseSlot, OwnerAt, GoTo, tokens, keeping, Connects, PoolTyped, HandsAreKnown,
         OwnerPlaces
<1>31. CASE AllClosed
  BY <1>31, ActorsAre
     DEF AllClosed, LeaveSession, SealSession, TakeBack, Finish, OwnerAt, GoTo, keeping, Connects,
         PoolTyped, HandsAreKnown, OwnerPlaces
<1>32. CASE LineDies
  BY <1>32, ActorsAre
     DEF LineDies, tokens, refs, keeping, owned, Connects, PoolTyped, HandsAreKnown, OwnerPlaces
<1>33. CASE UNCHANGED vars
  BY <1>33 DEF vars, tokens, pools, refs, keeping, owned, Connects
<1> QED
  BY <1>1, <1>2, <1>3, <1>4, <1>5, <1>6, <1>7, <1>8, <1>9, <1>10, <1>11,
     <1>12, <1>13, <1>14, <1>15, <1>16, <1>17, <1>18, <1>19, <1>20, <1>21, <1>22,
     <1>23, <1>24, <1>25, <1>26, <1>27, <1>28, <1>29, <1>30, <1>31, <1>32, <1>33
     DEF Next, Acquire, CommandStep, KeeperStep, OwnerStep, Takers

LEMMA LinesStep == PoolTyped /\ HandsAreKnown /\ [Next]_vars => LinesLast
<1> SUFFICES ASSUME PoolTyped, HandsAreKnown, [Next]_vars
             PROVE  LinesLast
  OBVIOUS
<1>1. ASSUME NEW a \in Takers, TakePool(a) PROVE LinesLast
  BY <1>1 DEF TakePool, LinesLast
<1>2. ASSUME NEW a \in Takers, Enter(a) PROVE LinesLast
  BY <1>2 DEF Enter, LinesLast
<1>3. ASSUME NEW a \in Takers, Look(a) PROVE LinesLast
  BY <1>3 DEF Look, pools, LinesLast
<1>4. ASSUME NEW a \in Takers, Door(a) PROVE LinesLast
  BY <1>4 DEF Door, pools, LinesLast
<1>5. ASSUME NEW a \in Takers, LookAgain(a) PROVE LinesLast
  BY <1>5 DEF LookAgain, pools, LinesLast
<1>6. ASSUME NEW a \in Takers, Dial(a) PROVE LinesLast
  <2>1. \A s \in Slots : line'[s] = line[s] \/ line'[s] = NoLine
    BY <1>6 DEF Dial, PoolTyped
  <2> QED BY <2>1, NoLineIs DEF LinesLast
<1>7. ASSUME NEW a \in Takers, DialFails(a) PROVE LinesLast
  BY <1>7, WhoLetsGo, NoLineIs DEF LetsGo, LinesLast
<1>8. ASSUME NEW a \in Takers, Connect(a) PROVE LinesLast
  <2>1. \A s \in Slots : s # slot[a] => line'[s] = line[s]
    BY <1>8 DEF Connect, PoolTyped
  <2>2. slot[a] \in Slots => line'[slot[a]] = [of |-> ses[a], up |-> TRUE, stray |-> Stray(a)]
    BY <1>8 DEF Connect, PoolTyped
  <2>3. pc[a] = "connect"
    BY <1>8 DEF Connect
  <2> QED BY <2>1, <2>2, <2>3 DEF LinesLast
<1>9. ASSUME NEW a \in Takers, ConnectFails(a) PROVE LinesLast
  BY <1>9, WhoLetsGo, NoLineIs DEF LetsGo, LinesLast
<1>10. ASSUME NEW a \in Takers, Join(a) PROVE LinesLast
  BY <1>10 DEF Join, LinesLast
<1>11. ASSUME NEW a \in Takers, JoinFails(a) PROVE LinesLast
  BY <1>11, WhoLetsGo, NoLineIs DEF LetsGo, LinesLast
<1>12. ASSUME NEW a \in Takers, Follow(a) PROVE LinesLast
  BY <1>12, WhoLetsGo, NoLineIs DEF LetsGo, LinesLast
<1>13. ASSUME NEW a \in Takers, FollowFails(a) PROVE LinesLast
  BY <1>13, WhoLetsGo, NoLineIs DEF LetsGo, LinesLast
<1>14. ASSUME NEW a \in Takers, Opened(a) PROVE LinesLast
  BY <1>14 DEF Opened, pools, LinesLast
<1>15. ASSUME NEW c \in Commands, Begin(c) PROVE LinesLast
  BY <1>15 DEF Begin, pools, LinesLast
<1>16. ASSUME NEW c \in Commands, End(c) PROVE LinesLast
  BY <1>16, WhoLetsGo, NoLineIs DEF LetsGo, LinesLast
<1>17. CASE StartRound
  BY <1>17 DEF StartRound, pools, LinesLast
<1>18. CASE TryOpen
  BY <1>18 DEF TryOpen, pools, LinesLast
<1>19. CASE MoveOn
  BY <1>19, WhoLetsGo, NoLineIs DEF LetsGo, LinesLast
<1>20. CASE WatchEnds
  BY <1>20 DEF WatchEnds, LinesLast
<1>21. CASE WatcherCloses
  BY <1>21, WhoLetsGo, NoLineIs DEF LetsGo, LinesLast
<1>22. CASE StartLogout
  BY <1>22 DEF StartLogout, pools, LinesLast
<1>23. CASE StartLogin
  BY <1>23 DEF StartLogin, pools, LinesLast
<1>24. CASE Revoke
  BY <1>24 DEF Revoke, pools, LinesLast
<1>25. CASE RevokeFails
  BY <1>25 DEF RevokeFails, pools, LinesLast
<1>26. CASE StopWatcher
  BY <1>26, WhoLetsGo, NoLineIs DEF LetsGo, LinesLast
<1>27. CASE Unregister
  BY <1>27 DEF Unregister, LinesLast
<1>28. CASE Drain
  BY <1>28 DEF Drain, LinesLast
<1>29. CASE WaitForUsers
  BY <1>29 DEF WaitForUsers, pools, LinesLast
<1>30. CASE CloseSlot
  BY <1>30, WhoLetsGo, NoLineIs DEF LetsGo, LinesLast
<1>31. CASE AllClosed
  BY <1>31, WhoLetsGo, NoLineIs DEF LetsGo, LinesLast
<1>32. CASE LineDies
  <2>1. PICK s \in Slots : line' = [line EXCEPT ![s].up = FALSE]
    BY <1>32 DEF LineDies
  <2>2. line'[s].up = FALSE /\ \A t \in Slots : t # s => line'[t] = line[t]
    BY <2>1 DEF PoolTyped, Lines
  <2> QED BY <2>2 DEF LinesLast
<1>33. CASE UNCHANGED vars
  BY <1>33 DEF vars, pools, LinesLast
<1> QED
  BY <1>1, <1>2, <1>3, <1>4, <1>5, <1>6, <1>7, <1>8, <1>9, <1>10, <1>11,
     <1>12, <1>13, <1>14, <1>15, <1>16, <1>17, <1>18, <1>19, <1>20, <1>21, <1>22,
     <1>23, <1>24, <1>25, <1>26, <1>27, <1>28, <1>29, <1>30, <1>31, <1>32, <1>33
     DEF Next, Acquire, CommandStep, KeeperStep, OwnerStep, Takers

LEMMA SlotsStep == PoolTyped /\ HandsAreKnown /\ [Next]_vars => SlotsAreFresh
<1> SUFFICES ASSUME PoolTyped, HandsAreKnown, [Next]_vars
             PROVE  SlotsAreFresh
  OBVIOUS
<1>1. ASSUME NEW a \in Takers, TakePool(a) PROVE SlotsAreFresh
  <2>1. RegisterPool
    BY <1>1 DEF TakePool
  <2>2. \A p \in Pools, r \in Roles : slotOf'[p][r] = slotOf[p][r] \/ slotOf'[p][r] = None
    BY <2>1, RegisteredIs DEF PoolTyped, NoSlots
  <2> QED BY <2>2 DEF SlotsAreFresh
<1>2. ASSUME NEW a \in Takers, Enter(a) PROVE SlotsAreFresh
  <2>1. TakeSlot(a) /\ pool[a] # None /\ (a = keeper => turn \in DOMAIN RoleOrder)
    BY <1>2, ActorsAre, Distinct DEF Enter, HandsAreKnown, Poolless
  <2> QED BY <2>1, TakenIs DEF SlotsAreFresh
<1>3. ASSUME NEW a \in Takers, Look(a) PROVE SlotsAreFresh
  BY <1>3 DEF Look, pools, SlotsAreFresh
<1>4. ASSUME NEW a \in Takers, Door(a) PROVE SlotsAreFresh
  BY <1>4 DEF Door, pools, SlotsAreFresh
<1>5. ASSUME NEW a \in Takers, LookAgain(a) PROVE SlotsAreFresh
  BY <1>5 DEF LookAgain, pools, SlotsAreFresh
<1>6. ASSUME NEW a \in Takers, Dial(a) PROVE SlotsAreFresh
  BY <1>6 DEF Dial, SlotsAreFresh
<1>7. ASSUME NEW a \in Takers, DialFails(a) PROVE SlotsAreFresh
  BY <1>7, WhoLetsGo DEF LetsGo, SlotsAreFresh
<1>8. ASSUME NEW a \in Takers, Connect(a) PROVE SlotsAreFresh
  BY <1>8 DEF Connect, SlotsAreFresh
<1>9. ASSUME NEW a \in Takers, ConnectFails(a) PROVE SlotsAreFresh
  BY <1>9, WhoLetsGo DEF LetsGo, SlotsAreFresh
<1>10. ASSUME NEW a \in Takers, Join(a) PROVE SlotsAreFresh
  <2>1. RegisterPool
    BY <1>10 DEF Join
  <2>2. \A p \in Pools, r \in Roles : slotOf'[p][r] = slotOf[p][r] \/ slotOf'[p][r] = None
    BY <2>1, RegisteredIs DEF PoolTyped, NoSlots
  <2> QED BY <2>2 DEF SlotsAreFresh
<1>11. ASSUME NEW a \in Takers, JoinFails(a) PROVE SlotsAreFresh
  BY <1>11, WhoLetsGo DEF LetsGo, SlotsAreFresh
<1>12. ASSUME NEW a \in Takers, Follow(a) PROVE SlotsAreFresh
  BY <1>12, WhoLetsGo DEF LetsGo, SlotsAreFresh
<1>13. ASSUME NEW a \in Takers, FollowFails(a) PROVE SlotsAreFresh
  BY <1>13, WhoLetsGo DEF LetsGo, SlotsAreFresh
<1>14. ASSUME NEW a \in Takers, Opened(a) PROVE SlotsAreFresh
  BY <1>14 DEF Opened, pools, SlotsAreFresh
<1>15. ASSUME NEW c \in Commands, Begin(c) PROVE SlotsAreFresh
  BY <1>15 DEF Begin, pools, SlotsAreFresh
<1>16. ASSUME NEW c \in Commands, End(c) PROVE SlotsAreFresh
  BY <1>16, WhoLetsGo DEF LetsGo, SlotsAreFresh
<1>17. CASE StartRound
  BY <1>17 DEF StartRound, pools, SlotsAreFresh
<1>18. CASE TryOpen
  BY <1>18 DEF TryOpen, pools, SlotsAreFresh
<1>19. CASE MoveOn
  BY <1>19, WhoLetsGo DEF LetsGo, SlotsAreFresh
<1>20. CASE WatchEnds
  <2>1. TakeSlot(watcher) /\ pool[watcher] # None /\ (watcher = keeper => turn \in DOMAIN RoleOrder)
    BY <1>20, ActorsAre, Distinct DEF WatchEnds, HandsAreKnown, Poolless
  <2> QED BY <2>1, TakenIs DEF SlotsAreFresh
<1>21. CASE WatcherCloses
  BY <1>21, WhoLetsGo DEF LetsGo, SlotsAreFresh
<1>22. CASE StartLogout
  BY <1>22 DEF StartLogout, pools, SlotsAreFresh
<1>23. CASE StartLogin
  BY <1>23 DEF StartLogin, pools, SlotsAreFresh
<1>24. CASE Revoke
  BY <1>24 DEF Revoke, pools, SlotsAreFresh
<1>25. CASE RevokeFails
  BY <1>25 DEF RevokeFails, pools, SlotsAreFresh
<1>26. CASE StopWatcher
  BY <1>26, WhoLetsGo DEF LetsGo, SlotsAreFresh
<1>27. CASE Unregister
  BY <1>27 DEF Unregister, SlotsAreFresh
<1>28. CASE Drain
  <2>1. \A p \in Pools, r \in Roles : slotOf'[p][r] = slotOf[p][r] \/ slotOf'[p][r] = None
    BY <1>28, ActorsAre DEF Drain, PoolTyped, NoSlots
  <2> QED BY <2>1 DEF SlotsAreFresh
<1>29. CASE WaitForUsers
  BY <1>29 DEF WaitForUsers, pools, SlotsAreFresh
<1>30. CASE CloseSlot
  BY <1>30, WhoLetsGo DEF LetsGo, SlotsAreFresh
<1>31. CASE AllClosed
  BY <1>31, WhoLetsGo DEF LetsGo, SlotsAreFresh
<1>32. CASE LineDies
  BY <1>32 DEF LineDies, SlotsAreFresh
<1>33. CASE UNCHANGED vars
  BY <1>33 DEF vars, pools, SlotsAreFresh
<1> QED
  BY <1>1, <1>2, <1>3, <1>4, <1>5, <1>6, <1>7, <1>8, <1>9, <1>10, <1>11,
     <1>12, <1>13, <1>14, <1>15, <1>16, <1>17, <1>18, <1>19, <1>20, <1>21, <1>22,
     <1>23, <1>24, <1>25, <1>26, <1>27, <1>28, <1>29, <1>30, <1>31, <1>32, <1>33
     DEF Next, Acquire, CommandStep, KeeperStep, OwnerStep, Takers

\* Only login and logout change what close_links will find, or the session.
LEMMA OwnerStaysOrActs ==
  PoolTyped /\ HandsAreKnown /\ [Next]_vars
    => OwnerStays \/ StartLogout \/ StartLogin \/ OwnerStep
<1> SUFFICES ASSUME PoolTyped, HandsAreKnown, [Next]_vars
             PROVE  OwnerStays \/ StartLogout \/ StartLogin \/ OwnerStep
  OBVIOUS
<1>1. ASSUME NEW a \in Takers, TakePool(a)
       PROVE OwnerStays \/ StartLogout \/ StartLogin \/ OwnerStep
  <2>1. RegisterPool
    BY <1>1 DEF TakePool
  <2>2. /\ pc'[owner] = pc[owner] /\ phase' = phase /\ session' = session
        /\ toClose' = toClose /\ pool'[owner] = pool[owner]
    BY <1>1, ActorsAre DEF TakePool, GoTo, tokens, keeping, owned, PoolTyped
  <2>3. pool[owner] \in Held
    BY ActorsAre DEF Held
  <2>4. \/ registry' = registry /\ slotOf' = slotOf
        \/ registry = None /\ \A r \in Roles : slotOf'[registry'][r] = None
    BY <2>1, RegisteredIs DEF PoolTyped, NoSlots
  <2>5. \A p \in {registry, pool[owner]} \cap Pools : slotOf'[p] = slotOf[p]
    BY <2>1, <2>3, RegisteredIs, ActorsAre DEF PoolTyped
  <2> QED BY <2>2, <2>4, <2>5 DEF OwnerStays
<1>2. ASSUME NEW a \in Takers, Enter(a)
       PROVE OwnerStays \/ StartLogout \/ StartLogin \/ OwnerStep
  <2>1. TakeSlot(a) /\ pool[a] # None /\ (a = keeper => turn \in DOMAIN RoleOrder)
    BY <1>2, ActorsAre, Distinct DEF Enter, HandsAreKnown, Poolless
  <2>2. /\ pc'[owner] = pc[owner] /\ phase' = phase /\ session' = session
        /\ toClose' = toClose /\ pool'[owner] = pool[owner] /\ registry' = registry
    BY <1>2, ActorsAre DEF Enter, GoTo, tokens, keeping, owned, PoolTyped
  <2> QED BY <2>1, <2>2, TakenIs DEF OwnerStays
<1>3. ASSUME NEW a \in Takers, Look(a)
       PROVE OwnerStays \/ StartLogout \/ StartLogin \/ OwnerStep
  BY <1>3, ActorsAre DEF Look, GoTo, tokens, pools, refs, keeping, owned, OwnerStays, PoolTyped
<1>4. ASSUME NEW a \in Takers, Door(a)
       PROVE OwnerStays \/ StartLogout \/ StartLogin \/ OwnerStep
  BY <1>4, ActorsAre DEF Door, GoTo, tokens, pools, refs, keeping, owned, OwnerStays, PoolTyped
<1>5. ASSUME NEW a \in Takers, LookAgain(a)
       PROVE OwnerStays \/ StartLogout \/ StartLogin \/ OwnerStep
  BY <1>5, ActorsAre
     DEF LookAgain, GoTo, tokens, pools, refs, keeping, owned, OwnerStays, PoolTyped
<1>6. ASSUME NEW a \in Takers, Dial(a)
       PROVE OwnerStays \/ StartLogout \/ StartLogin \/ OwnerStep
  BY <1>6, ActorsAre DEF Dial, GoTo, tokens, keeping, owned, OwnerStays, PoolTyped
<1>7. ASSUME NEW a \in Takers, DialFails(a)
       PROVE OwnerStays \/ StartLogout \/ StartLogin \/ OwnerStep
  <2>1. LetsGo({}) \/ \E s \in Slots : LetsGo({s})
    BY <1>7, WhoLetsGo
  <2>2. /\ pc'[owner] = pc[owner] /\ phase' = phase /\ session' = session
        /\ toClose' = toClose /\ pool'[owner] = pool[owner] /\ registry' = registry
    BY <1>7, ActorsAre DEF DialFails, GiveUpOpening, GoTo, tokens, keeping, owned, PoolTyped
  <2> QED BY <2>1, <2>2, ActorsAre DEF LetsGo, OwnerStays
<1>8. ASSUME NEW a \in Takers, Connect(a)
       PROVE OwnerStays \/ StartLogout \/ StartLogin \/ OwnerStep
  BY <1>8, ActorsAre DEF Connect, GoTo, tokens, refs, keeping, owned, OwnerStays, PoolTyped
<1>9. ASSUME NEW a \in Takers, ConnectFails(a)
       PROVE OwnerStays \/ StartLogout \/ StartLogin \/ OwnerStep
  <2>1. LetsGo({}) \/ \E s \in Slots : LetsGo({s})
    BY <1>9, WhoLetsGo
  <2>2. /\ pc'[owner] = pc[owner] /\ phase' = phase /\ session' = session
        /\ toClose' = toClose /\ pool'[owner] = pool[owner] /\ registry' = registry
    BY <1>9, ActorsAre DEF ConnectFails, GiveUpOpening, GoTo, tokens, keeping, owned, PoolTyped
  <2> QED BY <2>1, <2>2, ActorsAre DEF LetsGo, OwnerStays
<1>10. ASSUME NEW a \in Takers, Join(a)
       PROVE OwnerStays \/ StartLogout \/ StartLogin \/ OwnerStep
  <2>1. RegisterPool
    BY <1>10 DEF Join
  <2>2. /\ pc'[owner] = pc[owner] /\ phase' = phase /\ session' = session
        /\ toClose' = toClose /\ pool'[owner] = pool[owner]
    BY <1>10, ActorsAre DEF Join, GoTo, tokens, keeping, owned, PoolTyped
  <2>3. pool[owner] \in Held
    BY ActorsAre DEF Held
  <2>4. \/ registry' = registry /\ slotOf' = slotOf
        \/ registry = None /\ \A r \in Roles : slotOf'[registry'][r] = None
    BY <2>1, RegisteredIs DEF PoolTyped, NoSlots
  <2>5. \A p \in {registry, pool[owner]} \cap Pools : slotOf'[p] = slotOf[p]
    BY <2>1, <2>3, RegisteredIs, ActorsAre DEF PoolTyped
  <2> QED BY <2>2, <2>4, <2>5 DEF OwnerStays
<1>11. ASSUME NEW a \in Takers, JoinFails(a)
       PROVE OwnerStays \/ StartLogout \/ StartLogin \/ OwnerStep
  <2>1. LetsGo({}) \/ \E s \in Slots : LetsGo({s})
    BY <1>11, WhoLetsGo
  <2>2. /\ pc'[owner] = pc[owner] /\ phase' = phase /\ session' = session
        /\ toClose' = toClose /\ pool'[owner] = pool[owner] /\ registry' = registry
    BY <1>11, ActorsAre DEF JoinFails, GiveUpOpening, GoTo, tokens, keeping, owned, PoolTyped
  <2> QED BY <2>1, <2>2, ActorsAre DEF LetsGo, OwnerStays
<1>12. ASSUME NEW a \in Takers, Follow(a)
       PROVE OwnerStays \/ StartLogout \/ StartLogin \/ OwnerStep
  <2>1. LetsGo({}) \/ \E s \in Slots : LetsGo({s})
    BY <1>12, WhoLetsGo
  <2>2. /\ pc'[owner] = pc[owner] /\ phase' = phase /\ session' = session
        /\ toClose' = toClose /\ pool'[owner] = pool[owner] /\ registry' = registry
    BY <1>12, ActorsAre DEF Follow, tokens, keeping, owned, PoolTyped
  <2> QED BY <2>1, <2>2, ActorsAre DEF LetsGo, OwnerStays
<1>13. ASSUME NEW a \in Takers, FollowFails(a)
       PROVE OwnerStays \/ StartLogout \/ StartLogin \/ OwnerStep
  <2>1. LetsGo({}) \/ \E s \in Slots : LetsGo({s})
    BY <1>13, WhoLetsGo
  <2>2. /\ pc'[owner] = pc[owner] /\ phase' = phase /\ session' = session
        /\ toClose' = toClose /\ pool'[owner] = pool[owner] /\ registry' = registry
    BY <1>13, ActorsAre DEF FollowFails, GiveUpOpening, GoTo, tokens, keeping, owned, PoolTyped
  <2> QED BY <2>1, <2>2, ActorsAre DEF LetsGo, OwnerStays
<1>14. ASSUME NEW a \in Takers, Opened(a)
       PROVE OwnerStays \/ StartLogout \/ StartLogin \/ OwnerStep
  BY <1>14, ActorsAre DEF Opened, GoTo, tokens, pools, refs, keeping, owned, OwnerStays, PoolTyped
<1>15. ASSUME NEW c \in Commands, Begin(c)
       PROVE OwnerStays \/ StartLogout \/ StartLogin \/ OwnerStep
  BY <1>15, ActorsAre DEF Begin, GoTo, tokens, pools, refs, keeping, owned, OwnerStays, PoolTyped
<1>16. ASSUME NEW c \in Commands, End(c)
       PROVE OwnerStays \/ StartLogout \/ StartLogin \/ OwnerStep
  <2>1. LetsGo({}) \/ \E s \in Slots : LetsGo({s})
    BY <1>16, WhoLetsGo
  <2>2. /\ pc'[owner] = pc[owner] /\ phase' = phase /\ session' = session
        /\ toClose' = toClose /\ pool'[owner] = pool[owner] /\ registry' = registry
    BY <1>16, ActorsAre DEF End, Forgets, GoTo, tokens, keeping, owned, PoolTyped
  <2> QED BY <2>1, <2>2, ActorsAre DEF LetsGo, OwnerStays
<1>17. CASE StartRound
  BY <1>17, ActorsAre DEF StartRound, GoTo, tokens, pools, refs, owned, OwnerStays, PoolTyped
<1>18. CASE TryOpen
  BY <1>18, ActorsAre
     DEF TryOpen, GoTo, tokens, pools, refs, keeping, owned, OwnerStays, PoolTyped
<1>19. CASE MoveOn
  <2>1. LetsGo({}) \/ \E s \in Slots : LetsGo({s})
    BY <1>19, WhoLetsGo
  <2>2. /\ pc'[owner] = pc[owner] /\ phase' = phase /\ session' = session
        /\ toClose' = toClose /\ pool'[owner] = pool[owner] /\ registry' = registry
    BY <1>19, ActorsAre DEF MoveOn, Advance, Forgets, GoTo, tokens, owned, PoolTyped
  <2> QED BY <2>1, <2>2, ActorsAre DEF LetsGo, OwnerStays
<1>20. CASE WatchEnds
  <2>1. TakeSlot(watcher) /\ pool[watcher] # None /\ (watcher = keeper => turn \in DOMAIN RoleOrder)
    BY <1>20, ActorsAre, Distinct DEF WatchEnds, HandsAreKnown, Poolless
  <2>2. /\ pc'[owner] = pc[owner] /\ phase' = phase /\ session' = session
        /\ toClose' = toClose /\ pool'[owner] = pool[owner] /\ registry' = registry
    BY <1>20, ActorsAre DEF WatchEnds, GoTo, tokens, keeping, owned, PoolTyped
  <2> QED BY <2>1, <2>2, TakenIs DEF OwnerStays
<1>21. CASE WatcherCloses
  <2>1. LetsGo({}) \/ \E s \in Slots : LetsGo({s})
    BY <1>21, WhoLetsGo
  <2>2. /\ pc'[owner] = pc[owner] /\ phase' = phase /\ session' = session
        /\ toClose' = toClose /\ pool'[owner] = pool[owner] /\ registry' = registry
    BY <1>21, ActorsAre DEF WatcherCloses, Forgets, GoTo, tokens, keeping, owned, PoolTyped
  <2> QED BY <2>1, <2>2, ActorsAre DEF LetsGo, OwnerStays
<1>22. CASE StartLogout
  BY <1>22 DEF OwnerStep
<1>23. CASE StartLogin
  BY <1>23 DEF OwnerStep
<1>24. CASE Revoke
  BY <1>24 DEF OwnerStep
<1>25. CASE RevokeFails
  BY <1>25 DEF OwnerStep
<1>26. CASE StopWatcher
  BY <1>26 DEF OwnerStep
<1>27. CASE Unregister
  BY <1>27 DEF OwnerStep
<1>28. CASE Drain
  BY <1>28 DEF OwnerStep
<1>29. CASE WaitForUsers
  BY <1>29 DEF OwnerStep
<1>30. CASE CloseSlot
  BY <1>30 DEF OwnerStep
<1>31. CASE AllClosed
  BY <1>31 DEF OwnerStep
<1>32. CASE LineDies
  BY <1>32, ActorsAre DEF LineDies, tokens, refs, keeping, owned, OwnerStays, PoolTyped
<1>33. CASE UNCHANGED vars
  BY <1>33 DEF vars, tokens, pools, refs, keeping, owned, OwnerStays
<1> QED
  BY <1>1, <1>2, <1>3, <1>4, <1>5, <1>6, <1>7, <1>8, <1>9, <1>10, <1>11,
     <1>12, <1>13, <1>14, <1>15, <1>16, <1>17, <1>18, <1>19, <1>20, <1>21, <1>22,
     <1>23, <1>24, <1>25, <1>26, <1>27, <1>28, <1>29, <1>30, <1>31, <1>32, <1>33
     DEF Next, Acquire, CommandStep, KeeperStep, OwnerStep, Takers

----------------------------------------------------------------------------
\* Out of reach.

\* Reached, of a slot, before and after the step.
LEMMA ReachedIs ==
  ASSUME NEW s \in Slots
  PROVE  s \in Reached <=> \/ \E p \in Held \cap Pools, r \in Roles : slotOf[p][r] = s
                           \/ \E a \in Actors : slot[a] = s
                           \/ s \in toClose
BY DEF Reached

LEMMA ReachedIsNext ==
  ASSUME NEW s \in Slots
  PROVE  s \in Reached' <=> \/ \E p \in Held' \cap Pools, r \in Roles : slotOf'[p][r] = s
                            \/ \E a \in Actors : slot'[a] = s
                            \/ s \in toClose'
BY DEF Reached

\* What keeps its references stays in reach.
LEMMA ReachedGrows ==
  ASSUME \/ registry' = registry \/ registry = None \/ \E a \in Actors : pool'[a] = registry,
         \A a \in Actors : pool'[a] = pool[a] \/ pool[a] = None,
         \A a \in Actors : join'[a] = join[a] \/ join[a] = None,
         \A a \in Actors : slot'[a] = slot[a] \/ slot[a] = None,
         \A p \in Held \cap Pools, r \in Roles :
           slotOf[p][r] # None => slotOf'[p][r] = slotOf[p][r] \/ slotOf[p][r] \in toClose',
         toClose \subseteq toClose'
  PROVE  \A s \in Slots : s \in Reached => s \in Reached'
<1>1. Held \cap Pools \subseteq Held' \cap Pools
  BY ActorsAre DEF Held
<1> SUFFICES ASSUME NEW s \in Slots, s \in Reached PROVE s \in Reached'
  OBVIOUS
<1>2. CASE \E p \in Held \cap Pools, r \in Roles : slotOf[p][r] = s
  BY <1>1, <1>2, ReachedIsNext, ActorsAre
<1>3. CASE \E a \in Actors : slot[a] = s
  BY <1>3, ReachedIsNext, ActorsAre
<1>4. CASE s \in toClose
  BY <1>4, ReachedIsNext
<1> QED BY <1>2, <1>3, <1>4, ReachedIs

\* The last reference takes the line with it: what is out of reach is empty.
LEMMA UnreachedStep ==
  PoolTyped /\ HandsAreKnown /\ OwnerIsKnown /\ UnreachedIsEmpty /\ [Next]_vars
    => UnreachedIsEmpty'
<1> SUFFICES ASSUME PoolTyped, HandsAreKnown, OwnerIsKnown, UnreachedIsEmpty, [Next]_vars
             PROVE  UnreachedIsEmpty'
  OBVIOUS
<1>1. ASSUME NEW a \in Takers, TakePool(a) PROVE UnreachedIsEmpty'
  <2>1. RegisterPool /\ line' = line /\ slot' = slot /\ toClose' = toClose
    BY <1>1 DEF TakePool, GoTo, tokens, keeping, owned
  <2>2. pool' = [pool EXCEPT ![a] = Registered] /\ pool[a] = None /\ join' = join
    BY <1>1, ActorsAre DEF TakePool, refs, HandsAreKnown, Poolless
  <2>3. \A p \in Held \cap Pools : slotOf'[p] = slotOf[p]
    BY <2>1, RegisteredIs DEF PoolTyped
  <2>4. registry' = registry \/ registry = None
    BY <2>1, RegisteredIs
  <2>5. \A s \in Slots : s \in Reached => s \in Reached'
    BY <2>1, <2>2, <2>3, <2>4, ReachedGrows, ActorsAre DEF PoolTyped
  <2> QED BY <2>1, <2>5 DEF UnreachedIsEmpty
<1>2. ASSUME NEW a \in Takers, Enter(a) PROVE UnreachedIsEmpty'
  <2>1. TakeSlot(a) /\ pool[a] # None /\ (a = keeper => turn \in DOMAIN RoleOrder)
    BY <1>2, ActorsAre, Distinct DEF Enter, HandsAreKnown, Poolless
  <2>2. /\ line' = line /\ toClose' = toClose /\ registry' = registry /\ pool' = pool
        /\ join' = join /\ slot[a] = None
    BY <1>2, ActorsAre DEF Enter, owned, HandsAreKnown, Slotless, Poolless
  <2>3. PICK s \in Slots : slot' = [slot EXCEPT ![a] = s]
    BY <2>1, TakenIs
  <2>4. \A p \in Held \cap Pools, r \in Roles :
          slotOf[p][r] # None => slotOf'[p][r] = slotOf[p][r]
    BY <2>1, TakenIs
  <2>5. \A t \in Slots : t \in Reached => t \in Reached'
    BY <2>2, <2>3, <2>4, ReachedGrows, ActorsAre DEF PoolTyped
  <2> QED BY <2>2, <2>5 DEF UnreachedIsEmpty
<1>3. ASSUME NEW a \in Takers, Look(a) PROVE UnreachedIsEmpty'
  BY <1>3 DEF Look, GoTo, tokens, pools, refs, keeping, owned, UnreachedIsEmpty, Reached, Held
<1>4. ASSUME NEW a \in Takers, Door(a) PROVE UnreachedIsEmpty'
  BY <1>4 DEF Door, GoTo, tokens, pools, refs, keeping, owned, UnreachedIsEmpty, Reached, Held
<1>5. ASSUME NEW a \in Takers, LookAgain(a) PROVE UnreachedIsEmpty'
  BY <1>5
     DEF LookAgain, GoTo, tokens, pools, refs, keeping, owned, UnreachedIsEmpty, Reached, Held
<1>6. ASSUME NEW a \in Takers, Dial(a) PROVE UnreachedIsEmpty'
  <2>1. Reached' = Reached
    BY <1>6 DEF Dial, refs, owned, Reached, Held
  <2>2. slot[a] \in Reached
    BY ActorsAre DEF Reached
  <2>3. \A s \in Slots : s # slot[a] => line'[s] = line[s]
    BY <1>6 DEF Dial, PoolTyped
  <2> QED BY <2>1, <2>2, <2>3 DEF UnreachedIsEmpty
<1>7. ASSUME NEW a \in Takers, DialFails(a) PROVE UnreachedIsEmpty'
  BY <1>7, WhoLetsGo DEF LetsGo, UnreachedIsEmpty
<1>8. ASSUME NEW a \in Takers, Connect(a) PROVE UnreachedIsEmpty'
  <2>1. Reached' = Reached
    BY <1>8 DEF Connect, refs, owned, Reached, Held
  <2>2. slot[a] \in Reached
    BY ActorsAre DEF Reached
  <2>3. \A s \in Slots : s # slot[a] => line'[s] = line[s]
    BY <1>8 DEF Connect, PoolTyped
  <2> QED BY <2>1, <2>2, <2>3 DEF UnreachedIsEmpty
<1>9. ASSUME NEW a \in Takers, ConnectFails(a) PROVE UnreachedIsEmpty'
  BY <1>9, WhoLetsGo DEF LetsGo, UnreachedIsEmpty
<1>10. ASSUME NEW a \in Takers, Join(a) PROVE UnreachedIsEmpty'
  <2>1. RegisterPool /\ line' = line /\ slot' = slot /\ toClose' = toClose
    BY <1>10 DEF Join, GoTo, tokens, keeping, owned
  <2>2. join' = [join EXCEPT ![a] = Registered] /\ join[a] = None /\ pool' = pool
    BY <1>10, ActorsAre DEF Join, refs, HandsAreKnown, Poolless
  <2>3. \A p \in Held \cap Pools : slotOf'[p] = slotOf[p]
    BY <2>1, RegisteredIs DEF PoolTyped
  <2>4. registry' = registry \/ registry = None
    BY <2>1, RegisteredIs
  <2>5. \A s \in Slots : s \in Reached => s \in Reached'
    BY <2>1, <2>2, <2>3, <2>4, ReachedGrows, ActorsAre DEF PoolTyped
  <2> QED BY <2>1, <2>5 DEF UnreachedIsEmpty
<1>11. ASSUME NEW a \in Takers, JoinFails(a) PROVE UnreachedIsEmpty'
  BY <1>11, WhoLetsGo DEF LetsGo, UnreachedIsEmpty
<1>12. ASSUME NEW a \in Takers, Follow(a) PROVE UnreachedIsEmpty'
  BY <1>12, WhoLetsGo DEF LetsGo, UnreachedIsEmpty
<1>13. ASSUME NEW a \in Takers, FollowFails(a) PROVE UnreachedIsEmpty'
  BY <1>13, WhoLetsGo DEF LetsGo, UnreachedIsEmpty
<1>14. ASSUME NEW a \in Takers, Opened(a) PROVE UnreachedIsEmpty'
  BY <1>14 DEF Opened, GoTo, tokens, pools, refs, keeping, owned, UnreachedIsEmpty, Reached, Held
<1>15. ASSUME NEW c \in Commands, Begin(c) PROVE UnreachedIsEmpty'
  BY <1>15 DEF Begin, GoTo, tokens, pools, refs, keeping, owned, UnreachedIsEmpty, Reached, Held
<1>16. ASSUME NEW c \in Commands, End(c) PROVE UnreachedIsEmpty'
  BY <1>16, WhoLetsGo DEF LetsGo, UnreachedIsEmpty
<1>17. CASE StartRound
  BY <1>17 DEF StartRound, GoTo, tokens, pools, refs, owned, UnreachedIsEmpty, Reached, Held
<1>18. CASE TryOpen
  BY <1>18 DEF TryOpen, GoTo, tokens, pools, refs, keeping, owned, UnreachedIsEmpty, Reached, Held
<1>19. CASE MoveOn
  BY <1>19, WhoLetsGo DEF LetsGo, UnreachedIsEmpty
<1>20. CASE WatchEnds
  <2>1. TakeSlot(watcher) /\ pool[watcher] # None /\ (watcher = keeper => turn \in DOMAIN RoleOrder)
    BY <1>20, ActorsAre, Distinct DEF WatchEnds, HandsAreKnown, Poolless
  <2>2. /\ line' = line /\ toClose' = toClose /\ registry' = registry /\ pool' = pool
        /\ join' = join /\ slot[watcher] = None
    BY <1>20, ActorsAre DEF WatchEnds, owned, HandsAreKnown, Slotless, Poolless
  <2>3. PICK s \in Slots : slot' = [slot EXCEPT ![watcher] = s]
    BY <2>1, TakenIs
  <2>4. \A p \in Held \cap Pools, r \in Roles :
          slotOf[p][r] # None => slotOf'[p][r] = slotOf[p][r]
    BY <2>1, TakenIs
  <2>5. \A t \in Slots : t \in Reached => t \in Reached'
    BY <2>2, <2>3, <2>4, ReachedGrows, ActorsAre DEF PoolTyped
  <2> QED BY <2>2, <2>5 DEF UnreachedIsEmpty
<1>21. CASE WatcherCloses
  BY <1>21, WhoLetsGo DEF LetsGo, UnreachedIsEmpty
<1>22. CASE StartLogout
  BY <1>22 DEF StartLogout, OwnerAt, GoTo, pools, refs, keeping, UnreachedIsEmpty, Reached, Held
<1>23. CASE StartLogin
  BY <1>23 DEF StartLogin, OwnerAt, GoTo, pools, refs, keeping, UnreachedIsEmpty, Reached, Held
<1>24. CASE Revoke
  BY <1>24 DEF Revoke, OwnerAt, GoTo, pools, refs, keeping, UnreachedIsEmpty, Reached, Held
<1>25. CASE RevokeFails
  BY <1>25 DEF RevokeFails, OwnerAt, GoTo, pools, refs, keeping, UnreachedIsEmpty, Reached, Held
<1>26. CASE StopWatcher
  BY <1>26, WhoLetsGo DEF LetsGo, UnreachedIsEmpty
<1>27. CASE Unregister
  <2>1. /\ line' = line /\ toClose' = toClose /\ slotOf' = slotOf /\ slot' = slot /\ join' = join
        /\ pool' = [pool EXCEPT ![owner] = registry] /\ pool[owner] = None
    BY <1>27, ActorsAre DEF Unregister, HandsAreKnown, Poolless
  <2>2. pool'[owner] = registry /\ \A a \in Actors : pool'[a] = pool[a] \/ pool[a] = None
    BY <2>1, ActorsAre DEF PoolTyped
  <2>3. \A s \in Slots : s \in Reached => s \in Reached'
    BY <2>1, <2>2, ReachedGrows, ActorsAre
  <2> QED BY <2>1, <2>3 DEF UnreachedIsEmpty
<1>28. CASE Drain
  <2>1. line' = line /\ registry' = registry /\ pool' = pool /\ join' = join /\ slot' = slot
    BY <1>28 DEF Drain, refs
  <2>2. toClose = {}
    BY <1>28 DEF Drain, OwnerIsKnown
  <2>3. \A p \in Held \cap Pools, r \in Roles : slotOf[p][r] # None =>
          slotOf'[p][r] = slotOf[p][r] \/ slotOf[p][r] \in toClose'
    BY <1>28, ActorsAre DEF Drain, PoolTyped
  <2>4. \A s \in Slots : s \in Reached => s \in Reached'
    BY <2>1, <2>2, <2>3, ReachedGrows
  <2> QED BY <2>1, <2>4 DEF UnreachedIsEmpty
<1>29. CASE WaitForUsers
  <2>1. /\ line' = line /\ registry' = registry /\ pool' = pool /\ join' = join
        /\ slotOf' = slotOf /\ toClose' = toClose
    BY <1>29 DEF WaitForUsers, pools
  <2>2. slot[owner] = None /\ \E s \in toClose : slot' = [slot EXCEPT ![owner] = s]
    BY <1>29, ActorsAre DEF WaitForUsers, HandsAreKnown, Slotless
  <2>3. \A s \in Slots : s \in Reached => s \in Reached'
    BY <2>1, <2>2, ReachedGrows, ActorsAre DEF PoolTyped
  <2> QED BY <2>1, <2>3 DEF UnreachedIsEmpty
<1>30. CASE CloseSlot
  BY <1>30, WhoLetsGo DEF LetsGo, UnreachedIsEmpty
<1>31. CASE AllClosed
  BY <1>31, WhoLetsGo DEF LetsGo, UnreachedIsEmpty
<1>32. CASE LineDies
  <2>1. Reached' = Reached
    BY <1>32 DEF LineDies, refs, owned, Reached, Held
  <2>2. PICK s \in Slots : line[s].up /\ line' = [line EXCEPT ![s].up = FALSE]
    BY <1>32 DEF LineDies, Alive
  <2>3. \A t \in Slots : t # s => line'[t] = line[t]
    BY <2>2 DEF PoolTyped
  <2>4. s \in Reached
    BY <2>2, NoLineIs DEF UnreachedIsEmpty
  <2> QED BY <2>1, <2>3, <2>4 DEF UnreachedIsEmpty
<1>33. CASE UNCHANGED vars
  BY <1>33 DEF vars, tokens, pools, refs, keeping, owned, UnreachedIsEmpty, Reached, Held
<1> QED
  BY <1>1, <1>2, <1>3, <1>4, <1>5, <1>6, <1>7, <1>8, <1>9, <1>10, <1>11,
     <1>12, <1>13, <1>14, <1>15, <1>16, <1>17, <1>18, <1>19, <1>20, <1>21, <1>22,
     <1>23, <1>24, <1>25, <1>26, <1>27, <1>28, <1>29, <1>30, <1>31, <1>32, <1>33
     DEF Next, Acquire, CommandStep, KeeperStep, OwnerStep, Takers

----------------------------------------------------------------------------
\* What close_links will find.

\* A slot that close_links would find is still found.
LEMMA FoundStays ==
  ASSUME PoolTyped, OwnerStays, NEW s \in Slots, IsFound(s)
  PROVE  IsFound(s)'
<1>1. CASE s \in toClose
  BY <1>1 DEF OwnerStays, IsFound
<1>2. CASE registry # None /\ \E r \in Roles : slotOf[registry][r] = s
  <2>1. registry' = registry /\ registry \in Pools /\ s # None
    BY <1>2, ActorsAre DEF OwnerStays, PoolTyped
  <2> QED BY <1>2, <2>1 DEF OwnerStays, IsFound
<1>3. CASE pc[owner] = "drain" /\ pool[owner] # None /\ \E r \in Roles : slotOf[pool[owner]][r] = s
  <2>1. pool'[owner] = pool[owner] /\ pool[owner] \in Pools /\ s # None
    BY <1>3, ActorsAre DEF OwnerStays, PoolTyped
  <2> QED BY <1>3, <2>1 DEF OwnerStays, IsFound
<1> QED BY <1>1, <1>2, <1>3 DEF IsFound

\* The steps of login and logout: a line that they would find they still find, or it is closed.
LEMMA FoundByOwner ==
  ASSUME PoolTyped, HandsAreKnown, OwnerIsKnown, StartLogout \/ StartLogin \/ OwnerStep,
         NEW s \in Slots, IsFound(s), line'[s].up
  PROVE  IsFound(s)'
<1>1. CASE StartLogout
  BY <1>1 DEF StartLogout, OwnerAt, GoTo, pools, refs, IsFound
<1>2. CASE StartLogin
  BY <1>2 DEF StartLogin, OwnerAt, GoTo, pools, refs, IsFound
<1>3. CASE Revoke
  BY <1>3 DEF Revoke, OwnerAt, GoTo, pools, refs, IsFound
<1>4. CASE RevokeFails
  BY <1>4 DEF RevokeFails, OwnerAt, GoTo, pools, refs, IsFound
<1>5. CASE StopWatcher
  <2>1. LetsGo({}) /\ toClose' = toClose /\ registry' = registry /\ pc[owner] = "stop"
    BY <1>5, WhoLetsGo DEF StopWatcher, owned
  <2>2. registry # None => slotOf'[registry'] = slotOf[registry]
    BY <2>1 DEF LetsGo, PoolTyped
  <2> QED BY <2>1, <2>2 DEF IsFound
<1>6. CASE Unregister
  BY <1>6, ActorsAre DEF Unregister, OwnerAt, GoTo, PoolTyped, IsFound
<1>7. CASE Drain
  <2>1. toClose = {} /\ registry' = registry /\ (pool[owner] # None => registry # pool[owner])
    BY <1>7 DEF Drain, OwnerIsKnown
  <2>2. ASSUME registry # None, NEW r \in Roles, slotOf[registry][r] = s
        PROVE  IsFound(s)'
    BY <1>7, <2>1, <2>2 DEF Drain, PoolTyped, IsFound
  <2>3. ASSUME pool[owner] # None, NEW r \in Roles, slotOf[pool[owner]][r] = s
        PROVE  IsFound(s)'
    BY <1>7, <2>3, ActorsAre DEF Drain, IsFound
  <2> QED BY <2>1, <2>2, <2>3 DEF IsFound
<1>8. CASE WaitForUsers
  BY <1>8 DEF WaitForUsers, OwnerAt, GoTo, pools, IsFound
<1>9. CASE CloseSlot
  <2>1. slot[owner] \in Slots /\ LetsGo({slot[owner]}) /\ registry' = registry
    BY <1>9, WhoLetsGo DEF CloseSlot
  <2>2. s # slot[owner]
    BY <2>1, NoLineIs DEF LetsGo
  <2>3. registry # None => slotOf'[registry'] = slotOf[registry]
    BY <2>1 DEF LetsGo, PoolTyped
  <2> QED BY <1>9, <2>1, <2>2, <2>3 DEF CloseSlot, OwnerAt, GoTo, IsFound
<1>10. CASE AllClosed
  <2>1. /\ LetsGo({}) /\ registry' = registry /\ pc[owner] = "close"
        /\ toClose = {} /\ toClose' = toClose
    BY <1>10, WhoLetsGo DEF AllClosed
  <2>2. registry # None => slotOf'[registry'] = slotOf[registry]
    BY <2>1 DEF LetsGo, PoolTyped
  <2> QED BY <2>1, <2>2 DEF IsFound
<1> QED BY <1>1, <1>2, <1>3, <1>4, <1>5, <1>6, <1>7, <1>8, <1>9, <1>10 DEF OwnerStep

\* Every live line that is not stray is found.
LEMMA FoundStep ==
  ASSUME PoolTyped, HandsAreKnown, OwnerIsKnown, LivesAreFound, [Next]_vars
  PROVE  LivesAreFound'
<1>1. ASSUME NEW s \in Slots, IsFound(s), line'[s].up PROVE IsFound(s)'
  BY <1>1, OwnerStaysOrActs, FoundStays, FoundByOwner
<1>2. ASSUME NEW s \in Slots, line'[s].up, ~line'[s].stray PROVE IsFound(s)
  <2>1. CASE line'[s] = line[s]
    BY <1>2, <2>1 DEF LivesAreFound, Alive
  <2>2. CASE \E a \in Takers : /\ pc[a] = "connect" /\ slot[a] = s
                               /\ line'[s] = [of |-> ses[a], up |-> TRUE, stray |-> Stray(a)]
    <3>1. PICK a \in Takers : pc[a] = "connect" /\ slot[a] = s /\ ~Stray(a)
      BY <1>2, <2>2
    <3>2. RoleOf(a) \in Roles
      BY <3>1, RoleOfIs DEF HandsAreKnown
    <3> QED BY <3>1, <3>2 DEF Stray, IsFound
  <2> QED BY <1>2, <2>1, <2>2, LinesStep DEF LinesLast
<1> QED BY <1>1, <1>2 DEF LivesAreFound, Alive

----------------------------------------------------------------------------
\* What it finds is of the session in use.

\* While the session is the same, what was of the session in use still is.
LEMMA CurrentLasts ==
  ASSUME PoolTyped, HandsAreKnown, [Next]_vars, session' = session, NEW s \in Slots, Current(s)
  PROVE  Current(s)'
<1>1. ASSUME line'[s].up, ~line'[s].stray PROVE line'[s].of = session
  <2>1. CASE line'[s] = line[s]
    BY <1>1, <2>1 DEF Current, Alive
  <2>2. CASE \E a \in Takers : /\ pc[a] = "connect" /\ slot[a] = s
                               /\ line'[s] = [of |-> ses[a], up |-> TRUE, stray |-> Stray(a)]
    BY <2>2, ActorsAre DEF Current
  <2> QED BY <1>1, <2>1, <2>2, LinesStep DEF LinesLast
<1>2. ASSUME NEW a \in Actors, pc'[a] = "connect", slot'[a] = s PROVE ses'[a] = session
  BY <1>2, ConnectsStep DEF Connects, Current
<1> QED BY <1>1, <1>2 DEF Current, Alive

\* Nothing is behind a slot out of reach, and nobody is about to put anything there.
LEMMA FreshIsCurrent ==
  ASSUME UnreachedIsEmpty, NEW s \in Slots, s \notin Reached
  PROVE  Current(s)
<1>1. line[s] = NoLine /\ \A a \in Actors : slot[a] # s
  BY ReachedIs DEF UnreachedIsEmpty
<1> QED BY <1>1, NoLineIs DEF Current, Alive

\* The slots of a pool are of the session in use, after the step.
PoolKeepsCurrent(p) == \A s \in Slots : (\E r \in Roles : slotOf'[p][r] = s) => Current(s)'

\* So the slots of a pool are still of the session in use.
LEMMA PoolStaysCurrent ==
  ASSUME PoolTyped, HandsAreKnown, UnreachedIsEmpty, [Next]_vars, session' = session,
         NEW p \in Pools, AllCurrent(p)
  PROVE  PoolKeepsCurrent(p)
<1> SUFFICES ASSUME NEW s \in Slots, NEW r \in Roles, slotOf'[p][r] = s PROVE Current(s)'
  BY DEF PoolKeepsCurrent
<1>1. s # None
  BY ActorsAre
<1>2. s \notin Reached \/ slotOf[p][r] = s
  BY <1>1, SlotsStep DEF SlotsAreFresh
<1>3. p # None
  BY ActorsAre
<1>4. Current(s)
  BY <1>2, <1>3, FreshIsCurrent DEF AllCurrent
<1> QED BY <1>4, CurrentLasts

\* OwnerStays, or one step of login or logout.
LEMMA CurrentStep ==
  ASSUME PoolTyped, HandsAreKnown, OwnerIsKnown, UnreachedIsEmpty, FoundIsCurrent, [Next]_vars
  PROVE  FoundIsCurrent'
<1>1. ASSUME session' = session, NEW p \in Pools, AllCurrent(p) PROVE PoolKeepsCurrent(p)
  BY <1>1, PoolStaysCurrent
<1>2. ASSUME session' = session, NEW s \in Slots, Current(s) PROVE Current(s)'
  BY <1>2, CurrentLasts
<1>3. AllCurrent(None)' /\ None \notin Slots
  BY ActorsAre DEF AllCurrent
<1>4. /\ registry \in Pools \cup {None} /\ pool[owner] \in Pools \cup {None}
      /\ toClose \subseteq Slots
      /\ slotOf \in [Pools -> [Roles -> Slots \cup {None}]]
  BY ActorsAre DEF PoolTyped
<1>5. CASE OwnerStays
  <2>1. CASE registry' = registry
    BY <1>1, <1>2, <1>4, <1>5, <2>1 DEF OwnerStays, FoundIsCurrent, AllCurrent, PoolKeepsCurrent
  <2>2. CASE \A r \in Roles : slotOf'[registry'][r] = None
    <3>1. AllCurrent(registry)'
      BY <1>3, <2>2 DEF AllCurrent
    <3>2. session' = session /\ pool'[owner] = pool[owner]
      BY <1>5 DEF OwnerStays
    <3>3. AllCurrent(pool[owner]) => AllCurrent(pool[owner])'
      BY <1>1, <1>4, <3>2 DEF AllCurrent, PoolKeepsCurrent
    <3> QED BY <1>2, <1>4, <1>5, <3>1, <3>3 DEF OwnerStays, FoundIsCurrent
  <2> QED BY <1>5, <2>1, <2>2 DEF OwnerStays
<1>6. ASSUME session' = session, registry' = registry, AllCurrent(registry)
      PROVE  AllCurrent(registry)'
  BY <1>1, <1>4, <1>6 DEF AllCurrent, PoolKeepsCurrent
<1>7. toClose # {} => pc[owner] \in {"close", "closing"}
  BY DEF OwnerIsKnown
<1>8. CASE StartLogout
  BY <1>6, <1>7, <1>8, ActorsAre
     DEF StartLogout, OwnerAt, GoTo, pools, refs, FoundIsCurrent, PoolTyped
<1>9. CASE StartLogin
  BY <1>6, <1>7, <1>9, ActorsAre
     DEF StartLogin, OwnerAt, GoTo, pools, refs, FoundIsCurrent, PoolTyped
<1>10. CASE Revoke
  BY <1>6, <1>7, <1>10, ActorsAre
     DEF Revoke, OwnerAt, GoTo, pools, refs, FoundIsCurrent, PoolTyped
<1>11. CASE RevokeFails
  BY <1>6, <1>7, <1>11, ActorsAre
     DEF RevokeFails, OwnerAt, GoTo, pools, refs, FoundIsCurrent, PoolTyped
<1>12. CASE StopWatcher
  <2>1. phase = "logout" /\ pc[owner] = "stop"
    BY <1>12 DEF StopWatcher, OwnerIsKnown
  <2>2. /\ session' = session /\ registry' = registry /\ toClose' = toClose
        /\ pc'[owner] = "unregister" /\ phase' = phase
    BY <1>12, ActorsAre DEF StopWatcher, tokens, owned, PoolTyped
  <2> QED BY <1>6, <1>7, <2>1, <2>2 DEF FoundIsCurrent
<1>13. CASE Unregister
  <2>1. /\ session' = session /\ registry' = None /\ toClose' = toClose /\ phase' = phase
        /\ pool'[owner] = registry /\ pc'[owner] = "drain" /\ pc[owner] = "unregister"
    BY <1>13, ActorsAre DEF Unregister, OwnerAt, GoTo, tokens, PoolTyped
  <2>2. AllCurrent(registry)'
    BY <2>1 DEF AllCurrent
  <2>3. ASSUME phase \in {"login", "logout"} PROVE AllCurrent(pool[owner])'
    <3>1. AllCurrent(registry)
      BY <2>1, <2>3 DEF FoundIsCurrent
    <3> DEFINE p == registry
    <3>2. p \in Pools => PoolKeepsCurrent(p)
      BY <2>1, <3>1, PoolStaysCurrent DEF PoolKeepsCurrent, AllCurrent
    <3> QED BY <1>4, <2>1, <3>2 DEF AllCurrent, PoolKeepsCurrent
  <2> QED BY <1>7, <2>1, <2>2, <2>3 DEF FoundIsCurrent
<1>14. CASE Drain
  <2>1. /\ session' = session /\ registry' = registry /\ phase' = phase
        /\ pc'[owner] = "close" /\ pc[owner] = "drain" /\ toClose = {}
    BY <1>7, <1>14, ActorsAre DEF Drain, OwnerAt, GoTo, tokens, PoolTyped
  <2>2. ASSUME phase \in {"login", "logout"}, NEW s \in toClose' PROVE s \in Slots /\ Current(s)'
    <3>1. pool[owner] # None /\ s \in {slotOf[pool[owner]][r] : r \in Roles} \ {None}
      BY <1>14, <2>1, <2>2 DEF Drain
    <3>2. AllCurrent(pool[owner]) /\ s \in Slots
      BY <1>4, <2>1, <2>2, <3>1 DEF FoundIsCurrent
    <3> QED BY <1>2, <2>1, <3>1, <3>2 DEF AllCurrent
  <2> QED BY <1>6, <2>1, <2>2 DEF FoundIsCurrent
<1>15. CASE WaitForUsers
  BY <1>2, <1>4, <1>6, <1>15, ActorsAre
     DEF WaitForUsers, OwnerAt, GoTo, tokens, pools, FoundIsCurrent, PoolTyped
<1>16. CASE CloseSlot
  <2>1. /\ session' = session /\ registry' = registry /\ phase' = phase
        /\ toClose' \subseteq toClose
        /\ pc'[owner] = "close" /\ pc[owner] = "closing"
    BY <1>16, ActorsAre DEF CloseSlot, OwnerAt, GoTo, tokens, PoolTyped
  <2> QED BY <1>2, <1>4, <1>6, <2>1 DEF FoundIsCurrent
<1>17. CASE AllClosed
  <2>1. CASE LeaveSession \/ SealSession
    BY <2>1, ActorsAre DEF LeaveSession, SealSession, OwnerAt, GoTo, PoolTyped, FoundIsCurrent
  <2>2. CASE TakeBack \/ Finish
    <3>1. /\ session' = session /\ registry' = registry /\ pc[owner] = "close"
          /\ phase' = "idle" /\ pc'[owner] = "idle"
      BY <1>17, <2>2, ActorsAre DEF AllClosed, TakeBack, Finish, OwnerAt, GoTo, PoolTyped
    <3> QED BY <1>6, <3>1 DEF FoundIsCurrent
  <2> QED BY <1>17, <2>1, <2>2 DEF AllClosed
<1> QED
  BY <1>5, <1>8, <1>9, <1>10, <1>11, <1>12, <1>13, <1>14, <1>15, <1>16, <1>17, OwnerStaysOrActs
     DEF OwnerStep

----------------------------------------------------------------------------
\* Live lines are kept.

\* LiveLineIsKept, of one step.
LivesAreKept ==
  \A s \in Slots : Alive(s) => \/ line'[s].of = line[s].of
                               \/ ~line'[s].up /\ Users(s) \cap Users(s)' = {}

\* Lines that are closed when nobody uses them, or when nobody holds their slot any more.
LEMMA ClosedUnused ==
  ASSUME NEW closed \in SUBSET Slots, LetsGo(closed), \A s \in closed : Alive(s) => Users(s) = {}
  PROVE  LivesAreKept
<1> SUFFICES ASSUME NEW s \in Slots, Alive(s), line'[s] # line[s]
             PROVE  ~line'[s].up /\ Users(s) \cap Users(s)' = {}
  BY DEF LivesAreKept
<1>1. line'[s] = NoLine /\ (s \in closed \/ \A a \in Actors : slot'[a] # s)
  BY DEF LetsGo
<1>2. CASE s \in closed
  BY <1>1, <1>2, NoLineIs
<1>3. CASE \A a \in Actors : slot'[a] # s
  <2>1. Users(s)' = {}
    BY <1>3 DEF Users, At
  <2> QED BY <1>1, <2>1, NoLineIs
<1> QED BY <1>1, <1>2, <1>3

\* No step closes a live line under somebody who goes on using it, or replaces it.
LEMMA KeptStep == PoolTyped /\ HandsAreKnown /\ LocksHold /\ [Next]_vars => LivesAreKept
<1> SUFFICES ASSUME PoolTyped, HandsAreKnown, LocksHold, [Next]_vars
             PROVE  LivesAreKept
  OBVIOUS
<1>1. ASSUME NEW a \in Takers, TakePool(a) PROVE LivesAreKept
  BY <1>1 DEF TakePool, LivesAreKept
<1>2. ASSUME NEW a \in Takers, Enter(a) PROVE LivesAreKept
  BY <1>2 DEF Enter, LivesAreKept
<1>3. ASSUME NEW a \in Takers, Look(a) PROVE LivesAreKept
  BY <1>3 DEF Look, pools, LivesAreKept
<1>4. ASSUME NEW a \in Takers, Door(a) PROVE LivesAreKept
  BY <1>4 DEF Door, pools, LivesAreKept
<1>5. ASSUME NEW a \in Takers, LookAgain(a) PROVE LivesAreKept
  BY <1>5 DEF LookAgain, pools, LivesAreKept
<1>6. ASSUME NEW a \in Takers, Dial(a) PROVE LivesAreKept
  <2>1. \A s \in Slots : s # slot[a] => line'[s] = line[s]
    BY <1>6 DEF Dial, PoolTyped
  <2>2. ~Alive(slot[a])
    BY <1>6 DEF Dial
  <2> QED BY <2>1, <2>2 DEF LivesAreKept
<1>7. ASSUME NEW a \in Takers, DialFails(a) PROVE LivesAreKept
  <2>1. slot[a] \in Slots /\ LetsGo({slot[a]})
    BY <1>7, WhoLetsGo
  <2>2. ~Alive(slot[a])
    BY <1>7 DEF DialFails
  <2> QED BY <2>1, <2>2, ClosedUnused
<1>8. ASSUME NEW a \in Takers, Connect(a) PROVE LivesAreKept
  <2>1. \A s \in Slots : s # slot[a] => line'[s] = line[s]
    BY <1>8 DEF Connect, PoolTyped
  <2>2. ~Alive(slot[a])
    BY <1>8, ActorsAre DEF Connect, LocksHold, Opening
  <2> QED BY <2>1, <2>2 DEF LivesAreKept
<1>9. ASSUME NEW a \in Takers, ConnectFails(a) PROVE LivesAreKept
  <2>1. slot[a] \in Slots /\ LetsGo({slot[a]})
    BY <1>9, WhoLetsGo
  <2>2. ~Alive(slot[a])
    BY <1>9, ActorsAre DEF ConnectFails, LocksHold, Opening
  <2> QED BY <2>1, <2>2, ClosedUnused
<1>10. ASSUME NEW a \in Takers, Join(a) PROVE LivesAreKept
  BY <1>10 DEF Join, LivesAreKept
<1>11. ASSUME NEW a \in Takers, JoinFails(a) PROVE LivesAreKept
  <2>1. slot[a] \in Slots /\ LetsGo({slot[a]})
    BY <1>11, WhoLetsGo
  <2>2. pc[a] \in Opening /\ pc[a] # "using"
    BY <1>11 DEF JoinFails, Opening
  <2>3. Users(slot[a]) = {}
    BY <2>2, ActorsAre DEF LocksHold, Users, At
  <2> QED BY <2>1, <2>3, ClosedUnused
<1>12. ASSUME NEW a \in Takers, Follow(a) PROVE LivesAreKept
  <2>1. LetsGo({})
    BY <1>12, WhoLetsGo
  <2> QED BY <2>1, ClosedUnused
<1>13. ASSUME NEW a \in Takers, FollowFails(a) PROVE LivesAreKept
  <2>1. slot[a] \in Slots /\ LetsGo({slot[a]})
    BY <1>13, WhoLetsGo
  <2>2. pc[a] \in Opening /\ pc[a] # "using"
    BY <1>13 DEF FollowFails, Opening
  <2>3. Users(slot[a]) = {}
    BY <2>2, ActorsAre DEF LocksHold, Users, At
  <2> QED BY <2>1, <2>3, ClosedUnused
<1>14. ASSUME NEW a \in Takers, Opened(a) PROVE LivesAreKept
  BY <1>14 DEF Opened, pools, LivesAreKept
<1>15. ASSUME NEW c \in Commands, Begin(c) PROVE LivesAreKept
  BY <1>15 DEF Begin, pools, LivesAreKept
<1>16. ASSUME NEW c \in Commands, End(c) PROVE LivesAreKept
  <2>1. LetsGo({})
    BY <1>16, WhoLetsGo
  <2> QED BY <2>1, ClosedUnused
<1>17. CASE StartRound
  BY <1>17 DEF StartRound, pools, LivesAreKept
<1>18. CASE TryOpen
  BY <1>18 DEF TryOpen, pools, LivesAreKept
<1>19. CASE MoveOn
  <2>1. LetsGo({})
    BY <1>19, WhoLetsGo
  <2> QED BY <2>1, ClosedUnused
<1>20. CASE WatchEnds
  BY <1>20 DEF WatchEnds, LivesAreKept
<1>21. CASE WatcherCloses
  <2>1. slot[watcher] \in Slots /\ LetsGo({slot[watcher]})
    BY <1>21, WhoLetsGo
  <2>2. Users(slot[watcher]) = {}
    BY <1>21 DEF WatcherCloses, Writable
  <2> QED BY <2>1, <2>2, ClosedUnused
<1>22. CASE StartLogout
  BY <1>22 DEF StartLogout, pools, LivesAreKept
<1>23. CASE StartLogin
  BY <1>23 DEF StartLogin, pools, LivesAreKept
<1>24. CASE Revoke
  BY <1>24 DEF Revoke, pools, LivesAreKept
<1>25. CASE RevokeFails
  BY <1>25 DEF RevokeFails, pools, LivesAreKept
<1>26. CASE StopWatcher
  <2>1. LetsGo({})
    BY <1>26, WhoLetsGo
  <2> QED BY <2>1, ClosedUnused
<1>27. CASE Unregister
  BY <1>27 DEF Unregister, LivesAreKept
<1>28. CASE Drain
  BY <1>28 DEF Drain, LivesAreKept
<1>29. CASE WaitForUsers
  BY <1>29 DEF WaitForUsers, pools, LivesAreKept
<1>30. CASE CloseSlot
  <2>1. slot[owner] \in Slots /\ LetsGo({slot[owner]})
    BY <1>30, WhoLetsGo
  <2>2. Users(slot[owner]) = {}
    BY <1>30 DEF CloseSlot, Writable
  <2> QED BY <2>1, <2>2, ClosedUnused
<1>31. CASE AllClosed
  <2>1. LetsGo({})
    BY <1>31, WhoLetsGo
  <2> QED BY <2>1, ClosedUnused
<1>32. CASE LineDies
  <2>1. PICK s \in Slots : line' = [line EXCEPT ![s].up = FALSE]
    BY <1>32 DEF LineDies
  <2>2. \A t \in Slots : line'[t].of = line[t].of
    BY <2>1 DEF PoolTyped, Lines
  <2> QED BY <2>2 DEF LivesAreKept
<1>33. CASE UNCHANGED vars
  BY <1>33 DEF vars, pools, LivesAreKept
<1> QED
  BY <1>1, <1>2, <1>3, <1>4, <1>5, <1>6, <1>7, <1>8, <1>9, <1>10, <1>11,
     <1>12, <1>13, <1>14, <1>15, <1>16, <1>17, <1>18, <1>19, <1>20, <1>21, <1>22,
     <1>23, <1>24, <1>25, <1>26, <1>27, <1>28, <1>29, <1>30, <1>31, <1>32, <1>33
     DEF Next, Acquire, CommandStep, KeeperStep, OwnerStep, Takers

----------------------------------------------------------------------------
\* The theorems.

\* At the start every slot is empty, and everybody is idle.
LEMMA PoolInit == Init => PoolInv
<1> SUFFICES ASSUME Init PROVE PoolInv
  OBVIOUS
<1>1. PICK start \in Starts : session = start[1] /\ rounds = start[2]
  BY DEF Init
<1>2. session \in Sessions /\ issued = session
  BY <1>1, Shapes DEF Init
<1>3. NoSlots \in [Roles -> Slots \cup {None}] /\ (\A r \in Roles : NoSlots[r] = None)
  BY DEF NoSlots
<1>4. PoolTyped
  BY <1>2, <1>3, NoLineIs DEF Init, PoolTyped, Places
<1>5. HandsAreKnown
  BY ActorsAre DEF Init, HandsAreKnown, Poolless, Slotless, OwnerPlaces
<1>6. OwnerIsKnown
  BY ActorsAre DEF Init, OwnerIsKnown
<1>7. \A s \in Slots : line[s] = NoLine /\ ~Alive(s)
  BY NoLineIs DEF Init, Alive
<1>8. UnreachedIsEmpty /\ LivesAreFound
  BY <1>7 DEF UnreachedIsEmpty, LivesAreFound
<1>9. FoundIsCurrent
  BY <1>7, ActorsAre DEF Init, FoundIsCurrent, AllCurrent, Current
<1>10. LocksHold
  BY DEF Init, LocksHold, Opening
<1> QED BY <1>4, <1>5, <1>6, <1>8, <1>9, <1>10 DEF PoolInv

\* Part by part.
LEMMA PoolStep == PoolInv /\ [Next]_vars => PoolInv'
BY TypedStep, HandsStep, OwnerStepIs, UnreachedStep, FoundStep, CurrentStep, LocksStep DEF PoolInv

\* The inductive invariant: the parts above hold at the start and after every step.
THEOREM PoolInvariant == Spec => []PoolInv
BY PoolInit, PoolStep, PTL DEF Spec

\* When no login or logout runs, a live line that is not stray is in the registered pool, and
\* that pool has lines of the session in use only.
LEMMA InvHasNoOldLine == PoolInv => NoOldLine
<1> SUFFICES ASSUME PoolInv, pc[owner] = "idle", NEW s \in Slots, Alive(s), ~line[s].stray
             PROVE  line[s].of = session
  BY DEF NoOldLine
<1>1. toClose = {} /\ IsFound(s)
  BY DEF PoolInv, OwnerIsKnown, LivesAreFound
<1>2. AllCurrent(registry)
  BY DEF PoolInv, FoundIsCurrent
<1> QED BY <1>1, <1>2 DEF IsFound, AllCurrent, Current

\* After a login or a logout no line of a session before it is left in the account's pool:
\* close_links found them all, those in use and those being opened too.
THEOREM NoLineOfAnOldSession == Spec => []NoOldLine
BY PoolInvariant, InvHasNoOldLine, PTL

\* A live line is never replaced by another and never closed under a user: acquire drops a
\* dead one only, and close and close_all wait for whoever uses the line or opens it.
THEOREM LiveLinesAreKept == Spec => LiveLineIsKept
<1>1. PoolInv /\ [Next]_vars => [LivesAreKept]_vars
  BY KeptStep DEF PoolInv
<1>2. [][LivesAreKept]_vars => LiveLineIsKept
  BY PTL DEF LivesAreKept, LiveLineIsKept
<1> QED BY <1>1, <1>2, PoolInvariant, PTL DEF Spec

\* A set of which any two members are one.
LEMMA OneAtMost ==
  ASSUME NEW S, \A a, b \in S : a = b
  PROVE  IsFiniteSet(S) /\ Cardinality(S) <= 1
<1>1. CASE S = {}
  BY <1>1, FS_EmptySet
<1>2. ASSUME NEW a \in S PROVE IsFiniteSet(S) /\ Cardinality(S) <= 1
  <2>1. S = {a}
    OBVIOUS
  <2>2. IsFiniteSet({a}) /\ Cardinality({a}) = 1
    BY FS_Singleton
  <2> QED BY <2>1, <2>2
<1> QED BY <1>1, <1>2

\* What TypeOK says of doors and locks is in the invariant.
LEMMA InvHasTypes == PoolInv /\ RestTyped /\ DoorsHold => TypeOK
<1> SUFFICES ASSUME PoolInv, RestTyped, DoorsHold PROVE TypeOK
  OBVIOUS
<1>1. turn \in 0 .. Len(RoleOrder)
  BY RolesAre DEF PoolInv, PoolTyped, RestTyped
<1>2. ASSUME NEW s \in Slots PROVE Cardinality(At(s, {"again", "upgrade"} \cup Opening)) <= 1
  <2>1. \A a, b \in At(s, DoorPlaces) : a = b
    BY DEF At, DoorsHold
  <2> QED BY <2>1, OneAtMost DEF DoorPlaces
<1>3. ASSUME NEW s \in Slots, Writing(s) PROVE Users(s) = {}
  <2>1. PICK a \in Actors : slot[a] = s /\ pc[a] \in Opening
    BY <1>3 DEF Writing, At
  <2>2. pc[a] # "using"
    BY <2>1 DEF Opening
  <2> QED BY <2>1, <2>2 DEF PoolInv, LocksHold, Users, At
<1>4. ASSUME NEW s \in Slots, At(s, {"upgrade"}) # {} PROVE ~Alive(s)
  BY <1>4 DEF At, DoorsHold
<1> QED BY <1>1, <1>2, <1>3, <1>4 DEF TypeOK, PoolInv, PoolTyped, RestTyped

\* The start.
LEMMA RestInit == Init => RestTyped /\ DoorsHold
<1> SUFFICES ASSUME Init PROVE RestTyped /\ DoorsHold
  OBVIOUS
<1>1. PICK start \in Starts : session = start[1] /\ rounds = start[2]
  BY DEF Init
<1>2. session \in Sessions /\ rounds \in 0 .. Rounds
  BY <1>1, Shapes
<1>3. RestTyped
  <2>1. turn <= Len(RoleOrder)
    BY RolesAre DEF Init
  <2>2. valid \subseteq Sessions /\ sealed = FALSE
    BY <1>2 DEF Init
  <2> QED BY <1>2, <2>1, <2>2 DEF RestTyped
<1>4. DoorsHold
  BY DEF Init, DoorsHold, DoorPlaces, Opening
<1> QED BY <1>3, <1>4

\* Every variable has its type, and at any time a slot has one actor at its door and either
\* one who writes or those who read; behind one who waits to write no line is alive.
THEOREM LocksAndTypes == Spec => []TypeOK
<1>1. Init => PoolInv /\ RestTyped /\ DoorsHold
  BY PoolInit, RestInit
<1>2. PoolInv /\ RestTyped /\ DoorsHold /\ [Next]_vars => (PoolInv /\ RestTyped /\ DoorsHold)'
  BY PoolStep, RestStep, DoorsStep DEF PoolInv
<1> QED BY <1>1, <1>2, InvHasTypes, PTL DEF Spec

=============================================================================
