------------------------- MODULE LinkRequests_proofs -------------------------
(***************************************************************************)
(* What is proved of the two ways a client asks the program: the requests  *)
(* of a line to the server (LinkRequests) and the connections of the RPC   *)
(* daemon (Daemon).  The two share no state; each part stands by itself.   *)
(***************************************************************************)
EXTENDS LinkRequests, Daemon, FiniteSetTheorems, SequenceTheorems, TLAPS

----------------------------------------------------------------------------
(***************************************************************************)
(* Proofs about LinkRequests: a request comes back with its own reply, a   *)
(* time-out is never early, and every request is in one place, however     *)
(* often the line is reopened.  The table of the wire knows a request by   *)
(* its number alone, and a reopened line numbers from the start again; the *)
(* requests that meet in one number that way are in `crossed`, and what is *)
(* shown is that only they pay for it.                                     *)
(***************************************************************************)

\* The number of a waiter belongs to it on its line.
Numbered ==
  /\ nextSeq \in Nat /\ line \in Nat
  /\ pc \in {"send", "record"} => held \in 0 .. line
  /\ \A w \in waiters :
       /\ w.line \in 0 .. line /\ w.seq \in Nat
       /\ w.line = line => w.seq < nextSeq

OneWaiterEach ==
  \A v, w \in waiters : v.line = w.line /\ v.seq = w.seq => v.ask = w.ask

\* The request being recorded has its waiter already.
InHand ==
  pc = "record" => \E w \in waiters : w.line = held /\ w.seq = handSeq /\ w.ask = hand

\* What is on the wire has a waiter that runs.
WaitsFor(w, r) == Spawned(w) /\ w.seq = r.seq /\ w.ask = r.ask
IsAwaited == \A r \in onWire : \E w \in waiters : WaitsFor(w, r)

Waited == onWire # {} => \E r \in onWire : r \in whole \/ IsMet(r)

Inv == Numbered /\ OneWaiterEach /\ InHand /\ IsAwaited /\ OwnResult /\ Waited

LEMMA InitInv == Init => Inv
BY DEF Init, Inv, Numbered, OneWaiterEach, InHand, IsAwaited, OwnResult, Waited

LEMMA SentIsNumbered ==
  ASSUME Inv, Send
  PROVE  Inv'
<1> DEFINE new == [line |-> held, seq |-> nextSeq, ask |-> hand, got |-> FALSE]
<1>1. /\ waiters' = waiters \cup {new} /\ handSeq' = nextSeq /\ nextSeq' = nextSeq + 1
      /\ pc = "send" /\ pc' = "record" /\ held = line
      /\ UNCHANGED <<onWire, hand, whole, crossed, line, held>>
  BY DEF Send, SeqOfLine, HeldIsOpen, pool, ghosts
<1>2. new.line = held /\ new.seq = nextSeq /\ new.ask = hand
  OBVIOUS
<1>3. nextSeq \in Nat /\ line \in Nat
  BY DEF Inv, Numbered
<1> HIDE DEF new
<1>4. \A w \in waiters : Spawned(w) /\ Spawned(w)'
  BY <1>1, <1>3 DEF Inv, Numbered, Spawned
<1>5. \A w \in waiters' : Spawned(w)' => w \in waiters
  BY <1>1, <1>2 DEF Spawned
<1>6. Numbered'
  BY <1>1, <1>2, <1>3 DEF Inv, Numbered
<1>7. OneWaiterEach'
  BY <1>1, <1>2, <1>3 DEF Inv, Numbered, OneWaiterEach
<1>8. InHand'
  BY <1>1, <1>2 DEF InHand
<1>9. IsAwaited'
  BY <1>1, <1>4 DEF Inv, IsAwaited, WaitsFor
<1>10. OwnResult'
  BY <1>1, <1>4, <1>5 DEF Inv, OwnResult
<1>11. Waited'
  BY <1>1 DEF Inv, Waited, IsMet
<1>12. QED
  BY <1>6, <1>7, <1>8, <1>9, <1>10, <1>11 DEF Inv

\* Whose place in the table the request in the hand takes is of an earlier line.
LEMMA ReplacedHasMet ==
  ASSUME Inv, Record, NEW r \in onWire, r.seq = handSeq
  PROVE  r.ask \in crossed' /\ hand \in crossed'
<1>1. pc = "record" /\ crossed' = crossed \cup Met
  BY DEF Record
<1>2. PICK w \in waiters : Spawned(w) /\ w.seq = handSeq /\ w.ask = r.ask
  BY DEF Inv, IsAwaited, WaitsFor
<1>3. w \in Clash
  BY <1>1, <1>2 DEF Spawned, Clash
<1>4. QED
  BY <1>1, <1>2, <1>3 DEF Met

LEMMA RecordedIsOwn ==
  ASSUME Inv, Record
  PROVE  Inv'
<1>1. /\ onWire' = {r \in onWire : r.seq # handSeq} \cup {Sent} /\ pc = "record" /\ pc' = "top"
      /\ crossed' = crossed \cup Met
      /\ UNCHANGED <<waiters, nextSeq, line, held, handSeq>>
  BY DEF Record, Recorded, pool
<1>2. Sent.seq = handSeq /\ Sent.ask = hand
  BY DEF Sent
<1>3. PICK mine \in waiters : mine.line = held /\ mine.seq = handSeq /\ mine.ask = hand
  BY <1>1 DEF Inv, InHand
<1>4. \A w \in waiters : Spawned(w)'
  BY <1>1 DEF Spawned
<1>5. Numbered' /\ OneWaiterEach' /\ InHand'
  BY <1>1 DEF Inv, Numbered, OneWaiterEach, InHand
<1>6. IsAwaited'
  <2> SUFFICES ASSUME NEW r \in onWire' PROVE \E w \in waiters : w.seq = r.seq /\ w.ask = r.ask
    BY <1>1, <1>4 DEF IsAwaited, WaitsFor
  <2>1. CASE r = Sent
    BY <2>1, <1>2, <1>3
  <2>2. CASE r # Sent
    BY <2>2, <1>1 DEF Inv, IsAwaited, WaitsFor
  <2>3. QED
    BY <2>1, <2>2
<1>7. OwnResult'
  <2> SUFFICES ASSUME NEW w \in waiters, NEW r \in onWire', r.seq = w.seq
               PROVE  r.ask = w.ask \/ r.ask \in crossed'
    BY <1>1 DEF OwnResult
  <2>1. CASE r = Sent /\ w.line = held
    BY <2>1, <1>2, <1>3 DEF Inv, OneWaiterEach
  <2>2. CASE r = Sent /\ w.line # held
    <3>1. w \in Clash
      BY <2>2, <1>2 DEF Clash
    <3>2. QED
      BY <2>2, <3>1, <1>1, <1>2 DEF Met
  <2>3. CASE r # Sent
    <3>1. r \in onWire /\ r.seq # handSeq
      BY <2>3, <1>1
    <3>2. Spawned(w)
      BY <3>1 DEF Spawned
    <3>3. QED
      BY <3>1, <3>2, <1>1 DEF Inv, OwnResult
  <2>4. QED
    BY <2>1, <2>2, <2>3
<1>8. Waited'
  <2>1. Sent \in onWire'
    BY <1>1
  <2>2. CASE onWire = {}
    BY <2>1, <2>2 DEF Record, Waited
  <2>3. CASE onWire # {}
    <3>1. PICK r \in onWire : r \in whole \/ IsMet(r)
      BY <2>3 DEF Inv, Waited
    <3>2. whole' = whole
      BY <2>3 DEF Record
    <3>3. CASE r.seq = handSeq
      BY <3>3, <1>2, <2>1, ReplacedHasMet DEF Waited, IsMet
    <3>4. CASE r.seq # handSeq
      BY <3>1, <3>2, <3>4, <1>1 DEF Waited, IsMet
    <3>5. QED
      BY <3>3, <3>4
  <2>4. QED
    BY <2>2, <2>3
<1>9. QED
  BY <1>5, <1>6, <1>7, <1>8 DEF Inv

\* A reply is marked on its waiter, which keeps its line, its number and its request.
LEMMA AnsweredKeepsNumbers ==
  ASSUME NEW ws, Inv, ws \subseteq waiters, waiters' = (waiters \ ws) \cup Answered(ws),
         UNCHANGED <<onWire, nextSeq, pc, hand, handSeq, held, line, whole, crossed>>
  PROVE  Inv'
<1> DEFINE Same(v, w) == v.line = w.line /\ v.seq = w.seq /\ v.ask = w.ask
<1>1. \A w \in waiters' : \E v \in waiters : Same(v, w)
  BY DEF Answered
<1>2. \A v \in waiters : \E w \in waiters' : Same(v, w)
  <2> TAKE v \in waiters
  <2>1. CASE v \in ws
    <3>1. [line |-> v.line, seq |-> v.seq, ask |-> v.ask, got |-> TRUE] \in waiters'
      BY <2>1 DEF Answered
    <3>2. QED
      BY <3>1
  <2>2. CASE v \notin ws
    BY <2>2
  <2>3. QED
    BY <2>1, <2>2
<1>3. \A v, w : Same(v, w) => (Spawned(v) <=> Spawned(w)')
  BY DEF Spawned
<1>4. Numbered' /\ OneWaiterEach'
  BY <1>1 DEF Inv, Numbered, OneWaiterEach
<1>5. InHand'
  BY <1>2 DEF Inv, InHand
<1>6. IsAwaited'
  BY <1>2, <1>3 DEF Inv, IsAwaited, WaitsFor
<1>7. OwnResult'
  BY <1>1, <1>3 DEF Inv, OwnResult
<1>8. Waited'
  BY DEF Inv, Waited, IsMet
<1>9. QED
  BY <1>4, <1>5, <1>6, <1>7, <1>8 DEF Inv

\* Fewer waiters and fewer requests on the wire disturb no number.
LEMMA FewerKeepsNumbers ==
  ASSUME Inv, waiters' \subseteq waiters, onWire' \subseteq onWire,
         UNCHANGED <<nextSeq, handSeq, hand, held, line, crossed>>,
         pc' = pc \/ (pc' \notin {"send", "record"} /\ pc # "record"),
         \A w \in waiters \ waiters' :
           Spawned(w) /\ \A r \in onWire' : r.seq # w.seq,
         Waited'
  PROVE  Inv'
<1>1. \A w : Spawned(w) <=> Spawned(w)'
  BY DEF Spawned
<1>2. Numbered' /\ OneWaiterEach'
  BY DEF Inv, Numbered, OneWaiterEach
<1>3. InHand'
  BY DEF Inv, InHand, Spawned
<1>4. IsAwaited'
  BY <1>1 DEF Inv, IsAwaited, WaitsFor
<1>5. OwnResult'
  BY <1>1 DEF Inv, OwnResult
<1>6. QED
  BY <1>2, <1>3, <1>4, <1>5 DEF Inv

\* The sender between two sends: nothing new has a number.
LEMMA QuietSender ==
  ASSUME Inv, UNCHANGED <<waiters, onWire, nextSeq, line, whole, crossed>>,
         pc # "record", pc' # "record", pc' = "send" => held' = line
  PROVE  Inv'
<1>1. \A w : Spawned(w) /\ Spawned(w)'
  BY DEF Spawned
<1>2. Numbered' /\ OneWaiterEach' /\ InHand'
  BY DEF Inv, Numbered, OneWaiterEach, InHand
<1>3. IsAwaited' /\ OwnResult' /\ Waited'
  BY <1>1 DEF Inv, IsAwaited, WaitsFor, OwnResult, Waited, IsMet
<1>4. QED
  BY <1>2, <1>3 DEF Inv

LEMMA NextInv ==
  ASSUME Inv, [Next]_vars
  PROVE  Inv'
<1>1. CASE Owner \/ TimePasses \/ LockSlot \/ UNCHANGED vars
  <2>1. UNCHANGED <<waiters, onWire, nextSeq, handSeq, hand, held, line, pc, whole, crossed>>
    BY <1>1 DEF Owner, PushBack, PushFront, Push, Withdraw, TimePasses, LockSlot, vars, pool, ghosts
  <2>2. Waited'
    BY <2>1 DEF Inv, Waited, IsMet
  <2>3. QED
    BY <2>1, <2>2, FewerKeepsNumbers
<1>2. CASE TimeOutIfSilent
  <2>1. /\ pc = "top" /\ pc' = "pop"
        /\ UNCHANGED <<nextSeq, handSeq, hand, held, line, whole, crossed>>
        /\ \/ onWire' = {} /\ waiters' = {}
           \/ UNCHANGED <<onWire, waiters>>
    BY <1>2 DEF TimeOutIfSilent, pool, ghosts
  <2>2. Waited'
    BY <2>1 DEF Inv, Waited, IsMet
  <2>3. \A w : Spawned(w)
    BY <2>1 DEF Spawned
  <2>4. QED
    BY <2>1, <2>2, <2>3, FewerKeepsNumbers
<1>3. CASE Pop \/ NoLink \/ SendFails
  BY <1>3, QuietSender DEF Pop, NoLink, SendFails, pool, ghosts
<1>4. CASE TakeLink
  BY <1>4, QuietSender DEF TakeLink, pool, ghosts
<1>5. CASE Send
  BY <1>5, SentIsNumbered
<1>6. CASE Record
  BY <1>6, RecordedIsOwn
<1>7. CASE Waiter
  <2>1. PICK w \in waiters : WaiterEnds(w)
    BY <1>7 DEF Waiter
  <2>2. /\ waiters' = waiters \ {w} /\ onWire' = {r \in onWire : r.seq # w.seq} /\ Spawned(w)
        /\ whole' = onWire'
    BY <2>1 DEF WaiterEnds
  <2>3. UNCHANGED <<nextSeq, handSeq, hand, held, line, pc, crossed>>
    BY <2>1 DEF WaiterEnds, pool
  <2>4. QED
    BY <2>2, <2>3, FewerKeepsNumbers DEF Waited
<1>8. ASSUME NEW w \in waiters, Reply(w) PROVE Inv'
  <2>1. waiters' = (waiters \ {w}) \cup Answered({w})
    BY <1>8 DEF Reply
  <2>2. UNCHANGED <<onWire, nextSeq, pc, hand, handSeq, held, line, whole, crossed>>
    BY <1>8 DEF Reply, pool, ghosts
  <2>3. QED
    BY <2>1, <2>2, AnsweredKeepsNumbers
<1>9. CASE CloseLine
  <2>1. waiters' = (waiters \ waiters) \cup Answered(waiters)
    BY <1>9 DEF CloseLine
  <2>2. UNCHANGED <<onWire, nextSeq, pc, hand, handSeq, held, line, whole, crossed>>
    BY <1>9 DEF CloseLine, ghosts
  <2>3. QED
    BY <2>1, <2>2, AnsweredKeepsNumbers
<1>10. CASE OpenLine
  <2>1. /\ line' = line + 1 /\ nextSeq' = 0
        /\ UNCHANGED <<waiters, onWire, pc, hand, handSeq, held, whole, crossed>>
    BY <1>10 DEF OpenLine, ghosts
  <2>2. \A w : Spawned(w) <=> Spawned(w)'
    BY <2>1 DEF Spawned
  <2>3. Numbered'
    BY <2>1 DEF Inv, Numbered
  <2>4. OneWaiterEach' /\ InHand'
    BY <2>1 DEF Inv, OneWaiterEach, InHand
  <2>5. IsAwaited' /\ OwnResult' /\ Waited'
    BY <2>1, <2>2 DEF Inv, IsAwaited, WaitsFor, OwnResult, Waited, IsMet
  <2>6. QED
    BY <2>3, <2>4, <2>5 DEF Inv
<1>11. QED
  BY <1>1, <1>2, <1>3, <1>4, <1>5, <1>6, <1>7, <1>8, <1>9, <1>10 DEF Next, Sender, Line

\* Whatever is sent, withdrawn, timed out or answered late, and however often the line is
\* reopened: a waiter of link_requests.rs hands back its own request, and time_out_if_silent
\* finds one that has been on the wire for the whole silence, so that one sent a moment ago on
\* an idle line is not timed out.  Only requests that met in one number of two lines are left
\* out.
THEOREM ResultsAreOwn == Spec => []ResultsAreReal
<1>1. Inv => ResultsAreReal
  BY DEF Inv, Waited, SilenceIsReal, ResultsAreReal
<1>2. Inv /\ [Next]_vars => Inv'
  BY NextInv
<1>3. QED
  BY <1>1, <1>2, InitInv, PTL DEF Spec

----------------------------------------------------------------------------
\* How often a request is in a sequence.

Positions(s, a) == {i \in DOMAIN s : s[i] = a}
One(b, a) == IF b = a THEN 1 ELSE 0

\* A request is in a queue a finite number of times.
LEMMA PositionsFinite ==
  ASSUME NEW s \in Seq(Asks), NEW a
  PROVE  IsFiniteSet(Positions(s, a)) /\ Count(s, a) = Cardinality(Positions(s, a))
         /\ Count(s, a) \in Nat
<1>1. DOMAIN s = 1..Len(s) /\ Len(s) \in Nat
  OBVIOUS
<1>2. IsFiniteSet(DOMAIN s)
  BY <1>1, FS_Interval
<1>3. IsFiniteSet(Positions(s, a))
  BY <1>2, FS_Subset DEF Positions
<1>4. QED
  BY <1>3, FS_CardinalityType DEF Count, Positions

\* Pushed at the back, or at the front, it is there once more.
LEMMA CountAppend ==
  ASSUME NEW s \in Seq(Asks), NEW b \in Asks, NEW a
  PROVE  Count(Append(s, b), a) = Count(s, a) + One(b, a)
<1> DEFINE n == Len(s) + 1
<1>1. Len(s) \in Nat /\ DOMAIN s = 1..Len(s) /\ DOMAIN Append(s, b) = 1..n
  OBVIOUS
<1>2. \A i \in 1..Len(s) : Append(s, b)[i] = s[i]
  OBVIOUS
<1>3. Append(s, b)[n] = b
  OBVIOUS
<1>4. n \notin Positions(s, a)
  BY <1>1 DEF Positions
<1>5. CASE b = a
  <2>1. Positions(Append(s, b), a) = Positions(s, a) \cup {n}
    BY <1>1, <1>2, <1>3, <1>5 DEF Positions
  <2>2. Cardinality(Positions(s, a) \cup {n}) = Cardinality(Positions(s, a)) + 1
    BY <1>4, PositionsFinite, FS_AddElement
  <2>3. QED
    BY <2>1, <2>2, <1>5 DEF Count, Positions, One
<1>6. CASE b # a
  <2>1. Positions(Append(s, b), a) = Positions(s, a)
    BY <1>1, <1>2, <1>3, <1>6 DEF Positions
  <2>2. Count(s, a) \in Nat /\ One(b, a) = 0
    BY <1>6, PositionsFinite DEF One
  <2>3. Count(Append(s, b), a) = Count(s, a)
    BY <2>1 DEF Count, Positions
  <2>4. QED
    BY <2>2, <2>3
<1>7. QED
  BY <1>5, <1>6

LEMMA CountCons ==
  ASSUME NEW s \in Seq(Asks), NEW b \in Asks, NEW a
  PROVE  Count(<<b>> \o s, a) = Count(s, a) + One(b, a)
<1> DEFINE t == <<b>> \o s
           up == [i \in Positions(s, a) |-> i + 1]
           T == {i \in Positions(t, a) : i # 1}
<1>1. /\ Len(s) \in Nat /\ DOMAIN s = 1..Len(s)
      /\ t \in Seq(Asks) /\ DOMAIN t = 1..(Len(s) + 1)
  OBVIOUS
<1>2. t[1] = b /\ \A i \in 1..Len(s) : t[i + 1] = s[i]
  OBVIOUS
<1> HIDE DEF t
<1>3. up \in Bijection(Positions(s, a), T)
  <2>1. \A i \in Positions(s, a) : i \in Nat /\ i + 1 \in T
    BY <1>1, <1>2 DEF Positions
  <2>2. \A j \in T : j - 1 \in Positions(s, a) /\ up[j - 1] = j
    <3> TAKE j \in T
    <3>1. j \in 2..(Len(s) + 1) /\ t[j] = a
      BY <1>1 DEF Positions
    <3>2. j - 1 \in 1..Len(s) /\ (j - 1) + 1 = j
      BY <3>1, <1>1
    <3>3. s[j - 1] = a
      BY <3>1, <3>2, <1>2
    <3>4. QED
      BY <3>2, <3>3, <1>1 DEF Positions
  <2>3. up \in [Positions(s, a) -> T]
    BY <2>1
  <2>4. \A i, j \in Positions(s, a) : up[i] = up[j] => i = j
    BY <2>1
  <2>5. QED
    BY <2>2, <2>3, <2>4 DEF Bijection, Injection, Surjection, IsInjective
<1>4. Cardinality(T) = Count(s, a) /\ IsFiniteSet(T)
  BY <1>3, PositionsFinite, FS_Bijection DEF ExistsBijection
<1>5. CASE b = a
  <2>1. Positions(t, a) = T \cup {1} /\ 1 \notin T
    BY <1>1, <1>2, <1>5 DEF Positions
  <2>2. Cardinality(T \cup {1}) = Cardinality(T) + 1
    BY <1>4, <2>1, FS_AddElement
  <2>3. QED
    BY <1>4, <2>1, <2>2, <1>5 DEF Count, Positions, One, t
<1>6. CASE b # a
  <2>1. Positions(t, a) = T
    BY <1>1, <1>2, <1>6 DEF Positions
  <2>2. Count(s, a) \in Nat /\ One(b, a) = 0
    BY <1>6, PositionsFinite DEF One
  <2>3. Count(t, a) = Count(s, a)
    BY <1>4, <2>1 DEF Count, Positions
  <2>4. QED
    BY <2>2, <2>3 DEF t
<1>7. QED
  BY <1>5, <1>6

\* Taken from the front, it is there once less.
LEMMA CountTail ==
  ASSUME NEW s \in Seq(Asks), s # <<>>, NEW a
  PROVE  /\ Tail(s) \in Seq(Asks) /\ Head(s) \in Asks
         /\ Count(s, a) = Count(Tail(s), a) + One(Head(s), a)
<1>1. Tail(s) \in Seq(Asks) /\ Head(s) \in Asks
  OBVIOUS
<1>2. s = <<Head(s)>> \o Tail(s)
  OBVIOUS
<1>3. QED
  BY <1>1, <1>2, CountCons
\* Withdrawn, it is not there any more, and every other one is there as often as before:
\* the places of what is kept are numbered from 1 without a gap.
LEMMA CountRetain ==
  ASSUME NEW a, queued \in Seq(Asks)
  PROVE  /\ Retain(a) \in Seq(Asks)
         /\ Count(Retain(a), a) = 0
         /\ \A b : b # a => Count(Retain(a), b) = Count(queued, b)
<1> DEFINE K == Kept(a)
           c == Cardinality(K)
           upTo(i) == {j \in K : j <= i}
           rank == [i \in K |-> Place(a, i)]
           at(n) == CHOOSE i \in K : Place(a, i) = n
<1>1. DOMAIN queued = 1..Len(queued) /\ Len(queued) \in Nat /\ K \subseteq 1..Len(queued)
  BY DEF Kept
<1>2. IsFiniteSet(K) /\ c \in Nat
  <2>1. IsFiniteSet(1..Len(queued))
    BY <1>1, FS_Interval
  <2>2. QED
    BY <1>1, <2>1, FS_Subset, FS_CardinalityType
<1>3. \A i \in K : /\ IsFiniteSet(upTo(i)) /\ Place(a, i) = Cardinality(upTo(i))
                  /\ Place(a, i) \in 1..c
  <2> TAKE i \in K
  <2>1. upTo(i) \subseteq K /\ upTo(i) # {}
    BY <1>1
  <2>2. IsFiniteSet(upTo(i)) /\ Cardinality(upTo(i)) <= c
    BY <1>2, <2>1, FS_Subset
  <2>3. Cardinality(upTo(i)) \in Nat /\ Cardinality(upTo(i)) # 0
    BY <2>1, <2>2, FS_CardinalityType, FS_EmptySet
  <2>4. Place(a, i) = Cardinality(upTo(i))
    BY DEF Place
  <2>5. QED
    BY <1>2, <2>2, <2>3, <2>4
<1>4. \A i, j \in K : i < j => Place(a, i) < Place(a, j)
  <2> SUFFICES ASSUME NEW i \in K, NEW j \in K, i < j PROVE Place(a, i) < Place(a, j)
    OBVIOUS
  <2>1. upTo(i) \subseteq upTo(j) /\ upTo(i) # upTo(j)
    <3>1. i \in Nat /\ j \in Nat /\ K \subseteq Nat
      BY <1>1
    <3>2. j \in upTo(j) /\ j \notin upTo(i)
      BY <3>1
    <3>3. QED
      BY <3>1, <3>2
  <2> HIDE DEF K, c, upTo
  <2>2. Place(a, i) <= Place(a, j) /\ Place(a, i) # Place(a, j)
    <3>1. IsFiniteSet(upTo(j)) /\ upTo(i) \in SUBSET upTo(j)
      BY <1>3, <2>1
    <3>2. /\ Cardinality(upTo(i)) <= Cardinality(upTo(j))
          /\ Cardinality(upTo(i)) # Cardinality(upTo(j))
      BY <3>1, <2>1, FS_Subset
    <3>3. QED
      BY <3>2, <1>3
  <2>3. Place(a, i) \in Nat /\ Place(a, j) \in Nat
    BY <1>2, <1>3
  <2>4. QED
    BY <2>2, <2>3
<1>5. rank \in Injection(K, 1..c)
  <2>1. rank \in [K -> 1..c]
    BY <1>3
  <2>2. \A i, j \in K : rank[i] = rank[j] => i = j
    <3> SUFFICES ASSUME NEW i \in K, NEW j \in K, Place(a, i) = Place(a, j), i # j PROVE FALSE
      OBVIOUS
    <3>1. i \in Nat /\ j \in Nat
      BY <1>1
    <3>2. Place(a, i) \in Nat
      <4> HIDE DEF K, c, upTo
      <4>1. QED
        BY <1>2, <1>3
    <3>3. i < j \/ j < i
      BY <3>1
    <3>4. QED
      BY <1>4, <3>1, <3>2, <3>3
  <2>3. QED
    BY <2>1, <2>2 DEF Injection, IsInjective
<1>6. rank \in Surjection(K, 1..c)
  <2>1. IsFiniteSet(1..c) /\ Cardinality(1..c) = c
    BY <1>2, FS_Interval
  <2>2. QED
    BY <1>5, <2>1, FS_Injection
<1>7. \A n \in 1..c : at(n) \in K /\ Place(a, at(n)) = n
  BY <1>6 DEF Surjection
<1>8. /\ \A i \in K : at(Place(a, i)) = i
      /\ \A i \in K : queued[i] # a /\ queued[i] \in Asks
  <2>1. \A i \in K : Place(a, i) \in 1..c
    BY <1>3
  <2>2. \A i, j \in K : Place(a, i) = Place(a, j) => i = j
    BY <1>5 DEF Injection, IsInjective
  <2>3. QED
    BY <1>1, <1>7, <2>1, <2>2 DEF Kept
<1>9. Retain(a) = [n \in 1..c |-> queued[at(n)]]
  BY DEF Retain
<1> HIDE DEF K, c, at
<1>10. Retain(a) \in Seq(Asks) /\ DOMAIN Retain(a) = 1..c
  <2>1. \A n \in 1..c : queued[at(n)] \in Asks
    BY <1>7, <1>8
  <2>2. QED
    BY <1>2, <1>9, <2>1
<1>11. Count(Retain(a), a) = 0
  <2>1. Positions(Retain(a), a) = {}
    BY <1>7, <1>8, <1>9, <1>10 DEF Positions
  <2>2. QED
    BY <2>1, FS_EmptySet DEF Count, Positions
<1>12. ASSUME NEW b, b # a PROVE Count(Retain(a), b) = Count(queued, b)
  <2> DEFINE from == [n \in Positions(Retain(a), b) |-> at(n)]
  <2>1. \A n \in Positions(Retain(a), b) : n \in 1..c /\ at(n) \in K /\ queued[at(n)] = b
    BY <1>7, <1>9, <1>10 DEF Positions
  <2>2. \A i \in Positions(queued, b) : i \in K
    BY <1>12, <1>1 DEF Positions, Kept, K
  <2>3. K \subseteq DOMAIN queued
    BY <1>1 DEF K
  <2>4. from \in [Positions(Retain(a), b) -> Positions(queued, b)]
    BY <2>1, <2>3 DEF Positions
  <2>5. \A m, n \in Positions(Retain(a), b) : from[m] = from[n] => m = n
    BY <1>7, <2>1
  <2>6. \A i \in Positions(queued, b) : \E n \in Positions(Retain(a), b) : from[n] = i
    <3> TAKE i \in Positions(queued, b)
    <3>1. i \in K /\ queued[i] = b
      BY <2>2 DEF Positions
    <3>2. Place(a, i) \in 1..c
      BY <3>1, <1>3 DEF K, c
    <3>3. at(Place(a, i)) = i
      BY <3>1, <1>8
    <3>4. Place(a, i) \in Positions(Retain(a), b)
      BY <1>9, <1>10, <3>1, <3>2, <3>3 DEF Positions
    <3>5. QED
      BY <3>3, <3>4
  <2>7. from \in Bijection(Positions(Retain(a), b), Positions(queued, b))
    BY <2>4, <2>5, <2>6 DEF Bijection, Injection, Surjection, IsInjective
  <2>8. QED
    BY <2>7, <1>10, PositionsFinite, FS_Bijection DEF ExistsBijection
<1>13. QED
  BY <1>10, <1>11, <1>12

----------------------------------------------------------------------------
\* Every request is in one place.

Wired(sent, a) == {r \in sent : r.ask = a}

Handing == {"link", "send", "record"}

InPlace ==
  /\ queued \in Seq(Asks)
  /\ pushed \in [Asks -> Nat] /\ taken \in [Asks -> Nat] /\ back \in [Asks -> Nat]
  /\ pc \in {"top", "pop"} \cup Handing
  /\ IF pc \in Handing THEN hand \in Asks ELSE hand = Nobody
  /\ IsFiniteSet(onWire)

OnceInv == Inv /\ InPlace /\ ExactlyOnce

LEMMA InitOnce == Init => OnceInv
<1>1. Init => InPlace
  BY FS_EmptySet DEF Init, InPlace, Handing
<1>2. ASSUME Init, NEW a \in Asks
      PROVE  pushed[a] = Count(queued, a) + Held(a) + Cardinality(Wired(onWire, a))
                         + taken[a] + back[a]
  <2>1. Positions(queued, a) = {} /\ Wired(onWire, a) = {}
    BY <1>2 DEF Init, Positions, Wired
  <2>2. Count(queued, a) = 0 /\ Cardinality(Wired(onWire, a)) = 0
    BY <2>1, FS_EmptySet DEF Count, Positions
  <2>3. Held(a) = 0
    BY <1>2, Bounds DEF Init, Held
  <2>4. QED
    BY <1>2, <2>2, <2>3 DEF Init
<1>3. QED
  BY <1>1, <1>2, InitInv DEF OnceInv, ExactlyOnce, Wired

\* All that is counted is a number.
LEMMA Counted ==
  ASSUME InPlace, NEW a \in Asks
  PROVE  /\ Count(queued, a) \in Nat /\ Held(a) \in Nat
         /\ IsFiniteSet(Wired(onWire, a)) /\ Cardinality(Wired(onWire, a)) \in Nat
         /\ pushed[a] \in Nat /\ taken[a] \in Nat /\ back[a] \in Nat
<1>1. Wired(onWire, a) \subseteq onWire
  BY DEF Wired
<1>2. IsFiniteSet(Wired(onWire, a)) /\ Cardinality(Wired(onWire, a)) \in Nat
  BY <1>1, FS_Subset, FS_CardinalityType DEF InPlace
<1>3. QED
  BY <1>2, PositionsFinite DEF InPlace, Held

\* Between queue, hand, owner and the withdrawn the sum is kept.
LEMMA QueueMoves ==
  ASSUME OnceInv, InPlace', UNCHANGED <<onWire, back, crossed>>,
         \A a \in Asks : pushed'[a] + Count(queued, a) + Held(a) + taken[a]
                         = pushed[a] + Count(queued', a) + Held(a)' + taken'[a]
  PROVE  ExactlyOnce'
<1>1. SUFFICES ASSUME NEW a \in Asks \ crossed'
               PROVE  pushed'[a] = Count(queued', a) + Held(a)'
                                   + Cardinality(Wired(onWire', a)) + taken'[a] + back'[a]
  BY DEF ExactlyOnce, Wired
<1>2. pushed[a] = Count(queued, a) + Held(a) + Cardinality(Wired(onWire, a)) + taken[a] + back[a]
  BY DEF OnceInv, ExactlyOnce, Wired
<1>3. /\ Count(queued', a) \in Nat /\ Held(a)' \in Nat
      /\ pushed'[a] \in Nat /\ taken'[a] \in Nat
  <2>1. queued' \in Seq(Asks)
    BY DEF InPlace
  <2>2. QED
    BY <2>1, PositionsFinite DEF InPlace, Held
<1>4. pushed'[a] + Count(queued, a) + Held(a) + taken[a]
        = pushed[a] + Count(queued', a) + Held(a)' + taken'[a]
  OBVIOUS
<1>5. Cardinality(Wired(onWire', a)) = Cardinality(Wired(onWire, a)) /\ back'[a] = back[a]
  OBVIOUS
<1>6. /\ Count(queued, a) \in Nat /\ Held(a) \in Nat /\ Cardinality(Wired(onWire, a)) \in Nat
      /\ pushed[a] \in Nat /\ taken[a] \in Nat /\ back[a] \in Nat
  BY Counted DEF OnceInv
<1>7. QED
  BY Z3, <1>2, <1>3, <1>4, <1>5, <1>6

\* So it is between hand, wire and what is handed back.
LEMMA WireMoves ==
  ASSUME OnceInv, InPlace', UNCHANGED <<queued, pushed, taken>>, crossed \subseteq crossed',
         \A a \in Asks \ crossed' : Cardinality(Wired(onWire, a)) + Held(a) + back[a]
                                    = Cardinality(Wired(onWire', a)) + Held(a)' + back'[a]
  PROVE  ExactlyOnce'
<1>1. SUFFICES ASSUME NEW a \in Asks \ crossed'
               PROVE  pushed'[a] = Count(queued', a) + Held(a)'
                                   + Cardinality(Wired(onWire', a)) + taken'[a] + back'[a]
  BY DEF ExactlyOnce, Wired
<1>2. pushed[a] = Count(queued, a) + Held(a) + Cardinality(Wired(onWire, a)) + taken[a] + back[a]
  BY DEF OnceInv, ExactlyOnce, Wired
<1>3. /\ Cardinality(Wired(onWire', a)) \in Nat /\ Held(a)' \in Nat /\ back'[a] \in Nat
  <2>1. Wired(onWire', a) \subseteq onWire' /\ IsFiniteSet(onWire')
    BY DEF Wired, InPlace
  <2>2. Cardinality(Wired(onWire', a)) \in Nat
    BY <2>1, FS_Subset, FS_CardinalityType
  <2>3. QED
    BY <2>2 DEF InPlace, Held
<1>4. Count(queued', a) = Count(queued, a) /\ pushed'[a] = pushed[a] /\ taken'[a] = taken[a]
  OBVIOUS
<1>5. Cardinality(Wired(onWire, a)) + Held(a) + back[a]
      = Cardinality(Wired(onWire', a)) + Held(a)' + back'[a]
  OBVIOUS
<1>6. /\ Count(queued, a) \in Nat /\ Held(a) \in Nat /\ Cardinality(Wired(onWire, a)) \in Nat
      /\ pushed[a] \in Nat /\ taken[a] \in Nat /\ back[a] \in Nat
  BY Counted DEF OnceInv
<1>7. \A q, w, h, t, k, w2, h2, k2 \in Nat :
        w + h + k = w2 + h2 + k2 => q + h + w + t + k = q + h2 + w2 + t + k2
  OBVIOUS
<1>8. Count(queued, a) + Held(a) + Cardinality(Wired(onWire, a)) + taken[a] + back[a]
      = Count(queued, a) + Held(a)' + Cardinality(Wired(onWire', a)) + taken[a] + back'[a]
  BY <1>3, <1>5, <1>6, <1>7
<1>9. QED
  BY <1>2, <1>4, <1>8

LEMMA PushedOnce ==
  ASSUME OnceInv, NEW a \in Asks, PushBack(a) \/ PushFront(a)
  PROVE  InPlace' /\ ExactlyOnce'
<1>1. /\ pushed' = [pushed EXCEPT ![a] = @ + 1]
      /\ UNCHANGED <<hand, pc, onWire, taken, back, crossed>>
  BY DEF PushBack, PushFront, Push, ghosts
<1>2. queued \in Seq(Asks)
  BY DEF OnceInv, InPlace
<1>3. /\ queued' \in Seq(Asks)
      /\ \A b \in Asks : Count(queued', b) = Count(queued, b) + One(a, b)
  <2>1. CASE queued' = Append(queued, a)
    BY <1>2, <2>1, CountAppend
  <2>2. CASE queued' = <<a>> \o queued
    BY <1>2, <2>2, CountCons
  <2>3. QED
    BY <2>1, <2>2 DEF PushBack, PushFront
<1>4. InPlace'
  BY <1>1, <1>3 DEF OnceInv, InPlace
<1>5. \A b \in Asks : pushed'[b] + Count(queued, b) + Held(b) + taken[b]
                      = pushed[b] + Count(queued', b) + Held(b)' + taken'[b]
  <2> TAKE b \in Asks
  <2>1. pushed'[b] = pushed[b] + One(a, b)
    BY <1>1 DEF OnceInv, InPlace, One
  <2>2. Held(b)' = Held(b) /\ taken'[b] = taken[b] /\ One(a, b) \in Nat
    BY <1>1 DEF Held, One
  <2>3. QED
    BY <1>3, <2>1, <2>2, Counted DEF OnceInv
<1>6. QED
  BY <1>1, <1>4, <1>5, QueueMoves

LEMMA WithdrawnOnce ==
  ASSUME OnceInv, NEW a \in Asks, Withdraw(a)
  PROVE  InPlace' /\ ExactlyOnce'
<1>1. /\ queued' = Retain(a)
      /\ taken' = [taken EXCEPT ![a] = @ + Count(queued, a)]
      /\ UNCHANGED <<hand, pc, onWire, pushed, back, crossed>>
  BY DEF Withdraw, ghosts
<1>2. queued \in Seq(Asks)
  BY DEF OnceInv, InPlace
<1>3. /\ queued' \in Seq(Asks) /\ Count(queued', a) = 0
      /\ \A b : b # a => Count(queued', b) = Count(queued, b)
  BY <1>1, <1>2, CountRetain
<1>4. Count(queued, a) \in Nat
  BY <1>2, PositionsFinite
<1>5. InPlace'
  BY <1>1, <1>3, <1>4 DEF OnceInv, InPlace
<1>6. \A b \in Asks : pushed'[b] + Count(queued, b) + Held(b) + taken[b]
                      = pushed[b] + Count(queued', b) + Held(b)' + taken'[b]
  <2> TAKE b \in Asks
  <2>1. Held(b)' = Held(b) /\ pushed' = pushed
    BY <1>1 DEF Held
  <2>2. taken'[b] = IF b = a THEN taken[a] + Count(queued, a) ELSE taken[b]
    BY <1>1 DEF OnceInv, InPlace
  <2>3. CASE b = a
    BY <1>3, <1>4, <2>1, <2>2, <2>3, Counted DEF OnceInv
  <2>4. CASE b # a
    BY <1>3, <2>1, <2>2, <2>4, Counted DEF OnceInv
  <2>5. QED
    BY <2>3, <2>4
<1>7. QED
  BY <1>1, <1>5, <1>6, QueueMoves

LEMMA PoppedOnce ==
  ASSUME OnceInv, Pop
  PROVE  InPlace' /\ ExactlyOnce'
<1>1. UNCHANGED <<onWire, pushed, taken, back, crossed>> /\ pc = "pop" /\ hand = Nobody
  BY DEF Pop, owner, ghosts, OnceInv, InPlace, Handing
<1>2. queued \in Seq(Asks)
  BY DEF OnceInv, InPlace
<1>3. CASE queued = <<>>
  <2>1. queued' = queued /\ hand' = hand /\ pc' = "top"
    BY <1>3 DEF Pop
  <2>2. InPlace'
    BY <1>1, <2>1 DEF OnceInv, InPlace, Handing
  <2>3. QED
    BY <1>1, <2>1, <2>2, QueueMoves DEF Held
<1>4. CASE queued # <<>>
  <2>1. queued' = Tail(queued) /\ hand' = Head(queued) /\ pc' = "link"
    BY <1>4 DEF Pop
  <2>2. /\ queued' \in Seq(Asks) /\ hand' \in Asks
        /\ \A a : Count(queued, a) = Count(queued', a) + One(hand', a)
    BY <1>2, <1>4, <2>1, CountTail
  <2>3. InPlace'
    BY <1>1, <2>1, <2>2 DEF OnceInv, InPlace, Handing
  <2>4. \A a \in Asks : Held(a) = 0 /\ Held(a)' = One(hand', a)
    BY <1>1, Bounds DEF Held, One
  <2>5. \A a \in Asks : pushed'[a] + Count(queued, a) + Held(a) + taken[a]
                        = pushed[a] + Count(queued', a) + Held(a)' + taken'[a]
    <3> TAKE a \in Asks
    <3>1. Count(queued', a) \in Nat /\ One(hand', a) \in Nat
      BY <2>2, PositionsFinite DEF One
    <3>2. QED
      BY <1>1, <2>2, <2>4, <3>1, Counted DEF OnceInv
  <2>6. QED
    BY <1>1, <2>3, <2>5, QueueMoves
<1>5. QED
  BY <1>3, <1>4

LEMMA PutBackOnce ==
  ASSUME OnceInv, NoLink
  PROVE  InPlace' /\ ExactlyOnce'
<1>1. /\ UNCHANGED <<onWire, pushed, taken, back, crossed>> /\ hand \in Asks /\ hand' = Nobody
      /\ pc' = "top" /\ queued' = <<hand>> \o queued /\ queued \in Seq(Asks)
  BY DEF NoLink, PutBackInFront, owner, ghosts, OnceInv, InPlace, Handing
<1>2. /\ queued' \in Seq(Asks)
      /\ \A a : Count(queued', a) = Count(queued, a) + One(hand, a)
  BY <1>1, CountCons
<1>3. InPlace'
  BY <1>1, <1>2 DEF OnceInv, InPlace, Handing
<1>4. \A a \in Asks : Held(a)' = 0 /\ Held(a) = One(hand, a) /\ One(hand, a) \in Nat
  BY <1>1, Bounds DEF Held, One
<1>5. \A a \in Asks : pushed'[a] + Count(queued, a) + Held(a) + taken[a]
                      = pushed[a] + Count(queued', a) + Held(a)' + taken'[a]
  <2> TAKE a \in Asks
  <2>1. Count(queued', a) = Count(queued, a) + One(hand, a) /\ Count(queued, a) \in Nat
    BY <1>2, Counted DEF OnceInv
  <2>2. QED
    BY <1>1, <1>4, <2>1, Counted DEF OnceInv
<1>6. QED
  BY <1>1, <1>3, <1>5, QueueMoves

LEMMA FailedOnce ==
  ASSUME OnceInv, SendFails
  PROVE  InPlace' /\ ExactlyOnce'
<1>1. /\ UNCHANGED <<queued, onWire, pushed, taken, crossed>> /\ hand \in Asks /\ hand' = Nobody
      /\ pc' = "top"
      /\ back' = [a \in Asks |-> back[a] + Cardinality({r \in {[ask |-> hand]} : r.ask = a})]
  BY DEF SendFails, HandBack, owner, ghosts, OnceInv, InPlace, Handing
<1>2. \A a \in Asks : Cardinality({r \in {[ask |-> hand]} : r.ask = a}) = One(hand, a)
  <2> TAKE a \in Asks
  <2>1. {r \in {[ask |-> hand]} : r.ask = a} = IF hand = a THEN {[ask |-> hand]} ELSE {}
    OBVIOUS
  <2>2. QED
    BY <2>1, FS_Singleton, FS_EmptySet DEF One
<1>3. \A a \in Asks : back'[a] = back[a] + One(hand, a) /\ One(hand, a) \in Nat
  BY <1>1, <1>2 DEF One
<1>4. InPlace'
  <2>1. back' \in [Asks -> Nat]
    <3>1. \A a \in Asks : back'[a] \in Nat
      BY <1>3 DEF OnceInv, InPlace
    <3>2. back' = [a \in Asks |-> back'[a]]
      BY <1>1
    <3>3. QED
      BY <3>1, <3>2
  <2>2. QED
    BY <1>1, <2>1 DEF OnceInv, InPlace, Handing
<1>5. \A a \in Asks : Held(a)' = 0 /\ Held(a) = One(hand, a)
  BY <1>1, Bounds DEF Held, One
<1>6. \A a \in Asks : Cardinality(Wired(onWire, a)) + Held(a) + back[a]
                      = Cardinality(Wired(onWire', a)) + Held(a)' + back'[a]
  BY <1>1, <1>3, <1>5, Counted DEF OnceInv
<1>7. QED
  BY <1>1, <1>4, <1>6, WireMoves

\* What a reply or a time-out takes off the wire is handed back, once.
LEMMA TakenOffOnce ==
  ASSUME OnceInv, HandBack(onWire \ onWire'), onWire' \subseteq onWire,
         pc' \in {"top", "pop"} \cup Handing, pc \in Handing <=> pc' \in Handing,
         UNCHANGED <<queued, hand, pushed, taken, crossed>>
  PROVE  InPlace' /\ ExactlyOnce'
<1> DEFINE off == onWire \ onWire'
<1>1. IsFiniteSet(onWire) /\ IsFiniteSet(onWire')
  BY FS_Subset DEF OnceInv, InPlace
<1>2. \A a \in Asks : /\ Cardinality(Wired(off, a)) \in Nat
                      /\ Cardinality(Wired(onWire', a)) \in Nat
                      /\ Cardinality(Wired(onWire, a))
                           = Cardinality(Wired(onWire', a)) + Cardinality(Wired(off, a))
  <2> TAKE a \in Asks
  <2>1. /\ Wired(onWire, a) = Wired(onWire', a) \cup Wired(off, a)
        /\ Wired(onWire', a) \cap Wired(off, a) = {}
    BY DEF Wired
  <2>2. Wired(onWire', a) \subseteq onWire /\ Wired(off, a) \subseteq onWire
    BY DEF Wired
  <2>3. IsFiniteSet(Wired(onWire', a)) /\ IsFiniteSet(Wired(off, a))
    BY <1>1, <2>2, FS_Subset
  <2>4. /\ Cardinality(Wired(onWire', a)) \in Nat /\ Cardinality(Wired(off, a)) \in Nat
    BY <2>3, FS_CardinalityType
  <2>5. Cardinality(Wired(onWire, a))
          = Cardinality(Wired(onWire', a)) + Cardinality(Wired(off, a)) - 0
    <3>1. Cardinality(Wired(onWire', a) \cap Wired(off, a)) = 0
      BY <2>1, FS_EmptySet
    <3>2. QED
      BY <2>1, <2>3, <3>1, FS_Union
  <2>6. QED
    BY <2>4, <2>5
<1>3. \A a \in Asks : back'[a] = back[a] + Cardinality(Wired(off, a))
  BY DEF HandBack, Wired
<1>4. InPlace'
  <2>1. back' \in [Asks -> Nat]
    <3>1. \A a \in Asks : back[a] + Cardinality(Wired(off, a)) \in Nat
      <4> TAKE a \in Asks
      <4>1. back[a] \in Nat /\ Cardinality(Wired(off, a)) \in Nat
        BY <1>2, Counted DEF OnceInv
      <4>2. QED
        BY <4>1
    <3>2. back' = [a \in Asks |-> back[a] + Cardinality(Wired(off, a))]
      BY DEF HandBack, Wired
    <3>3. QED
      BY <3>1, <3>2
  <2>2. QED
    BY <1>1, <2>1 DEF OnceInv, InPlace
<1>5. \A a \in Asks : Cardinality(Wired(onWire, a)) + Held(a) + back[a]
                      = Cardinality(Wired(onWire', a)) + Held(a)' + back'[a]
  <2> TAKE a \in Asks
  <2>1. Held(a)' = Held(a) /\ Held(a) \in Nat /\ back[a] \in Nat
    BY Counted DEF OnceInv, Held
  <2>2. back'[a] = back[a] + Cardinality(Wired(off, a))
    BY <1>3
  <2>3. /\ Cardinality(Wired(off, a)) \in Nat
        /\ Cardinality(Wired(onWire', a)) \in Nat
        /\ Cardinality(Wired(onWire, a))
             = Cardinality(Wired(onWire', a)) + Cardinality(Wired(off, a))
    BY <1>2
  <2>4. QED
    BY Z3, <2>1, <2>2, <2>3
<1>6. QED
  BY <1>4, <1>5, WireMoves

\* The request in the hand is on the wire now, in a place of its own unless it met another.
LEMMA RecordedOnce ==
  ASSUME OnceInv, Record
  PROVE  InPlace' /\ ExactlyOnce'
<1>1. /\ UNCHANGED <<queued, pushed, taken, back>> /\ hand \in Asks /\ hand' = Nobody
      /\ pc' = "top" /\ IsFiniteSet(onWire) /\ crossed' = crossed \cup Met
  BY DEF Record, owner, OnceInv, InPlace, Handing
<1> DEFINE others == {r \in onWire : r.seq # handSeq}
<1>2. onWire' = others \cup {Sent} /\ Sent \notin others /\ Sent.ask = hand
  BY DEF Record, Recorded, Sent
<1>3. IsFiniteSet(onWire')
  <2>1. IsFiniteSet(others)
    BY <1>1, FS_Subset
  <2>2. QED
    BY <1>2, <2>1, FS_AddElement
<1>4. InPlace'
  BY <1>1, <1>3 DEF OnceInv, InPlace, Handing
<1>5. \A a \in Asks : Held(a)' = 0 /\ Held(a) = One(hand, a) /\ One(hand, a) \in Nat
  BY <1>1, Bounds DEF Held, One
<1>6. ASSUME NEW a \in Asks \ crossed'
      PROVE  Cardinality(Wired(onWire', a)) = Cardinality(Wired(onWire, a)) + One(hand, a)
  <2>1. \A r \in onWire : r.ask = a => r.seq # handSeq
    BY <1>6, ReplacedHasMet DEF OnceInv
  <2>2. Wired(others, a) = Wired(onWire, a)
    BY <2>1 DEF Wired
  <2>3. CASE hand = a
    <3>1. Wired(onWire', a) = Wired(onWire, a) \cup {Sent} /\ Sent \notin Wired(onWire, a)
      BY <1>2, <2>2, <2>3 DEF Wired
    <3>2. Cardinality(Wired(onWire', a)) = Cardinality(Wired(onWire, a)) + 1
      BY <3>1, Counted, FS_AddElement DEF OnceInv
    <3>3. QED
      BY <2>3, <3>2 DEF One
  <2>4. CASE hand # a
    <3>1. Wired(onWire', a) = Wired(onWire, a)
      BY <1>2, <2>2, <2>4 DEF Wired
    <3>2. One(hand, a) = 0 /\ Cardinality(Wired(onWire, a)) \in Nat
      BY <2>4, Counted DEF OnceInv, One
    <3>3. QED
      BY <3>1, <3>2
  <2>5. QED
    BY <2>3, <2>4
<1>7. \A a \in Asks \ crossed' : Cardinality(Wired(onWire, a)) + Held(a) + back[a]
                                 = Cardinality(Wired(onWire', a)) + Held(a)' + back'[a]
  <2> TAKE a \in Asks \ crossed'
  <2>1. Cardinality(Wired(onWire, a)) \in Nat /\ back[a] \in Nat /\ back'[a] = back[a]
    BY <1>1, Counted DEF OnceInv
  <2>2. QED
    BY <1>5, <1>6, <2>1
<1>8. QED
  BY <1>1, <1>4, <1>7, WireMoves

LEMMA NothingMoves ==
  ASSUME OnceInv, UNCHANGED <<queued, hand, onWire, pushed, taken, back, crossed>>,
         pc' \in {"top", "pop"} \cup Handing, pc \in Handing <=> pc' \in Handing
  PROVE  InPlace' /\ ExactlyOnce'
BY DEF OnceInv, InPlace, ExactlyOnce, Held

LEMMA NextOnce ==
  ASSUME OnceInv, [Next]_vars
  PROVE  OnceInv'
<1>1. Inv'
  BY NextInv DEF OnceInv
<1>2. pc \in {"top", "pop"} \cup Handing
  BY DEF OnceInv, InPlace
<1>3. CASE Owner
  BY <1>1, <1>3, PushedOnce, WithdrawnOnce DEF Owner, OnceInv
<1>4. CASE Pop \/ NoLink \/ SendFails \/ Record
  BY <1>1, <1>4, PoppedOnce, PutBackOnce, FailedOnce, RecordedOnce DEF OnceInv
<1>5. CASE TimeOutIfSilent
  <2>1. UNCHANGED <<queued, hand, pushed, taken, crossed>> /\ pc = "top" /\ pc' = "pop"
    BY <1>5 DEF TimeOutIfSilent, owner, ghosts
  <2>2. CASE quiet /\ onWire # {}
    <3>1. onWire' = {} /\ HandBack(onWire) /\ onWire \ onWire' = onWire
      BY <1>5, <2>2 DEF TimeOutIfSilent
    <3>2. HandBack(onWire \ onWire')
      BY <3>1
    <3>3. QED
      BY <1>1, <2>1, <3>1, <3>2, TakenOffOnce DEF OnceInv, Handing
  <2>3. CASE ~(quiet /\ onWire # {})
    <3>1. onWire' = onWire /\ back' = back
      BY <1>5, <2>3 DEF TimeOutIfSilent
    <3>2. QED
      BY <1>1, <2>1, <3>1, NothingMoves DEF OnceInv, Handing
  <2>4. QED
    BY <2>2, <2>3
<1>6. ASSUME NEW w \in waiters, WaiterEnds(w) PROVE OnceInv'
  <2>1. /\ UNCHANGED <<queued, hand, pc, pushed, taken, crossed>> /\ onWire' \subseteq onWire
        /\ HandBack(onWire \ onWire')
    BY <1>6 DEF WaiterEnds, owner
  <2>2. QED
    BY <1>1, <1>2, <2>1, TakenOffOnce DEF OnceInv
<1>7. CASE TakeLink \/ Send
  <2>1. /\ UNCHANGED <<queued, hand, onWire, pushed, taken, back, crossed>>
        /\ pc \in Handing /\ pc' \in Handing
    BY <1>7 DEF TakeLink, Send, owner, ghosts, Handing
  <2>2. QED
    BY <1>1, <2>1, NothingMoves DEF OnceInv
<1>8. CASE Line \/ TimePasses \/ UNCHANGED vars
  <2>1. UNCHANGED <<queued, hand, pc, onWire, pushed, taken, back, crossed>>
    BY <1>8 DEF Line, OpenLine, LockSlot, CloseLine, Reply, TimePasses, vars, owner, ghosts
  <2>2. QED
    BY <1>1, <1>2, <2>1, NothingMoves DEF OnceInv
<1>9. QED
  BY <1>3, <1>4, <1>5, <1>6, <1>7, <1>8 DEF Next, Sender, Waiter

\* Every request the owner pushed is queued, in the sender's hand, on the wire, withdrawn or
\* handed back, each copy of it in exactly one of these (RequestLine of link_requests.rs):
\* whatever races with the reply, the time-out, the closing or the reopening, none is lost and
\* none comes back twice.  Only requests that met in one number of two lines are left out: there
\* the later one takes the place of the earlier in the wire table.
THEOREM NothingIsLost == Spec => []ExactlyOnce
<1>1. OnceInv => ExactlyOnce
  BY DEF OnceInv
<1>2. OnceInv /\ [Next]_vars => OnceInv'
  BY NextOnce
<1>3. QED
  BY <1>1, <1>2, InitOnce, PTL DEF Spec

----------------------------------------------------------------------------
(***************************************************************************)
(* Proofs about Daemon: nobody misses an event in silence.  An event that  *)
(* a connection is due was sent and is wanted still (DueIsSent,            *)
(* DueIsWanted), and lies at or after the place the push task reads on     *)
(* from, or is carried by something on its way to the client; each step    *)
(* either keeps its carrier, or hands it from one queue to the next.       *)
(***************************************************************************)

\* A connection has no due event before it is open and its push task listens, a due event was
\* sent and is wanted still, and the push task reads on from an event that was sent or is the next.
OfConns(f) == DOMAIN f = Conns

DaemonShape ==
  /\ \E S : events \in Seq(S)
  /\ OfConns(subs) /\ OfConns(only) /\ OfConns(reader) /\ OfConns(pusher)
  /\ OfConns(out) /\ OfConns(wire)
  /\ \A c \in Conns : (\E S : out[c] \in Seq(S)) /\ (\E S : wire[c] \in Seq(S))
  /\ open \in [Conns -> {"no", "accepting", "open", "left"}]
  /\ client \in [Conns -> BOOLEAN] /\ writing \in [Conns -> BOOLEAN]
  /\ pos \in [Conns -> Nat] /\ due \in [Conns -> SUBSET Nat]

DueIsSent ==
  \A c \in Conns :
    /\ pos[c] \in 1 .. Len(events) + 1
    /\ due[c] \subseteq 1 .. Len(events)
    /\ (open[c] \in {"no", "accepting"} \/ pusher[c].step = "starting") => due[c] = {}

DueIsWanted == \A c \in Conns : \A i \in due[c] : Wants(c, events[i])

DaemonInv == DaemonShape /\ DueIsSent /\ DueIsWanted /\ MissedIsTold

\* What is on the way to the client of c and carries i.
Carries(what, i) == \/ what = PushOf(i)
                    \/ what.kind = "desync" /\ what.from <= i /\ i <= what.to

LEMMA InitDaemon == DaemonInit => DaemonInv
<1> SUFFICES ASSUME DaemonInit PROVE DaemonInv
  OBVIOUS
<1>1. <<>> \in Seq({}) /\ Len(<<>>) = 0
  OBVIOUS
<1>2. DaemonShape
  <2>1. \A c \in Conns : out[c] \in Seq({}) /\ wire[c] \in Seq({})
    BY DEF DaemonInit
  <2>2. events \in Seq({})
    BY DEF DaemonInit
  <2>3. QED
    BY <2>1, <2>2 DEF DaemonInit, DaemonShape, OfConns
<1>3. QED
  BY <1>1, <1>2 DEF DaemonInit, DaemonInv, DueIsSent, DueIsWanted, MissedIsTold

\* Appending keeps what is there.
LEMMA Appended ==
  ASSUME NEW S, NEW s \in Seq(S), NEW e
  PROVE  /\ Append(s, e) \in Seq(S \cup {e})
         /\ Len(Append(s, e)) = Len(s) + 1
         /\ \A i \in 1 .. Len(s) : Append(s, e)[i] = s[i]
         /\ Append(s, e)[Len(s) + 1] = e
<1>1. s \in Seq(S \cup {e})
  OBVIOUS
<1>2. QED
  BY <1>1

\* IsTold, with the frames of c spelt out.
LEMMA ToldIs ==
  ASSUME NEW c, NEW i
  PROVE  IsTold(c, i) <=>
           \/ \E k \in DOMAIN Handed(c) : Carries(Handed(c)[k].what, i)
           \/ pusher[c].step = "taken" /\ Carries(pusher[c].what, i)
           \/ pusher[c].step = "sealed" /\ Carries(pusher[c].frame.what, i)
BY DEF IsTold, Carries


\* The frames of a connection stay where they are.
FramesStay(c) ==
  \A k \in DOMAIN Handed(c) : k \in DOMAIN Handed(c)' /\ Handed(c)'[k] = Handed(c)[k]

\* A step that leaves the events and who wants them; what a connection was told it has
\* been told.
LEMMA ToldStays ==
  ASSUME DaemonInv, DaemonShape', UNCHANGED <<events, wants>>,
         \A d \in Conns : /\ open'[d] # open[d] => open'[d] = "left"
                                                \/ (open'[d] = "accepting" /\ open[d] = "no")
                          /\ pos'[d] = pos[d]
                          /\ pusher'[d].step = "starting" => pusher[d].step = "starting"
                          /\ open'[d] = "open" /\ writing'[d] =>
                               writing[d] /\ \A i : IsTold(d, i) => IsTold(d, i)'
  PROVE  DaemonInv'
<1>1. DueIsWanted'
  BY DEF DaemonInv, DueIsWanted, Wants, WantsBy, wants
<1>2. DueIsSent'
  BY DEF DaemonInv, DaemonShape, DueIsSent, wants
<1>3. MissedIsTold'
  <2> SUFFICES ASSUME NEW d \in Conns, open'[d] = "open", writing'[d], NEW i \in due[d], i < pos[d]
               PROVE  IsTold(d, i)'
    BY DEF MissedIsTold, wants
  <2>1. open[d] = "open" /\ writing[d]
    OBVIOUS
  <2>2. IsTold(d, i)
    BY <2>1 DEF DaemonInv, MissedIsTold
  <2>3. QED
    BY <2>2
<1>4. QED
  BY <1>1, <1>2, <1>3 DEF DaemonInv

\* A step that takes no frame away and leaves the push task alone.
LEMMA FramesAreKept ==
  ASSUME NEW c, FramesStay(c), pusher'[c] = pusher[c], NEW i, IsTold(c, i)
  PROVE  IsTold(c, i)'
BY DEF FramesStay, IsTold

LEMMA ElsewhereOfDaemon ==
  ASSUME DaemonInv,
         UNCHANGED <<events, wants, pos, out, wire, pusher, writing>>,
         client' \in [Conns -> BOOLEAN],
         OfConns(reader'),
         open' \in [Conns -> {"no", "accepting", "open", "left"}],
         \A c \in Conns : open'[c] # open[c] => open'[c] = "left"
                                             \/ (open'[c] = "accepting" /\ open[c] = "no")
  PROVE  DaemonInv'
<1>1. DaemonShape'
  BY DEF DaemonInv, DaemonShape, wants, OfConns
<1>2. \A d, i : IsTold(d, i) => IsTold(d, i)'
  BY DEF IsTold, Handed
<1>3. QED
  BY <1>1, <1>2, ToldStays

LEMMA AppendBehind ==
  ASSUME NEW S, NEW s \in Seq(S), NEW t \in Seq(S), NEW e \in S
  PROVE  s \o Append(t, e) = Append(s \o t, e)
<1>1. <<e>> \in Seq(S)
  OBVIOUS
<1>2. Append(t, e) = t \o <<e>> /\ s \o t \in Seq(S)
  BY AppendIsConcat
<1>3. Append(s \o t, e) = (s \o t) \o <<e>>
  BY <1>2, AppendIsConcat
<1>4. s \o (t \o <<e>>) = (s \o t) \o <<e>>
  BY <1>1, ConcatAssociative
<1>5. QED
  BY <1>2, <1>3, <1>4

LEMMA HandingOver ==
  ASSUME DaemonShape, NEW c \in Conns, NEW frame, Hand(c, frame)
  PROVE  /\ OfConns(out') /\ OfConns(wire') /\ writing' = writing
         /\ \A d \in Conns : (\E S : out'[d] \in Seq(S)) /\ (\E S : wire'[d] \in Seq(S))
         /\ \A d \in Conns : FramesStay(d)
         /\ writing[c] => \E k \in DOMAIN Handed(c)' : Handed(c)'[k] = frame
<1>1. PICK S : out[c] \in Seq(S)
  BY DEF DaemonShape
<1>2. PICK T : wire[c] \in Seq(T)
  BY DEF DaemonShape
<1>3. /\ out' = [out EXCEPT ![c] = IF writing[c] THEN Append(@, frame) ELSE @]
      /\ wire' = wire /\ writing' = writing
  BY DEF Hand
<1>4. OfConns(out') /\ OfConns(wire')
  BY <1>3 DEF DaemonShape, OfConns
<1>5. \A d \in Conns : d # c => out'[d] = out[d] /\ wire'[d] = wire[d]
  BY <1>3 DEF DaemonShape, OfConns
<1>6. out'[c] = (IF writing[c] THEN Append(out[c], frame) ELSE out[c]) /\ wire'[c] = wire[c]
  BY <1>3 DEF DaemonShape, OfConns
<1>7. \A d \in Conns : (\E R : out'[d] \in Seq(R)) /\ (\E R : wire'[d] \in Seq(R))
  <2>1. out'[c] \in Seq(S \cup {frame})
    BY <1>1, <1>6, Appended
  <2>2. QED
    BY <2>1, <1>5, <1>6 DEF DaemonShape
<1> DEFINE U == S \cup T \cup {frame}
<1>8. out[c] \in Seq(U) /\ wire[c] \in Seq(U) /\ frame \in U
  BY <1>1, <1>2
<1>9. CASE writing[c]
  <2>1. Handed(c)' = wire[c] \o Append(out[c], frame)
    BY <1>6, <1>9 DEF Handed
  <2>2. wire[c] \o Append(out[c], frame) = Append(Handed(c), frame)
    <3> HIDE DEF U
    <3> DEFINE there == wire[c]
               here == out[c]
    <3>0. there \in Seq(U) /\ here \in Seq(U) /\ frame \in U
      BY <1>8
    <3> HIDE DEF there, here
    <3>1. there \o Append(here, frame) = Append(there \o here, frame)
      BY <3>0, AppendBehind
    <3>2. QED
      BY <3>1 DEF Handed, there, here
  <2>3. Handed(c) \in Seq(U)
    BY <1>8 DEF Handed
  <2>4. Handed(c)' = Append(Handed(c), frame)
    BY <2>1, <2>2
  <2>5. Handed(c)'[Len(Handed(c)) + 1] = frame /\ Len(Handed(c)) + 1 \in DOMAIN Handed(c)'
    BY <2>3, <2>4
  <2>7. \A k \in DOMAIN Handed(c) : k \in DOMAIN Handed(c)' /\ Handed(c)'[k] = Handed(c)[k]
    BY <2>3, <2>4
  <2>8. \A d \in Conns : d # c => FramesStay(d)
    BY <1>5 DEF FramesStay, Handed
  <2>9. FramesStay(c)
    BY <2>7 DEF FramesStay
  <2>10. \E k \in DOMAIN Handed(c)' : Handed(c)'[k] = frame
    BY <2>5
  <2>11. QED
    BY <1>3, <1>4, <1>7, <2>8, <2>9, <2>10
<1>10. CASE ~writing[c]
  <2>1. \A d \in Conns : FramesStay(d)
    BY <1>5, <1>6, <1>10 DEF FramesStay, Handed
  <2>2. QED
    BY <1>3, <1>4, <1>7, <1>10, <2>1
<1>11. QED
  BY <1>9, <1>10

\* An event is sent: whoever wants it has it due.
LEMMA EmittedIsDue ==
  ASSUME DaemonInv, NEW event, Emit(event),
         UNCHANGED <<life, subs, only, reader, pushing, sending>>
  PROVE  DaemonInv'
<1>1. PICK S : events \in Seq(S)
  BY DEF DaemonInv, DaemonShape
<1>2. /\ events' = Append(events, event)
      /\ due' = [c \in Conns |-> IF Listens(c) /\ Wants(c, event)
                                 THEN due[c] \cup {Len(events) + 1} ELSE due[c]]
      /\ open' = open /\ client' = client /\ subs' = subs /\ only' = only /\ reader' = reader
      /\ pusher' = pusher /\ pos' = pos /\ out' = out /\ writing' = writing /\ wire' = wire
  BY DEF Emit, life, pushing, sending
<1>3. /\ events' \in Seq(S \cup {event}) /\ Len(events) \in Nat
      /\ Len(events') = Len(events) + 1
      /\ \A i \in 1 .. Len(events) : events'[i] = events[i]
      /\ events'[Len(events) + 1] = event
  BY <1>1, <1>2, Appended
<1>4. DaemonShape'
  <2>1. due' \in [Conns -> SUBSET Nat]
    BY <1>2, <1>3 DEF DaemonInv, DaemonShape
  <2>2. QED
    BY <1>2, <1>3, <2>1 DEF DaemonInv, DaemonShape, OfConns
<1>5. DueIsSent'
  BY <1>2, <1>3 DEF DaemonInv, DaemonShape, DueIsSent, Listens, IsServed
<1>6. DueIsWanted'
  <2> SUFFICES ASSUME NEW c \in Conns, NEW i \in due'[c] PROVE WantsBy(subs[c], only[c], events'[i])
    BY <1>2 DEF DueIsWanted, Wants
  <2>2. CASE i \in due[c]
    BY <2>2, <1>3 DEF DaemonInv, DueIsSent, DueIsWanted, Wants
  <2>3. CASE i \notin due[c]
    BY <2>3, <1>2, <1>3 DEF Wants
  <2>4. QED
    BY <2>2, <2>3
<1>7. MissedIsTold'
  <2> SUFFICES ASSUME NEW c \in Conns, open[c] = "open", writing[c], NEW i \in due'[c], i < pos[c]
               PROVE  IsTold(c, i)'
    BY <1>2 DEF MissedIsTold
  <2>1. i \in due[c]
    BY <1>2, <1>3 DEF DaemonInv, DaemonShape, DueIsSent
  <2>2. IsTold(c, i)
    BY <2>1 DEF DaemonInv, MissedIsTold
  <2>3. QED
    BY <2>2, <1>2 DEF IsTold, Handed
<1>8. QED
  BY <1>4, <1>5, <1>6, <1>7 DEF DaemonInv

\* A subscription that changes leaves only what is wanted still.
LEMMA ReceivedIsWanted ==
  ASSUME DaemonInv, NEW c \in Conns, Receive(c)
  PROVE  DaemonInv'
<1>1. PICK frame \in case.says[c] :
        \/ UNCHANGED wants
        \/ Subscribe(c, frame)
  BY DEF Receive
<1>2. /\ open' = open /\ client' = client /\ pusher' = pusher /\ pos' = pos
      /\ out' = out /\ writing' = writing /\ wire' = wire /\ events' = events
      /\ OfConns(reader')
  BY DEF Receive, life, pushing, sending, DaemonInv, DaemonShape, OfConns
<1>3. CASE UNCHANGED wants
  <2>1. client' \in [Conns -> BOOLEAN] /\ open' \in [Conns -> {"no", "accepting", "open", "left"}]
    BY <1>2 DEF DaemonInv, DaemonShape
  <2>2. QED
    BY <1>2, <1>3, <2>1, ElsewhereOfDaemon
<1>4. CASE Subscribe(c, frame)
  <2>1. PICK names, user :
          /\ subs' = [subs EXCEPT ![c] = names]
          /\ only' = [only EXCEPT ![c] = user]
          /\ due' = [due EXCEPT ![c] = {i \in @ : WantsBy(names, user, events[i])}]
    BY <1>4 DEF Subscribe
  <2>2. /\ OfConns(subs') /\ OfConns(only') /\ due' \in [Conns -> SUBSET Nat]
        /\ \A d \in Conns : d # c => subs'[d] = subs[d] /\ only'[d] = only[d] /\ due'[d] = due[d]
        /\ subs'[c] = names /\ only'[c] = user
        /\ due'[c] = {i \in due[c] : WantsBy(names, user, events[i])}
    BY <2>1 DEF DaemonInv, DaemonShape, OfConns
  <2>3. DaemonShape'
    BY <1>2, <2>2 DEF DaemonInv, DaemonShape, OfConns
  <2>4. \A d \in Conns : due'[d] \subseteq due[d]
    BY <2>2
  <2>5. DueIsSent'
    BY <1>2, <2>4 DEF DaemonInv, DaemonShape, DueIsSent
  <2>6. DueIsWanted'
    BY <1>2, <2>2 DEF DaemonInv, DueIsWanted, Wants
  <2>7. MissedIsTold'
    <3>1. \A d, i : IsTold(d, i) => IsTold(d, i)'
      BY <1>2 DEF IsTold, Handed
    <3>2. QED
      BY <1>2, <2>4, <3>1 DEF DaemonInv, MissedIsTold
  <2>8. QED
    BY <2>3, <2>5, <2>6, <2>7 DEF DaemonInv
<1>5. QED
  BY <1>1, <1>3, <1>4

LEMMA ConnectedHasNothingDue ==
  ASSUME DaemonInv, NEW c \in Conns, Connect(c)
  PROVE  DaemonInv'
<1>1. /\ open[c] = "accepting" /\ open' = [open EXCEPT ![c] = "open"]
      /\ client' = client /\ pusher' = pusher /\ pos' = pos /\ events' = events
      /\ reader' = reader /\ subs' = subs /\ only' = only /\ due' = due
      /\ out' = out /\ writing' = writing /\ wire' = wire
  BY DEF Connect, wants, pushing, sending
<1>2. Len(events) \in Nat
  BY DEF DaemonInv, DaemonShape
<1>3. DaemonShape'
  BY <1>1, <1>2 DEF DaemonInv, DaemonShape, OfConns
<1>4. DueIsSent' /\ DueIsWanted'
  BY <1>1, <1>2 DEF DaemonInv, DaemonShape, DueIsSent, DueIsWanted, Wants
<1>5. MissedIsTold'
  <2> SUFFICES ASSUME NEW d \in Conns, open'[d] = "open", writing[d], NEW i \in due[d], i < pos'[d]
               PROVE  IsTold(d, i)'
    BY <1>1 DEF MissedIsTold
  <2>1. d # c
    BY <1>1 DEF DaemonInv, DueIsSent
  <2>2. IsTold(d, i)
    BY <2>1, <1>1 DEF DaemonInv, DaemonShape, MissedIsTold
  <2>3. QED
    BY <2>2, <1>1 DEF IsTold, Handed
<1>6. QED
  BY <1>3, <1>4, <1>5 DEF DaemonInv

\* What was sent before the push task listens is due to nobody.
LEMMA ListensFromNow ==
  ASSUME DaemonInv, NEW c \in Conns, Listen(c)
  PROVE  DaemonInv'
<1>1. /\ pusher[c].step = "starting" /\ pusher' = [pusher EXCEPT ![c] = [step |-> "waiting"]]
      /\ pos' = [pos EXCEPT ![c] = Len(events) + 1]
      /\ open' = open /\ client' = client /\ events' = events /\ reader' = reader
      /\ subs' = subs /\ only' = only /\ due' = due
      /\ out' = out /\ writing' = writing /\ wire' = wire
  BY DEF Listen, life, wants, sending
<1>2. Len(events) \in Nat /\ due[c] = {}
  BY <1>1 DEF DaemonInv, DaemonShape, DueIsSent
<1>3. /\ OfConns(pusher') /\ pos' \in [Conns -> Nat] /\ pos'[c] = Len(events) + 1
      /\ pusher'[c].step = "waiting"
      /\ \A d \in Conns : d # c => pusher'[d] = pusher[d] /\ pos'[d] = pos[d]
  BY <1>1, <1>2 DEF DaemonInv, DaemonShape, OfConns
<1>4. DaemonShape'
  BY <1>1, <1>3 DEF DaemonInv, DaemonShape, OfConns
<1>5. DueIsSent' /\ DueIsWanted'
  BY <1>1, <1>2, <1>3 DEF DaemonInv, DaemonShape, DueIsSent, DueIsWanted, Wants
<1>6. MissedIsTold'
  <2> SUFFICES ASSUME NEW d \in Conns, open[d] = "open", writing[d], NEW i \in due[d], i < pos'[d]
               PROVE  IsTold(d, i)'
    BY <1>1 DEF MissedIsTold
  <2>1. d # c
    BY <1>2
  <2>2. IsTold(d, i)
    BY <2>1, <1>3 DEF DaemonInv, MissedIsTold
  <2>3. pusher'[d] = pusher[d] /\ wire' = wire /\ out' = out
    BY <2>1, <1>1, <1>3
  <2>4. QED
    BY <2>2, <2>3 DEF IsTold, Handed
<1>7. QED
  BY <1>4, <1>5, <1>6 DEF DaemonInv

\* The reader or a task hands a frame over; the reader may leave after it.
LEMMA HandedIsKept ==
  ASSUME DaemonInv, NEW c \in Conns, NEW frame, Hand(c, frame),
         UNCHANGED <<events, wants, pos, client>>, OfConns(reader'),
         Leave(c) \/ UNCHANGED <<open, pusher>>
  PROVE  DaemonInv'
<1>1. /\ OfConns(out') /\ OfConns(wire') /\ writing' = writing
      /\ \A d \in Conns : (\E S : out'[d] \in Seq(S)) /\ (\E S : wire'[d] \in Seq(S))
      /\ \A d \in Conns : FramesStay(d)
  BY HandingOver DEF DaemonInv
<1>2. /\ open' \in [Conns -> {"no", "accepting", "open", "left"}] /\ OfConns(pusher')
      /\ \A d \in Conns : \/ open'[d] = open[d] /\ pusher'[d] = pusher[d]
                          \/ open'[d] = "left" /\ pusher'[d].step # "starting"
  <2>1. CASE Leave(c)
    BY <2>1 DEF Leave, DaemonInv, DaemonShape, OfConns
  <2>2. CASE UNCHANGED <<open, pusher>>
    BY <2>2 DEF DaemonInv, DaemonShape, OfConns
  <2>3. QED
    BY <2>1, <2>2
<1>3. DaemonShape'
  BY <1>1, <1>2 DEF DaemonInv, DaemonShape, OfConns, wants
<1>4. \A d \in Conns : open'[d] = "open" => \A i : IsTold(d, i) => IsTold(d, i)'
  BY <1>1, <1>2, FramesAreKept
<1>5. \A d \in Conns :
        /\ open'[d] # open[d] => open'[d] = "left" \/ (open'[d] = "accepting" /\ open[d] = "no")
        /\ pos'[d] = pos[d]
        /\ pusher'[d].step = "starting" => pusher[d].step = "starting"
        /\ open'[d] = "open" /\ writing'[d] =>
             writing[d] /\ \A i : IsTold(d, i) => IsTold(d, i)'
  BY <1>1, <1>2, <1>4
<1>6. UNCHANGED <<events, wants>>
  BY <1>1
<1>7. QED
  BY <1>3, <1>5, <1>6, ToldStays

LEMMA GoneIsLeft ==
  ASSUME DaemonInv, NEW c \in Conns, SeeClientGone(c)
  PROVE  DaemonInv'
<1>1. Leave(c) /\ UNCHANGED <<events, client, wants, reader, pos, out, writing, wire>>
  BY DEF SeeClientGone, sending
<1>2. /\ open' \in [Conns -> {"no", "accepting", "open", "left"}] /\ OfConns(pusher')
      /\ \A d \in Conns : \/ open'[d] = open[d] /\ pusher'[d] = pusher[d]
                          \/ open'[d] = "left" /\ pusher'[d].step # "starting"
  BY <1>1 DEF Leave, DaemonInv, DaemonShape, OfConns
<1>3. DaemonShape'
  BY <1>1, <1>2 DEF DaemonInv, DaemonShape, OfConns, wants
<1>4. \A d \in Conns : open'[d] = "open" => \A i : IsTold(d, i) => IsTold(d, i)'
  BY <1>1, <1>2 DEF IsTold, Handed
<1>5. \A d \in Conns :
        /\ open'[d] # open[d] => open'[d] = "left" \/ (open'[d] = "accepting" /\ open[d] = "no")
        /\ pos'[d] = pos[d]
        /\ pusher'[d].step = "starting" => pusher[d].step = "starting"
        /\ open'[d] = "open" /\ writing'[d] =>
             writing[d] /\ \A i : IsTold(d, i) => IsTold(d, i)'
  BY <1>1, <1>2, <1>4
<1>6. UNCHANGED <<events, wants>>
  BY <1>1
<1>7. QED
  BY <1>3, <1>5, <1>6, ToldStays

----------------------------------------------------------------------------
\* The push task.

\* An event that is due is taken, or counted among the lost.
LEMMA TakenIsTold ==
  ASSUME Limits, DaemonInv, NEW c \in Conns, TakeEvent(c)
  PROVE  DaemonInv'
<1>1. /\ open[c] = "open" /\ pusher[c].step = "waiting" /\ pos[c] <= Len(events)
      /\ events' = events /\ open' = open /\ client' = client /\ subs' = subs /\ only' = only
      /\ due' = due /\ reader' = reader /\ out' = out /\ writing' = writing /\ wire' = wire
  BY DEF TakeEvent, IsServed, life, wants, sending
<1>2. Len(events) \in Nat /\ pos[c] \in 1 .. Len(events) /\ Oldest \in 1 .. Len(events)
  BY <1>1 DEF DaemonInv, DaemonShape, DueIsSent, Limits, Oldest
<1>3. /\ OfConns(pusher') /\ pos' \in [Conns -> Nat] /\ pos'[c] \in 1 .. Len(events) + 1
      /\ pusher'[c].step # "starting"
      /\ \A d \in Conns : d # c => pusher'[d] = pusher[d] /\ pos'[d] = pos[d]
  <2>1. pusher' = pusher \/ \E kept : /\ pusher' = [pusher EXCEPT ![c] = kept]
                                       /\ kept.step # "starting"
    BY DEF TakeEvent, LaggedPush
  <2>2. pos' = [pos EXCEPT ![c] = Oldest] \/ pos' = [pos EXCEPT ![c] = pos[c] + 1]
    BY DEF TakeEvent
  <2>3. PICK next \in 1 .. Len(events) + 1 : pos' = [pos EXCEPT ![c] = next]
    BY <2>2, <1>2
  <2>4. QED
    BY <1>1, <2>1, <2>3, <1>2 DEF DaemonInv, DaemonShape, OfConns
<1>4. DaemonShape'
  BY <1>1, <1>3 DEF DaemonInv, DaemonShape, OfConns
<1>5. DueIsSent' /\ DueIsWanted'
  BY <1>1, <1>3 DEF DaemonInv, DueIsSent, DueIsWanted, Wants
<1>6. \A d \in Conns : d # c => \A i : IsTold(d, i) => IsTold(d, i)'
  BY <1>1, <1>3 DEF IsTold, Handed
<1>7. \A i : IsTold(c, i) => IsTold(c, i)'
  BY <1>1 DEF IsTold, Handed
<1>8. ASSUME NEW i \in due[c], pos[c] <= i, i < pos'[c]
      PROVE  IsTold(c, i)'
  <2>1. i \in Nat /\ pos[c] \in Nat /\ Wants(c, events[i])
    BY <1>2, <1>8 DEF DaemonInv, DaemonShape, DueIsWanted
  <2>2. CASE /\ pos[c] < Oldest
             /\ pusher' = [pusher EXCEPT ![c] = LaggedPush(c)]
             /\ pos' = [pos EXCEPT ![c] = Oldest]
    <3>1. subs[c] # {}
      BY <2>1 DEF Wants, WantsBy
    <3>2. pusher'[c] = [step |-> "taken", what |-> Desync(pos[c], Oldest - 1)] /\ pos'[c] = Oldest
      BY <2>2, <3>1 DEF LaggedPush, DaemonInv, DaemonShape, OfConns
    <3>3. Desync(pos[c], Oldest - 1).kind = "desync" /\ Desync(pos[c], Oldest - 1).from = pos[c]
          /\ Desync(pos[c], Oldest - 1).to = Oldest - 1
      BY DEF Desync
    <3>4. i <= Oldest - 1
      BY <3>2, <1>2, <1>8, <2>1
    <3>5. QED
      BY <3>2, <3>3, <3>4, <1>8 DEF IsTold
  <2>3. CASE /\ pos[c] >= Oldest
             /\ pusher' = IF IsMine(c, events[pos[c]]) \/ Wants(c, events[pos[c]])
                          THEN [pusher EXCEPT ![c] = [step |-> "taken", what |-> PushOf(pos[c])]]
                          ELSE pusher
             /\ pos' = [pos EXCEPT ![c] = @ + 1]
    <3>1. i = pos[c]
      BY <1>8, <2>1, <2>3 DEF DaemonInv, DaemonShape
    <3>2. pusher'[c] = [step |-> "taken", what |-> PushOf(i)]
      BY <2>1, <2>3, <3>1 DEF DaemonInv, DaemonShape, OfConns
    <3>3. QED
      BY <3>2 DEF IsTold
  <2>4. QED
    BY <2>2, <2>3 DEF TakeEvent
<1>9. MissedIsTold'
  <2> SUFFICES ASSUME NEW d \in Conns, open[d] = "open", writing[d], NEW i \in due[d], i < pos'[d]
               PROVE  IsTold(d, i)'
    BY <1>1 DEF MissedIsTold
  <2>1. i \in Nat /\ pos[d] \in Nat
    BY DEF DaemonInv, DaemonShape
  <2>2. CASE i < pos[d]
    BY <2>2, <1>6, <1>7 DEF DaemonInv, MissedIsTold
  <2>3. CASE ~(i < pos[d])
    BY <2>1, <2>3, <1>3, <1>8
  <2>4. QED
    BY <2>2, <2>3
<1>10. QED
  BY <1>4, <1>5, <1>9 DEF DaemonInv

LEMMA SealedIsTold ==
  ASSUME DaemonInv, NEW c \in Conns, PushSeals(c)
  PROVE  DaemonInv'
<1>1. /\ pusher[c].step = "taken"
      /\ pusher' = [pusher EXCEPT ![c] = [step |-> "sealed",
                                          frame |-> Sealed(pusher[c].what, OutboundType(c))]]
      /\ UNCHANGED <<events, wants>>
      /\ open' = open /\ client' = client /\ reader' = reader /\ pos' = pos /\ out' = out
      /\ writing' = writing /\ wire' = wire
  BY DEF PushSeals, life, sending
<1>2. /\ OfConns(pusher') /\ pusher'[c].step = "sealed"
      /\ pusher'[c].frame.what = pusher[c].what
      /\ \A d \in Conns : d # c => pusher'[d] = pusher[d]
  BY <1>1 DEF DaemonInv, DaemonShape, OfConns, Sealed
<1>3. DaemonShape'
  BY <1>1, <1>2 DEF DaemonInv, DaemonShape, OfConns, wants
<1>4. \A d \in Conns : \A i : IsTold(d, i) => IsTold(d, i)'
  BY <1>1, <1>2 DEF IsTold, Handed
<1>5. QED
  BY <1>1, <1>3, <1>4, ToldStays

LEMMA SentIsTold ==
  ASSUME DaemonInv, NEW c \in Conns, PushSends(c)
  PROVE  DaemonInv'
<1>1. /\ pusher[c].step = "sealed" /\ Hand(c, pusher[c].frame)
      /\ pusher' = [pusher EXCEPT ![c] = [step |-> IF writing[c] THEN "waiting" ELSE "aborted"]]
      /\ UNCHANGED <<events, wants>>
      /\ open' = open /\ client' = client /\ reader' = reader /\ pos' = pos
  BY DEF PushSends, life
<1>2. /\ OfConns(out') /\ OfConns(wire') /\ writing' = writing
      /\ \A d \in Conns : (\E S : out'[d] \in Seq(S)) /\ (\E S : wire'[d] \in Seq(S))
      /\ \A d \in Conns : FramesStay(d)
      /\ writing[c] => \E k \in DOMAIN Handed(c)' : Handed(c)'[k] = pusher[c].frame
  BY <1>1, HandingOver DEF DaemonInv
<1>3. /\ OfConns(pusher')
      /\ pusher'[c].step \notin {"starting", "taken", "sealed"}
      /\ \A d \in Conns : d # c => pusher'[d] = pusher[d]
  BY <1>1 DEF DaemonInv, DaemonShape, OfConns
<1>4. DaemonShape'
  BY <1>1, <1>2, <1>3 DEF DaemonInv, DaemonShape, OfConns, wants
<1>5. \A d \in Conns : d # c => \A i : IsTold(d, i) => IsTold(d, i)'
  BY <1>2, <1>3, FramesAreKept
<1>6. writing[c] => \A i : IsTold(c, i) => IsTold(c, i)'
  <2> SUFFICES ASSUME writing[c], NEW i, IsTold(c, i) PROVE IsTold(c, i)'
    OBVIOUS
  <2>1. CASE \E k \in DOMAIN Handed(c) : Carries(Handed(c)[k].what, i)
    BY <2>1, <1>2 DEF IsTold, FramesStay, Carries
  <2>2. CASE Carries(pusher[c].frame.what, i)
    <3>1. PICK k \in DOMAIN Handed(c)' : Handed(c)'[k] = pusher[c].frame
      BY <1>2
    <3>2. QED
      BY <2>2, <3>1 DEF IsTold, Carries
  <2>3. QED
    BY <2>1, <2>2, <1>1, ToldIs
<1>7. \A d \in Conns : writing'[d] => writing[d] /\ \A i : IsTold(d, i) => IsTold(d, i)'
  BY <1>2, <1>5, <1>6, Zenon
<1>8. QED
  BY <1>1, <1>4, <1>7, ToldStays

----------------------------------------------------------------------------
\* The writer: what it writes was handed to it.

LEMMA HeadToTheFront ==
  ASSUME NEW S, NEW s \in Seq(S), NEW t \in Seq(S), t # <<>>
  PROVE  Append(s, Head(t)) \o Tail(t) = s \o t
<1>1. Head(t) \in S /\ Tail(t) \in Seq(S) /\ t = <<Head(t)>> \o Tail(t)
  OBVIOUS
<1>2. <<Head(t)>> \in Seq(S) /\ Append(s, Head(t)) = s \o <<Head(t)>>
  BY <1>1, AppendIsConcat
<1>3. (s \o <<Head(t)>>) \o Tail(t) = s \o (<<Head(t)>> \o Tail(t))
  BY <1>1, <1>2, ConcatAssociative
<1>4. QED
  BY <1>1, <1>2, <1>3

LEMMA WrittenIsTold ==
  ASSUME DaemonInv, NEW c \in Conns, Write(c)
  PROVE  DaemonInv'
<1> DEFINE frame == Head(out[c])
<1>1. /\ writing[c] /\ out[c] # <<>>
      /\ wire' = IF client[c] THEN [wire EXCEPT ![c] = Append(@, frame)] ELSE wire
      /\ writing' = [writing EXCEPT ![c] = client[c] /\ frame.what.kind # "notice"]
      /\ out' = [out EXCEPT ![c] = IF writing'[c] THEN Tail(@) ELSE <<>>]
      /\ UNCHANGED <<events, wants>>
      /\ open' = open /\ client' = client /\ reader' = reader /\ pos' = pos /\ pusher' = pusher
  BY DEF Write, life, pushing
<1>2. PICK S : out[c] \in Seq(S)
  BY DEF DaemonInv, DaemonShape
<1>3. PICK T : wire[c] \in Seq(T)
  BY DEF DaemonInv, DaemonShape
<1> DEFINE U == S \cup T
<1>4. out[c] \in Seq(U) /\ wire[c] \in Seq(U)
  BY <1>2, <1>3
<1>5. /\ OfConns(wire') /\ OfConns(out') /\ writing' \in [Conns -> BOOLEAN]
      /\ \A d \in Conns : d # c => out'[d] = out[d] /\ wire'[d] = wire[d]
                                   /\ writing'[d] = writing[d]
      /\ wire'[c] = (IF client[c] THEN Append(wire[c], frame) ELSE wire[c])
      /\ out'[c] = (IF writing'[c] THEN Tail(out[c]) ELSE <<>>)
      /\ writing'[c] => client[c]
  BY <1>1 DEF DaemonInv, DaemonShape, OfConns
<1> HIDE DEF U
<1>6. frame \in U /\ Tail(out[c]) \in Seq(U) /\ Append(wire[c], frame) \in Seq(U) /\ <<>> \in Seq(U)
  BY <1>1, <1>4
<1>7. out'[c] \in Seq(U) /\ wire'[c] \in Seq(U)
  BY <1>4, <1>5, <1>6
<1>8. DaemonShape'
  BY <1>1, <1>5, <1>7 DEF DaemonInv, DaemonShape, OfConns, wants
<1>9. \A d \in Conns : d # c => \A i : IsTold(d, i) => IsTold(d, i)'
  <2>1. \A d \in Conns : d # c => Handed(d)' = Handed(d)
    BY <1>5 DEF Handed
  <2>2. QED
    BY <1>1, <2>1 DEF IsTold
<1>10. writing'[c] => \A i : IsTold(c, i) => IsTold(c, i)'
  <2> SUFFICES ASSUME writing'[c] PROVE Handed(c)' = Handed(c)
    BY <1>1 DEF IsTold
  <2> DEFINE there == wire[c]
             here == out[c]
  <2>1. there \in Seq(U) /\ here \in Seq(U) /\ here # <<>>
    BY <1>1, <1>4
  <2>2. wire'[c] \o out'[c] = Append(there, Head(here)) \o Tail(here)
    BY <1>5
  <2> HIDE DEF there, here
  <2>3. Append(there, Head(here)) \o Tail(here) = there \o here
    BY <2>1, HeadToTheFront
  <2>4. QED
    BY <2>2, <2>3 DEF Handed, there, here
<1>11. \A d \in Conns : writing'[d] => writing[d] /\ \A i : IsTold(d, i) => IsTold(d, i)'
  <2>1. \A d \in Conns : writing'[d] => writing[d]
    BY <1>1, <1>5
  <2>2. QED
    BY <1>9, <1>10, <2>1, Zenon
<1>12. QED
  BY <1>1, <1>8, <1>11, ToldStays

LEMMA EndedIsTold ==
  ASSUME DaemonInv, NEW c \in Conns, WriterEnds(c)
  PROVE  DaemonInv'
<1>1. /\ writing[c] /\ writing' = [writing EXCEPT ![c] = FALSE]
      /\ UNCHANGED <<events, wants>>
      /\ open' = open /\ client' = client /\ reader' = reader /\ pos' = pos /\ pusher' = pusher
      /\ out' = out /\ wire' = wire
  BY DEF WriterEnds, life, pushing
<1>2. DaemonShape' /\ \A d \in Conns : writing'[d] => writing[d]
  BY <1>1 DEF DaemonInv, DaemonShape, OfConns, wants
<1>3. \A d, i : IsTold(d, i) => IsTold(d, i)'
  BY <1>1 DEF IsTold, Handed
<1>4. QED
  BY <1>1, <1>2, <1>3, ToldStays

----------------------------------------------------------------------------
\* The steps that leave frames, events and subscriptions alone.
LEMMA RestOfDaemon ==
  ASSUME DaemonInv,
         \/ \E c \in Conns : \/ Accept(c) \/ ClientLeaves(c) \/ ReaderSeals(c) \/ SeeShutdown(c)
                             \/ \E n \in DOMAIN tasks[c] :
                                  Call(c, n) \/ Finish(c, n) \/ TaskSeals(c, n)
         \/ Exit
         \/ UNCHANGED daemonVars
  PROVE  DaemonInv'
<1>1. UNCHANGED <<events, wants, pos, out, wire, pusher, writing>>
  BY DEF Accept, ClientLeaves, ReaderSeals, SeeShutdown, Call, Finish, TaskSeals, Exit, daemonVars,
         pushing, sending, wants
<1>2. OfConns(reader') /\ client' \in [Conns -> BOOLEAN]
  BY DEF Accept, ClientLeaves, ReaderSeals, SeeShutdown, Call, Finish, TaskSeals, Exit, daemonVars,
         life, OfConns, DaemonInv, DaemonShape
<1>3. /\ open' \in [Conns -> {"no", "accepting", "open", "left"}]
      /\ \A d \in Conns : open'[d] # open[d] => open'[d] = "left"
                                             \/ (open'[d] = "accepting" /\ open[d] = "no")
  BY DEF Accept, ClientLeaves, ReaderSeals, SeeShutdown, Call, Finish, TaskSeals, Exit, daemonVars,
         life, DaemonInv, DaemonShape
<1>4. QED
  BY <1>1, <1>2, <1>3, ElsewhereOfDaemon

LEMMA ReaderSentIsKept ==
  ASSUME DaemonInv, NEW c \in Conns, ReaderSends(c)
  PROVE  DaemonInv'
<1>1. /\ Hand(c, reader[c].frame) /\ UNCHANGED <<events, wants, pos, client>>
      /\ Leave(c) \/ UNCHANGED <<open, pusher>>
  BY DEF ReaderSends
<1>2. OfConns(reader')
  BY DEF ReaderSends, DaemonInv, DaemonShape, OfConns
<1>3. QED
  BY <1>1, <1>2, HandedIsKept

LEMMA TaskSentIsKept ==
  ASSUME DaemonInv, NEW c \in Conns, NEW n, TaskSends(c, n)
  PROVE  DaemonInv'
<1>1. /\ Hand(c, tasks[c][n].frame) /\ UNCHANGED <<events, wants, pos, client>>
      /\ UNCHANGED <<open, pusher>> /\ reader' = reader
  BY DEF TaskSends, life, pushing
<1>2. OfConns(reader')
  BY <1>1 DEF DaemonInv, DaemonShape, OfConns
<1>3. QED
  BY <1>1, <1>2, HandedIsKept

LEMMA SomethingHappened ==
  ASSUME DaemonInv,
         \/ \E user \in Users : Happen(user)
         \/ \E c \in Conns : \E n \in DOMAIN tasks[c] : Progress(c, n)
  PROVE  DaemonInv'
<1>1. PICK event : Emit(event)
  BY DEF Happen, Progress
<1>2. UNCHANGED <<life, subs, only, reader, pushing, sending>>
  BY DEF Happen, Progress
<1>3. QED
  BY <1>1, <1>2, EmittedIsDue

LEMMA DaemonStep ==
  ASSUME Limits, DaemonInv, [DaemonNext]_daemonVars
  PROVE  DaemonInv'
<1>1. CASE \E c \in Conns : Connect(c) \/ Receive(c) \/ ReaderSends(c) \/ SeeClientGone(c)
  BY <1>1, ConnectedHasNothingDue, ReceivedIsWanted, ReaderSentIsKept, GoneIsLeft
<1>2. CASE \E c \in Conns : Pushing(c) \/ Write(c) \/ WriterEnds(c)
  BY <1>2, ListensFromNow, TakenIsTold, SealedIsTold, SentIsTold, WrittenIsTold, EndedIsTold
     DEF Pushing
<1>3. CASE \E c \in Conns : \E n \in DOMAIN tasks[c] : TaskSends(c, n)
  BY <1>3, TaskSentIsKept
<1>4. QED
  BY <1>1, <1>2, <1>3, RestOfDaemon, SomethingHappened DEF DaemonNext, Reading, TaskStep

\* Who wants an event when it is sent, and wants it still, is sent it or a desync for it: the
\* push task of a connection that is open loses nothing in silence, however its place in the
\* broadcast races with subscriptions, answers, the shutdown and a ring that overruns it
\* (forward_pushes, Subscriptions).
THEOREM NobodyMissesInSilence ==
  ASSUME Limits
  PROVE  DaemonSpec => []MissedIsTold
<1>1. DaemonInv /\ [DaemonNext]_daemonVars => DaemonInv'
  BY DaemonStep
<1>2. DaemonInv => MissedIsTold
  BY DEF DaemonInv
<1>3. QED
  BY <1>1, <1>2, InitDaemon, PTL DEF DaemonSpec

=============================================================================
