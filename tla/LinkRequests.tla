---------------------------- MODULE LinkRequests ----------------------------
(***************************************************************************)
(* The request line of an owner: `RequestLine` and its sender task         *)
(* (wbf-core/src/link_requests.rs) with the small tasks that wait for the  *)
(* replies.                                                                *)
(*                                                                         *)
(* The owner (the download queue) pushes requests to the back or the       *)
(* front, withdraws them and may push one again that it gave up, so a      *)
(* request can be out more than once.  The sender takes one at a time,     *)
(* borrows the open line of the pool, sends and goes on; a waiter task     *)
(* hands the reply back.  A line is what WsLink promises: it numbers the   *)
(* requests from the start again when it is reopened, answers in any       *)
(* order or not at all, and fails every waiter when it closes.  Another    *)
(* user of the line, who takes numbers too, only leaves gaps.  A lap of    *)
(* 2^31 numbers, where the line would refuse one as used, is left out.     *)
(***************************************************************************)
EXTENDS Naturals, Sequences, FiniteSets

CONSTANTS
  Asks,      \* the requests (`LineRequest`), each its own action
  MaxPush,   \* bound: how often the owner pushes each request
  MaxLine,   \* bound: how often the pool opens the line
  Nobody

ASSUME Bounds == MaxPush \in [Asks -> Nat] /\ MaxLine \in Nat /\ Nobody \notin Asks

VARIABLES
  queued,     \* LineQueue.queued
  hand, pc,   \* what the sender has taken out, and where it is
  held,       \* its copy of the line: the line's number, 0 is none
  handSeq,    \* the number the request in its hand was sent under
  onWire,     \* OnWire.requests: [seq, ask]
  quiet,      \* silence_timeout is over since heard_at
  waiters,    \* the pending replies: [line, seq, ask, got]; the hand's is not spawned yet
  line,       \* how often the line was opened
  alive,      \* the last of them is open
  findable,   \* and the pool's slot is not locked by who closes it
  nextSeq,    \* next_seq of that line
  pushed, taken, back,   \* per request: pushed, withdrawn, handed back
  whole,      \* history: the requests on the wire ever since heard_at
  crossed     \* history: the requests that met in one number of two lines

owner == <<pushed, taken>>
pool == <<line, alive, findable>>
ghosts == <<whole, crossed>>
vars == <<queued, hand, pc, held, handSeq, onWire, quiet, waiters, pool, nextSeq,
          owner, back, ghosts>>

Count(s, a) == Cardinality({i \in DOMAIN s : s[i] = a})

----------------------------------------------------------------------------
\* The owner's calls.

Push(a) ==
  /\ pushed[a] < MaxPush[a]
  /\ pushed' = [pushed EXCEPT ![a] = @ + 1]
  /\ UNCHANGED <<hand, pc, held, handSeq, onWire, quiet, waiters, pool, nextSeq, taken, back,
                 ghosts>>

PushBack(a) ==
  /\ Push(a)
  /\ queued' = Append(queued, a)

PushFront(a) ==
  /\ Push(a)
  /\ queued' = <<a>> \o queued

\* What is still queued goes, every copy of it; the others stay in their order.
Kept(a) == {i \in DOMAIN queued : queued[i] # a}
Place(a, i) == Cardinality({j \in Kept(a) : j <= i})
Retain(a) ==
  [n \in 1..Cardinality(Kept(a)) |-> queued[CHOOSE i \in Kept(a) : Place(a, i) = n]]

Withdraw(a) ==
  /\ Count(queued, a) > 0
  /\ queued' = Retain(a)
  /\ taken' = [taken EXCEPT ![a] = @ + Count(queued, a)]
  /\ UNCHANGED <<hand, pc, held, handSeq, onWire, quiet, waiters, pool, nextSeq, pushed, back,
                 ghosts>>

----------------------------------------------------------------------------
\* The sender.

HandBack(asks) ==
  back' = [a \in Asks |-> back[a] + Cardinality({r \in asks : r.ask = a})]

\* Mutant: the sender leaves it to the line to fail what is out.
NeverTimeOut ==
  /\ pc = "top"
  /\ pc' = "pop"
  /\ UNCHANGED <<queued, hand, held, handSeq, onWire, waiters, back, quiet, pool, nextSeq, owner,
                 ghosts>>

\* The loop's first step, time_out_if_silent: everything on the wire comes back,
\* and the tasks that waited for it are aborted.
TimeOutIfSilent ==
  /\ pc = "top"
  /\ IF quiet /\ onWire # {}
       THEN /\ HandBack(onWire)
            /\ onWire' = {}
            /\ waiters' = {}
       ELSE UNCHANGED <<onWire, waiters, back>>
  /\ pc' = "pop"
  /\ UNCHANGED <<queued, hand, held, handSeq, quiet, pool, nextSeq, owner, ghosts>>

\* pop_front, or a sleep until something is pushed or the check is due.
Pop ==
  /\ pc = "pop"
  /\ IF queued = <<>>
       THEN pc' = "top" /\ UNCHANGED <<queued, hand>>
       ELSE /\ hand' = Head(queued)
            /\ queued' = Tail(queued)
            /\ pc' = "link"
  /\ UNCHANGED <<held, handSeq, onWire, quiet, waiters, pool, nextSeq, owner, back, ghosts>>

HeldIsOpen == held # 0 /\ held = line /\ alive

\* Its own copy if that is open, the pool's line otherwise.
TakeLink ==
  /\ pc = "link"
  /\ HeldIsOpen \/ findable
  /\ held' = line
  /\ pc' = "send"
  /\ UNCHANGED <<queued, hand, handSeq, onWire, quiet, waiters, pool, nextSeq, owner, back, ghosts>>

PutBackInFront == queued' = <<hand>> \o queued

\* No line: back into the queue, and a nap.
NoLink ==
  /\ pc = "link"
  /\ ~HeldIsOpen /\ ~findable
  /\ PutBackInFront
  /\ hand' = Nobody
  /\ held' = 0
  /\ pc' = "top"
  /\ UNCHANGED <<handSeq, onWire, quiet, waiters, pool, nextSeq, owner, back, ghosts>>

\* Mutant: the queue numbers its own requests by what is out.
SeqOfWire == Cardinality(onWire)
SeqOfLine == nextSeq

\* send_request: a place in the line's table, and into its queue.
Send ==
  /\ pc = "send"
  /\ HeldIsOpen
  /\ handSeq' = SeqOfLine
  /\ nextSeq' = nextSeq + 1
  /\ waiters' = waiters \cup {[line |-> held, seq |-> handSeq', ask |-> hand, got |-> FALSE]}
  /\ pc' = "record"
  /\ UNCHANGED <<queued, hand, held, onWire, quiet, pool, owner, back, ghosts>>

\* Mutant: what could not be sent is dropped.
SendFailsSilently ==
  /\ pc = "send"
  /\ hand' = Nobody
  /\ pc' = "top"
  /\ UNCHANGED <<queued, held, handSeq, onWire, quiet, waiters, pool, nextSeq, owner, back, ghosts>>

\* The line closed meanwhile, or its queue did not drain: handed back at once.
SendFails ==
  /\ pc = "send"
  /\ HandBack({[ask |-> hand]})
  /\ hand' = Nobody
  /\ pc' = "top"
  /\ UNCHANGED <<queued, held, handSeq, onWire, quiet, waiters, pool, nextSeq, owner, ghosts>>

Sent == [seq |-> handSeq, ask |-> hand]
Recorded == {r \in onWire : r.seq # handSeq} \cup {Sent}

\* Who still waits under this number on an earlier line: the table knows a request by its
\* number alone, so that either may take, or has lost, what the other is to find there.
Clash == {w \in waiters : w.seq = handSeq /\ w.line # held}
Met == IF Clash = {} THEN {} ELSE {hand} \cup {w.ask : w \in Clash}

\* Into the wire table, and the waiter is spawned.
Record ==
  /\ pc = "record"
  /\ onWire' = Recorded
  /\ IF onWire = {} THEN quiet' = FALSE /\ whole' = onWire'
                    ELSE UNCHANGED <<quiet, whole>>
  /\ crossed' = crossed \cup Met
  /\ hand' = Nobody
  /\ pc' = "top"
  /\ UNCHANGED <<queued, held, handSeq, waiters, pool, nextSeq, owner, back>>

----------------------------------------------------------------------------
\* The waiter tasks.

Spawned(w) == ~(pc = "record" /\ w.line = held /\ w.seq = handSeq)

\* The reply, or the line's error, hands back what the wire table has under its
\* number, which a time-out may have emptied.
WaiterEnds(w) ==
  /\ w.got /\ Spawned(w)
  /\ waiters' = waiters \ {w}
  /\ onWire' = {r \in onWire : r.seq # w.seq}
  /\ HandBack(onWire \ onWire')
  /\ quiet' = FALSE
  /\ whole' = onWire'
  /\ UNCHANGED <<queued, hand, pc, held, handSeq, pool, nextSeq, owner, crossed>>

----------------------------------------------------------------------------
\* The line and the clock.

Answered(ws) == {[line |-> w.line, seq |-> w.seq, ask |-> w.ask, got |-> TRUE] : w \in ws}

Reply(w) ==
  /\ ~w.got
  /\ waiters' = (waiters \ {w}) \cup Answered({w})
  /\ UNCHANGED <<queued, hand, pc, held, handSeq, onWire, quiet, pool, nextSeq, owner, back,
                 ghosts>>

OpenLine ==
  /\ ~alive /\ line < MaxLine
  /\ line' = line + 1
  /\ alive' = TRUE /\ findable' = TRUE
  /\ nextSeq' = 0
  /\ UNCHANGED <<queued, hand, pc, held, handSeq, onWire, quiet, waiters, owner, back, ghosts>>

\* Somebody takes the slot to close the line in it.
LockSlot ==
  /\ findable
  /\ findable' = FALSE
  /\ UNCHANGED <<queued, hand, pc, held, handSeq, onWire, quiet, waiters, line, alive, nextSeq,
                 owner, back, ghosts>>

\* shut_down of the line: every entry fails.
CloseLine ==
  /\ alive
  /\ alive' = FALSE /\ findable' = FALSE
  /\ waiters' = Answered(waiters)
  /\ UNCHANGED <<queued, hand, pc, held, handSeq, onWire, quiet, line, nextSeq, owner, back,
                 ghosts>>

TimePasses ==
  /\ ~quiet
  /\ quiet' = TRUE
  /\ UNCHANGED <<queued, hand, pc, held, handSeq, onWire, waiters, pool, nextSeq, owner, back,
                 ghosts>>

----------------------------------------------------------------------------
Init ==
  /\ queued = <<>> /\ hand = Nobody /\ pc = "top" /\ held = 0 /\ handSeq = 0
  /\ onWire = {} /\ quiet = FALSE /\ waiters = {}
  /\ line = 0 /\ alive = FALSE /\ findable = FALSE /\ nextSeq = 0
  /\ pushed = [a \in Asks |-> 0] /\ taken = [a \in Asks |-> 0] /\ back = [a \in Asks |-> 0]
  /\ whole = {} /\ crossed = {}

Owner == \E a \in Asks : PushBack(a) \/ PushFront(a) \/ Withdraw(a)

Sender == TimeOutIfSilent \/ Pop \/ TakeLink \/ NoLink \/ Send \/ SendFails \/ Record

Waiter == \E w \in waiters : WaiterEnds(w)

Line == OpenLine \/ LockSlot \/ CloseLine \/ \E w \in waiters : Reply(w)

Next == Owner \/ Sender \/ Waiter \/ Line \/ TimePasses

Spec == Init /\ [][Next]_vars

\* The sender's loop and the waiters are tokio tasks that run when they can, and
\* the clock goes on.  Nothing is assumed of the line, the server and the owner.
FairSpec == Spec /\ WF_vars(Sender) /\ WF_vars(Waiter) /\ WF_vars(TimePasses)

----------------------------------------------------------------------------

\* Every request the owner pushed is in one place: queued, in the sender's hand,
\* on the wire, withdrawn, or handed back; so none is lost and none comes back
\* twice, whatever races with the reply, the time-out, the closing and the
\* reopening.  Only requests that met in one number of two lines are left out: there
\* the later one takes the place of the earlier in the table.
Held(a) == IF hand = a THEN 1 ELSE 0

ExactlyOnce ==
  \A a \in Asks \ crossed :
    pushed[a] = Count(queued, a) + Held(a) + Cardinality({r \in onWire : r.ask = a})
                + taken[a] + back[a]

\* A waiter finds its own request in the wire table, or none: no request is
\* handed back with the reply to another, unless the two met.
OwnResult ==
  \A w \in waiters : Spawned(w) =>
    \A r \in onWire : r.seq = w.seq => r.ask = w.ask \/ r.ask \in crossed

\* Whenever the sender may time the line out, something has been waiting on it
\* for the whole of the silence: a line that idled for hours is not timed out
\* right after the next request.
IsMet(r) == r.ask \in crossed
SilenceIsReal ==
  quiet /\ onWire # {} => \E r \in onWire : r \in whole \/ IsMet(r)

\* Both: what a request is handed back with, a reply or a time-out, is its own.
ResultsAreReal == OwnResult /\ SilenceIsReal

\* A request that is out comes back or is withdrawn, also when the server says
\* nothing, unless it waits in the queue for a line, or met another.
Out(a) == pushed[a] > taken[a] + back[a]

ComesBack ==
  \A a \in Asks :
    Out(a) ~> (~Out(a) \/ a \in crossed \/ (Count(queued, a) > 0 /\ ~findable))
=============================================================================
