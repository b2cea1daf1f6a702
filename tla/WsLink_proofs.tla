---------------------------- MODULE WsLink_proofs ----------------------------
(***************************************************************************)
(* Proofs about WsLink: its type invariant, that nobody waits on a closed  *)
(* line, that every entry of the table belongs to somebody, that a reply   *)
(* reaches its asker, that the line implements RequestContract, and that a *)
(* session gets its own packs, whole or with notice.                       *)
(***************************************************************************)
EXTENDS WsLink, TLAPS

LEMMA Sets ==
  /\ Asks \subseteq Oneshots /\ Pings \subseteq Oneshots
  /\ Streams \subseteq Named /\ Subs \subseteq Named
  /\ Oneshots \subseteq Calls /\ Named \subseteq Calls
  /\ Oneshots \cap Named = {} /\ Calls = Oneshots \cup Named
  /\ Chunks \subseteq Oneshots /\ Timed \subseteq Oneshots
BY CallSets DEF CallSets, Calls, Oneshots, Named

LEMMA PackType ==
  /\ Junk \in Pack
  /\ \A c \in Calls : Broken(c) \in Pack
  /\ \A kind \in {"reply", "part", "last", "error"}, c \in Calls, i \in Nat, s \in Nat, n \in Nat :
       [kind |-> kind, id |-> i, seq |-> s, to |-> c, n |-> n] \in Pack
BY DEF Junk, Broken, Pack, Kinds

LEMMA InitTypeOK == Init => TypeOK
<1> SUFFICES ASSUME Init PROVE TypeOK
  OBVIOUS
<1>1. TypeTable
  BY DEF Init, TypeTable
<1>2. TypeCallers
  BY DEF Init, TypeCallers, PcStates, Results
<1>3. TypeSinks
  BY DEF Init, TypeSinks
<1>4. TypeWire
  <2>1. outq \in Seq(Calls) /\ inbound \in Seq(Pack)
    BY DEF Init
  <2>2. over \subseteq Named /\ silent \in BOOLEAN
    BY DEF Init
  <2>3. asked \in [Calls -> Nat] /\ sent \in [Calls -> Nat]
    BY DEF Init
  <2>4. QED
    BY <2>1, <2>2, <2>3 DEF TypeWire
<1>5. TypeReader
  BY DEF Init, TypeReader
<1>6. QED
  BY <1>1, <1>2, <1>3, <1>4, <1>5 DEF TypeOK

LEMMA NextTypeOK == TypeOK /\ [Next]_vars => TypeOK'
<1> SUFFICES ASSUME TypeOK, [Next]_vars PROVE TypeOK'
  OBVIOUS
<1> USE Sets DEF TypeOK, Finish
<1>1. TypeTable'
  <2> USE DEF TypeTable, BeginShutDown, RemoveIf, Tasks
  <2>1. ASSUME NEW c \in Calls, Start(c) \/ Beat(c) PROVE TypeTable'
    BY <2>1 DEF Start, Beat, Register
  <2>2. ASSUME NEW c \in Calls, CallerStep(c) PROVE TypeTable'
    BY <2>2 DEF CallerStep, CheckOpen, Enqueue, SendFails, Receive, Elapse, FallSilent, Leave,
                NextPack, NextIsOver, NextTimesOut
  <2>3. ASSUME NEW c \in Calls, Cancel(c) \/ TakeGap(c) PROVE TypeTable'
    BY <2>3 DEF Cancel, TakeGap
  <2>4. ASSUME NEW c \in Calls, PongOverdue(c) \/ PulseAborted(c) PROVE TypeTable'
    BY <2>4 DEF PongOverdue, PulseAborted
  <2>5. CASE BeatFails \/ Close \/ FailAll \/ AbortTasks \/ WriterSends \/ WriterFails
    BY <2>5 DEF BeatFails, Close, FailAll, AbortTasks, WriterSends, WriterFails
  <2>6. CASE ReaderTakes \/ ReaderSkips \/ ReaderFails
    BY <2>6 DEF ReaderTakes, ReaderSkips, ReaderFails
  <2>7. CASE Dispatch
    BY <2>7 DEF Dispatch, DeliverOneshot, DeliverStream, DeliverSub
  <2>8. CASE ServerGarbles \/ ServerVanishes \/ \E c \in Calls : ServerReplies(c) \/ ServerPushes(c)
    BY <2>8 DEF ServerGarbles, ServerVanishes, ServerReplies, ServerPushes, Put
  <2>9. CASE UNCHANGED vars
    BY <2>9 DEF vars
  <2>10. QED
    BY <2>1, <2>2, <2>3, <2>4, <2>5, <2>6, <2>7, <2>8, <2>9
    DEF Next, PulseStep, ReaderStep, ShutDownStep, Environment
<1>2. TypeCallers'
  <2> USE DEF TypeCallers, PcStates, Results, callers
  <2>1. ASSUME NEW c \in Calls, Start(c) \/ Beat(c) PROVE TypeCallers'
    <3>1. SeqHalf \in Nat /\ \A d \in Chunks : ChunkIndex[d] \in Nat
      BY Limits DEF Limits
    <3>2. Register(c)
      BY <2>1 DEF Start, Beat
    <3>3. seq' \in [Calls -> Nat] /\ allocated' \in Nat
      BY <3>1, <3>2 DEF Register, LineSeq
    <3>4. pc' \in [Calls -> PcStates] /\ result' \in [Calls -> Results] /\ late' \subseteq Calls
      BY <3>2 DEF Register
    <3>5. UNCHANGED <<attempt, got, told>>
      BY <3>2 DEF Register
    <3>6. QED
      BY <3>3, <3>4, <3>5
  <2>2. ASSUME NEW c \in Calls, CheckOpen(c) \/ Enqueue(c) \/ SendFails(c) \/ Leave(c) PROVE TypeCallers'
    <3>1. CASE Enqueue(c)
      BY <3>1 DEF Enqueue
    <3>2. CASE CheckOpen(c) \/ SendFails(c) \/ Leave(c)
      BY <3>2 DEF CheckOpen, SendFails, Leave
    <3>3. QED
      BY <2>2, <3>1, <3>2
  <2>3. ASSUME NEW c \in Calls, Receive(c) \/ Elapse(c) \/ FallSilent(c) \/ NextTimesOut(c) PROVE TypeCallers'
    <3>1. CASE Receive(c)
      <4>1. UNCHANGED <<seq, attempt, got, told, allocated, late>>
        BY <3>1 DEF Receive
      <4>2. pc' \in [Calls -> PcStates] /\ result' \in [Calls -> Results]
        BY <3>1 DEF Receive, Finish
      <4>3. QED
        BY <4>1, <4>2
    <3>2. CASE Elapse(c)
      <4>1. UNCHANGED <<seq, attempt, got, told, allocated, late>>
        BY <3>2 DEF Elapse
      <4>2. NoReplyError \in Results
        BY DEF NoReplyError
      <4>3. pc' \in [Calls -> PcStates] /\ result' \in [Calls -> Results]
        BY <3>2, <4>2 DEF Elapse, Finish
      <4>4. QED
        BY <4>1, <4>3
    <3>3. CASE FallSilent(c) \/ NextTimesOut(c)
      BY <3>3 DEF FallSilent, NextTimesOut, NoReplyError
    <3>4. QED
      BY <2>3, <3>1, <3>2, <3>3
  <2>4. ASSUME NEW c \in Calls, NextIsOver(c) PROVE TypeCallers'
    <3>1. reason[c] \in {"none", "network", "protocol"}
      BY <2>4 DEF NextIsOver, TypeSinks
    <3>2. QED
      BY <2>4, <3>1 DEF NextIsOver
  <2>5. ASSUME NEW c \in Calls, NextPack(c) PROVE TypeCallers'
    <3>1. Head(inbox[c]) \in Pack
      BY <2>5 DEF NextPack, TypeSinks
    <3>2. QED
      BY <2>5, <3>1 DEF NextPack
  <2>6. ASSUME NEW c \in Calls, Cancel(c) \/ TakeGap(c) PROVE TypeCallers'
    <3>1. CASE Cancel(c)
      BY <3>1 DEF Cancel
    <3>2. CASE TakeGap(c)
      <4>1. c \in Subs /\ seen[c] \in Nat
        BY <3>2 DEF TakeGap, TypeSinks
      <4>2. QED
        BY <3>2, <4>1 DEF TakeGap
    <3>3. QED
      BY <2>6, <3>1, <3>2
  <2>7. ASSUME NEW c \in Calls, PongOverdue(c) \/ PulseAborted(c) PROVE TypeCallers'
    <3>1. CASE PongOverdue(c)
      <4>1. UNCHANGED <<seq, attempt, got, told, allocated, late>>
        BY <3>1 DEF PongOverdue
      <4>2. pc' \in [Calls -> PcStates] /\ result' \in [Calls -> Results]
        BY <3>1 DEF PongOverdue, Finish
      <4>3. QED
        BY <4>1, <4>2
    <3>2. CASE PulseAborted(c)
      <4>1. UNCHANGED <<seq, attempt, got, told, allocated, late>>
        BY <3>2 DEF PulseAborted
      <4>2. pc' \in [Calls -> PcStates] /\ result' \in [Calls -> Results]
        BY <3>2 DEF PulseAborted, Finish
      <4>3. QED
        BY <4>1, <4>2
    <3>3. QED
      BY <2>7, <3>1, <3>2
  <2>8. CASE BeatFails \/ Close \/ FailAll \/ AbortTasks \/ WriterSends \/ WriterFails
    BY <2>8 DEF BeatFails, Close, FailAll, AbortTasks, WriterSends, WriterFails
  <2>9. CASE ReaderTakes \/ ReaderSkips \/ ReaderFails \/ Dispatch
    <3>1. UNCHANGED callers
      BY <2>9 DEF ReaderTakes, ReaderSkips, ReaderFails, Dispatch
    <3>2. QED
      BY <3>1
  <2>10. CASE ServerGarbles \/ ServerVanishes \/ \E c \in Calls : ServerReplies(c) \/ ServerPushes(c)
    <3>1. UNCHANGED callers
      BY <2>10 DEF ServerGarbles, ServerVanishes, ServerReplies, ServerPushes, Put
    <3>2. QED
      BY <3>1
  <2>11. CASE UNCHANGED vars
    BY <2>11 DEF vars
  <2>12. QED
    BY <2>1, <2>2, <2>3, <2>4, <2>5, <2>6, <2>7, <2>8, <2>9, <2>10, <2>11
    DEF Next, CallerStep, PulseStep, ReaderStep, ShutDownStep, Environment
<1>3. TypeSinks'
  <2> USE DEF TypeSinks, sinks
  <2>1. ASSUME NEW c \in Calls, Start(c) \/ Beat(c) PROVE TypeSinks'
    BY <2>1 DEF Start, Beat, Register
  <2>2. ASSUME NEW c \in Calls, CheckOpen(c) \/ Enqueue(c) \/ SendFails(c) \/ Receive(c) PROVE TypeSinks'
    BY <2>2 DEF CheckOpen, Enqueue, SendFails, Receive
  <2>3. ASSUME NEW c \in Calls, Elapse(c) \/ FallSilent(c) \/ NextIsOver(c) \/ NextTimesOut(c)
        PROVE TypeSinks'
    BY <2>3 DEF Elapse, FallSilent, NextIsOver, NextTimesOut
  <2>4. ASSUME NEW c \in Calls, Leave(c) \/ Cancel(c) \/ PulseAborted(c) PROVE TypeSinks'
    <3>1. inbox' = [inbox EXCEPT ![c] = <<>>] /\ UNCHANGED <<reason, gap, seen>>
      BY <2>4 DEF Leave, Cancel, PulseAborted
    <3>2. QED
      BY <3>1
  <2>5. ASSUME NEW c \in Calls, NextPack(c) PROVE TypeSinks'
    <3>1. Tail(inbox[c]) \in Seq(Pack)
      BY <2>5 DEF NextPack
    <3>2. QED
      BY <2>5, <3>1 DEF NextPack
  <2>6. ASSUME NEW c \in Calls, TakeGap(c) PROVE TypeSinks'
    BY <2>6 DEF TakeGap
  <2>7. ASSUME NEW c \in Calls, PongOverdue(c) PROVE TypeSinks'
    BY <2>7 DEF PongOverdue
  <2>8. CASE FailAll
    <3>1. inbox' \in [Calls -> Seq(Pack)]
      BY <2>8, PackType DEF FailAll
    <3>2. reason' \in [Named -> {"none", "network", "protocol"}]
      BY <2>8 DEF FailAll
    <3>3. QED
      BY <2>8, <3>1, <3>2 DEF FailAll
  <2>9. CASE BeatFails \/ Close \/ AbortTasks \/ WriterSends \/ WriterFails
    BY <2>9 DEF BeatFails, Close, AbortTasks, WriterSends, WriterFails
  <2>10. CASE ReaderTakes \/ ReaderSkips \/ ReaderFails
    BY <2>10 DEF ReaderTakes, ReaderSkips, ReaderFails
  <2>11. CASE Dispatch
    <3> DEFINE p == Head(inhand)
    <3>1. p \in Pack
      BY <2>11 DEF Dispatch, TypeReader
    <3> HIDE DEF p
    <3>2. p.n \in Nat
      BY <3>1 DEF Pack
    <3>3. ASSUME NEW c \in Oneshots, DeliverOneshot(c, p) PROVE TypeSinks'
      BY <3>1, <3>3 DEF DeliverOneshot
    <3>4. ASSUME NEW c \in Streams, DeliverStream(c, p) PROVE TypeSinks'
      <4>1. inbox' \in [Calls -> Seq(Pack)]
        BY <3>1, <3>4 DEF DeliverStream
      <4>2. QED
        BY <4>1, <3>4 DEF DeliverStream
    <3>5. ASSUME NEW c \in Subs, DeliverSub(c, p) PROVE TypeSinks'
      <4>1. inbox' \in [Calls -> Seq(Pack)]
        BY <3>1, <3>5 DEF DeliverSub
      <4>2. gap' \in [Subs -> BOOLEAN] /\ seen' \in [Subs -> Nat]
        BY <3>2, <3>5 DEF DeliverSub
      <4>3. reason' \in [Named -> {"none", "network", "protocol"}]
        BY <3>5 DEF DeliverSub
      <4>4. QED
        BY <4>1, <4>2, <4>3
    <3>6. QED
      BY <2>11, <3>3, <3>4, <3>5 DEF Dispatch, p
  <2>12. CASE ServerGarbles \/ ServerVanishes \/ \E c \in Calls : ServerReplies(c) \/ ServerPushes(c)
    BY <2>12 DEF ServerGarbles, ServerVanishes, ServerReplies, ServerPushes, Put
  <2>13. CASE UNCHANGED vars
    BY <2>13 DEF vars
  <2>14. QED
    BY <2>1, <2>2, <2>3, <2>4, <2>5, <2>6, <2>7, <2>8, <2>9, <2>10, <2>11, <2>12, <2>13
    DEF Next, CallerStep, PulseStep, ReaderStep, ShutDownStep, Environment
<1>4. TypeWire'
  <2> USE DEF TypeWire, wire
  <2>1. ASSUME NEW c \in Calls, Start(c) \/ Beat(c) PROVE TypeWire'
    BY <2>1 DEF Start, Beat, Register
  <2>2. ASSUME NEW c \in Calls, Enqueue(c) PROVE TypeWire'
    BY <2>2 DEF Enqueue
  <2>3. ASSUME NEW c \in Calls, CheckOpen(c) \/ SendFails(c) \/ Receive(c) \/ Elapse(c) \/ FallSilent(c)
        PROVE TypeWire'
    BY <2>3 DEF CheckOpen, SendFails, Receive, Elapse, FallSilent
  <2>4. ASSUME NEW c \in Calls, Leave(c) \/ NextPack(c) \/ NextIsOver(c) \/ NextTimesOut(c)
        PROVE TypeWire'
    BY <2>4 DEF Leave, NextPack, NextIsOver, NextTimesOut
  <2>5. ASSUME NEW c \in Calls, Cancel(c) \/ TakeGap(c) \/ PongOverdue(c) \/ PulseAborted(c)
        PROVE TypeWire'
    BY <2>5 DEF Cancel, TakeGap, PongOverdue, PulseAborted
  <2>6. CASE BeatFails \/ Close \/ FailAll \/ AbortTasks
    BY <2>6 DEF BeatFails, Close, FailAll, AbortTasks
  <2>7. CASE WriterSends \/ WriterFails
    <3>1. Head(outq) \in Calls /\ Tail(outq) \in Seq(Calls)
      BY <2>7 DEF WriterSends, WriterFails
    <3>2. CASE WriterSends
      <4>1. asked' \in [Calls -> Nat]
        BY <3>1, <3>2 DEF WriterSends
      <4>2. QED
        BY <3>1, <3>2, <4>1 DEF WriterSends
    <3>3. CASE WriterFails
      BY <3>1, <3>3 DEF WriterFails
    <3>4. QED
      BY <2>7, <3>2, <3>3
  <2>8. CASE ReaderTakes \/ ReaderSkips
    <3>1. Tail(inbound) \in Seq(Pack)
      BY <2>8 DEF ReaderTakes, ReaderSkips
    <3>2. QED
      BY <2>8, <3>1 DEF ReaderTakes, ReaderSkips
  <2>9. CASE ReaderFails \/ Dispatch
    BY <2>9 DEF ReaderFails, Dispatch
  <2>10. ASSUME NEW c \in Calls, ServerReplies(c) PROVE TypeWire'
    <3>1. ReplyId[c] \in Nat /\ seq[c] \in Nat
      BY Headers DEF Headers, TypeCallers
    <3>2. [kind |-> "reply", id |-> ReplyId[c], seq |-> seq[c], to |-> c, n |-> 0] \in Pack
      BY <3>1, PackType
    <3>3. QED
      BY <2>10, <3>2 DEF ServerReplies, Put
  <2>11. ASSUME NEW c \in Calls, ServerPushes(c) PROVE TypeWire'
    <3>1. Id[c] \in Nat /\ seq[c] \in Nat /\ sent[c] + 1 \in Nat
      BY Headers DEF Headers, TypeCallers
    <3>2. PICK kind \in {"part", "last", "error"} :
            /\ Put([kind |-> kind, id |-> Id[c], seq |-> seq[c], to |-> c, n |-> sent[c] + 1])
            /\ over' = IF kind = "part" THEN over ELSE over \cup {c}
      BY <2>11 DEF ServerPushes
    <3>3. [kind |-> kind, id |-> Id[c], seq |-> seq[c], to |-> c, n |-> sent[c] + 1] \in Pack
      BY <3>1, PackType
    <3>4. QED
      BY <2>11, <3>2, <3>3 DEF ServerPushes, Put
  <2>12. CASE ServerGarbles
    BY <2>12, PackType DEF ServerGarbles, Put
  <2>13. CASE ServerVanishes
    BY <2>13 DEF ServerVanishes
  <2>14. CASE UNCHANGED vars
    BY <2>14 DEF vars
  <2>15. QED
    BY <2>1, <2>2, <2>3, <2>4, <2>5, <2>6, <2>7, <2>8, <2>9, <2>10, <2>11, <2>12, <2>13, <2>14
    DEF Next, CallerStep, PulseStep, ReaderStep, ShutDownStep, Environment
<1>5. TypeReader'
  <2> USE DEF TypeReader
  <2>1. ASSUME NEW c \in Calls, Start(c) \/ Beat(c) PROVE TypeReader'
    BY <2>1 DEF Start, Beat, Register
  <2>2. ASSUME NEW c \in Calls, CallerStep(c) PROVE TypeReader'
    BY <2>2 DEF CallerStep, CheckOpen, Enqueue, SendFails, Receive, Elapse, FallSilent, Leave,
                NextPack, NextIsOver, NextTimesOut
  <2>3. ASSUME NEW c \in Calls, Cancel(c) \/ TakeGap(c) \/ PongOverdue(c) \/ PulseAborted(c)
        PROVE TypeReader'
    BY <2>3 DEF Cancel, TakeGap, PongOverdue, PulseAborted
  <2>4. CASE BeatFails \/ Close \/ FailAll \/ AbortTasks \/ WriterSends \/ WriterFails
    BY <2>4 DEF BeatFails, Close, FailAll, AbortTasks, WriterSends, WriterFails
  <2>5. CASE ReaderTakes
    <3>1. Head(inbound) \in Pack
      BY <2>5 DEF ReaderTakes, TypeWire
    <3>2. QED
      BY <2>5, <3>1 DEF ReaderTakes
  <2>6. CASE ReaderSkips \/ ReaderFails \/ Dispatch
    <3>1. CASE Dispatch
      BY <3>1 DEF Dispatch
    <3>2. CASE ReaderSkips
      BY <3>2 DEF ReaderSkips
    <3>3. CASE ReaderFails
      BY <3>3 DEF ReaderFails
    <3>4. QED
      BY <2>6, <3>1, <3>2, <3>3
  <2>7. CASE ServerGarbles \/ ServerVanishes \/ \E c \in Calls : ServerReplies(c) \/ ServerPushes(c)
    BY <2>7 DEF ServerGarbles, ServerVanishes, ServerReplies, ServerPushes, Put
  <2>8. CASE UNCHANGED vars
    BY <2>8 DEF vars
  <2>9. QED
    BY <2>1, <2>2, <2>3, <2>4, <2>5, <2>6, <2>7, <2>8
    DEF Next, CallerStep, PulseStep, ReaderStep, ShutDownStep, Environment
<1>6. QED
  BY <1>1, <1>2, <1>3, <1>4, <1>5

\* Every variable keeps the type TypeOK gives it, whatever the callers, the
\* tasks and the server do.
THEOREM TypeCorrect == Spec => []TypeOK
BY InitTypeOK, NextTypeOK, PTL DEF Spec

----------------------------------------------------------------------------
\* The line after shut_down.  A caller passes CheckOpen only on an open line, so
\* what is in the table when fail_all has run has yet to look at `closed`.
LEMMA NextNoWaiter == TypeOK /\ NoWaiterAfterClose /\ [Next]_vars => NoWaiterAfterClose'
<1> SUFFICES ASSUME TypeOK, NoWaiterAfterClose, [Next]_vars PROVE NoWaiterAfterClose'
  OBVIOUS
<1> USE Sets DEF TypeOK, TypeTable, TypeCallers, NoWaiterAfterClose, Finish, RemoveIf,
                 BeginShutDown, callers
<1>1. ASSUME NEW c \in Calls, Start(c) \/ Beat(c) PROVE NoWaiterAfterClose'
  BY <1>1 DEF Start, Beat, Register
<1>2. ASSUME NEW c \in Calls, CheckOpen(c) PROVE NoWaiterAfterClose'
  BY <1>2 DEF CheckOpen, closed
<1>3. ASSUME NEW c \in Calls, Enqueue(c) PROVE NoWaiterAfterClose'
  BY <1>3 DEF Enqueue
<1>4. ASSUME NEW c \in Calls, SendFails(c) \/ Receive(c) \/ Elapse(c) \/ FallSilent(c)
      PROVE NoWaiterAfterClose'
  BY <1>4 DEF SendFails, Receive, Elapse, FallSilent
<1>5. ASSUME NEW c \in Calls, Leave(c) \/ NextPack(c) \/ NextIsOver(c) \/ NextTimesOut(c)
      PROVE NoWaiterAfterClose'
  BY <1>5 DEF Leave, NextPack, NextIsOver, NextTimesOut
<1>6. ASSUME NEW c \in Calls, Cancel(c) \/ TakeGap(c) \/ PulseAborted(c) PROVE NoWaiterAfterClose'
  BY <1>6 DEF Cancel, TakeGap, PulseAborted
<1>7. ASSUME NEW c \in Calls, PongOverdue(c) PROVE NoWaiterAfterClose'
  BY <1>7 DEF PongOverdue
<1>8. CASE BeatFails \/ Close \/ FailAll \/ AbortTasks \/ WriterSends \/ WriterFails
  BY <1>8 DEF BeatFails, Close, FailAll, AbortTasks, WriterSends, WriterFails
<1>9. CASE ReaderTakes \/ ReaderSkips \/ ReaderFails
  BY <1>9 DEF ReaderTakes, ReaderSkips, ReaderFails
<1>10. CASE Dispatch
  BY <1>10 DEF Dispatch, DeliverOneshot, DeliverStream, DeliverSub
<1>11. CASE ServerGarbles \/ ServerVanishes \/ \E c \in Calls : ServerReplies(c) \/ ServerPushes(c)
  BY <1>11 DEF ServerGarbles, ServerVanishes, ServerReplies, ServerPushes, Put
<1>12. CASE UNCHANGED vars
  BY <1>12 DEF vars
<1>13. QED
  BY <1>1, <1>2, <1>3, <1>4, <1>5, <1>6, <1>7, <1>8, <1>9, <1>10, <1>11, <1>12
  DEF Next, CallerStep, PulseStep, ReaderStep, ShutDownStep, Environment

\* Once fail_all has emptied the table of a closed line, no caller is left
\* waiting on an entry that nobody will ever deliver to or fail.
THEOREM NobodyWaitsOnAClosedLine == Spec => []NoWaiterAfterClose
<1>1. Init => NoWaiterAfterClose
  BY DEF Init, NoWaiterAfterClose
<1>2. QED
  BY <1>1, TypeCorrect, NextNoWaiter, PTL DEF Spec

----------------------------------------------------------------------------
\* Every entry belongs to a call that has begun; a call that is over and still
\* has one was dropped where it had no guard.
EntriesOwned ==
  \A c \in entries : pc[c] # "idle" /\ (pc[c] = "done" => result[c] = "dropped")

LEMMA NextEntriesOwned == TypeOK /\ EntriesOwned /\ [Next]_vars => EntriesOwned'
<1> SUFFICES ASSUME TypeOK, EntriesOwned, [Next]_vars PROVE EntriesOwned'
  OBVIOUS
<1> USE Sets DEF TypeOK, TypeTable, TypeCallers, EntriesOwned, Finish, RemoveIf, callers
<1>1. ASSUME NEW c \in Calls, Start(c) \/ Beat(c) PROVE EntriesOwned'
  BY <1>1 DEF Start, Beat, Register
<1>2. ASSUME NEW c \in Calls, CheckOpen(c) \/ Enqueue(c) \/ SendFails(c) PROVE EntriesOwned'
  BY <1>2 DEF CheckOpen, Enqueue, SendFails
<1>3. ASSUME NEW c \in Calls, Receive(c) \/ Elapse(c) \/ FallSilent(c) PROVE EntriesOwned'
  BY <1>3 DEF Receive, Elapse, FallSilent
<1>4. ASSUME NEW c \in Calls, Leave(c) \/ NextPack(c) \/ NextIsOver(c) \/ NextTimesOut(c)
      PROVE EntriesOwned'
  BY <1>4 DEF Leave, NextPack, NextIsOver, NextTimesOut
<1>5. ASSUME NEW c \in Calls, Cancel(c) \/ TakeGap(c) \/ PulseAborted(c) PROVE EntriesOwned'
  <2>1. CASE Cancel(c)
    BY <2>1 DEF Cancel
  <2>2. CASE TakeGap(c)
    BY <2>2 DEF TakeGap
  <2>3. CASE PulseAborted(c)
    BY <2>3 DEF PulseAborted
  <2>4. QED
    BY <1>5, <2>1, <2>2, <2>3
<1>6. ASSUME NEW c \in Calls, PongOverdue(c) PROVE EntriesOwned'
  BY <1>6 DEF PongOverdue
<1>7. CASE BeatFails \/ Close \/ FailAll \/ AbortTasks \/ WriterSends \/ WriterFails
  BY <1>7 DEF BeatFails, Close, FailAll, AbortTasks, WriterSends, WriterFails
<1>8. CASE ReaderTakes \/ ReaderSkips \/ ReaderFails
  BY <1>8 DEF ReaderTakes, ReaderSkips, ReaderFails
<1>9. CASE Dispatch
  BY <1>9 DEF Dispatch, DeliverOneshot, DeliverStream, DeliverSub
<1>10. CASE ServerGarbles \/ ServerVanishes \/ \E c \in Calls : ServerReplies(c) \/ ServerPushes(c)
  BY <1>10 DEF ServerGarbles, ServerVanishes, ServerReplies, ServerPushes, Put
<1>11. CASE UNCHANGED vars
  BY <1>11 DEF vars
<1>12. QED
  BY <1>1, <1>2, <1>3, <1>4, <1>5, <1>6, <1>7, <1>8, <1>9, <1>10, <1>11
  DEF Next, CallerStep, PulseStep, ReaderStep, ShutDownStep, Environment

\* No path of return leaves its entry in the table: what stays behind belongs
\* to a future that was dropped inside `send` or inside request_with_policy.
THEOREM NoEntryIsForgotten == Spec => []NoOrphanEntry
<1>1. Init => EntriesOwned
  BY DEF Init, EntriesOwned
<1>2. EntriesOwned => NoOrphanEntry
  BY DEF EntriesOwned, NoOrphanEntry
<1>3. QED
  BY <1>1, <1>2, TypeCorrect, NextEntriesOwned, PTL DEF Spec

----------------------------------------------------------------------------
\* Who gets which reply.  A call has its number from the moment it begins; the
\* numbers the line gives out lie above every chunk index and are all distinct.
Begun(c) == pc[c] # "idle"

Numbered ==
  /\ \A c \in Chunks : Begun(c) => seq[c] = ChunkIndex[c]
  /\ \A c \in Calls \ Chunks : Begun(c) => seq[c] >= SeqHalf /\ seq[c] < SeqHalf + allocated
  /\ \A c, d \in Calls \ Chunks : Begun(c) /\ Begun(d) /\ seq[c] = seq[d] => c = d

\* A step that starts no call.
StartsNobody ==
  /\ UNCHANGED <<seq, allocated, late>>
  /\ \A c \in Calls : pc'[c] = "idle" <=> pc[c] = "idle"

Starts(c) == pc[c] = "idle" /\ Register(c)

LEMMA StepsOfCallers ==
  TypeOK /\ [Next]_vars => StartsNobody \/ \E c \in Calls : Starts(c)
<1> SUFFICES ASSUME TypeOK, [Next]_vars PROVE StartsNobody \/ \E c \in Calls : Starts(c)
  OBVIOUS
<1> USE Sets DEF TypeOK, TypeCallers, StartsNobody, Finish, callers
<1>1. ASSUME NEW c \in Calls, Start(c) \/ Beat(c) PROVE Starts(c)
  BY <1>1 DEF Start, Beat, Starts
<1>2. ASSUME NEW c \in Calls, CheckOpen(c) \/ Enqueue(c) \/ SendFails(c) PROVE StartsNobody
  BY <1>2 DEF CheckOpen, Enqueue, SendFails
<1>3. ASSUME NEW c \in Calls, Receive(c) \/ Elapse(c) \/ FallSilent(c) PROVE StartsNobody
  BY <1>3 DEF Receive, Elapse, FallSilent
<1>4. ASSUME NEW c \in Calls, Leave(c) \/ NextPack(c) \/ NextIsOver(c) \/ NextTimesOut(c)
      PROVE StartsNobody
  BY <1>4 DEF Leave, NextPack, NextIsOver, NextTimesOut
<1>5. ASSUME NEW c \in Calls, Cancel(c) \/ TakeGap(c) \/ PulseAborted(c) PROVE StartsNobody
  BY <1>5 DEF Cancel, TakeGap, PulseAborted
<1>6. ASSUME NEW c \in Calls, PongOverdue(c) PROVE StartsNobody
  BY <1>6 DEF PongOverdue
<1>7. CASE BeatFails \/ Close \/ FailAll \/ AbortTasks \/ WriterSends \/ WriterFails
  BY <1>7 DEF BeatFails, Close, FailAll, AbortTasks, WriterSends, WriterFails
<1>8. CASE ReaderTakes \/ ReaderSkips \/ ReaderFails \/ Dispatch
  BY <1>8 DEF ReaderTakes, ReaderSkips, ReaderFails, Dispatch
<1>9. CASE ServerGarbles \/ ServerVanishes \/ \E c \in Calls : ServerReplies(c) \/ ServerPushes(c)
  BY <1>9 DEF ServerGarbles, ServerVanishes, ServerReplies, ServerPushes, Put
<1>10. CASE UNCHANGED vars
  BY <1>10 DEF vars
<1>11. QED
  BY <1>1, <1>2, <1>3, <1>4, <1>5, <1>6, <1>7, <1>8, <1>9, <1>10
  DEF Next, CallerStep, PulseStep, ReaderStep, ShutDownStep, Environment

LEMMA NextNumbered == TypeOK /\ Numbered /\ [Next]_vars => Numbered'
<1> SUFFICES ASSUME TypeOK, Numbered, [Next]_vars PROVE Numbered'
  OBVIOUS
<1>1. CASE StartsNobody
  BY <1>1, Sets DEF StartsNobody, Numbered, Begun
<1>2. ASSUME NEW c \in Calls, Starts(c) PROVE Numbered'
  <2>1. SeqHalf \in Nat /\ allocated \in Nat
    BY Limits DEF Limits, TypeOK, TypeCallers
  <2>2. seq' = [seq EXCEPT ![c] = IF c \in Chunks THEN ChunkIndex[c] ELSE SeqHalf + allocated]
    BY <1>2 DEF Starts, Register, LineSeq
  <2>3. allocated' = IF c \in Chunks THEN allocated ELSE allocated + 1
    BY <1>2 DEF Starts, Register
  <2>4. \A d \in Calls : d # c => (Begun(d)' <=> Begun(d)) /\ seq'[d] = seq[d]
    BY <1>2, <2>2 DEF Starts, Register, Begun, TypeOK, TypeCallers
  <2>5. seq'[c] = IF c \in Chunks THEN ChunkIndex[c] ELSE SeqHalf + allocated
    BY <2>2 DEF TypeOK, TypeCallers
  <2>6. \A d \in Calls : seq[d] \in Nat
    BY DEF TypeOK, TypeCallers
  <2>7. ~Begun(c)
    BY <1>2 DEF Starts, Begun
  <2>8. \A d \in Chunks : Begun(d)' => seq'[d] = ChunkIndex[d]
    BY <2>4, <2>5, Sets DEF Numbered
  <2>9. \A d \in Calls \ Chunks : Begun(d)' => seq'[d] >= SeqHalf /\ seq'[d] < SeqHalf + allocated'
    BY <2>1, <2>3, <2>4, <2>5, <2>6 DEF Numbered
  <2>10. \A d, e \in Calls \ Chunks : Begun(d)' /\ Begun(e)' /\ seq'[d] = seq'[e] => d = e
    BY <2>1, <2>4, <2>5, <2>6 DEF Numbered
  <2>11. QED
    BY <2>8, <2>9, <2>10 DEF Numbered
<1>3. QED
  BY <1>1, <1>2, StepsOfCallers

\* A pack on its way copies the header of a request that was made and answered.
Faithful(p) ==
  /\ p.to \in Calls /\ Begun(p.to) /\ sent[p.to] > 0
  /\ p.seq = seq[p.to] /\ p.id = ReplyId[p.to]

OnTheWire ==
  /\ \A i \in 1 .. Len(outq) : Begun(outq[i])
  /\ \A c \in Calls : asked[c] > 0 => Begun(c)
  /\ \A i \in 1 .. Len(inbound) : inbound[i].kind # "junk" => Faithful(inbound[i])
  /\ \A i \in 1 .. Len(inhand) : Faithful(inhand[i])

\* A oneshot slot holds an error of its own, or a reply to its own request.
SlotsOwned ==
  \A c \in Oneshots : \A i \in 1 .. Len(inbox[c]) :
    /\ SameRequest(inbox[c][i].to, c)
    /\ inbox[c][i].kind # "broken" => sent[inbox[c][i].to] > 0

\* The heart of it: the entry find_key picks for a pack is the one that asked
\* for it, or asked for the very same chunk.
LEMMA FoundIsAsker ==
  ASSUME TypeOK, Numbered, EntriesOwned, NEW p \in Pack, Faithful(p),
         NEW c \in Oneshots, c \in FindKey(p)
  PROVE  SameRequest(p.to, c)
<1> DEFINE d == p.to
<1>1. c \in Calls /\ d \in Calls /\ Begun(d) /\ p.seq = seq[d] /\ p.id = ReplyId[d]
  BY Sets DEF Faithful
<1>2. c \in Exact(p) \/ c \in Created(p)
  BY Sets DEF FindKey, Session
<1>3. c \in entries /\ seq[c] = seq[d] /\ (Id[c] = ReplyId[d] \/ Id[c] = 0)
  BY <1>1, <1>2 DEF Exact, Created
<1>4. Begun(c)
  BY <1>3 DEF EntriesOwned, Begun
<1>5. SeqHalf \in Nat /\ \A x \in Chunks : ChunkIndex[x] \in Nat /\ ChunkIndex[x] < SeqHalf
  BY Limits DEF Limits
<1>6. seq[c] \in Nat /\ seq[d] \in Nat
  BY <1>1 DEF TypeOK, TypeCallers
<1>7. CASE d \notin Chunks
  <2>1. seq[d] >= SeqHalf
    BY <1>1, <1>7 DEF Numbered
  <2>2. c \notin Chunks
    BY <1>3, <1>4, <1>5, <1>6, <2>1 DEF Numbered
  <2>3. c = d
    BY <1>1, <1>3, <1>4, <1>7, <2>2 DEF Numbered
  <2>4. QED
    BY <2>3 DEF SameRequest
<1>8. CASE d \in Chunks
  <2>1. seq[d] = ChunkIndex[d]
    BY <1>1, <1>8 DEF Numbered
  <2>2. c \in Chunks
    BY <1>1, <1>3, <1>4, <1>5, <1>6, <1>8, <2>1 DEF Numbered
  <2>3. Id[c] # 0 /\ Id[d] # 0 /\ ReplyId[d] = Id[d]
    BY <1>1, <1>8, <2>2, Headers DEF Headers
  <2>4. ChunkIndex[c] = ChunkIndex[d] /\ Id[c] = Id[d]
    BY <1>3, <1>4, <2>1, <2>2, <2>3 DEF Numbered
  <2>5. QED
    BY <1>8, <2>2, <2>4 DEF SameRequest
<1>9. QED
  BY <1>7, <1>8

\* A step keeps the header, the beginning and the answers of every call.
LEMMA FaithfulStays ==
  ASSUME TypeOK, Numbered, [Next]_vars, \A c \in Calls : sent'[c] >= sent[c]
  PROVE  \A p \in Pack : Faithful(p) => Faithful(p)'
<1> SUFFICES ASSUME NEW p \in Pack, Faithful(p) PROVE Faithful(p)'
  OBVIOUS
<1>1. p.to \in Calls /\ Begun(p.to) /\ sent[p.to] > 0 /\ sent[p.to] \in Nat
  BY DEF Faithful, TypeOK, TypeWire
<1>2. sent'[p.to] >= sent[p.to] /\ sent'[p.to] \in Nat
  BY <1>1, NextTypeOK DEF TypeOK, TypeWire
<1>3. CASE StartsNobody
  BY <1>1, <1>2, <1>3 DEF Faithful, StartsNobody, Begun
<1>4. ASSUME NEW c \in Calls, Starts(c) PROVE Faithful(p)'
  <2>1. c # p.to
    BY <1>1, <1>4 DEF Starts, Begun
  <2>2. seq'[p.to] = seq[p.to] /\ pc'[p.to] = pc[p.to]
    BY <1>1, <1>4, <2>1 DEF Starts, Register, TypeOK, TypeCallers
  <2>3. QED
    BY <1>1, <1>2, <2>2 DEF Faithful, Begun
<1>5. QED
  BY <1>3, <1>4, StepsOfCallers

LEMMA BegunStays ==
  ASSUME TypeOK, [Next]_vars, NEW c \in Calls, Begun(c)
  PROVE  Begun(c)'
<1>1. CASE StartsNobody
  BY <1>1 DEF StartsNobody, Begun
<1>2. ASSUME NEW d \in Calls, Starts(d) PROVE Begun(c)'
  BY <1>2 DEF Starts, Register, Begun, TypeOK, TypeCallers
<1>3. QED
  BY <1>1, <1>2, StepsOfCallers

LEMMA SentGrows == TypeOK /\ [Next]_vars => \A c \in Calls : sent'[c] >= sent[c]
<1> SUFFICES ASSUME TypeOK, [Next]_vars, NEW c \in Calls PROVE sent'[c] >= sent[c]
  OBVIOUS
<1>1. sent[c] \in Nat
  BY DEF TypeOK, TypeWire
<1>2. CASE UNCHANGED sent
  BY <1>1, <1>2
<1>3. ASSUME NEW d \in Calls, sent' = [sent EXCEPT ![d] = @ + 1] PROVE sent'[c] >= sent[c]
  BY <1>1, <1>3 DEF TypeOK, TypeWire
<1>4. UNCHANGED sent \/ \E d \in Calls : sent' = [sent EXCEPT ![d] = @ + 1]
  <2> USE DEF wire
  <2>1. ASSUME NEW d \in Calls, Start(d) \/ Beat(d) PROVE UNCHANGED sent
    BY <2>1 DEF Start, Beat, Register
  <2>2. ASSUME NEW d \in Calls, CallerStep(d) PROVE UNCHANGED sent
    BY <2>2 DEF CallerStep, CheckOpen, Enqueue, SendFails, Receive, Elapse, FallSilent, Leave,
                NextPack, NextIsOver, NextTimesOut
  <2>3. ASSUME NEW d \in Calls, Cancel(d) \/ TakeGap(d) \/ PulseAborted(d) \/ PongOverdue(d)
        PROVE UNCHANGED sent
    BY <2>3 DEF Cancel, TakeGap, PulseAborted, PongOverdue
  <2>4. CASE BeatFails \/ Close \/ FailAll \/ AbortTasks \/ WriterSends \/ WriterFails
    BY <2>4 DEF BeatFails, Close, FailAll, AbortTasks, WriterSends, WriterFails
  <2>5. CASE ReaderTakes \/ ReaderSkips \/ ReaderFails \/ Dispatch
    BY <2>5 DEF ReaderTakes, ReaderSkips, ReaderFails, Dispatch
  <2>6. CASE ServerGarbles \/ ServerVanishes
    BY <2>6 DEF ServerGarbles, ServerVanishes
  <2>7. ASSUME NEW d \in Calls, ServerReplies(d) \/ ServerPushes(d)
        PROVE sent' = [sent EXCEPT ![d] = @ + 1]
    BY <2>7 DEF ServerReplies, ServerPushes
  <2>8. CASE UNCHANGED vars
    BY <2>8 DEF vars
  <2>9. QED
    BY <2>1, <2>2, <2>3, <2>4, <2>5, <2>6, <2>7, <2>8, Sets
    DEF Next, PulseStep, ReaderStep, ShutDownStep, Environment
<1>5. QED
  BY <1>2, <1>3, <1>4

\* The same after a step, said of what is rigid across it.
BegunNext(c) == pc'[c] # "idle"
FaithfulNext(p) ==
  /\ p.to \in Calls /\ BegunNext(p.to) /\ sent'[p.to] > 0
  /\ p.seq = seq'[p.to] /\ p.id = ReplyId[p.to]

LEMMA NextOnTheWire == TypeOK /\ Numbered /\ OnTheWire /\ [Next]_vars => OnTheWire'
<1> SUFFICES ASSUME TypeOK, Numbered, OnTheWire, [Next]_vars PROVE OnTheWire'
  OBVIOUS
<1> DEFINE Goal ==
      /\ \A i \in 1 .. Len(outq') : BegunNext(outq'[i])
      /\ \A c \in Calls : asked'[c] > 0 => BegunNext(c)
      /\ \A i \in 1 .. Len(inbound') : inbound'[i].kind # "junk" => FaithfulNext(inbound'[i])
      /\ \A i \in 1 .. Len(inhand') : FaithfulNext(inhand'[i])
<1>0. SUFFICES Goal
  BY DEF OnTheWire, Faithful, FaithfulNext, Begun, BegunNext
<1>1. \A p \in Pack : Faithful(p) => FaithfulNext(p)
  BY FaithfulStays, SentGrows DEF Faithful, FaithfulNext, Begun, BegunNext
<1>2. \A c \in Calls : Begun(c) => BegunNext(c)
  BY BegunStays DEF Begun, BegunNext
<1>3. \A i \in 1 .. Len(outq) : outq[i] \in Calls /\ BegunNext(outq[i])
  BY <1>2 DEF OnTheWire, TypeOK, TypeWire
<1>4. \A i \in 1 .. Len(inbound) : inbound[i] \in Pack /\ (inbound[i].kind # "junk" => FaithfulNext(inbound[i]))
  BY <1>1 DEF OnTheWire, TypeOK, TypeWire
<1>5. \A i \in 1 .. Len(inhand) : FaithfulNext(inhand[i])
  BY <1>1 DEF OnTheWire, TypeOK, TypeReader
<1>6. \A c \in Calls : asked[c] > 0 => BegunNext(c)
  BY <1>2 DEF OnTheWire
<1>7. CASE UNCHANGED <<outq, asked, inbound, inhand>>
  BY <1>3, <1>4, <1>5, <1>6, <1>7
<1>8. ASSUME NEW c \in Calls, Enqueue(c) PROVE Goal
  <2>1. BegunNext(c)
    BY <1>2, <1>8 DEF Enqueue, Begun
  <2>2. outq' = Append(outq, c) /\ UNCHANGED <<asked, inbound, inhand>>
    BY <1>8 DEF Enqueue
  <2>3. \A i \in 1 .. Len(outq') : outq'[i] = c \/ \E j \in 1 .. Len(outq) : outq'[i] = outq[j]
    BY <2>2 DEF TypeOK, TypeWire
  <2>4. \A i \in 1 .. Len(outq') : BegunNext(outq'[i])
    BY <1>3, <2>1, <2>3
  <2>5. QED
    BY <1>4, <1>5, <1>6, <2>2, <2>4
<1>9. CASE WriterSends \/ WriterFails
  <2>1. outq # <<>> /\ outq' = Tail(outq) /\ UNCHANGED <<inbound, inhand>>
    BY <1>9 DEF WriterSends, WriterFails
  <2>2. \A i \in 1 .. Len(outq') : \E j \in 1 .. Len(outq) : outq'[i] = outq[j]
    BY <2>1 DEF TypeOK, TypeWire
  <2>3. \A i \in 1 .. Len(outq') : BegunNext(outq'[i])
    BY <1>3, <2>2
  <2>4. Head(outq) \in Calls /\ BegunNext(Head(outq))
    BY <1>3, <2>1 DEF TypeOK, TypeWire
  <2>5. \A c \in Calls : asked'[c] > 0 => BegunNext(c)
    BY <1>6, <1>9, <2>4 DEF WriterSends, WriterFails, TypeOK, TypeWire
  <2>6. QED
    BY <1>4, <1>5, <2>1, <2>3, <2>5
<1>10. CASE ReaderTakes \/ ReaderSkips
  <2>1. inbound # <<>> /\ inbound' = Tail(inbound) /\ UNCHANGED <<outq, asked>>
    BY <1>10 DEF ReaderTakes, ReaderSkips
  <2>2. \A i \in 1 .. Len(inbound') : \E j \in 1 .. Len(inbound) : inbound'[i] = inbound[j]
    BY <2>1 DEF TypeOK, TypeWire
  <2>3. \A i \in 1 .. Len(inbound') : inbound'[i].kind # "junk" => FaithfulNext(inbound'[i])
    BY <1>4, <2>2
  <2>4. \A i \in 1 .. Len(inhand') : FaithfulNext(inhand'[i])
    <3>1. CASE ReaderTakes
      <4>1. inhand' = <<inbound[1]>> /\ inbound[1].kind # "junk" /\ 1 \in 1 .. Len(inbound)
        BY <3>1 DEF ReaderTakes, TypeOK, TypeWire
      <4>2. QED
        BY <1>4, <4>1
    <3>2. CASE ReaderSkips
      BY <1>5, <3>2 DEF ReaderSkips
    <3>3. QED
      BY <1>10, <3>1, <3>2
  <2>5. QED
    BY <1>3, <1>6, <2>1, <2>3, <2>4
<1>11. CASE Dispatch
  BY <1>3, <1>4, <1>6, <1>11 DEF Dispatch, wire, OnTheWire
<1>12. ASSUME NEW p \in Pack, Put(p), p.kind # "junk" => FaithfulNext(p) PROVE Goal
  <2>1. inbound' = Append(inbound, p) /\ UNCHANGED <<outq, asked, inhand>>
    BY <1>12 DEF Put
  <2>2. \A i \in 1 .. Len(inbound') : inbound'[i] = p \/ \E j \in 1 .. Len(inbound) : inbound'[i] = inbound[j]
    BY <2>1 DEF TypeOK, TypeWire
  <2>3. \A i \in 1 .. Len(inbound') : inbound'[i].kind # "junk" => FaithfulNext(inbound'[i])
    BY <1>4, <1>12, <2>2
  <2>4. QED
    BY <1>3, <1>5, <1>6, <2>1, <2>3
<1>13. ASSUME NEW c \in Calls, ServerReplies(c) \/ ServerPushes(c) PROVE Goal
  <2>1. asked[c] > 0 /\ BegunNext(c)
    BY <1>6, <1>13 DEF ServerReplies, ServerPushes, TypeOK, TypeWire
  <2>2. ReplyId[c] \in Nat /\ Id[c] \in Nat /\ seq[c] \in Nat /\ sent[c] + 1 \in Nat
        /\ (c \in Named => ReplyId[c] = Id[c])
    BY Headers, Sets DEF Headers, TypeOK, TypeCallers, TypeWire
  <2>3. sent'[c] > 0
    BY <1>13 DEF ServerReplies, ServerPushes, TypeOK, TypeWire
  <2>4. seq'[c] = seq[c]
    BY <1>13 DEF ServerReplies, ServerPushes, Put, callers
  <2>5. PICK kind \in {"reply", "part", "last", "error"}, n \in Nat :
          Put([kind |-> kind, id |-> ReplyId[c], seq |-> seq[c], to |-> c, n |-> n])
    BY <1>13, <2>2 DEF ServerReplies, ServerPushes
  <2>6. [kind |-> kind, id |-> ReplyId[c], seq |-> seq[c], to |-> c, n |-> n] \in Pack
    BY <2>2, PackType
  <2>7. QED
    BY <1>12, <2>1, <2>3, <2>4, <2>5, <2>6 DEF FaithfulNext
<1>14. CASE ServerGarbles
  BY <1>12, <1>14, PackType DEF ServerGarbles, Junk
<1>15. QED
  <2> USE DEF wire
  <2>1. ASSUME NEW c \in Calls, Start(c) \/ Beat(c) PROVE UNCHANGED <<outq, asked, inbound, inhand>>
    BY <2>1 DEF Start, Beat, Register
  <2>2. ASSUME NEW c \in Calls, CallerStep(c), ~Enqueue(c)
        PROVE UNCHANGED <<outq, asked, inbound, inhand>>
    BY <2>2 DEF CallerStep, CheckOpen, SendFails, Receive, Elapse, FallSilent, Leave,
                NextPack, NextIsOver, NextTimesOut
  <2>3. ASSUME NEW c \in Calls, Cancel(c) \/ TakeGap(c) \/ PulseAborted(c) \/ PongOverdue(c)
        PROVE UNCHANGED <<outq, asked, inbound, inhand>>
    BY <2>3 DEF Cancel, TakeGap, PulseAborted, PongOverdue
  <2>4. ASSUME BeatFails \/ Close \/ FailAll \/ AbortTasks \/ ReaderFails \/ ServerVanishes
        PROVE UNCHANGED <<outq, asked, inbound, inhand>>
    BY <2>4 DEF BeatFails, Close, FailAll, AbortTasks, ReaderFails, ServerVanishes
  <2>5. ASSUME UNCHANGED vars PROVE UNCHANGED <<outq, asked, inbound, inhand>>
    BY <2>5 DEF vars
  <2>6. QED
    BY <1>7, <1>8, <1>9, <1>10, <1>11, <1>13, <1>14, <2>1, <2>2, <2>3, <2>4, <2>5, Sets
    DEF Next, PulseStep, ReaderStep, ShutDownStep, Environment

LEMMA NextSlotsOwned ==
  TypeOK /\ EntriesOwned /\ Numbered /\ OnTheWire /\ SlotsOwned /\ [Next]_vars => SlotsOwned'
<1> SUFFICES ASSUME TypeOK, EntriesOwned, Numbered, OnTheWire, SlotsOwned, [Next]_vars
             PROVE SlotsOwned'
  OBVIOUS
<1>1. \A p \in Pack : sent[p.to] > 0 /\ p.to \in Calls => sent'[p.to] > 0
  <2>1. \A c \in Calls : sent[c] \in Nat /\ sent'[c] \in Nat /\ sent'[c] >= sent[c]
    BY SentGrows, NextTypeOK DEF TypeOK, TypeWire
  <2>2. QED
    BY <2>1
<1>2. \A c \in Oneshots : \A i \in 1 .. Len(inbox[c]) :
        /\ inbox[c][i] \in Pack
        /\ SameRequest(inbox[c][i].to, c)
        /\ inbox[c][i].to \in Calls
        /\ inbox[c][i].kind # "broken" => sent'[inbox[c][i].to] > 0
  <2>1. \A c \in Oneshots : \A i \in 1 .. Len(inbox[c]) :
          inbox[c][i] \in Pack /\ inbox[c][i].to \in Calls
    BY Sets DEF SlotsOwned, SameRequest, TypeOK, TypeSinks
  <2>2. QED
    BY <1>1, <2>1 DEF SlotsOwned
<1>3. CASE UNCHANGED inbox
  BY <1>2, <1>3 DEF SlotsOwned
<1>4. ASSUME NEW c \in Calls, inbox' = [inbox EXCEPT ![c] = <<>>] PROVE SlotsOwned'
  BY <1>2, <1>4, Sets DEF SlotsOwned, TypeOK, TypeSinks
<1>5. ASSUME NEW c \in Calls, NextPack(c) PROVE SlotsOwned'
  <2>1. \A d \in Oneshots : inbox'[d] = inbox[d]
    BY <1>5, Sets DEF NextPack, TypeOK, TypeSinks
  <2>2. QED
    BY <1>2, <2>1 DEF SlotsOwned
<1>6. CASE FailAll
  <2>1. \A c \in Oneshots : inbox'[c] = inbox[c] \/ inbox'[c] = <<Broken(c)>>
    BY <1>6, Sets DEF FailAll
  <2>2. \A c \in Oneshots : SameRequest(Broken(c).to, c) /\ Broken(c).kind = "broken"
    BY DEF Broken, SameRequest
  <2>3. QED
    BY <1>2, <2>1, <2>2 DEF SlotsOwned
<1>7. CASE Dispatch
  <2> DEFINE p == Head(inhand)
  <2>1. p \in Pack /\ Faithful(p)
    BY <1>7 DEF Dispatch, OnTheWire, TypeOK, TypeReader
  <2>2. sent'[p.to] > 0
    BY <1>1, <2>1 DEF Faithful
  <2> HIDE DEF p
  <2>3. ASSUME NEW c \in Oneshots, c \in FindKey(p), DeliverOneshot(c, p) PROVE SlotsOwned'
    <3>1. SameRequest(p.to, c)
      BY <2>1, <2>3, FoundIsAsker
    <3>2. \A d \in Oneshots : inbox'[d] = inbox[d] \/ (d = c /\ inbox'[d] = <<p>>)
      BY <2>3, Sets DEF DeliverOneshot, TypeOK, TypeSinks
    <3>3. QED
      BY <1>2, <2>2, <3>1, <3>2 DEF SlotsOwned
  <2>4. ASSUME NEW c \in Named, DeliverStream(c, p) \/ DeliverSub(c, p) PROVE SlotsOwned'
    <3>1. \A d \in Oneshots : inbox'[d] = inbox[d]
      BY <2>4, Sets DEF DeliverStream, DeliverSub, TypeOK, TypeSinks
    <3>2. QED
      BY <1>2, <3>1 DEF SlotsOwned
  <2>5. QED
    BY <1>3, <1>7, <2>3, <2>4, Sets DEF Dispatch, p, sinks
<1>8. QED
  <2> USE DEF sinks
  <2>1. ASSUME NEW c \in Calls, Start(c) \/ Beat(c) PROVE UNCHANGED inbox
    BY <2>1 DEF Start, Beat, Register
  <2>2. ASSUME NEW c \in Calls, CallerStep(c), ~NextPack(c), ~Leave(c) PROVE UNCHANGED inbox
    BY <2>2 DEF CallerStep, CheckOpen, Enqueue, SendFails, Receive, Elapse, FallSilent,
                NextIsOver, NextTimesOut
  <2>3. ASSUME NEW c \in Calls, Leave(c) \/ Cancel(c) \/ PulseAborted(c)
        PROVE inbox' = [inbox EXCEPT ![c] = <<>>]
    BY <2>3 DEF Leave, Cancel, PulseAborted
  <2>4. ASSUME NEW c \in Calls, TakeGap(c) \/ PongOverdue(c) PROVE UNCHANGED inbox
    BY <2>4 DEF TakeGap, PongOverdue
  <2>5. ASSUME BeatFails \/ Close \/ AbortTasks \/ WriterSends \/ WriterFails PROVE UNCHANGED inbox
    BY <2>5 DEF BeatFails, Close, AbortTasks, WriterSends, WriterFails
  <2>6. ASSUME ReaderTakes \/ ReaderSkips \/ ReaderFails PROVE UNCHANGED inbox
    BY <2>6 DEF ReaderTakes, ReaderSkips, ReaderFails
  <2>7. ASSUME ServerGarbles \/ ServerVanishes \/ \E c \in Calls : ServerReplies(c) \/ ServerPushes(c)
        PROVE UNCHANGED inbox
    BY <2>7 DEF ServerGarbles, ServerVanishes, ServerReplies, ServerPushes, Put
  <2>8. ASSUME UNCHANGED vars PROVE UNCHANGED inbox
    BY <2>8 DEF vars
  <2>9. QED
    BY <1>3, <1>4, <1>5, <1>6, <1>7, <2>1, <2>2, <2>3, <2>4, <2>5, <2>6, <2>7, <2>8, Sets
    DEF Next, PulseStep, ReaderStep, ShutDownStep, Environment

\* The invariant that carries the reply to the one who asked for it.
Correlated == EntriesOwned /\ Numbered /\ OnTheWire /\ SlotsOwned

LEMMA LinkCorrelates == Spec => []Correlated
<1>1. Init => Correlated
  BY Sets DEF Init, Correlated, EntriesOwned, Numbered, OnTheWire, SlotsOwned, Begun
<1>2. TypeOK /\ Correlated /\ [Next]_vars => Correlated'
  BY NextEntriesOwned, NextNumbered, NextOnTheWire, NextSlotsOwned DEF Correlated
<1>3. QED
  BY <1>1, <1>2, TypeCorrect, PTL DEF Spec

\* However late, duplicated or reordered the replies are, also after a timeout, a
\* resend or an Upload/Create that answers with a new id, a waiter finds in its
\* slot the answer to its own request or the error of a closed line.
THEOREM RepliesReachTheirAsker == Spec => []OwnReply
<1>1. SlotsOwned => OwnReply
  BY DEF SlotsOwned, OwnReply
<1>2. QED
  BY <1>1, LinkCorrelates, PTL DEF Correlated

----------------------------------------------------------------------------
\* The line implements its contract.  Where a call stands and what it was told
\* go together, and what was asked on a closed line never reaches the queue.
Posted(c) == pc[c] # "idle" /\ c \notin late /\ result[c] # "usage"

Settled ==
  /\ \A c \in Calls : (result[c] = "none") <=> (pc[c] \notin {"leaving", "done"})
  /\ \A c \in late : pc[c] \notin {"idle", "sending", "waiting"} /\ closed
  /\ \A i \in 1 .. Len(outq) : Posted(outq[i])
  /\ \A c \in Calls : asked[c] > 0 => Posted(c)

LEMMA NextSettled == TypeOK /\ Settled /\ [Next]_vars => Settled'
<1> SUFFICES ASSUME TypeOK, Settled, [Next]_vars PROVE Settled'
  OBVIOUS
<1> DEFINE Told == \A c \in Calls : (result[c] = "none") <=> (pc[c] \notin {"leaving", "done"})
           Late == \A c \in late : pc[c] \notin {"idle", "sending", "waiting"} /\ closed
           PostedNext(c) == pc'[c] # "idle" /\ c \notin late' /\ result'[c] # "usage"
<1>1. /\ pc \in [Calls -> PcStates] /\ result \in [Calls -> Results] /\ late \subseteq Calls
      /\ outq \in Seq(Calls) /\ asked \in [Calls -> Nat] /\ reason \in [Named -> {"none", "network", "protocol"}]
      /\ closing \in {"open", "sealed", "drained", "stopped"}
  BY DEF TypeOK, TypeTable, TypeCallers, TypeSinks, TypeWire
<1>2. Told'
  <2> USE <1>1, Sets DEF Settled, Finish, callers
  <2>1. ASSUME NEW c \in Calls, Start(c) \/ Beat(c) PROVE Told'
    BY <2>1 DEF Start, Beat, Register
  <2>2. ASSUME NEW c \in Calls, CheckOpen(c) \/ Enqueue(c) \/ SendFails(c) \/ Leave(c) PROVE Told'
    BY <2>2 DEF CheckOpen, Enqueue, SendFails, Leave
  <2>3. ASSUME NEW c \in Calls, Receive(c) \/ NextTimesOut(c) PROVE Told'
    BY <2>3 DEF Receive, NextTimesOut, NoReplyError
  <2>4. ASSUME NEW c \in Calls, Elapse(c) PROVE Told'
    BY <2>4 DEF Elapse, NoReplyError
  <2>5. ASSUME NEW c \in Calls, FallSilent(c) PROVE Told'
    BY <2>5 DEF FallSilent, NoReplyError
  <2>6. ASSUME NEW c \in Calls, NextPack(c) \/ TakeGap(c) PROVE Told'
    BY <2>6 DEF NextPack, TakeGap
  <2>7. ASSUME NEW c \in Calls, NextIsOver(c) PROVE Told'
    BY <2>7 DEF NextIsOver
  <2>8. ASSUME NEW c \in Calls, Cancel(c) \/ PulseAborted(c) PROVE Told'
    BY <2>8 DEF Cancel, PulseAborted
  <2>9. ASSUME NEW c \in Calls, PongOverdue(c) PROVE Told'
    BY <2>9 DEF PongOverdue
  <2>10. CASE BeatFails \/ Close \/ FailAll \/ AbortTasks \/ WriterSends \/ WriterFails
    BY <2>10 DEF BeatFails, Close, FailAll, AbortTasks, WriterSends, WriterFails
  <2>11. CASE ReaderTakes \/ ReaderSkips \/ ReaderFails \/ Dispatch
    BY <2>11 DEF ReaderTakes, ReaderSkips, ReaderFails, Dispatch
  <2>12. CASE ServerGarbles \/ ServerVanishes \/ \E c \in Calls : ServerReplies(c) \/ ServerPushes(c)
    BY <2>12 DEF ServerGarbles, ServerVanishes, ServerReplies, ServerPushes, Put
  <2>13. CASE UNCHANGED vars
    BY <2>13 DEF vars
  <2>14. QED
    BY <2>1, <2>2, <2>3, <2>4, <2>5, <2>6, <2>7, <2>8, <2>9, <2>10, <2>11, <2>12, <2>13
    DEF Next, CallerStep, PulseStep, ReaderStep, ShutDownStep, Environment
<1>3. Late'
  <2> USE <1>1, Sets DEF Settled, Finish, callers, closed, BeginShutDown
  <2>1. ASSUME NEW c \in Calls, Start(c) \/ Beat(c) PROVE Late'
    BY <2>1 DEF Start, Beat, Register
  <2>2. ASSUME NEW c \in Calls, CheckOpen(c) \/ Enqueue(c) \/ SendFails(c) \/ Leave(c) PROVE Late'
    BY <2>2 DEF CheckOpen, Enqueue, SendFails, Leave
  <2>3. ASSUME NEW c \in Calls, Receive(c) \/ NextTimesOut(c) \/ Elapse(c) \/ FallSilent(c) PROVE Late'
    BY <2>3 DEF Receive, NextTimesOut, Elapse, FallSilent
  <2>4. ASSUME NEW c \in Calls, NextPack(c) \/ TakeGap(c) \/ NextIsOver(c) PROVE Late'
    BY <2>4 DEF NextPack, TakeGap, NextIsOver
  <2>5. ASSUME NEW c \in Calls, Cancel(c) \/ PulseAborted(c) \/ PongOverdue(c) PROVE Late'
    BY <2>5 DEF Cancel, PulseAborted, PongOverdue
  <2>6. CASE BeatFails \/ Close \/ FailAll \/ AbortTasks \/ WriterSends \/ WriterFails
    BY <2>6 DEF BeatFails, Close, FailAll, AbortTasks, WriterSends, WriterFails
  <2>7. CASE ReaderTakes \/ ReaderSkips \/ ReaderFails \/ Dispatch
    BY <2>7 DEF ReaderTakes, ReaderSkips, ReaderFails, Dispatch
  <2>8. CASE ServerGarbles \/ ServerVanishes \/ \E c \in Calls : ServerReplies(c) \/ ServerPushes(c)
    BY <2>8 DEF ServerGarbles, ServerVanishes, ServerReplies, ServerPushes, Put
  <2>9. CASE UNCHANGED vars
    BY <2>9 DEF vars
  <2>10. QED
    BY <2>1, <2>2, <2>3, <2>4, <2>5, <2>6, <2>7, <2>8, <2>9
    DEF Next, CallerStep, PulseStep, ReaderStep, ShutDownStep, Environment
<1>4. \A c \in Calls : Posted(c) => PostedNext(c)
  <2> SUFFICES ASSUME NEW d \in Calls, Posted(d) PROVE PostedNext(d)
    OBVIOUS
  <2> USE <1>1, Sets DEF Finish, callers, Posted
  <2>1. ASSUME NEW c \in Calls, Start(c) \/ Beat(c) PROVE PostedNext(d)
    BY <2>1 DEF Start, Beat, Register
  <2>2. ASSUME NEW c \in Calls, CheckOpen(c) \/ Enqueue(c) \/ SendFails(c) \/ Leave(c)
        PROVE PostedNext(d)
    BY <2>2 DEF CheckOpen, Enqueue, SendFails, Leave
  <2>3. ASSUME NEW c \in Calls, Receive(c) \/ NextTimesOut(c) PROVE PostedNext(d)
    BY <2>3 DEF Receive, NextTimesOut, NoReplyError
  <2>4. ASSUME NEW c \in Calls, Elapse(c) PROVE PostedNext(d)
    BY <2>4 DEF Elapse, NoReplyError
  <2>5. ASSUME NEW c \in Calls, FallSilent(c) PROVE PostedNext(d)
    BY <2>5 DEF FallSilent, NoReplyError
  <2>6. ASSUME NEW c \in Calls, NextPack(c) \/ TakeGap(c) PROVE PostedNext(d)
    BY <2>6 DEF NextPack, TakeGap
  <2>7. ASSUME NEW c \in Calls, NextIsOver(c) PROVE PostedNext(d)
    BY <2>7 DEF NextIsOver
  <2>8. ASSUME NEW c \in Calls, Cancel(c) \/ PulseAborted(c) PROVE PostedNext(d)
    BY <2>8 DEF Cancel, PulseAborted
  <2>9. ASSUME NEW c \in Calls, PongOverdue(c) PROVE PostedNext(d)
    BY <2>9 DEF PongOverdue
  <2>10. CASE BeatFails \/ Close \/ FailAll \/ AbortTasks \/ WriterSends \/ WriterFails
    BY <2>10 DEF BeatFails, Close, FailAll, AbortTasks, WriterSends, WriterFails
  <2>11. CASE ReaderTakes \/ ReaderSkips \/ ReaderFails \/ Dispatch
    BY <2>11 DEF ReaderTakes, ReaderSkips, ReaderFails, Dispatch
  <2>12. CASE ServerGarbles \/ ServerVanishes \/ \E c \in Calls : ServerReplies(c) \/ ServerPushes(c)
    BY <2>12 DEF ServerGarbles, ServerVanishes, ServerReplies, ServerPushes, Put
  <2>13. CASE UNCHANGED vars
    BY <2>13 DEF vars
  <2>14. QED
    BY <2>1, <2>2, <2>3, <2>4, <2>5, <2>6, <2>7, <2>8, <2>9, <2>10, <2>11, <2>12, <2>13
    DEF Next, CallerStep, PulseStep, ReaderStep, ShutDownStep, Environment
<1>5. /\ \/ outq' = outq
         \/ outq # <<>> /\ outq' = Tail(outq)
         \/ \E c \in Calls : Posted(c) /\ outq' = Append(outq, c)
      /\ \/ asked' = asked
         \/ outq # <<>> /\ asked' = [asked EXCEPT ![Head(outq)] = @ + 1]
  <2> USE <1>1, Sets DEF Finish, callers, wire
  <2>1. ASSUME NEW c \in Calls, Start(c) \/ Beat(c) PROVE UNCHANGED <<outq, asked>>
    BY <2>1 DEF Start, Beat, Register
  <2>2. ASSUME NEW c \in Calls, Enqueue(c)
        PROVE Posted(c) /\ outq' = Append(outq, c) /\ asked' = asked
    BY <2>2 DEF Enqueue, Settled, Posted
  <2>3. ASSUME NEW c \in Calls, CallerStep(c), ~Enqueue(c) PROVE UNCHANGED <<outq, asked>>
    BY <2>3 DEF CallerStep, CheckOpen, SendFails, Receive, Elapse, FallSilent, Leave,
                NextPack, NextIsOver, NextTimesOut
  <2>4. ASSUME NEW c \in Calls, Cancel(c) \/ PulseAborted(c) \/ PongOverdue(c) \/ TakeGap(c)
        PROVE UNCHANGED <<outq, asked>>
    BY <2>4 DEF Cancel, PulseAborted, PongOverdue, TakeGap
  <2>5. CASE BeatFails \/ Close \/ FailAll \/ AbortTasks
    BY <2>5 DEF BeatFails, Close, FailAll, AbortTasks
  <2>6. CASE WriterSends \/ WriterFails
    BY <2>6 DEF WriterSends, WriterFails
  <2>7. CASE ReaderTakes \/ ReaderSkips \/ ReaderFails \/ Dispatch
    BY <2>7 DEF ReaderTakes, ReaderSkips, ReaderFails, Dispatch
  <2>8. CASE ServerGarbles \/ ServerVanishes \/ \E c \in Calls : ServerReplies(c) \/ ServerPushes(c)
    BY <2>8 DEF ServerGarbles, ServerVanishes, ServerReplies, ServerPushes, Put
  <2>9. CASE UNCHANGED vars
    BY <2>9 DEF vars
  <2>10. QED
    BY <2>1, <2>2, <2>3, <2>4, <2>5, <2>6, <2>7, <2>8, <2>9
    DEF Next, PulseStep, ReaderStep, ShutDownStep, Environment
<1>6. \A i \in 1 .. Len(outq') : PostedNext(outq'[i])
  <2>1. \A i \in 1 .. Len(outq) : outq[i] \in Calls /\ PostedNext(outq[i])
    BY <1>1, <1>4 DEF Settled
  <2>2. CASE outq' = outq
    BY <2>1, <2>2
  <2>3. CASE outq # <<>> /\ outq' = Tail(outq)
    <3>1. \A i \in 1 .. Len(outq') : outq'[i] = outq[i + 1] /\ i + 1 \in 1 .. Len(outq)
      BY <2>3, <1>1
    <3>2. QED
      BY <2>1, <3>1
  <2>4. ASSUME NEW c \in Calls, Posted(c), outq' = Append(outq, c)
        PROVE \A i \in 1 .. Len(outq') : PostedNext(outq'[i])
    <3>1. \A i \in 1 .. Len(outq') : outq'[i] = c \/ (outq'[i] = outq[i] /\ i \in 1 .. Len(outq))
      BY <2>4, <1>1
    <3>2. PostedNext(c)
      BY <2>4, <1>4
    <3>3. QED
      BY <2>1, <3>1, <3>2
  <2>5. QED
    BY <1>5, <2>2, <2>3, <2>4
<1>7. \A c \in Calls : asked'[c] > 0 => PostedNext(c)
  <2>1. outq # <<>> => Head(outq) \in Calls /\ PostedNext(Head(outq))
    BY <1>1, <1>4 DEF Settled
  <2>2. ASSUME NEW c \in Calls, asked'[c] > 0, asked[c] = 0 PROVE outq # <<>> /\ c = Head(outq)
    BY <1>1, <1>5, <2>2
  <2>3. ASSUME NEW c \in Calls, asked[c] > 0 PROVE PostedNext(c)
    BY <1>4, <2>3 DEF Settled
  <2>4. QED
    BY <1>1, <2>1, <2>2, <2>3
<1>8. QED
  BY <1>2, <1>3, <1>6, <1>7 DEF Settled, Posted

Contracted == Correlated /\ Settled

LEMMA StepKeepsContract ==
  ASSUME TypeOK, Contracted, [Next]_vars
  PROVE  [Contract!ContractNext]_(Contract!contractVars)
<1> DEFINE Replied == {c \in Asks : sent[c] > 0}
           Steps(c) == /\ c \in Asks
                       /\ \/ Contract!Ask(c) \/ Contract!Refuse(c) \/ Contract!Reply(c)
                          \/ Contract!Succeed(c) \/ Contract!TimeOut(c) \/ Contract!Fail(c)
                          \/ Contract!Withdraw(c)
           Same == UNCHANGED <<closing, sent>>
           Stutter == UNCHANGED <<closed, Stage, Replied>>
<1>1. /\ pc \in [Calls -> PcStates] /\ result \in [Calls -> Results] /\ late \subseteq Calls
      /\ sent \in [Calls -> Nat] /\ closing \in {"open", "sealed", "drained", "stopped"}
      /\ inbox \in [Calls -> Seq(Pack)] /\ outq \in Seq(Calls) /\ asked \in [Calls -> Nat]
  BY DEF TypeOK, TypeTable, TypeCallers, TypeSinks, TypeWire
<1>2. /\ \A c \in Calls : (result[c] = "none") <=> (pc[c] \notin {"leaving", "done"})
      /\ \A c \in late : pc[c] \notin {"idle", "sending", "waiting"} /\ closed
  BY DEF Contracted, Settled
<1>3. ASSUME UNCHANGED <<pc, result, late>> PROVE UNCHANGED Stage
  BY <1>3 DEF Stage
<1>4. ASSUME Same PROVE UNCHANGED <<closed, Replied>>
  BY <1>4 DEF closed
<1>5. ASSUME NEW c \in Calls, pc[c] # "idle", NEW x, x # "idle", NEW y, UNCHANGED late,
             pc' = [pc EXCEPT ![c] = x], result' = [result EXCEPT ![c] = y]
      PROVE  Stage' = [Stage EXCEPT ![c] = IF y # "none" THEN y
                                           ELSE IF c \in late THEN "shut" ELSE "open"]
  BY <1>1, <1>5, Sets DEF Stage
<1>6. \A c \in Asks : Stage[c] = IF pc[c] = "idle" THEN "idle"
                                 ELSE IF result[c] # "none" THEN result[c]
                                 ELSE IF c \in late THEN "shut" ELSE "open"
  BY DEF Stage
<1>7. Stage = [c \in Asks |-> Stage[c]]
  BY DEF Stage
<1>8. ASSUME NEW c \in Calls, Start(c) \/ Beat(c) PROVE Steps(c) \/ Stutter
  <2>1. pc[c] = "idle" /\ Register(c)
    BY <1>8 DEF Start, Beat
  <2>2. Same /\ late' = IF closed THEN late \cup {c} ELSE late
    BY <2>1 DEF Register, wire
  <2>3. c \notin late /\ result[c] = "none"
    BY <1>2, <2>1
  <2>4. CASE pc' = [pc EXCEPT ![c] = "done"] /\ result' = [result EXCEPT ![c] = "usage"]
    <3>1. Stage' = [Stage EXCEPT ![c] = "usage"]
      BY <1>1, <2>1, <2>2, <2>4, Sets DEF Stage
    <3>2. CASE c \in Asks
      BY <1>4, <1>6, <2>1, <2>2, <3>1, <3>2 DEF Contract!Refuse
    <3>3. CASE c \notin Asks
      BY <1>4, <1>7, <2>2, <3>1, <3>3
    <3>4. QED
      BY <3>2, <3>3
  <2>5. CASE pc' = [pc EXCEPT ![c] = "registered"] /\ UNCHANGED result
    <3>1. Stage' = [Stage EXCEPT ![c] = IF closed THEN "shut" ELSE "open"]
      BY <1>1, <2>1, <2>2, <2>3, <2>5, Sets DEF Stage
    <3>2. CASE c \in Asks
      <4>1. Stage[c] = "idle"
        BY <1>6, <2>1, <3>2
      <4>2. Stage' = [Stage EXCEPT ![c] = IF ~closed THEN "open" ELSE "shut"]
        BY <3>1
      <4>3. UNCHANGED <<closed, Replied>>
        BY <1>4, <2>2
      <4>4. Contract!Ask(c)
        BY <4>1, <4>2, <4>3 DEF Contract!Ask
      <4>5. QED
        BY <3>2, <4>4
    <3>3. CASE c \notin Asks
      BY <1>4, <1>7, <2>2, <3>1, <3>3
    <3>4. QED
      BY <3>2, <3>3
  <2>6. QED
    BY <2>1, <2>4, <2>5 DEF Register
<1>9. ASSUME NEW c \in Calls, pc[c] \notin {"idle", "leaving", "done"}, UNCHANGED late, Same,
             NEW r \in Results \ {"none"},
             \/ pc' = [pc EXCEPT ![c] = "leaving"] \/ pc' = [pc EXCEPT ![c] = "done"],
             result' = [result EXCEPT ![c] = r]
      PROVE  /\ Stage' = [Stage EXCEPT ![c] = r]
             /\ c \in Asks => Stage[c] = IF c \in late THEN "shut" ELSE "open"
             /\ c \notin Asks => Stutter
  <2>1. Stage' = [Stage EXCEPT ![c] = r]
    BY <1>5, <1>9
  <2>2. c \in Asks => Stage[c] = IF c \in late THEN "shut" ELSE "open"
    BY <1>2, <1>6, <1>9
  <2>3. c \notin Asks => UNCHANGED Stage
    BY <1>7, <2>1
  <2>4. QED
    BY <1>4, <1>9, <2>1, <2>2, <2>3
<1>10. ASSUME NEW c \in Calls, pc[c] \notin {"idle", "leaving", "done"}, UNCHANGED late, Same,
              Finish(c, "network")
       PROVE  Steps(c) \/ Stutter
  <2>1. CASE c \in Asks
    <3>1. Stage' = [Stage EXCEPT ![c] = "network"] /\ Stage[c] \in {"open", "shut"}
      BY <1>9, <1>10, <2>1 DEF Finish, Results
    <3>2. UNCHANGED <<closed, Replied>>
      BY <1>4, <1>10
    <3>3. Contract!Fail(c)
      BY <3>1, <3>2 DEF Contract!Fail
    <3>4. QED
      BY <2>1, <3>3
  <2>2. CASE c \notin Asks
    BY <1>9, <1>10, <2>2 DEF Finish, Results
  <2>3. QED
    BY <2>1, <2>2
<1>11. ASSUME NEW c \in Calls, pc[c] = "waiting", UNCHANGED late, Same,
              Finish(c, NoReplyError)
       PROVE  Steps(c) \/ Stutter
  <2>1. CASE closed
    BY <1>10, <1>11, <2>1 DEF NoReplyError
  <2>2. CASE ~closed /\ c \in Asks
    <3>1. Stage' = [Stage EXCEPT ![c] = "timeout"] /\ Stage[c] = "open"
      BY <1>2, <1>9, <1>11, <2>2 DEF Finish, Results, NoReplyError
    <3>2. UNCHANGED <<closed, Replied>>
      BY <1>4, <1>11
    <3>3. Contract!TimeOut(c)
      BY <2>2, <3>1, <3>2 DEF Contract!TimeOut
    <3>4. QED
      BY <2>2, <3>3
  <2>3. CASE ~closed /\ c \notin Asks
    BY <1>9, <1>11, <2>3 DEF Finish, Results, NoReplyError
  <2>4. QED
    BY <2>1, <2>2, <2>3
<1>12. ASSUME NEW c \in Calls, NEW x, x \notin {"idle", "leaving", "done"},
              pc[c] \notin {"idle", "leaving", "done"},
              pc' = [pc EXCEPT ![c] = x], UNCHANGED <<result, late>>, Same
       PROVE  Stutter
  <2>1. UNCHANGED Stage
    BY <1>1, <1>12 DEF Stage
  <2>2. QED
    BY <1>4, <1>12, <2>1
<1>13. ASSUME NEW c \in Calls, CheckOpen(c) PROVE Steps(c) \/ Stutter
  <2>1. pc[c] = "registered" /\ UNCHANGED late /\ Same
    BY <1>13 DEF CheckOpen, wire
  <2>2. CASE Finish(c, "network")
    BY <1>10, <2>1, <2>2
  <2>3. CASE pc' = [pc EXCEPT ![c] = "sending"] /\ UNCHANGED result
    BY <1>12, <2>1, <2>3
  <2>4. QED
    BY <1>13, <2>2, <2>3 DEF CheckOpen
<1>14. ASSUME NEW c \in Calls, Enqueue(c) PROVE Stutter
  <2>1. /\ pc[c] = "sending" /\ pc' = [pc EXCEPT ![c] = "waiting"]
        /\ UNCHANGED <<result, late>> /\ Same
    BY <1>14 DEF Enqueue
  <2>2. QED
    BY <1>12, <2>1
<1>15. ASSUME NEW c \in Calls, SendFails(c) PROVE Steps(c) \/ Stutter
  <2>1. pc[c] = "sending" /\ UNCHANGED late /\ Same /\ Finish(c, "network")
    BY <1>15 DEF SendFails, wire
  <2>2. QED
    BY <1>10, <2>1
<1>16. ASSUME NEW c \in Calls, Receive(c) PROVE Steps(c) \/ Stutter
  <2>1. pc[c] = "waiting" /\ c \in Oneshots /\ inbox[c] # <<>> /\ UNCHANGED late /\ Same
    BY <1>16 DEF Receive, wire
  <2>2. CASE Finish(c, "network")
    BY <1>10, <2>1, <2>2
  <2>3. CASE Finish(c, "ok") /\ Head(inbox[c]).kind # "broken" /\ c \in Asks
    <3>1. Stage' = [Stage EXCEPT ![c] = "ok"] /\ Stage[c] = "open"
      BY <1>2, <1>9, <2>1, <2>3 DEF Finish, Results
    <3>2. UNCHANGED <<closed, Replied>>
      BY <1>4, <2>1
    <3>3. Len(inbox[c]) \in Nat /\ 1 \in 1 .. Len(inbox[c]) /\ Head(inbox[c]) = inbox[c][1]
      BY <1>1, <2>1
    <3>4. SameRequest(inbox[c][1].to, c) /\ sent[inbox[c][1].to] > 0
      BY <2>1, <2>3, <3>3 DEF Contracted, Correlated, SlotsOwned
    <3>5. inbox[c][1].to \in Asks
      BY <2>3, <3>4, CallSets DEF SameRequest, CallSets
    <3>6. \E q \in Replied : SameRequest(q, c)
      BY <3>4, <3>5
    <3>7. Contract!Succeed(c)
      BY <3>1, <3>2, <3>6 DEF Contract!Succeed
    <3>8. QED
      BY <2>3, <3>7
  <2>4. CASE Finish(c, "ok") /\ c \notin Asks
    BY <1>9, <2>1, <2>4 DEF Finish, Results
  <2>5. QED
    BY <1>16, <2>2, <2>3, <2>4 DEF Receive
<1>17. ASSUME NEW c \in Calls, Elapse(c) PROVE Steps(c) \/ Stutter
  <2>1. pc[c] = "waiting" /\ UNCHANGED late /\ Same
    BY <1>17 DEF Elapse, wire
  <2>2. CASE Finish(c, NoReplyError)
    BY <1>11, <2>1, <2>2
  <2>3. CASE pc' = [pc EXCEPT ![c] = "registered"] /\ UNCHANGED result
    BY <1>12, <2>1, <2>3
  <2>4. QED
    BY <1>17, <2>2, <2>3 DEF Elapse
<1>18. ASSUME NEW c \in Calls, FallSilent(c) PROVE Steps(c) \/ Stutter
  <2>1. pc[c] = "waiting" /\ UNCHANGED late /\ Same
    BY <1>18 DEF FallSilent, wire
  <2>2. CASE Finish(c, NoReplyError)
    BY <1>11, <2>1, <2>2
  <2>3. CASE UNCHANGED <<pc, result>>
    BY <1>3, <1>4, <2>1, <2>3
  <2>4. QED
    BY <1>18, <2>2, <2>3 DEF FallSilent
<1>19. ASSUME NEW c \in Calls, Leave(c) PROVE Stutter
  <2>1. /\ pc[c] = "leaving" /\ pc' = [pc EXCEPT ![c] = "done"]
        /\ UNCHANGED <<result, late>> /\ Same
    BY <1>19 DEF Leave, wire
  <2>2. UNCHANGED Stage
    BY <1>1, <2>1 DEF Stage
  <2>3. QED
    BY <1>4, <2>1, <2>2
<1>20. ASSUME NEW c \in Calls, NextPack(c) \/ TakeGap(c) PROVE Stutter
  <2>1. UNCHANGED <<pc, result, late>> /\ Same
    BY <1>20 DEF NextPack, TakeGap, wire
  <2>2. QED
    BY <1>3, <1>4, <2>1
<1>21. ASSUME NEW c \in Calls, NextIsOver(c) \/ NextTimesOut(c) PROVE Stutter
  <2>1. c \in Named /\ pc[c] = "waiting" /\ UNCHANGED late /\ Same
    BY <1>21 DEF NextIsOver, NextTimesOut, wire
  <2>2. PICK r \in Results \ {"none"} : Finish(c, r)
    BY <1>21 DEF NextIsOver, NextTimesOut, NoReplyError, Results, TypeOK, TypeSinks
  <2>3. c \notin Asks
    BY <2>1, Sets
  <2>4. QED
    BY <1>9, <2>1, <2>2, <2>3 DEF Finish
<1>22. ASSUME NEW c \in Calls, Cancel(c) \/ PulseAborted(c) PROVE Steps(c) \/ Stutter
  <2>1. pc[c] \in {"sending", "waiting"} /\ UNCHANGED late /\ Same
    BY <1>22 DEF Cancel, PulseAborted, wire
  <2>2. pc' = [pc EXCEPT ![c] = "done"] /\ result' = [result EXCEPT ![c] = "dropped"]
    BY <1>22 DEF Cancel, PulseAborted
  <2>3. CASE c \in Asks
    <3>1. Stage' = [Stage EXCEPT ![c] = "dropped"] /\ Stage[c] = "open"
      BY <1>2, <1>9, <2>1, <2>2, <2>3 DEF Results
    <3>2. UNCHANGED <<closed, Replied>>
      BY <1>4, <2>1
    <3>3. Contract!Withdraw(c)
      BY <3>1, <3>2 DEF Contract!Withdraw
    <3>4. QED
      BY <2>3, <3>3
  <2>4. CASE c \notin Asks
    BY <1>9, <2>1, <2>2, <2>4 DEF Results
  <2>5. QED
    BY <2>3, <2>4
<1>23. ASSUME UNCHANGED <<Stage, sent>>, BeginShutDown \/ UNCHANGED closing
       PROVE  Contract!Shut \/ Stutter
  <2>1. UNCHANGED <<Stage, Replied>>
    BY <1>23
  <2>2. closed' = closed \/ (~closed /\ closed')
    BY <1>23 DEF BeginShutDown, closed
  <2>3. QED
    BY <2>1, <2>2 DEF Contract!Shut
<1>24. ASSUME NEW c \in Pings, PongOverdue(c) PROVE Contract!Shut \/ Stutter
  <2>1. pc[c] = "waiting" /\ UNCHANGED <<late, sent>> /\ c \in Calls /\ c \notin Asks
    BY <1>24, Sets, CallSets DEF PongOverdue, wire, CallSets
  <2>2. CASE BeginShutDown /\ Finish(c, "timeout")
    <3>1. Stage' = [Stage EXCEPT ![c] = "timeout"]
      BY <1>1, <2>1, <2>2, Sets DEF Finish, Stage
    <3>2. UNCHANGED Stage
      BY <1>7, <2>1, <3>1
    <3>3. QED
      BY <1>23, <2>1, <2>2, <3>2
  <2>3. CASE UNCHANGED <<closing, pc, result>>
    BY <1>3, <1>4, <2>1, <2>3
  <2>4. QED
    BY <1>24, <2>2, <2>3 DEF PongOverdue
<1>25. ASSUME BeatFails \/ Close \/ WriterFails \/ ReaderFails
       PROVE  Contract!Shut \/ Stutter
  <2>1. UNCHANGED <<pc, result, late, sent>> /\ BeginShutDown
    BY <1>25 DEF BeatFails, Close, WriterFails, ReaderFails, callers, wire
  <2>2. QED
    BY <1>3, <1>23, <2>1
<1>26. ASSUME ReaderTakes \/ ReaderSkips \/ Dispatch
       PROVE  Contract!Shut \/ Stutter
  <2>1. UNCHANGED <<pc, result, late, sent>> /\ (BeginShutDown \/ UNCHANGED closing)
    BY <1>26 DEF ReaderTakes, ReaderSkips, Dispatch, callers, wire
  <2>2. QED
    BY <1>3, <1>23, <2>1
<1>27. ASSUME FailAll \/ AbortTasks
       PROVE  Contract!Shut \/ Stutter
  <2>1. UNCHANGED <<pc, result, late, sent>> /\ UNCHANGED closed
    BY <1>27 DEF FailAll, AbortTasks, callers, wire, closed
  <2>2. QED
    BY <1>3, <2>1
<1>28. ASSUME WriterSends \/ ServerGarbles \/ ServerVanishes \/ (\E c \in Calls : ServerPushes(c))
       PROVE  Contract!Shut \/ Stutter
  <2>1. UNCHANGED <<pc, result, late, closing>>
    BY <1>28 DEF WriterSends, ServerGarbles, ServerVanishes, ServerPushes, Put, callers
  <2>2. ASSUME NEW c \in Asks PROVE sent'[c] = sent[c]
    BY <1>1, <1>28, Sets DEF WriterSends, ServerGarbles, ServerVanishes, ServerPushes
  <2>3. UNCHANGED <<closed, Replied>>
    BY <2>1, <2>2 DEF closed
  <2>4. QED
    BY <1>3, <2>1, <2>3
<1>29. ASSUME NEW c \in Calls, ServerReplies(c) PROVE Steps(c) \/ Stutter
  <2>1. UNCHANGED <<pc, result, late, closing>> /\ asked[c] > 0 /\ sent' = [sent EXCEPT ![c] = @ + 1]
    BY <1>1, <1>29 DEF ServerReplies, Put, callers
  <2>2. Posted(c)
    BY <2>1 DEF Contracted, Settled
  <2>3. UNCHANGED <<closed, Stage>>
    BY <1>3, <2>1 DEF closed
  <2>4. CASE c \in Asks
    <3>1. Stage[c] \notin {"idle", "shut", "usage"}
      BY <1>1, <1>6, <2>2, <2>4 DEF Posted, Results
    <3>2. \A d \in Asks : sent'[d] > 0 <=> (sent[d] > 0 \/ d = c)
      BY <1>1, <2>1, Sets
    <3>3. Replied' = Replied \cup {c}
      BY <2>4, <3>2
    <3>4. Contract!Reply(c)
      BY <2>3, <3>1, <3>3 DEF Contract!Reply
    <3>5. QED
      BY <2>4, <3>4
  <2>5. CASE c \notin Asks
    <3>1. \A d \in Asks : sent'[d] = sent[d]
      BY <1>1, <2>1, <2>5
    <3>2. UNCHANGED Replied
      BY <3>1
    <3>3. QED
      BY <2>3, <3>2
  <2>6. QED
    BY <2>4, <2>5
<1>30. ASSUME UNCHANGED vars
       PROVE  Contract!Shut \/ Stutter
  BY <1>3, <1>4, <1>30 DEF vars, callers, wire
<1>31. Contract!Shut \/ Stutter \/ \E c \in Calls : Steps(c)
  BY <1>8, <1>13, <1>14, <1>15, <1>16, <1>17, <1>18, <1>19, <1>20, <1>21, <1>22, <1>24,
     <1>25, <1>26, <1>27, <1>28, <1>29, <1>30, Sets
  DEF Next, CallerStep, PulseStep, ReaderStep, ShutDownStep, Environment
<1>32. CASE Stutter
  BY <1>32 DEF Contract!contractVars
<1>33. CASE Contract!Shut
  BY <1>33 DEF Contract!ContractNext
<1>34. ASSUME NEW c \in Calls, Steps(c) PROVE Contract!ContractNext \/ Stutter
  BY <1>34 DEF Contract!ContractNext
<1>35. QED
  BY <1>31, <1>32, <1>33, <1>34 DEF Contract!contractVars

\* A question asked on this line ends once: with the answer to it, with a timeout
\* while the line is open, with a network error, or withdrawn; and nothing that
\* was asked on a closed line is ever sent.  (RequestContract, for any number of
\* callers, chunks, retries and any queue sizes.)
THEOREM LineKeepsContract == Spec => KeepsContract
<1>1. Init => Contract!ContractInit
  BY Sets DEF Init, Contract!ContractInit, Stage, closed
<1>2. Init => Settled
  BY Sets DEF Init, Settled
<1>3. TypeOK /\ Contracted /\ [Next]_vars => [Contract!ContractNext]_(Contract!contractVars)
  BY StepKeepsContract
<1>4. TypeOK /\ Settled /\ [Next]_vars => Settled'
  BY NextSettled
<1>5. QED
  BY <1>1, <1>2, <1>3, <1>4, TypeCorrect, LinkCorrelates, PTL
  DEF Spec, KeepsContract, Contracted, Contract!ContractSpec

----------------------------------------------------------------------------
\* What a named session gets.  A pack on its way to it is in the reader's hand or behind it.
Coming(c) == \/ \E i \in DOMAIN inhand : inhand[i].to = c
             \/ \E j \in DOMAIN inbound : inbound[j].to = c

OneInHand == Len(inhand) <= 1
JunkIsNobodys == \A j \in DOMAIN inbound : inbound[j].kind = "junk" => inbound[j].to = Nobody

\* A session that was refused its id has asked for nothing and never will.
Refused(d) == pc[d] = "done" /\ asked[d] = 0 /\ \A i \in DOMAIN outq : outq[i] # d

\* While a session has its entry, nothing is on its way to another one of its id.
Apart ==
  \A c \in entries \cap Named, d \in Named :
    d # c /\ Id[c] = Id[d] /\ pc[d] # "idle" => ~Coming(d) /\ (d \in over \/ Refused(d))

Fresh(c) ==
  pc[c] = "idle" => /\ sent[c] = 0 /\ got[c] = <<>> /\ inbox[c] = <<>>
                    /\ c \in Subs => seen[c] = 0 /\ told[c] = 0

\* How many packs of the session have been dispatched.
Taken(c) == IF c \in Streams THEN Len(got[c]) + Len(inbox[c]) ELSE seen[c]

\* As long as a session has its entry and its handle, what was dispatched and what is on
\* its way is all that was sent, in this order.
InOrder(c) ==
  c \in entries /\ pc[c] # "done" =>
    /\ Taken(c) <= sent[c]
    /\ \A i \in DOMAIN inhand :
         inhand[i].to = c => inhand[i].n > Taken(c) /\ inhand[i].n <= sent[c]
    /\ \A j \in DOMAIN inbound :
         inbound[j].to = c => inbound[j].n > Taken(c) /\ inbound[j].n <= sent[c]
    /\ \A i, j \in DOMAIN inbound :
         i < j /\ inbound[i].to = c /\ inbound[j].to = c => inbound[i].n < inbound[j].n
    /\ \A i \in DOMAIN inhand, j \in DOMAIN inbound :
         inhand[i].to = c /\ inbound[j].to = c => inhand[i].n < inbound[j].n
    /\ \A n \in Nat : n > Taken(c) /\ n <= sent[c] =>
         \/ \E i \in DOMAIN inhand : inhand[i].to = c /\ inhand[i].n = n
         \/ \E j \in DOMAIN inbound : inbound[j].to = c /\ inbound[j].n = n

Own(c) == \A i \in DOMAIN inbox[c] : inbox[c][i].to = c

Counted(c) ==
  c \in Streams =>
    /\ \A i \in DOMAIN got[c] : got[c][i].n = i
    /\ pc[c] # "done" => \A i \in DOMAIN inbox[c] : inbox[c][i].n = Len(got[c]) + i

LastIsFinal(s) == s # <<>> /\ s[Len(s)].kind \in {"last", "error"}

\* A stream that lost its entry for no reason has got the last pack.
Ended(c) ==
  c \in Streams /\ pc[c] \in {"registered", "sending", "waiting"} /\ c \notin entries
    /\ reason[c] = "none" =>
      IF inbox[c] = <<>> THEN LastIsFinal(got[c]) ELSE LastIsFinal(inbox[c])

Clean(c) ==
  c \in Streams /\ result[c] = "end" => pc[c] \in {"leaving", "done"} /\ LastIsFinal(got[c])

Loss(c) ==
  c \in Subs /\ pc[c] # "done" =>
    \A n \in Nat : n > told[c] /\ n <= seen[c] =>
      \/ gap[c]
      \/ \E i \in DOMAIN inbox[c] : inbox[c][i].n = n
      \/ \E j \in DOMAIN got[c] : got[c][j].n = n

Whole(c) ==
  Fresh(c) /\ InOrder(c) /\ Own(c) /\ Counted(c) /\ Ended(c) /\ Clean(c) /\ Loss(c)

SessionsWhole == OneInHand /\ JunkIsNobodys /\ Apart /\ \A c \in Named : Whole(c)

\* What a step can do to a session: first, nothing.
SameSession(d) ==
  /\ pc'[d] = pc[d] /\ result'[d] = result[d] /\ inbox'[d] = inbox[d] /\ got'[d] = got[d]
  /\ reason'[d] = reason[d] /\ sent'[d] = sent[d] /\ (d \in entries' <=> d \in entries)
  /\ d \in Subs => gap'[d] = gap[d] /\ told'[d] = told[d] /\ seen'[d] = seen[d]

\* A call goes on, or stops and lets its entry go.
Going == {"registered", "sending", "waiting"}
GoesOn(c) ==
  /\ pc[c] \notin {"idle", "done"} /\ pc'[c] # "idle"
  /\ pc[c] = "leaving" => pc'[c] = "done"
  /\ pc'[c] \in Going => pc[c] \in Going
  /\ \A d \in Calls : d # c => pc'[d] = pc[d] /\ result'[d] = result[d]
  /\ result'[c] = result[c] \/ result'[c] # "end"
  /\ entries' = entries \/ (entries' = entries \ {c} /\ pc'[c] = "done")
  /\ inbox' = inbox \/ (inbox' = [inbox EXCEPT ![c] = <<>>] /\ pc'[c] = "done")
  /\ outq' = outq \/ outq' = Append(outq, c)
  /\ UNCHANGED <<got, reason, gap, told, seen, asked, sent, over, inbound, inhand>>

Rests ==
  UNCHANGED <<entries, pc, result, inbox, got, reason, gap, told, seen, outq, asked, sent, over,
              inbound, inhand>>

Steps(c) == Start(c) \/ Beat(c) \/ GoesOn(c) \/ NextPack(c) \/ NextIsOver(c) \/ TakeGap(c)
              \/ ServerReplies(c) \/ ServerPushes(c)

LEMMA StepsOfSessions ==
  ASSUME TypeOK, [Next]_vars
  PROVE  \/ Rests \/ FailAll \/ WriterSends \/ WriterFails \/ ReaderTakes \/ ReaderSkips
         \/ Dispatch \/ ServerGarbles \/ \E c \in Calls : Steps(c)
<1> USE Sets DEF callers, sinks, wire
<1>1. ASSUME NEW c \in Calls, CheckOpen(c) \/ SendFails(c) \/ Receive(c) \/ NextTimesOut(c)
      PROVE  GoesOn(c)
  BY <1>1 DEF CheckOpen, SendFails, Receive, NextTimesOut, NoReplyError, GoesOn, Going, Finish,
              TypeOK, TypeCallers
<1>2. ASSUME NEW c \in Calls, Enqueue(c)
      PROVE  GoesOn(c)
  BY <1>2 DEF Enqueue, GoesOn, Going, TypeOK, TypeCallers
<1>3. ASSUME NEW c \in Calls, Elapse(c) \/ FallSilent(c)
      PROVE  GoesOn(c)
  BY <1>3 DEF Elapse, FallSilent, NoReplyError, GoesOn, Going, Finish, TypeOK, TypeCallers
<1>4. ASSUME NEW c \in Calls, Leave(c)
      PROVE  GoesOn(c)
  BY <1>4 DEF Leave, RemoveIf, GoesOn, Going, TypeOK, TypeCallers
<1>5. ASSUME NEW c \in Calls, Cancel(c) \/ PulseAborted(c)
      PROVE  GoesOn(c)
  BY <1>5 DEF Cancel, PulseAborted, RemoveIf, GoesOn, Going, TypeOK, TypeCallers
<1>6. ASSUME NEW c \in Calls, PongOverdue(c)
      PROVE  GoesOn(c)
  BY <1>6 DEF PongOverdue, GoesOn, Going, Finish, TypeOK, TypeCallers
<1>7. ASSUME BeatFails \/ Close \/ AbortTasks \/ ReaderFails \/ ServerVanishes \/ UNCHANGED vars
      PROVE  Rests
  BY <1>7 DEF BeatFails, Close, AbortTasks, ReaderFails, ServerVanishes, vars, Rests
<1>8. ASSUME NEW c \in Calls, CallerStep(c)
      PROVE  Steps(c)
  BY <1>1, <1>2, <1>3, <1>4, <1>8 DEF CallerStep, Steps
<1>9. CASE PulseStep
  BY <1>5, <1>6, <1>7, <1>9 DEF PulseStep, Steps
<1>10. QED
  BY <1>5, <1>7, <1>8, <1>9 DEF Next, ReaderStep, ShutDownStep, Environment, Steps

LEMMA SameIsWhole ==
  ASSUME NEW d \in Named, Whole(d), SameSession(d), UNCHANGED <<inbound, inhand>>
  PROVE  Whole(d)'
<1> USE DEF SameSession
<1>1. (Taken(d)' = Taken(d)) \/ d \notin Streams \cup Subs
  BY DEF Taken
<1>2. Streams \cup Subs = Named
  BY DEF Named
<1>3. Fresh(d)'
  BY DEF Whole, Fresh
<1>4. InOrder(d)'
  BY <1>1, <1>2 DEF Whole, InOrder
<1>5. Own(d)' /\ Counted(d)'
  BY DEF Whole, Own, Counted
<1>6. Ended(d)' /\ Clean(d)'
  BY DEF Whole, Ended, Clean
<1>7. Loss(d)'
  BY DEF Whole, Loss
<1>8. QED
  BY <1>3, <1>4, <1>5, <1>6, <1>7 DEF Whole

LEMMA GoingOnIsWhole ==
  ASSUME TypeOK, NEW c \in Named, GoesOn(c), Whole(c)
  PROVE  Whole(c)'
<1>1. UNCHANGED <<got, reason, gap, told, seen, sent, inbound, inhand>>
  BY DEF GoesOn
<1>2. \/ pc'[c] = "done" /\ inbox'[c] \in {inbox[c], <<>>} /\ (c \in entries' => c \in entries)
      \/ pc'[c] # "done" /\ inbox' = inbox /\ entries' = entries
  BY Sets DEF GoesOn, TypeOK, TypeSinks
<1>3. pc[c] # "idle" /\ pc'[c] # "idle" /\ pc[c] # "done"
  BY DEF GoesOn
<1>4. Fresh(c)'
  BY <1>3 DEF Fresh
<1>5. InOrder(c)'
  <2>1. CASE pc'[c] = "done"
    BY <2>1 DEF InOrder
  <2>2. CASE pc'[c] # "done"
    <3>1. inbox' = inbox /\ entries' = entries
      BY <1>2, <2>2
    <3>2. Taken(c)' = Taken(c)
      BY <1>1, <3>1 DEF Taken
    <3>3. QED
      BY <1>1, <1>3, <3>1, <3>2 DEF Whole, InOrder
  <2>3. QED
    BY <2>1, <2>2
<1>6. Own(c)'
  BY <1>2 DEF Whole, Own
<1>7. Counted(c)'
  BY <1>1, <1>2, <1>3 DEF Whole, Counted
<1>8. Ended(c)'
  <2>1. ASSUME c \in Streams, pc'[c] \in Going, c \notin entries', reason'[c] = "none"
        PROVE  IF inbox'[c] = <<>> THEN LastIsFinal(got'[c]) ELSE LastIsFinal(inbox'[c])
    <3>1. pc[c] \in Going /\ inbox' = inbox /\ entries' = entries
      BY <1>2, <2>1 DEF GoesOn, Going
    <3>2. QED
      BY <1>1, <2>1, <3>1 DEF Whole, Ended, Going
  <2>2. QED
    BY <2>1 DEF Ended, Going, LastIsFinal
<1>9. Clean(c)'
  BY <1>1 DEF Whole, Clean, GoesOn
<1>10. Loss(c)'
  BY <1>1, <1>2, <1>3 DEF Whole, Loss
<1>11. QED
  BY <1>4, <1>5, <1>6, <1>7, <1>8, <1>9, <1>10 DEF Whole

\* A session begins, or is refused its id.
LEMMA StartIsWhole ==
  ASSUME TypeOK, EntriesOwned, NEW c \in Named, Start(c) \/ Beat(c), Whole(c), ~Coming(c)
  PROVE  Whole(c)'
<1>1. c \notin Pings /\ Start(c) /\ c \in Calls
  BY Sets DEF Beat
<1>2. /\ pc[c] = "idle" /\ c \notin entries
      /\ UNCHANGED <<got, inbox, told, seen, gap, reason, sent, inbound, inhand>>
  BY <1>1 DEF Start, Register, EntriesOwned, sinks, wire
<1>3. /\ sent[c] = 0 /\ got[c] = <<>> /\ inbox[c] = <<>>
      /\ c \in Subs => seen[c] = 0 /\ told[c] = 0
  BY <1>2 DEF Whole, Fresh
<1>4. \/ pc'[c] = "done" /\ entries' = entries /\ result'[c] = "usage"
      \/ pc'[c] = "registered" /\ c \in entries' /\ result' = result
  BY <1>1 DEF Start, Register, TypeOK, TypeCallers
<1>5. Fresh(c)' /\ Own(c)' /\ Counted(c)'
  BY <1>2, <1>3, <1>4 DEF Fresh, Own, Counted
<1>6. InOrder(c)'
  BY <1>2, <1>3 DEF InOrder, Taken, Coming, Named
<1>7. Ended(c)' /\ Clean(c)'
  BY <1>2, <1>4 DEF Ended, Whole, Clean
<1>8. Loss(c)'
  BY <1>2, <1>3 DEF Loss
<1>9. QED
  BY <1>5, <1>6, <1>7, <1>8 DEF Whole

\* The consumer takes a pack.
LEMMA TakingIsWhole ==
  ASSUME TypeOK, NEW c \in Named, NextPack(c), Whole(c)
  PROVE  Whole(c)'
<1> DEFINE g == got[c]
           b == inbox[c]
<1>1. /\ pc[c] = "waiting" /\ b # <<>>
      /\ UNCHANGED <<entries, pc, result, told, seen, gap, reason, sent, inbound, inhand>>
  BY DEF NextPack, wire
<1>2. g \in Seq(Pack) /\ b \in Seq(Pack)
  BY Sets DEF TypeOK, TypeCallers, TypeSinks
<1>3. got'[c] = Append(g, Head(b)) /\ inbox'[c] = Tail(b)
  BY Sets DEF NextPack, TypeOK, TypeCallers, TypeSinks
<1> HIDE DEF g, b
<1>4. /\ Len(b) \in Nat /\ Len(b) > 0 /\ Len(Tail(b)) = Len(b) - 1 /\ Len(g) \in Nat
      /\ \A i \in DOMAIN Tail(b) : i + 1 \in DOMAIN b /\ Tail(b)[i] = b[i + 1]
      /\ Head(b) = b[1] /\ 1 \in DOMAIN b /\ Tail(b) \in Seq(Pack)
      /\ \A i \in DOMAIN Tail(b) : i \in Nat
  BY <1>1, <1>2
<1>5. /\ Len(Append(g, Head(b))) = Len(g) + 1
      /\ Append(g, Head(b))[Len(g) + 1] = Head(b)
      /\ \A i \in DOMAIN g : Append(g, Head(b))[i] = g[i]
      /\ \A i \in DOMAIN Append(g, Head(b)) : i \in DOMAIN g \/ i = Len(g) + 1
      /\ \A i \in DOMAIN g : i \in DOMAIN Append(g, Head(b))
      /\ Len(g) + 1 \in DOMAIN Append(g, Head(b)) /\ Append(g, Head(b)) # <<>>
  <2>1. Head(b) \in Pack
    BY <1>1, <1>2
  <2>2. QED
    BY <1>2, <2>1
<1>6. Fresh(c)'
  BY <1>1 DEF Fresh
<1>7. InOrder(c)'
  <2>1. Len(got'[c]) + Len(inbox'[c]) = Len(g) + Len(b)
    <3>1. Len(got'[c]) = Len(g) + 1 /\ Len(inbox'[c]) = Len(b) - 1
      BY <1>3, <1>4, <1>5
    <3>2. Len(g) \in Nat /\ Len(b) \in Nat
      BY <1>2
    <3>3. QED
      BY <3>1, <3>2
  <2>2. Taken(c)' = Taken(c)
    BY <1>1, <2>1 DEF Taken, g, b
  <2>3. QED
    BY <1>1, <2>2 DEF Whole, InOrder
<1>8. Own(c)'
  BY <1>3, <1>4 DEF Whole, Own, b
<1>9. Counted(c)'
  <2>1. c \in Streams => /\ \A i \in DOMAIN g : g[i].n = i
                         /\ \A i \in DOMAIN b : b[i].n = Len(g) + i
    BY <1>1 DEF Whole, Counted, g, b
  <2>2. c \in Streams => \A i \in DOMAIN got'[c] : got'[c][i].n = i
    BY <1>3, <1>4, <1>5, <2>1
  <2>3. ASSUME c \in Streams, NEW i \in DOMAIN Tail(b)
        PROVE  Tail(b)[i].n = (Len(g) + 1) + i
    <3>1. i \in Nat /\ Len(g) \in Nat
      BY <1>4
    <3>2. Tail(b)[i].n = Len(g) + (i + 1)
      BY <1>4, <2>1, <2>3
    <3>3. QED
      BY <3>1, <3>2
  <2>4. Len(got'[c]) = Len(g) + 1
    BY <1>3, <1>5
  <2>5. c \in Streams => \A i \in DOMAIN inbox'[c] : inbox'[c][i].n = Len(got'[c]) + i
    BY <1>3, <2>3, <2>4
  <2>6. QED
    BY <2>2, <2>5 DEF Counted
<1>10. Ended(c)'
  <2>1. ASSUME c \in Streams, c \notin entries, reason[c] = "none"
        PROVE  IF inbox'[c] = <<>> THEN LastIsFinal(got'[c]) ELSE LastIsFinal(inbox'[c])
    <3>1. LastIsFinal(b)
      BY <1>1, <2>1 DEF Whole, Ended, b
    <3>2. CASE Tail(b) = <<>>
      <4>1. Len(b) = 1
        <5>1. b \in Seq(Pack) /\ b # <<>> /\ Tail(b) = <<>>
          BY <1>1, <1>2, <3>2 DEF b
        <5>2. Len(b) \in Nat /\ Len(Tail(b)) = Len(b) - 1
          BY <5>1
        <5>3. Len(Tail(b)) = Len(<<>>)
          BY <3>2, Zenon
        <5>4. Len(<<>>) = 0
          OBVIOUS
        <5>5. QED
          BY <5>2, <5>3, <5>4
      <4>2. QED
        BY <1>3, <1>4, <1>5, <3>1, <3>2, <4>1 DEF LastIsFinal
    <3>3. CASE Tail(b) # <<>>
      <4>1. Len(Tail(b)) > 0 /\ Len(Tail(b)) \in DOMAIN Tail(b)
        BY <1>4, <3>3
      <4>2. Tail(b)[Len(Tail(b))] = b[Len(b)]
        BY <1>4, <4>1
      <4>3. QED
        BY <1>3, <3>1, <3>3, <4>2 DEF LastIsFinal
    <3>4. QED
      BY <3>2, <3>3, <1>3
  <2>2. QED
    BY <1>1, <2>1 DEF Ended, LastIsFinal
<1>11. Clean(c)'
  BY <1>1 DEF Whole, Clean
<1>12. Loss(c)'
  <2>1. ASSUME c \in Subs, NEW n \in Nat, n > told[c], n <= seen[c]
        PROVE  \/ gap[c]
               \/ \E i \in DOMAIN inbox'[c] : inbox'[c][i].n = n
               \/ \E j \in DOMAIN got'[c] : got'[c][j].n = n
    <3>1. \/ gap[c]
          \/ \E i \in DOMAIN b : b[i].n = n
          \/ \E j \in DOMAIN g : g[j].n = n
      BY <1>1, <2>1 DEF Whole, Loss, g, b
    <3>2. ASSUME NEW i \in DOMAIN b, b[i].n = n, i # 1
          PROVE  \E k \in DOMAIN Tail(b) : Tail(b)[k].n = n
      <4>1. i - 1 \in DOMAIN Tail(b) /\ Tail(b)[i - 1] = b[i]
        BY <1>2, <1>4, <3>2
      <4>2. QED
        BY <3>2, <4>1
    <3>3. QED
      BY <1>3, <1>4, <1>5, <3>1, <3>2
  <2>2. QED
    BY <1>1, <2>1 DEF Loss
<1>13. QED
  BY <1>6, <1>7, <1>8, <1>9, <1>10, <1>11, <1>12 DEF Whole

\* The end is seen, or the gap is read.
LEMMA ReadingIsWhole ==
  ASSUME TypeOK, NEW c \in Named, NextIsOver(c) \/ TakeGap(c), Whole(c)
  PROVE  Whole(c)'
<1>1. /\ pc[c] = "waiting"
      /\ UNCHANGED <<entries, got, inbox, seen, reason, sent, inbound, inhand>>
  BY DEF NextIsOver, TakeGap, sinks, wire
<1>2. Taken(c)' = Taken(c)
  BY <1>1 DEF Taken
<1>3. CASE NextIsOver(c)
  <2>1. /\ pc'[c] = "leaving" /\ inbox[c] = <<>> /\ c \notin entries
        /\ result'[c] = IF reason[c] = "none" THEN "end" ELSE reason[c]
        /\ UNCHANGED <<told, gap>>
    BY <1>3, Sets DEF NextIsOver, Finish, sinks, TypeOK, TypeCallers
  <2>2. Fresh(c)' /\ InOrder(c)' /\ Own(c)' /\ Counted(c)'
    BY <1>1, <2>1 DEF Whole, Fresh, InOrder, Own, Counted
  <2>3. Ended(c)'
    BY <2>1 DEF Ended
  <2>4. c \in Streams /\ reason[c] = "none" => LastIsFinal(got[c])
    BY <1>1, <2>1 DEF Whole, Ended
  <2>5. reason[c] # "end"
    BY DEF TypeOK, TypeSinks
  <2>6. Clean(c)'
    BY <1>1, <2>1, <2>4, <2>5 DEF Clean
  <2>7. Loss(c)'
    BY <1>1, <2>1 DEF Whole, Loss
  <2>8. QED
    BY <2>2, <2>3, <2>6, <2>7 DEF Whole
<1>4. CASE TakeGap(c)
  <2>1. c \in Subs /\ pc' = pc /\ result' = result /\ told'[c] = seen[c]
    BY <1>4 DEF TakeGap, TypeOK, TypeCallers
  <2>2. Fresh(c)' /\ InOrder(c)' /\ Own(c)' /\ Counted(c)'
    BY <1>1, <1>2, <2>1 DEF Whole, Fresh, InOrder, Own, Counted
  <2>3. Ended(c)' /\ Clean(c)'
    BY <1>1, <2>1 DEF Whole, Ended, Clean
  <2>4. seen[c] \in Nat
    BY <2>1 DEF TypeOK, TypeSinks
  <2>5. Loss(c)'
    BY <1>1, <2>1, <2>4 DEF Loss
  <2>6. QED
    BY <2>2, <2>3, <2>5 DEF Whole
<1>5. QED
  BY <1>3, <1>4

\* fail_all takes every entry, and says so.
LEMMA FailingIsWhole ==
  ASSUME TypeOK, NEW c \in Named, FailAll, Whole(c)
  PROVE  Whole(c)'
<1>1. /\ entries' = {} /\ inbox'[c] = inbox[c]
      /\ reason'[c] = IF c \in entries /\ reason[c] = "none" THEN "network" ELSE reason[c]
      /\ UNCHANGED <<pc, result, got, told, gap, seen, sent>>
  BY Sets DEF FailAll, callers, wire
<1>2. Fresh(c)' /\ InOrder(c)' /\ Own(c)' /\ Counted(c)'
  BY <1>1 DEF Whole, Fresh, InOrder, Own, Counted
<1>3. Ended(c)'
  BY <1>1 DEF Whole, Ended
<1>4. Clean(c)' /\ Loss(c)'
  BY <1>1 DEF Whole, Clean, Loss
<1>5. QED
  BY <1>2, <1>3, <1>4 DEF Whole

\* What the next state says of it, for the lemmas about steps.
ComingNext(d) == \/ \E i \in DOMAIN inhand' : inhand'[i].to = d
                 \/ \E j \in DOMAIN inbound' : inbound'[j].to = d
RefusedNext(d) == pc'[d] = "done" /\ asked'[d] = 0 /\ \A i \in DOMAIN outq' : outq'[i] # d

LEMMA SameButOrder ==
  ASSUME NEW d \in Named, Whole(d), SameSession(d), InOrder(d)'
  PROVE  Whole(d)'
<1> USE DEF SameSession
<1>1. Fresh(d)'
  BY DEF Whole, Fresh
<1>2. Own(d)' /\ Counted(d)'
  BY DEF Whole, Own, Counted
<1>3. Ended(d)' /\ Clean(d)'
  BY DEF Whole, Ended, Clean
<1>4. Loss(d)'
  BY DEF Whole, Loss
<1>5. QED
  BY <1>1, <1>2, <1>3, <1>4 DEF Whole

LEMMA SameTaken ==
  ASSUME NEW d \in Named, SameSession(d)
  PROVE  Taken(d)' = Taken(d)
BY DEF SameSession, Taken, Named

\* A pack for somebody else joins the packs on their way.
LEMMA OthersPackIsWhole ==
  ASSUME TypeOK, NEW d \in Named, Whole(d), SameSession(d), UNCHANGED inhand,
         NEW p, inbound' = Append(inbound, p), p \in Pack, p.to # d
  PROVE  Whole(d)'
<1>1. inbound \in Seq(Pack)
  BY DEF TypeOK, TypeWire
<1>2. /\ \A j \in DOMAIN inbound' : j \in DOMAIN inbound \/ inbound'[j] = p
      /\ \A j \in DOMAIN inbound : j \in DOMAIN inbound' /\ inbound'[j] = inbound[j]
  <2>1. \A S : \A t \in Seq(S), x \in S :
          /\ \A j \in DOMAIN Append(t, x) : j \in DOMAIN t \/ Append(t, x)[j] = x
          /\ \A j \in DOMAIN t : j \in DOMAIN Append(t, x) /\ Append(t, x)[j] = t[j]
    OBVIOUS
  <2>2. QED
    BY <1>1, <2>1
<1>3. \A j \in DOMAIN inbound' :
        inbound'[j].to = d => j \in DOMAIN inbound /\ inbound'[j] = inbound[j]
  BY <1>2
<1>4. ASSUME (d \in entries /\ pc[d] # "done")'
      PROVE  /\ InOrder(d) /\ d \in entries /\ pc[d] # "done"
             /\ Taken(d)' = Taken(d) /\ sent'[d] = sent[d] /\ UNCHANGED inhand
  BY <1>4, SameTaken DEF SameSession, Whole
<1>5. InOrder(d)'
  <2>1. SUFFICES ASSUME (d \in entries /\ pc[d] # "done")'
                 PROVE  InOrder(d)'
    BY DEF InOrder
  <2>2. /\ Taken(d)' <= sent'[d]
        /\ \A i \in DOMAIN inhand' :
             inhand'[i].to = d => inhand'[i].n > Taken(d)' /\ inhand'[i].n <= sent'[d]
    BY <1>4, <2>1 DEF InOrder
  <2>3. \A j \in DOMAIN inbound' :
          inbound'[j].to = d => inbound'[j].n > Taken(d)' /\ inbound'[j].n <= sent'[d]
    BY <1>3, <1>4, <2>1 DEF InOrder
  <2>4. \A i, j \in DOMAIN inbound' :
          i < j /\ inbound'[i].to = d /\ inbound'[j].to = d => inbound'[i].n < inbound'[j].n
    BY <1>3, <1>4, <2>1 DEF InOrder
  <2>5. \A i \in DOMAIN inhand', j \in DOMAIN inbound' :
          inhand'[i].to = d /\ inbound'[j].to = d => inhand'[i].n < inbound'[j].n
    BY <1>3, <1>4, <2>1 DEF InOrder
  <2>6. \A n \in Nat : n > Taken(d)' /\ n <= sent'[d] =>
          \/ \E i \in DOMAIN inhand' : inhand'[i].to = d /\ inhand'[i].n = n
          \/ \E j \in DOMAIN inbound' : inbound'[j].to = d /\ inbound'[j].n = n
    BY <1>2, <1>4, <2>1 DEF InOrder
  <2>7. QED
    BY <2>2, <2>3, <2>4, <2>5, <2>6 DEF InOrder
<1>6. QED
  BY <1>5, SameButOrder

\* The pack in hand was somebody else's.
LEMMA OthersDispatchIsWhole ==
  ASSUME NEW d \in Named, Whole(d), SameSession(d), UNCHANGED inbound, inhand' = <<>>,
         d \in entries /\ pc[d] # "done" => \A i \in DOMAIN inhand : inhand[i].to # d
  PROVE  Whole(d)'
<1>1. InOrder(d)'
  BY SameTaken DEF SameSession, Whole, InOrder
<1>2. QED
  BY <1>1, SameButOrder

\* The reader takes the first pack, or leaves one out that is nobody's.
LEMMA ReaderIsWhole ==
  ASSUME TypeOK, JunkIsNobodys, NEW d \in Named, Whole(d), ReaderTakes \/ ReaderSkips
  PROVE  Whole(d)'
<1>1. /\ SameSession(d) /\ inhand = <<>> /\ inbound # <<>> /\ inbound' = Tail(inbound)
      /\ \/ inhand' = <<Head(inbound)>>
         \/ inhand' = <<>> /\ Head(inbound).kind = "junk"
  BY DEF ReaderTakes, ReaderSkips, SameSession, callers, sinks
<1>2. inbound \in Seq(Pack)
  BY DEF TypeOK, TypeWire
<1>3. /\ \A j \in DOMAIN Tail(inbound) : j \in Nat /\ j + 1 \in DOMAIN inbound
                                         /\ Tail(inbound)[j] = inbound[j + 1] /\ 1 < j + 1
      /\ \A j \in DOMAIN inbound : j # 1 => j - 1 \in DOMAIN Tail(inbound)
                                            /\ Tail(inbound)[j - 1] = inbound[j]
      /\ Head(inbound) = inbound[1] /\ 1 \in DOMAIN inbound
  BY <1>1, <1>2
<1>4. ASSUME d \in entries, pc[d] # "done"
      PROVE  InOrder(d)'
  <2> DEFINE t == Taken(d)
             m == sent[d]
  <2>1. /\ t <= m
        /\ \A j \in DOMAIN inbound : inbound[j].to = d => inbound[j].n > t /\ inbound[j].n <= m
        /\ \A i, j \in DOMAIN inbound :
             i < j /\ inbound[i].to = d /\ inbound[j].to = d => inbound[i].n < inbound[j].n
        /\ \A n \in Nat : n > t /\ n <= m =>
             \E j \in DOMAIN inbound : inbound[j].to = d /\ inbound[j].n = n
    BY <1>1, <1>4 DEF Whole, InOrder
  <2>2. Taken(d)' = t /\ sent'[d] = m
    BY <1>1, SameTaken DEF SameSession
  <2> HIDE DEF t, m
  <2>3. CASE inhand' = <<Head(inbound)>>
    <3>1. DOMAIN inhand' = {1} /\ inhand'[1] = inbound[1]
      BY <1>3, <2>3
    <3>2. \A j \in DOMAIN inbound' :
            inbound'[j].to = d => inbound'[j].n > t /\ inbound'[j].n <= m
      BY <1>1, <1>3, <2>1
    <3>3. \A i, j \in DOMAIN inbound' :
            i < j /\ inbound'[i].to = d /\ inbound'[j].to = d => inbound'[i].n < inbound'[j].n
      <4>1. SUFFICES ASSUME NEW i \in DOMAIN Tail(inbound), NEW j \in DOMAIN Tail(inbound),
                            i < j, Tail(inbound)[i].to = d, Tail(inbound)[j].to = d
                     PROVE  Tail(inbound)[i].n < Tail(inbound)[j].n
        BY <1>1
      <4>2. i + 1 < j + 1
        BY <1>3, <4>1
      <4>3. QED
        BY <1>3, <2>1, <4>1, <4>2
    <3>4. \A i \in DOMAIN inhand', j \in DOMAIN inbound' :
            inhand'[i].to = d /\ inbound'[j].to = d => inhand'[i].n < inbound'[j].n
      BY <1>1, <1>3, <2>1, <3>1
    <3>5. \A n \in Nat : n > t /\ n <= m =>
            \/ \E i \in DOMAIN inhand' : inhand'[i].to = d /\ inhand'[i].n = n
            \/ \E j \in DOMAIN inbound' : inbound'[j].to = d /\ inbound'[j].n = n
      <4>1. SUFFICES ASSUME NEW n \in Nat, n > t, n <= m
                     PROVE  \/ inbound[1].to = d /\ inbound[1].n = n
                            \/ \E j \in DOMAIN Tail(inbound) :
                                 Tail(inbound)[j].to = d /\ Tail(inbound)[j].n = n
        BY <1>1, <3>1
      <4>2. PICK j \in DOMAIN inbound : inbound[j].to = d /\ inbound[j].n = n
        BY <2>1, <4>1
      <4>3. QED
        BY <1>3, <4>2
    <3>6. \A i \in DOMAIN inhand' : inhand'[i].to = d => inhand'[i].n > t /\ inhand'[i].n <= m
      BY <1>3, <2>1, <3>1
    <3>7. QED
      BY <2>1, <2>2, <3>2, <3>3, <3>4, <3>5, <3>6 DEF InOrder
  <2>4. CASE inhand' = <<>> /\ Head(inbound).kind = "junk"
    <3>1. inbound[1].to # d
      BY <1>3, <2>4, CallSets, Sets DEF JunkIsNobodys, CallSets
    <3>2. \A j \in DOMAIN inbound' :
            inbound'[j].to = d => inbound'[j].n > t /\ inbound'[j].n <= m
      BY <1>1, <1>3, <2>1
    <3>3. \A i, j \in DOMAIN inbound' :
            i < j /\ inbound'[i].to = d /\ inbound'[j].to = d => inbound'[i].n < inbound'[j].n
      <4>1. SUFFICES ASSUME NEW i \in DOMAIN Tail(inbound), NEW j \in DOMAIN Tail(inbound),
                            i < j, Tail(inbound)[i].to = d, Tail(inbound)[j].to = d
                     PROVE  Tail(inbound)[i].n < Tail(inbound)[j].n
        BY <1>1
      <4>2. i + 1 < j + 1
        BY <1>3, <4>1
      <4>3. QED
        BY <1>3, <2>1, <4>1, <4>2
    <3>4. \A n \in Nat : n > t /\ n <= m =>
            \E j \in DOMAIN inbound' : inbound'[j].to = d /\ inbound'[j].n = n
      <4>1. SUFFICES ASSUME NEW n \in Nat, n > t, n <= m
                     PROVE  \E j \in DOMAIN Tail(inbound) :
                              Tail(inbound)[j].to = d /\ Tail(inbound)[j].n = n
        BY <1>1
      <4>2. PICK j \in DOMAIN inbound : inbound[j].to = d /\ inbound[j].n = n
        BY <2>1, <4>1
      <4>3. QED
        BY <1>3, <3>1, <4>2
    <3>5. QED
      BY <2>1, <2>2, <2>4, <3>2, <3>3, <3>4 DEF InOrder
  <2>5. QED
    BY <1>1, <2>3, <2>4
<1>5. InOrder(d)'
  <2>1. CASE d \in entries /\ pc[d] # "done"
    BY <1>4, <2>1
  <2>2. CASE ~(d \in entries /\ pc[d] # "done")
    BY <1>1, <2>2 DEF InOrder, SameSession
  <2>3. QED
    BY <2>1, <2>2
<1>6. QED
  BY <1>1, <1>5, SameButOrder

LEMMA PacksOnTheLine ==
  ASSUME TypeOK
  PROVE  /\ \A i \in DOMAIN inhand : inhand[i] \in Pack /\ inhand[i].n \in Nat
         /\ \A j \in DOMAIN inbound : inbound[j] \in Pack /\ inbound[j].n \in Nat
<1>1. /\ \A i \in DOMAIN inhand : inhand[i] \in Pack
      /\ \A j \in DOMAIN inbound : inbound[j] \in Pack
  BY DEF TypeOK, TypeReader, TypeWire
<1>2. \A q \in Pack : q.n \in Nat
  BY DEF Pack
<1>3. QED
  BY <1>1, <1>2

\* The reader has at most one pack in hand.
LEMMA InHand ==
  ASSUME TypeOK, OneInHand, inhand # <<>>
  PROVE  DOMAIN inhand = {1} /\ inhand[1] = Head(inhand)
<1>1. inhand \in Seq(Pack)
  BY DEF TypeOK, TypeReader
<1>2. Len(inhand) \in Nat /\ Len(inhand) # 0 /\ Len(inhand) <= 1
  BY <1>1 DEF OneInHand
<1>3. Len(inhand) = 1
  <2>1. \A n \in Nat : n # 0 /\ n <= 1 => n = 1
    OBVIOUS
  <2>2. QED
    BY <1>2, <2>1, Zenon
<1>4. DOMAIN inhand = 1 .. Len(inhand)
  BY <1>1
<1>5. Head(inhand) = inhand[1]
  BY <1>1
<1>6. QED
  BY <1>3, <1>4, <1>5

\* The server sends the next pack of the session.
LEMMA PushIsWhole ==
  ASSUME TypeOK, OnTheWire, NEW c \in Named, Whole(c), ServerPushes(c)
  PROVE  Whole(c)'
<1>1. PICK kind \in {"part", "last", "error"} :
        inbound' = Append(inbound, [kind |-> kind, id |-> Id[c], seq |-> seq[c], to |-> c,
                                    n |-> sent[c] + 1])
  BY DEF ServerPushes, Put
<1> DEFINE p == [kind |-> kind, id |-> Id[c], seq |-> seq[c], to |-> c, n |-> sent[c] + 1]
           m == sent[c]
<1>2. /\ asked[c] > 0 /\ c \in Calls /\ sent'[c] = m + 1
      /\ UNCHANGED <<entries, pc, result, inbox, got, reason, gap, told, seen, inhand>>
  BY Sets DEF ServerPushes, Put, callers, sinks, TypeOK, TypeWire
<1>3. pc[c] # "idle"
  BY <1>2 DEF OnTheWire, Begun
<1>4. p \in Pack /\ p.to = c /\ p.n = m + 1 /\ m \in Nat
  BY <1>2, PackType, Headers DEF Headers, TypeOK, TypeCallers, TypeWire
<1>5. inbound \in Seq(Pack) /\ inbound' = Append(inbound, p)
  BY <1>1 DEF TypeOK, TypeWire
<1> HIDE DEF p, m
<1>6. /\ \A j \in DOMAIN inbound' :
           \/ j \in DOMAIN inbound /\ inbound'[j] = inbound[j]
           \/ j = Len(inbound) + 1 /\ inbound'[j] = p
      /\ \A j \in DOMAIN inbound : j \in DOMAIN inbound' /\ inbound'[j] = inbound[j]
      /\ Len(inbound) + 1 \in DOMAIN inbound' /\ inbound'[Len(inbound) + 1] = p
  BY <1>4, <1>5
<1>7. \A j \in DOMAIN inbound : j \in Nat /\ j < Len(inbound) + 1
  BY <1>5
<1>8. Taken(c)' = Taken(c)
  BY <1>2 DEF Taken
<1>9. \A n \in Nat : n <= m + 1 => n <= m \/ n = m + 1
  BY <1>4
<1>10. InOrder(c)'
  <2>1. SUFFICES ASSUME c \in entries, pc[c] # "done"
                 PROVE  InOrder(c)'
    BY <1>2 DEF InOrder
  <2> DEFINE t == Taken(c)
  <2>2. /\ t <= m
        /\ \A i \in DOMAIN inhand : inhand[i].to = c => inhand[i].n > t /\ inhand[i].n <= m
        /\ \A j \in DOMAIN inbound : inbound[j].to = c => inbound[j].n > t /\ inbound[j].n <= m
        /\ \A i, j \in DOMAIN inbound :
             i < j /\ inbound[i].to = c /\ inbound[j].to = c => inbound[i].n < inbound[j].n
        /\ \A i \in DOMAIN inhand, j \in DOMAIN inbound :
             inhand[i].to = c /\ inbound[j].to = c => inhand[i].n < inbound[j].n
        /\ \A n \in Nat : n > t /\ n <= m =>
             \/ \E i \in DOMAIN inhand : inhand[i].to = c /\ inhand[i].n = n
             \/ \E j \in DOMAIN inbound : inbound[j].to = c /\ inbound[j].n = n
    BY <2>1 DEF Whole, InOrder, m
  <2>3. t \in Nat
    BY Sets DEF Taken, TypeOK, TypeCallers, TypeSinks, Named
  <2>4. /\ \A i \in DOMAIN inhand : inhand[i].n \in Nat
        /\ \A j \in DOMAIN inbound : inbound[j].n \in Nat
    BY PacksOnTheLine
  <2> HIDE DEF t
  <2>5. t <= m + 1 /\ p.n > t /\ p.n <= m + 1
    BY <1>4, <2>2, <2>3
  <2>6. \A i \in DOMAIN inhand :
          inhand[i].to = c => inhand[i].n > t /\ inhand[i].n <= m + 1 /\ inhand[i].n < p.n
    BY <1>4, <2>2, <2>4
  <2>7. \A j \in DOMAIN inbound :
          inbound[j].to = c => inbound[j].n > t /\ inbound[j].n <= m + 1 /\ inbound[j].n < p.n
    BY <1>4, <2>2, <2>4
  <2>8. \A j \in DOMAIN inbound' :
          inbound'[j].to = c => inbound'[j].n > t /\ inbound'[j].n <= m + 1
    BY <1>6, <2>5, <2>7
  <2>9. \A i, j \in DOMAIN inbound' :
          i < j /\ inbound'[i].to = c /\ inbound'[j].to = c => inbound'[i].n < inbound'[j].n
    <3>1. SUFFICES ASSUME NEW i \in DOMAIN inbound', NEW j \in DOMAIN inbound', i < j,
                          inbound'[i].to = c, inbound'[j].to = c
                   PROVE  inbound'[i].n < inbound'[j].n
      OBVIOUS
    <3>2. i \in DOMAIN inbound /\ inbound'[i] = inbound[i]
      <4>1. Len(inbound) \in Nat
        BY <1>5
      <4>2. CASE i = Len(inbound) + 1
        BY <1>6, <1>7, <3>1, <4>1, <4>2
      <4>3. QED
        BY <1>6, <4>2
    <3>3. QED
      BY <1>6, <2>2, <2>7, <3>1, <3>2
  <2>10. \A i \in DOMAIN inhand', j \in DOMAIN inbound' :
           inhand'[i].to = c /\ inbound'[j].to = c => inhand'[i].n < inbound'[j].n
    BY <1>2, <1>6, <2>2, <2>6
  <2>11. \A n \in Nat : n > t /\ n <= m + 1 =>
           \/ \E i \in DOMAIN inhand' : inhand'[i].to = c /\ inhand'[i].n = n
           \/ \E j \in DOMAIN inbound' : inbound'[j].to = c /\ inbound'[j].n = n
    <3>1. SUFFICES ASSUME NEW n \in Nat, n > t, n <= m + 1
                   PROVE  \/ \E i \in DOMAIN inhand : inhand[i].to = c /\ inhand[i].n = n
                          \/ \E j \in DOMAIN inbound' : inbound'[j].to = c /\ inbound'[j].n = n
      BY <1>2
    <3>2. CASE n <= m
      BY <1>6, <2>2, <3>1, <3>2
    <3>3. CASE n = m + 1
      BY <1>4, <1>6, <3>3
    <3>4. QED
      BY <1>9, <3>1, <3>2, <3>3
  <2>12. Taken(c)' = t /\ sent'[c] = m + 1
    BY <1>2, <1>8 DEF t
  <2>13. QED
    BY <1>2, <2>5, <2>6, <2>8, <2>9, <2>10, <2>11, <2>12 DEF InOrder
<1>11. Fresh(c)' /\ Own(c)' /\ Counted(c)'
  BY <1>2, <1>3 DEF Whole, Fresh, Own, Counted
<1>12. Ended(c)' /\ Clean(c)' /\ Loss(c)'
  BY <1>2 DEF Whole, Ended, Clean, Loss
<1>13. QED
  BY <1>10, <1>11, <1>12 DEF Whole

\* The pack in hand is the next one of the session that has the entry.
LEMMA NextInLine ==
  ASSUME TypeOK, OneInHand, NEW c \in Named, c \in entries, pc[c] # "done", InOrder(c),
         inhand # <<>>, Head(inhand).to = c
  PROVE  /\ Head(inhand).n = Taken(c) + 1 /\ Head(inhand).n <= sent[c]
         /\ \A j \in DOMAIN inbound :
              inbound[j].to = c => inbound[j].n > Head(inhand).n /\ inbound[j].n <= sent[c]
         /\ \A i, j \in DOMAIN inbound :
              i < j /\ inbound[i].to = c /\ inbound[j].to = c => inbound[i].n < inbound[j].n
         /\ \A n \in Nat : n > Head(inhand).n /\ n <= sent[c] =>
              \E j \in DOMAIN inbound : inbound[j].to = c /\ inbound[j].n = n
<1> DEFINE p == Head(inhand)
           t == Taken(c)
           m == sent[c]
<1>1. inhand \in Seq(Pack)
  BY DEF TypeOK, TypeReader
<1>2. DOMAIN inhand = {1} /\ inhand[1] = p
  BY InHand
<1>3. /\ \A i \in DOMAIN inhand : inhand[i].to = c => inhand[i].n > t /\ inhand[i].n <= m
      /\ \A j \in DOMAIN inbound : inbound[j].to = c => inbound[j].n > t /\ inbound[j].n <= m
      /\ \A i, j \in DOMAIN inbound :
           i < j /\ inbound[i].to = c /\ inbound[j].to = c => inbound[i].n < inbound[j].n
      /\ \A i \in DOMAIN inhand, j \in DOMAIN inbound :
           inhand[i].to = c /\ inbound[j].to = c => inhand[i].n < inbound[j].n
      /\ \A n \in Nat : n > t /\ n <= m =>
           \/ \E i \in DOMAIN inhand : inhand[i].to = c /\ inhand[i].n = n
           \/ \E j \in DOMAIN inbound : inbound[j].to = c /\ inbound[j].n = n
  BY DEF InOrder
<1>4. t \in Nat /\ m \in Nat
  BY Sets DEF Taken, TypeOK, TypeCallers, TypeSinks, TypeWire, Named
<1>5. p.n \in Nat /\ \A j \in DOMAIN inbound : inbound[j].n \in Nat
  BY <1>2, PacksOnTheLine
<1>6. p.to = c
  OBVIOUS
<1> HIDE DEF p, t, m
<1>7. p.n > t /\ p.n <= m /\ \A j \in DOMAIN inbound : inbound[j].to = c => p.n < inbound[j].n
  BY <1>2, <1>3, <1>6
<1>8. p.n = t + 1
  <2>1. t + 1 \in Nat /\ t + 1 > t /\ t + 1 <= m
    BY <1>4, <1>5, <1>7
  <2>2. CASE p.n = t + 1
    BY <2>2
  <2>3. CASE p.n # t + 1
    <3>1. PICK j \in DOMAIN inbound : inbound[j].to = c /\ inbound[j].n = t + 1
      BY <1>2, <1>3, <2>1, <2>3
    <3>2. p.n < t + 1
      BY <1>7, <3>1
    <3>3. QED
      BY <1>4, <1>5, <1>7, <3>2
  <2>4. QED
    BY <2>2, <2>3
<1>9. ASSUME NEW n \in Nat, n > p.n, n <= m
      PROVE  \E j \in DOMAIN inbound : inbound[j].to = c /\ inbound[j].n = n
  <2>1. n > t /\ n # p.n
    BY <1>4, <1>5, <1>7, <1>9
  <2>2. QED
    BY <1>2, <1>3, <1>9, <2>1
<1>10. \A j \in DOMAIN inbound : inbound[j].to = c => inbound[j].n > p.n /\ inbound[j].n <= m
  BY <1>3, <1>5, <1>7
<1>11. QED
  BY <1>3, <1>7, <1>8, <1>9, <1>10 DEF p, t, m

\* A pack of a session finds the entry of that session, as long as it is there.
LEMMA SessionIsFound ==
  ASSUME TypeOK, OnTheWire, OneInHand, inhand # <<>>, NEW c \in Named, c \in entries,
         Head(inhand).to = c
  PROVE  c \in Session(Head(inhand))
<1>1. Faithful(Head(inhand))
  <2>1. inhand \in Seq(Pack) /\ 1 \in DOMAIN inhand /\ inhand[1] = Head(inhand)
    BY InHand DEF TypeOK, TypeReader
  <2>2. 1 \in 1 .. Len(inhand)
    BY <2>1
  <2>3. QED
    BY <2>1, <2>2 DEF OnTheWire
<1>2. Head(inhand).id = Id[c] /\ Id[c] # 0
  BY <1>1, Headers, Sets DEF Faithful, Headers
<1>3. QED
  BY <1>2 DEF Session

\* An entry that a pack finds by its session is the one the pack is for.
LEMMA FoundIsIts ==
  ASSUME TypeOK, OnTheWire, OneInHand, Apart, inhand # <<>>, NEW c \in Named,
         c \in FindKey(Head(inhand))
  PROVE  Head(inhand).to = c /\ c \in entries
<1> DEFINE p == Head(inhand)
           d == p.to
<1>1. DOMAIN inhand = {1} /\ inhand[1] = p /\ Faithful(p)
  <2>1. inhand \in Seq(Pack) /\ 1 \in DOMAIN inhand /\ inhand[1] = Head(inhand)
    BY InHand DEF TypeOK, TypeReader
  <2>2. 1 \in 1 .. Len(inhand)
    BY <2>1
  <2>3. QED
    BY <2>1, <2>2, InHand DEF OnTheWire
<1> HIDE DEF p
<1>2. c \in Session(p)
  BY Sets DEF FindKey, Exact, Created, p
<1>3. c \in entries /\ Id[c] = ReplyId[d] /\ d \in Calls /\ Begun(d)
  BY <1>1, <1>2 DEF Session, Faithful
<1>4. d \in Named
  BY <1>3, Headers, Sets DEF Headers
<1>5. Id[d] = Id[c]
  BY <1>3, <1>4, Headers, Sets DEF Headers
<1>6. Coming(d)
  BY <1>1 DEF Coming
<1>7. d = c
  BY <1>3, <1>4, <1>5, <1>6 DEF Apart, Begun
<1>8. QED
  BY <1>3, <1>7 DEF p

\* The receiver of the sink was dropped: the entry goes, and nothing else happens to it.
LEMMA GoneIsWhole ==
  ASSUME NEW c \in Named, Whole(c), pc[c] = "done", c \notin entries',
         UNCHANGED <<pc, result, inbox, got, reason, gap, told, sent, inbound>>
  PROVE  Whole(c)'
<1>1. Fresh(c)' /\ InOrder(c)' /\ Own(c)' /\ Counted(c)'
  BY DEF Whole, Fresh, InOrder, Own, Counted
<1>2. Ended(c)' /\ Clean(c)' /\ Loss(c)'
  BY DEF Whole, Ended, Clean, Loss
<1>3. QED
  BY <1>1, <1>2 DEF Whole

\* After the next pack of the session was dispatched the rest is still in order.
LEMMA RestIsInOrder ==
  ASSUME TypeOK, OneInHand, NEW c \in Named, c \in entries, pc[c] # "done", InOrder(c),
         inhand # <<>>, Head(inhand).to = c, inhand' = <<>>, UNCHANGED <<inbound, sent>>,
         Taken(c)' = Taken(c) + 1
  PROVE  InOrder(c)'
<1> DEFINE n == Head(inhand).n
           m == sent[c]
<1>1. /\ n = Taken(c) + 1 /\ n <= m
      /\ \A j \in DOMAIN inbound : inbound[j].to = c => inbound[j].n > n /\ inbound[j].n <= m
      /\ \A i, j \in DOMAIN inbound :
           i < j /\ inbound[i].to = c /\ inbound[j].to = c => inbound[i].n < inbound[j].n
      /\ \A k \in Nat : k > n /\ k <= m =>
           \E j \in DOMAIN inbound : inbound[j].to = c /\ inbound[j].n = k
  BY NextInLine
<1>2. Taken(c)' = n /\ sent'[c] = m
  BY <1>1
<1> HIDE DEF n, m
<1>3. QED
  BY <1>1, <1>2 DEF InOrder

LEMMA ToStreamIsWhole ==
  ASSUME TypeOK, EntriesOwned, OnTheWire, OneInHand, NEW c \in Streams, Whole(c), c \in entries,
         inhand # <<>>, Head(inhand).to = c, DeliverStream(c, Head(inhand)), inhand' = <<>>,
         UNCHANGED <<callers, wire>>
  PROVE  Whole(c)'
<1> DEFINE p == Head(inhand)
           b == inbox[c]
           g == got[c]
<1>1. c \in Named /\ c \in Calls /\ c \notin Subs /\ pc[c] # "idle"
  BY Sets, CallSets DEF CallSets, EntriesOwned
<1>2. CASE pc[c] = "done"
  BY <1>1, <1>2, GoneIsWhole DEF DeliverStream, callers, wire
<1>3. CASE pc[c] # "done" /\ Len(b) >= StreamQueue
  <2>1. /\ inbox' = inbox /\ c \notin entries' /\ reason'[c] # "none"
        /\ UNCHANGED <<pc, result, got, told, gap, seen, sent, inbound>>
    BY <1>1, <1>3 DEF DeliverStream, callers, wire, TypeOK, TypeSinks
  <2>2. Fresh(c)' /\ InOrder(c)' /\ Own(c)' /\ Counted(c)'
    BY <1>1, <2>1 DEF Whole, Fresh, InOrder, Own, Counted
  <2>3. Ended(c)' /\ Clean(c)' /\ Loss(c)'
    BY <1>1, <2>1 DEF Whole, Ended, Clean, Loss
  <2>4. QED
    BY <2>2, <2>3 DEF Whole
<1>4. CASE pc[c] # "done" /\ ~(Len(b) >= StreamQueue)
  <2>1. /\ inbox'[c] = Append(b, p) /\ reason' = reason
        /\ entries' = IF p.kind \in {"last", "error"} THEN entries \ {c} ELSE entries
        /\ UNCHANGED <<pc, result, got, told, gap, seen, sent, inbound>>
    BY <1>1, <1>4 DEF DeliverStream, callers, wire, TypeOK, TypeSinks
  <2>2. b \in Seq(Pack) /\ g \in Seq(Pack) /\ p \in Pack
    <3>1. inhand \in Seq(Pack)
      BY DEF TypeOK, TypeReader
    <3>2. QED
      BY <1>1, <3>1 DEF TypeOK, TypeCallers, TypeSinks
  <2>3. p.n = Taken(c) + 1 /\ p.to = c
    BY <1>1, <1>4, NextInLine DEF Whole
  <2>4. Taken(c) = Len(g) + Len(b) /\ Taken(c)' = Len(g) + Len(inbox'[c])
    BY <2>1 DEF Taken
  <2> HIDE DEF p, b, g
  <2>5. /\ Len(b) \in Nat /\ Len(g) \in Nat /\ Len(inbox'[c]) = Len(b) + 1
        /\ inbox'[c][Len(b) + 1] = p /\ inbox'[c] # <<>>
    BY <2>1, <2>2
  <2>6. \A i \in DOMAIN inbox'[c] :
          \/ i \in DOMAIN b /\ inbox'[c][i] = b[i]
          \/ i = Len(b) + 1 /\ inbox'[c][i] = p
    BY <2>1, <2>2
  <2>7. p.n = Len(g) + (Len(b) + 1) /\ Taken(c)' = Taken(c) + 1
    BY <2>3, <2>4, <2>5
  <2>8. Fresh(c)'
    BY <1>1, <2>1 DEF Fresh
  <2>9. InOrder(c)'
    <3>1. CASE p.kind \in {"last", "error"}
      BY <2>1, <3>1 DEF InOrder
    <3>2. CASE p.kind \notin {"last", "error"}
      BY <1>1, <1>4, <2>1, <2>7, <3>2, RestIsInOrder DEF Whole
    <3>3. QED
      BY <3>1, <3>2
  <2>10. Own(c)'
    BY <2>3, <2>6 DEF Whole, Own, b
  <2>11. Counted(c)'
    <3>1. /\ \A i \in DOMAIN g : g[i].n = i
          /\ \A i \in DOMAIN b : b[i].n = Len(g) + i
      BY <1>4 DEF Whole, Counted, g, b
    <3>2. \A i \in DOMAIN inbox'[c] : inbox'[c][i].n = Len(g) + i
      BY <2>6, <2>7, <3>1
    <3>3. QED
      BY <2>1, <3>1, <3>2 DEF Counted, g
  <2>12. Ended(c)'
    <3>1. ASSUME c \notin entries', reason[c] = "none"
          PROVE  LastIsFinal(inbox'[c])
      <4>1. p.kind \in {"last", "error"}
        BY <2>1, <3>1
      <4>2. inbox'[c][Len(inbox'[c])] = p
        BY <2>5
      <4>3. QED
        BY <2>5, <4>1, <4>2 DEF LastIsFinal
    <3>2. QED
      BY <2>1, <2>5, <3>1 DEF Ended, LastIsFinal
  <2>13. Clean(c)' /\ Loss(c)'
    BY <1>1, <2>1 DEF Whole, Clean, Loss
  <2>14. QED
    BY <2>8, <2>9, <2>10, <2>11, <2>12, <2>13 DEF Whole
<1>5. QED
  BY <1>2, <1>3, <1>4

LEMMA ToSubIsWhole ==
  ASSUME TypeOK, EntriesOwned, OnTheWire, OneInHand, NEW c \in Subs, Whole(c), c \in entries,
         inhand # <<>>, Head(inhand).to = c, DeliverSub(c, Head(inhand)), inhand' = <<>>,
         UNCHANGED <<callers, wire>>
  PROVE  Whole(c)'
<1> DEFINE p == Head(inhand)
           b == inbox[c]
           full == Len(b) >= SubQueue
<1>1. c \in Named /\ c \in Calls /\ c \notin Streams /\ pc[c] # "idle"
  BY Sets, CallSets DEF CallSets, EntriesOwned
<1>2. CASE pc[c] = "done"
  BY <1>1, <1>2, GoneIsWhole DEF DeliverSub, callers, wire
<1>3. CASE pc[c] # "done"
  <2>1. /\ seen'[c] = p.n
        /\ inbox'[c] = IF full THEN b ELSE Append(b, p)
        /\ gap'[c] = IF full THEN TRUE ELSE gap[c]
        /\ entries' = IF p.kind = "error" THEN entries \ {c} ELSE entries
        /\ UNCHANGED <<pc, result, got, told, sent, inbound>>
    BY <1>1, <1>3 DEF DeliverSub, callers, wire, TypeOK, TypeSinks
  <2>2. b \in Seq(Pack) /\ p \in Pack
    <3>1. inhand \in Seq(Pack)
      BY DEF TypeOK, TypeReader
    <3>2. QED
      BY <1>1, <3>1 DEF TypeOK, TypeSinks
  <2>3. p.n = seen[c] + 1 /\ p.to = c /\ Taken(c)' = Taken(c) + 1 /\ seen[c] \in Nat
    BY <1>1, <1>3, <2>1, NextInLine DEF Whole, Taken, TypeOK, TypeSinks
  <2> HIDE DEF p, b, full
  <2>4. Fresh(c)' /\ Counted(c)' /\ Ended(c)' /\ Clean(c)'
    BY <1>1, <2>1 DEF Fresh, Counted, Ended, Clean
  <2>5. InOrder(c)'
    <3>1. CASE p.kind = "error"
      BY <2>1, <3>1 DEF InOrder
    <3>2. CASE p.kind # "error"
      BY <1>1, <1>3, <2>1, <2>3, <3>2, RestIsInOrder DEF Whole
    <3>3. QED
      BY <3>1, <3>2
  <2>6. Own(c)'
    <3>1. \A i \in DOMAIN inbox'[c] : (i \in DOMAIN b /\ inbox'[c][i] = b[i]) \/ inbox'[c][i] = p
      BY <2>1, <2>2
    <3>2. QED
      BY <2>3, <3>1 DEF Whole, Own, b
  <2>7. Loss(c)'
    <3>1. ASSUME NEW n \in Nat, n > told[c], n <= p.n, ~full, ~gap[c]
          PROVE  \/ \E i \in DOMAIN inbox'[c] : inbox'[c][i].n = n
                 \/ \E j \in DOMAIN got[c] : got[c][j].n = n
      <4>1. /\ Len(b) + 1 \in DOMAIN inbox'[c] /\ inbox'[c][Len(b) + 1] = p
            /\ \A i \in DOMAIN b : i \in DOMAIN inbox'[c] /\ inbox'[c][i] = b[i]
        BY <2>1, <2>2, <3>1
      <4>2. n <= seen[c] \/ n = p.n
        BY <2>3, <3>1
      <4>3. CASE n <= seen[c]
        <5>1. \/ \E i \in DOMAIN b : b[i].n = n
              \/ \E j \in DOMAIN got[c] : got[c][j].n = n
          BY <1>3, <3>1, <4>3 DEF Whole, Loss, b
        <5>2. QED
          BY <4>1, <5>1
      <4>4. QED
        BY <4>1, <4>2, <4>3
    <3>2. QED
      BY <2>1, <3>1 DEF Loss
  <2>8. QED
    BY <2>4, <2>5, <2>6, <2>7 DEF Whole
<1>4. QED
  BY <1>2, <1>3

LEMMA DispatchIsWhole ==
  ASSUME TypeOK, EntriesOwned, OnTheWire, OneInHand, Apart, Dispatch, NEW d \in Named, Whole(d)
  PROVE  Whole(d)'
<1> DEFINE p == Head(inhand)
<1>1. /\ inhand # <<>> /\ inhand' = <<>> /\ UNCHANGED <<callers, wire>>
      /\ UNCHANGED <<pc, result, got, told, sent, inbound>>
  BY DEF Dispatch, callers, wire
<1>2. DOMAIN inhand = {1} /\ inhand[1] = p
  BY <1>1, InHand
<1>3. CASE p.to = d /\ d \in FindKey(p)
  <2>1. d \in entries /\ FindKey(p) \subseteq Named
    BY <1>1, <1>3, FoundIsIts, Sets DEF FindKey, Session, Exact, Created
  <2>2. \A c \in FindKey(p) : c = d
    BY <1>1, <1>3, <2>1, FoundIsIts
  <2>3. \/ d \in Streams /\ DeliverStream(d, p)
        \/ d \in Subs /\ DeliverSub(d, p)
    BY <1>3, <2>2, Sets DEF Dispatch
  <2>4. QED
    BY <1>1, <1>3, <2>1, <2>3, ToStreamIsWhole, ToSubIsWhole
<1>4. CASE ~(p.to = d /\ d \in FindKey(p))
  <2>1. d \notin FindKey(p)
    BY <1>1, <1>4, FoundIsIts
  <2>2. d \in entries => p.to # d
    BY <1>1, <2>1, SessionIsFound DEF FindKey
  <2>3. SameSession(d)
    <3>1. ASSUME NEW c \in Oneshots, DeliverOneshot(c, p)
          PROVE  SameSession(d)
      BY <1>1, <3>1, Sets DEF DeliverOneshot, SameSession, TypeOK, TypeSinks
    <3>2. ASSUME NEW c \in Streams, c # d, DeliverStream(c, p)
          PROVE  SameSession(d)
      BY <1>1, <3>2, Sets DEF DeliverStream, SameSession, TypeOK, TypeSinks
    <3>3. ASSUME NEW c \in Subs, c # d, DeliverSub(c, p)
          PROVE  SameSession(d)
      BY <1>1, <3>3, Sets DEF DeliverSub, SameSession, TypeOK, TypeSinks
    <3>4. ASSUME UNCHANGED <<entries, sinks>>
          PROVE  SameSession(d)
      BY <1>1, <3>4 DEF SameSession, sinks
    <3>5. QED
      BY <2>1, <3>1, <3>2, <3>3, <3>4 DEF Dispatch
  <2>4. QED
    BY <1>1, <1>2, <2>2, <2>3, OthersDispatchIsWhole
<1>5. QED
  BY <1>3, <1>4

\* A call that has not begun has nothing on its way, no place in the queue and no request.
LEMMA IdleIsUnknown ==
  ASSUME TypeOK, OnTheWire, JunkIsNobodys, NEW c \in Calls, pc[c] = "idle"
  PROVE  ~Coming(c) /\ asked[c] = 0 /\ \A i \in DOMAIN outq : outq[i] # c
<1>1. inhand \in Seq(Pack) /\ inbound \in Seq(Pack) /\ outq \in Seq(Calls) /\ asked[c] \in Nat
  BY DEF TypeOK, TypeReader, TypeWire
<1>2. /\ DOMAIN inhand = 1 .. Len(inhand) /\ DOMAIN inbound = 1 .. Len(inbound)
      /\ DOMAIN outq = 1 .. Len(outq)
  BY <1>1
<1>3. \A q : Faithful(q) => q.to # c
  BY DEF Faithful, Begun
<1>4. \A i \in DOMAIN inhand : inhand[i].to # c
  BY <1>2, <1>3 DEF OnTheWire
<1>5. \A j \in DOMAIN inbound : inbound[j].to # c
  BY <1>2, <1>3, CallSets DEF OnTheWire, JunkIsNobodys, CallSets
<1>6. \A i \in DOMAIN outq : outq[i] # c
  BY <1>2 DEF OnTheWire, Begun
<1>7. asked[c] = 0
  BY <1>1 DEF OnTheWire, Begun
<1>8. QED
  BY <1>4, <1>5, <1>6, <1>7 DEF Coming

LEMMA OnItsWayIsComing ==
  ASSUME TypeOK, NEW d \in Calls, ~OnItsWay(d)
  PROVE  ~Coming(d)
<1> DEFINE s == inbound \o inhand
<1>1. inhand \in Seq(Pack) /\ inbound \in Seq(Pack)
  BY DEF TypeOK, TypeReader, TypeWire
<1>2. Len(inbound) \in Nat /\ Len(inhand) \in Nat /\ DOMAIN s = 1 .. Len(inbound) + Len(inhand)
  BY <1>1
<1>3. ASSUME NEW j \in DOMAIN inbound
      PROVE  j \in DOMAIN s /\ s[j] = inbound[j]
  BY <1>1, <1>3
<1>4. ASSUME NEW i \in DOMAIN inhand
      PROVE  Len(inbound) + i \in DOMAIN s /\ s[Len(inbound) + i] = inhand[i]
  BY <1>1, <1>4
<1> HIDE DEF s
<1>5. \A k \in DOMAIN s : s[k].to # d
  BY DEF OnItsWay, s
<1>6. QED
  BY <1>3, <1>4, <1>5 DEF Coming

\* Every session is whole after every step.
LEMMA NextWhole ==
  ASSUME TypeOK, Correlated, SessionsWhole, [Next]_vars, NEW d \in Named
  PROVE  Whole(d)'
<1>1. /\ Whole(d) /\ OneInHand /\ JunkIsNobodys /\ Apart
      /\ EntriesOwned /\ OnTheWire /\ d \in Calls
  BY Sets DEF SessionsWhole, Correlated
<1>2. CASE Rests
  BY <1>1, <1>2, SameIsWhole DEF Rests, SameSession
<1>3. CASE FailAll
  BY <1>1, <1>3, FailingIsWhole
<1>4. CASE WriterSends \/ WriterFails
  BY <1>1, <1>4, SameIsWhole DEF WriterSends, WriterFails, SameSession, callers, sinks
<1>5. CASE ReaderTakes \/ ReaderSkips
  BY <1>1, <1>5, ReaderIsWhole
<1>6. CASE Dispatch
  BY <1>1, <1>6, DispatchIsWhole
<1>7. CASE ServerGarbles
  <2>1. SameSession(d) /\ UNCHANGED inhand /\ inbound' = Append(inbound, Junk)
    BY <1>7 DEF ServerGarbles, Put, SameSession, callers, sinks
  <2>2. Junk \in Pack /\ Junk.to # d
    BY <1>1, PackType, CallSets DEF Junk, CallSets
  <2>3. QED
    BY <1>1, <2>1, <2>2, OthersPackIsWhole
<1>8. ASSUME NEW c \in Calls, Start(c) \/ Beat(c)
      PROVE  Whole(d)'
  <2>1. CASE c = d
    <3>1. pc[d] = "idle"
      BY <1>8, <2>1 DEF Start, Beat
    <3>2. ~Coming(d)
      BY <1>1, <3>1, IdleIsUnknown
    <3>3. QED
      BY <1>1, <1>8, <2>1, <3>2, StartIsWhole
  <2>2. CASE c # d
    <3>1. Register(c)
      BY <1>8 DEF Start, Beat
    <3>2. SameSession(d) /\ UNCHANGED <<inbound, inhand>>
      BY <1>1, <2>2, <3>1 DEF Register, SameSession, sinks, wire, TypeOK, TypeCallers
    <3>3. QED
      BY <1>1, <3>2, SameIsWhole
  <2>3. QED
    BY <2>1, <2>2
<1>9. ASSUME NEW c \in Calls, GoesOn(c)
      PROVE  Whole(d)'
  <2>1. CASE c = d
    BY <1>1, <1>9, <2>1, GoingOnIsWhole
  <2>2. CASE c # d
    <3>1. SameSession(d) /\ UNCHANGED <<inbound, inhand>>
      BY <1>1, <1>9, <2>2 DEF GoesOn, SameSession, TypeOK, TypeSinks
    <3>2. QED
      BY <1>1, <3>1, SameIsWhole
  <2>3. QED
    BY <2>1, <2>2
<1>10. ASSUME NEW c \in Calls, NextPack(c)
       PROVE  Whole(d)'
  <2>1. CASE c = d
    BY <1>1, <1>10, <2>1, TakingIsWhole
  <2>2. CASE c # d
    <3>1. SameSession(d) /\ UNCHANGED <<inbound, inhand>>
      BY <1>1, <1>10, <2>2 DEF NextPack, SameSession, wire, TypeOK, TypeCallers, TypeSinks
    <3>2. QED
      BY <1>1, <3>1, SameIsWhole
  <2>3. QED
    BY <2>1, <2>2
<1>11. ASSUME NEW c \in Calls, NextIsOver(c) \/ TakeGap(c)
       PROVE  Whole(d)'
  <2>1. CASE c = d
    BY <1>1, <1>11, <2>1, ReadingIsWhole
  <2>2. CASE c # d
    <3>1. SameSession(d) /\ UNCHANGED <<inbound, inhand>>
      <4>1. CASE NextIsOver(c)
        BY <1>1, <2>2, <4>1
        DEF NextIsOver, Finish, SameSession, sinks, wire, TypeOK, TypeCallers
      <4>2. CASE TakeGap(c)
        BY <1>1, <2>2, <4>2 DEF TakeGap, SameSession, wire, TypeOK, TypeCallers, TypeSinks
      <4>3. QED
        BY <1>11, <4>1, <4>2
    <3>2. QED
      BY <1>1, <3>1, SameIsWhole
  <2>3. QED
    BY <2>1, <2>2
<1>12. ASSUME NEW c \in Calls, ServerReplies(c)
       PROVE  Whole(d)'
  <2>1. c # d /\ SameSession(d) /\ UNCHANGED inhand
    BY <1>1, <1>12, Sets DEF ServerReplies, Put, SameSession, callers, sinks, TypeOK, TypeWire
  <2>2. ReplyId[c] \in Nat /\ seq[c] \in Nat
    BY Headers DEF Headers, TypeOK, TypeCallers
  <2>3. PICK p \in Pack : inbound' = Append(inbound, p) /\ p.to = c
    BY <1>12, <2>2, PackType DEF ServerReplies, Put
  <2>4. QED
    BY <1>1, <2>1, <2>3, OthersPackIsWhole
<1>13. ASSUME NEW c \in Calls, ServerPushes(c)
       PROVE  Whole(d)'
  <2>1. CASE c = d
    BY <1>1, <1>13, <2>1, PushIsWhole
  <2>2. CASE c # d
    <3>1. SameSession(d) /\ UNCHANGED inhand
      BY <1>1, <1>13, <2>2 DEF ServerPushes, Put, SameSession, callers, sinks, TypeOK, TypeWire
    <3>2. Id[c] \in Nat /\ seq[c] \in Nat /\ sent[c] + 1 \in Nat
      BY Headers DEF Headers, TypeOK, TypeCallers, TypeWire
    <3>3. PICK p \in Pack : inbound' = Append(inbound, p) /\ p.to = c
      <4>1. PICK kind \in {"part", "last", "error"} :
              inbound' = Append(inbound, [kind |-> kind, id |-> Id[c], seq |-> seq[c],
                                          to |-> c, n |-> sent[c] + 1])
        BY <1>13 DEF ServerPushes, Put
      <4>2. QED
        BY <3>2, <4>1, PackType
    <3>4. QED
      BY <1>1, <2>2, <3>1, <3>3, OthersPackIsWhole
  <2>3. QED
    BY <2>1, <2>2
<1>14. QED
  BY <1>2, <1>3, <1>4, <1>5, <1>6, <1>7, <1>8, <1>9, <1>10, <1>11, <1>12, <1>13, StepsOfSessions
  DEF Steps

\* The reader's hand and the packs behind it, after a step.
LEMMA NextTidy ==
  ASSUME TypeOK, Correlated, SessionsWhole, [Next]_vars
  PROVE  (OneInHand /\ JunkIsNobodys)'
<1>1. OneInHand /\ JunkIsNobodys /\ inbound \in Seq(Pack) /\ inhand \in Seq(Pack)
  BY DEF SessionsWhole, TypeOK, TypeWire, TypeReader
<1>2. CASE UNCHANGED <<inbound, inhand>>
  BY <1>1, <1>2 DEF OneInHand, JunkIsNobodys
<1>3. CASE ReaderTakes \/ ReaderSkips
  <2>1. inbound # <<>> /\ inbound' = Tail(inbound)
    BY <1>3 DEF ReaderTakes, ReaderSkips
  <2>2. \A j \in DOMAIN Tail(inbound) :
          j + 1 \in DOMAIN inbound /\ Tail(inbound)[j] = inbound[j + 1]
    BY <1>1, <2>1
  <2>3. JunkIsNobodys'
    BY <1>1, <2>1, <2>2 DEF JunkIsNobodys
  <2>4. OneInHand'
    <3>1. CASE ReaderTakes
      <4>1. inhand' = <<Head(inbound)>>
        BY <3>1 DEF ReaderTakes
      <4>2. Len(<<Head(inbound)>>) = 1
        OBVIOUS
      <4>3. QED
        BY <4>1, <4>2 DEF OneInHand
    <3>2. CASE ReaderSkips
      BY <1>1, <3>2 DEF OneInHand, ReaderSkips
    <3>3. QED
      BY <1>3, <3>1, <3>2
  <2>5. QED
    BY <2>3, <2>4
<1>4. CASE Dispatch
  BY <1>1, <1>4 DEF Dispatch, wire, OneInHand, JunkIsNobodys
<1>5. ASSUME NEW p \in Pack, inbound' = Append(inbound, p), UNCHANGED inhand,
             p.kind = "junk" => p.to = Nobody
      PROVE  (OneInHand /\ JunkIsNobodys)'
  <2>1. \A j \in DOMAIN inbound' :
          (j \in DOMAIN inbound /\ inbound'[j] = inbound[j]) \/ inbound'[j] = p
    BY <1>1, <1>5
  <2>2. QED
    BY <1>1, <1>5, <2>1 DEF OneInHand, JunkIsNobodys
<1>6. CASE ServerGarbles
  BY <1>5, <1>6, PackType DEF ServerGarbles, Put, Junk
<1>7. ASSUME NEW c \in Calls, ServerReplies(c) \/ ServerPushes(c)
      PROVE  (OneInHand /\ JunkIsNobodys)'
  <2>1. ReplyId[c] \in Nat /\ Id[c] \in Nat /\ seq[c] \in Nat /\ sent[c] + 1 \in Nat
    BY Headers DEF Headers, TypeOK, TypeCallers, TypeWire
  <2>2. PICK kind \in {"reply", "part", "last", "error"}, i \in Nat, n \in Nat :
          Put([kind |-> kind, id |-> i, seq |-> seq[c], to |-> c, n |-> n])
    BY <1>7, <2>1 DEF ServerReplies, ServerPushes
  <2>3. [kind |-> kind, id |-> i, seq |-> seq[c], to |-> c, n |-> n] \in Pack
    BY <2>1, PackType
  <2>4. QED
    BY <1>5, <2>2, <2>3 DEF Put
<1>8. ASSUME NEW c \in Calls, Start(c) \/ Beat(c)
      PROVE  UNCHANGED <<inbound, inhand>>
  BY <1>8 DEF Start, Beat, Register, wire
<1>9. CASE Rests \/ FailAll \/ WriterSends \/ WriterFails
  BY <1>2, <1>9 DEF Rests, FailAll, WriterSends, WriterFails, wire
<1>10. ASSUME NEW c \in Calls, GoesOn(c) \/ NextPack(c) \/ NextIsOver(c) \/ TakeGap(c)
       PROVE  UNCHANGED <<inbound, inhand>>
  BY <1>10 DEF GoesOn, NextPack, NextIsOver, TakeGap, wire
<1>11. QED
  BY <1>2, <1>3, <1>4, <1>6, <1>7, <1>8, <1>9, <1>10, StepsOfSessions DEF Steps

\* Nothing is on its way to a session that lost its id, as long as no step sends it anything,
\* lets it begin or gives an entry away.
LEMMA ApartStays ==
  ASSUME TypeOK, Apart, entries' \cap Named \subseteq entries, over \subseteq over',
         \A d \in Named : pc'[d] # "idle" => pc[d] # "idle",
         \A d \in Named : Refused(d) => RefusedNext(d),
         \A d \in Named : (ComingNext(d) => Coming(d))
                            \/ (d \notin over /\ ~Refused(d) /\ pc[d] # "idle")
  PROVE  Apart'
<1>1. SUFFICES ASSUME NEW c \in entries' \cap Named, NEW d \in Named,
                      d # c, Id[c] = Id[d], pc'[d] # "idle"
               PROVE  ~ComingNext(d) /\ (d \in over' \/ RefusedNext(d))
  BY DEF Apart, Coming, ComingNext, Refused, RefusedNext
<1>2. ~Coming(d) /\ (d \in over \/ Refused(d))
  BY <1>1 DEF Apart
<1>3. QED
  BY <1>2

LEMMA NextApart ==
  ASSUME TypeOK, Correlated, SessionsWhole, [Next]_vars
  PROVE  Apart'
<1>1. /\ OneInHand /\ JunkIsNobodys /\ Apart /\ OnTheWire /\ EntriesOwned
      /\ inbound \in Seq(Pack) /\ inhand \in Seq(Pack) /\ outq \in Seq(Calls)
      /\ asked \in [Calls -> Nat] /\ pc \in [Calls -> PcStates] /\ Named \subseteq Calls
  BY Sets DEF SessionsWhole, Correlated, TypeOK, TypeWire, TypeReader, TypeCallers
<1>2. ASSUME UNCHANGED <<inbound, inhand>>
      PROVE  \A d \in Named : ComingNext(d) => Coming(d)
  BY <1>2 DEF Coming, ComingNext
<1>3. ASSUME UNCHANGED <<asked, outq>>, \A d \in Named : pc[d] = "done" => pc'[d] = "done"
      PROVE  \A d \in Named : Refused(d) => RefusedNext(d)
  BY <1>3 DEF Refused, RefusedNext
<1>4. CASE Rests \/ FailAll
  BY <1>1, <1>2, <1>3, <1>4, ApartStays DEF Rests, FailAll, callers, wire
<1>5. ASSUME NEW c \in Calls, GoesOn(c)
      PROVE  Apart'
  <2>1. \A d \in Named : pc[d] = "done" => d # c /\ pc'[d] = "done"
    BY <1>1, <1>5 DEF GoesOn
  <2>2. \A d \in Named : pc'[d] # "idle" => pc[d] # "idle"
    BY <1>1, <1>5 DEF GoesOn
  <2>3. \A d \in Named : Refused(d) => RefusedNext(d)
    <3>1. CASE outq' = outq
      BY <1>5, <2>1, <3>1 DEF GoesOn, Refused, RefusedNext
    <3>2. CASE outq' = Append(outq, c)
      <4>1. \A i \in DOMAIN outq' : (i \in DOMAIN outq /\ outq'[i] = outq[i]) \/ outq'[i] = c
        BY <1>1, <3>2
      <4>2. QED
        BY <1>5, <2>1, <4>1 DEF GoesOn, Refused, RefusedNext
    <3>3. QED
      BY <1>5, <3>1, <3>2 DEF GoesOn
  <2>4. entries' \subseteq entries /\ over' = over /\ UNCHANGED <<inbound, inhand>>
    BY <1>5 DEF GoesOn
  <2>5. QED
    BY <1>1, <1>2, <2>2, <2>3, <2>4, ApartStays
<1>6. ASSUME NEW c \in Calls, NextPack(c) \/ NextIsOver(c) \/ TakeGap(c)
      PROVE  Apart'
  <2>1. /\ \A d \in Named : pc[d] = "done" => pc'[d] = "done"
        /\ \A d \in Named : pc'[d] # "idle" => pc[d] # "idle"
        /\ UNCHANGED <<entries, over, asked, outq, inbound, inhand>>
    BY <1>1, <1>6 DEF NextPack, NextIsOver, TakeGap, Finish, wire
  <2>2. QED
    BY <1>1, <1>2, <1>3, <2>1, ApartStays
<1>7. CASE WriterSends \/ WriterFails
  <2>1. /\ UNCHANGED <<pc, entries, over, inbound, inhand>> /\ outq # <<>> /\ outq' = Tail(outq)
        /\ \A d \in Calls : d # Head(outq) => asked'[d] = asked[d]
    BY <1>1, <1>7 DEF WriterSends, WriterFails, callers
  <2>2. /\ Head(outq) = outq[1] /\ 1 \in DOMAIN outq
        /\ \A i \in DOMAIN Tail(outq) : i + 1 \in DOMAIN outq /\ Tail(outq)[i] = outq[i + 1]
    BY <1>1, <2>1
  <2>3. \A d \in Named : Refused(d) => RefusedNext(d)
    BY <1>1, <2>1, <2>2 DEF Refused, RefusedNext
  <2>4. QED
    BY <1>1, <1>2, <2>1, <2>3, ApartStays
<1>8. CASE ReaderTakes \/ ReaderSkips
  <2>1. /\ UNCHANGED <<pc, entries, over, asked, outq>> /\ inhand = <<>> /\ inbound # <<>>
        /\ inbound' = Tail(inbound) /\ inhand' \in {<<>>, <<Head(inbound)>>}
    BY <1>8 DEF ReaderTakes, ReaderSkips, callers
  <2>2. /\ Head(inbound) = inbound[1] /\ 1 \in DOMAIN inbound
        /\ \A j \in DOMAIN Tail(inbound) :
             j + 1 \in DOMAIN inbound /\ Tail(inbound)[j] = inbound[j + 1]
    BY <1>1, <2>1
  <2>3. \A i \in DOMAIN inhand' : inhand'[i] = inbound[1]
    BY <2>1, <2>2
  <2>4. \A d \in Named : ComingNext(d) => Coming(d)
    BY <2>1, <2>2, <2>3 DEF Coming, ComingNext
  <2>5. QED
    BY <1>1, <1>3, <2>1, <2>4, ApartStays
<1>9. CASE Dispatch
  <2>1. UNCHANGED <<pc, over, asked, outq, inbound>> /\ inhand' = <<>>
    BY <1>9 DEF Dispatch, callers, wire
  <2>2. entries' \subseteq entries
    BY <1>9 DEF Dispatch, DeliverOneshot, DeliverStream, DeliverSub
  <2>3. \A d \in Named : ComingNext(d) => Coming(d)
    BY <2>1 DEF Coming, ComingNext
  <2>4. QED
    BY <1>1, <1>3, <2>1, <2>2, <2>3, ApartStays
<1>10. ASSUME NEW p \in Pack, inbound' = Append(inbound, p), UNCHANGED inhand
       PROVE  \A d \in Named : d # p.to => (ComingNext(d) => Coming(d))
  <2>1. \A j \in DOMAIN inbound' :
          (j \in DOMAIN inbound /\ inbound'[j] = inbound[j]) \/ inbound'[j] = p
    BY <1>1, <1>10
  <2>2. QED
    BY <1>10, <2>1 DEF Coming, ComingNext
<1>11. CASE ServerGarbles
  <2>1. /\ inbound' = Append(inbound, Junk) /\ UNCHANGED inhand
        /\ UNCHANGED <<pc, entries, over, asked, outq>>
    BY <1>11 DEF ServerGarbles, Put, callers
  <2>2. Junk \in Pack /\ \A d \in Named : d # Junk.to
    BY <1>1, PackType, CallSets DEF Junk, CallSets
  <2>3. QED
    BY <1>1, <1>3, <1>10, <2>1, <2>2, ApartStays
<1>12. ASSUME NEW c \in Calls, ServerReplies(c) \/ ServerPushes(c)
       PROVE  Apart'
  <2>1. ReplyId[c] \in Nat /\ Id[c] \in Nat /\ seq[c] \in Nat /\ sent[c] + 1 \in Nat
    BY Headers DEF Headers, TypeOK, TypeCallers, TypeWire
  <2>2. PICK kind \in {"reply", "part", "last", "error"}, i \in Nat, n \in Nat :
          Put([kind |-> kind, id |-> i, seq |-> seq[c], to |-> c, n |-> n])
    BY <1>12, <2>1 DEF ServerReplies, ServerPushes
  <2>3. [kind |-> kind, id |-> i, seq |-> seq[c], to |-> c, n |-> n] \in Pack
    BY <2>1, PackType
  <2>4. UNCHANGED <<pc, entries, asked, outq, inhand>> /\ over \subseteq over'
    BY <1>12 DEF ServerReplies, ServerPushes, Put, callers
  <2>5. \A d \in Named : d # c => (ComingNext(d) => Coming(d))
    BY <1>10, <2>2, <2>3, <2>4 DEF Put
  <2>6. c \in Named => c \notin over /\ ~Refused(c) /\ pc[c] # "idle"
    BY <1>1, <1>12, Sets DEF ServerReplies, ServerPushes, Refused, OnTheWire, Begun
  <2>7. QED
    BY <1>1, <1>3, <2>4, <2>5, <2>6, ApartStays
<1>13. ASSUME NEW c \in Calls, Start(c) \/ Beat(c)
       PROVE  Apart'
  <2>1. /\ pc[c] = "idle" /\ Register(c) /\ (c \in Named => IdIsFree(c))
        /\ UNCHANGED <<over, asked, outq, inbound, inhand>>
    BY <1>13, Sets DEF Start, Beat, Register, wire
  <2>2. \A d \in Calls : d # c => pc'[d] = pc[d]
    BY <1>1, <2>1 DEF Register
  <2>3. ~Coming(c) /\ asked[c] = 0 /\ \A i \in DOMAIN outq : outq[i] # c
    BY <1>1, <2>1, IdleIsUnknown
  <2>4. SUFFICES ASSUME NEW e \in entries' \cap Named, NEW d \in Named,
                        d # e, Id[e] = Id[d], pc'[d] # "idle"
                 PROVE  ~ComingNext(d) /\ (d \in over' \/ RefusedNext(d))
    BY DEF Apart, Coming, ComingNext, Refused, RefusedNext
  <2>5. ComingNext(d) => Coming(d)
    BY <1>2, <2>1
  <2>6. CASE d = c
    <3>1. e \in entries
      BY <2>1, <2>4, <2>6 DEF Register
    <3>2. Key(e, seq') = Key(c, seq')
      BY <2>4, <2>6 DEF Key
    <3>3. pc'[c] = "done"
      BY <1>1, <2>1, <3>1, <3>2 DEF Register
    <3>4. RefusedNext(c)
      BY <2>1, <2>3, <3>3 DEF RefusedNext
    <3>5. QED
      BY <2>3, <2>5, <2>6, <3>4
  <2>7. CASE e = c
    <3>1. d \in over /\ ~OnItsWay(d)
      BY <1>1, <2>1, <2>2, <2>4, <2>7 DEF IdIsFree
    <3>2. ~Coming(d)
      BY <1>1, <3>1, OnItsWayIsComing
    <3>3. QED
      BY <2>1, <2>5, <3>1, <3>2
  <2>8. CASE d # c /\ e # c
    <3>1. e \in entries /\ pc[d] # "idle"
      BY <1>1, <2>1, <2>2, <2>4, <2>8 DEF Register
    <3>2. ~Coming(d) /\ (d \in over \/ Refused(d))
      BY <1>1, <2>4, <3>1 DEF Apart
    <3>3. Refused(d) => RefusedNext(d)
      BY <1>1, <2>1, <2>2, <2>8 DEF Refused, RefusedNext
    <3>4. QED
      BY <2>1, <2>5, <3>2, <3>3
  <2>9. QED
    BY <2>6, <2>7, <2>8
<1>14. QED
  BY <1>4, <1>5, <1>6, <1>7, <1>8, <1>9, <1>11, <1>12, <1>13, StepsOfSessions DEF Steps

\* A session gets its own packs only, also when its id was used before; a stream that ends
\* without an error has given its consumer every pack in order; and what a full inbox of a
\* subscription could not hold is told.
THEOREM SessionsGetWholePacks == Spec => []PacksAreWhole
<1>1. Init => SessionsWhole
  <2>1. SUFFICES ASSUME Init PROVE SessionsWhole
    OBVIOUS
  <2>2. OneInHand /\ JunkIsNobodys /\ Apart
    BY <2>1, Sets DEF Init, OneInHand, JunkIsNobodys, Apart
  <2>3. ASSUME NEW c \in Named
        PROVE  Whole(c)
    <3>1. /\ pc[c] = "idle" /\ result[c] = "none" /\ inbox[c] = <<>> /\ got[c] = <<>>
          /\ sent[c] = 0 /\ c \notin entries
          /\ c \in Subs => seen[c] = 0 /\ told[c] = 0
      BY <2>1, Sets DEF Init
    <3>2. Fresh(c) /\ InOrder(c) /\ Own(c) /\ Counted(c)
      BY <3>1 DEF Fresh, InOrder, Own, Counted
    <3>3. Ended(c) /\ Clean(c) /\ Loss(c)
      BY <3>1 DEF Ended, Clean, Loss
    <3>4. QED
      BY <3>2, <3>3 DEF Whole
  <2>4. QED
    BY <2>2, <2>3 DEF SessionsWhole
<1>2. TypeOK /\ Correlated /\ SessionsWhole /\ [Next]_vars => SessionsWhole'
  <2>1. SUFFICES ASSUME TypeOK, Correlated, SessionsWhole, [Next]_vars PROVE SessionsWhole'
    OBVIOUS
  <2>2. ASSUME NEW d \in Named PROVE Whole(d)'
    BY <2>1, <2>2, NextWhole
  <2>3. (OneInHand /\ JunkIsNobodys)' /\ Apart'
    BY <2>1, NextTidy, NextApart
  <2>4. (\A d \in Named : Whole(d))'
    BY <2>2
  <2>5. QED
    BY <2>3, <2>4 DEF SessionsWhole
<1>3. TypeOK /\ SessionsWhole => PacksAreWhole
  <2>1. SUFFICES ASSUME TypeOK, SessionsWhole PROVE PacksAreWhole
    OBVIOUS
  <2>2. \A c \in Named : Own(c) /\ Clean(c) /\ Counted(c) /\ Loss(c)
    BY <2>1 DEF SessionsWhole, Whole
  <2>3. OwnPacks
    <3>1. \A c \in Named : DOMAIN inbox[c] = 1 .. Len(inbox[c])
      BY <2>1, Sets DEF TypeOK, TypeSinks
    <3>2. QED
      BY <2>2, <3>1 DEF Own, OwnPacks
  <2>4. CleanEndIsComplete
    BY <2>2, Sets DEF Clean, Counted, LastIsFinal, CleanEndIsComplete
  <2>5. LossIsTold
    <3>1. SUFFICES ASSUME NEW c \in Subs, pc[c] = "waiting", NEW n \in (told[c] + 1) .. seen[c]
                   PROVE  \/ gap[c]
                          \/ \E i \in DOMAIN inbox[c] : inbox[c][i].n = n
                          \/ \E i \in DOMAIN got[c] : got[c][i].n = n
      BY DEF LossIsTold
    <3>2. told[c] \in Nat /\ seen[c] \in Nat
      BY <2>1 DEF TypeOK, TypeCallers, TypeSinks
    <3>3. n \in Nat /\ n > told[c] /\ n <= seen[c]
      BY <3>1, <3>2
    <3>4. QED
      BY <2>2, <3>1, <3>3, Sets DEF Loss
  <2>6. QED
    BY <2>3, <2>4, <2>5 DEF PacksAreWhole
<1>4. QED
  BY <1>1, <1>2, <1>3, TypeCorrect, LinkCorrelates, PTL DEF Spec
=============================================================================
