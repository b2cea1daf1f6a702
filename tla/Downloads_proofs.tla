--------------------------- MODULE Downloads_proofs ---------------------------
(***************************************************************************)
(* A download, proved in its two halves.  The first is Downloads: the      *)
(* claim of a file, for any number of handlers, callers, chunks, faults,   *)
(* seeks and stops.  Who works on the pending file holds the claim, a      *)
(* handler that lives and holds it works, and a job has a request out      *)
(* whenever its handler idles; once it is cancelled, one chunk more lands. *)
(*                                                                         *)
(* The second is MediaStore: what the claim's holder does to the disk, for *)
(* any files, sizes of files, segments and chunks, and any damage a stop   *)
(* does.  A file's bytes are its own, no nonce seals two plaintexts, and   *)
(* no step takes what somebody counts on.                                  *)
(***************************************************************************)
EXTENDS Downloads, MediaStore, TLAPS, FiniteSetTheorems, SequenceTheorems

\* The part of TypeOK the argument needs.
Typed ==
  /\ claim \in Handlers \cup {Nobody}
  /\ pc \in [Handlers -> Places]
  /\ open \in [Handlers -> BOOLEAN]
  /\ run \in [Handlers -> {"no", "yes", "cancelled"}]
  /\ flight \in [Handlers -> {"no", "queued", "sent"}]

\* Where a handler has not opened the file yet, or has closed it already.
Closed == {"look", "claim", "begin", "denied", "handing", "give", "record", "release"}

ClosedThere == \A h \in Handlers : pc[h] \in Closed => ~open[h]

\* Where it has opened it: from there to the request of the next chunk, and as long
\* as that request is out.
OpenThere ==
  \A h \in Handlers :
    /\ pc[h] \in {"opened", "start", "main", "next"} => open[h]
    /\ flight[h] # "no" => open[h] /\ run[h] # "no"
    /\ pc[h] \in {"main", "next"} => run[h] # "no"

\* A job that is being prepared is not in the downloading table yet.
Preparing == {"look", "claim", "begin", "opened", "start", "denied", "handing", "give"}

NotRunning == \A h \in Handlers : pc[h] \in Preparing => run[h] = "no"

\* Where the request of the main file has come back or was withdrawn.
Quiet == {"main", "next", "record", "release", "answer", "discard", "closing", "gone"}

NothingOut == \A h \in Handlers : pc[h] \in Quiet => flight[h] = "no"

\* A handler that waits, or is about to, has a request out for the job it runs.
Resting == {"top", "unmark", "select"}

RunningIsOut ==
  \A h \in Handlers : pc[h] \in Resting /\ run[h] # "no" => flight[h] # "no"

ClaimInv ==
  /\ Typed /\ ClosedThere /\ OpenThere /\ NotRunning /\ NothingOut /\ RunningIsOut
  /\ WorkerHoldsClaim /\ ClaimIsUsed

FileTyped == claim \in Handlers \cup {Nobody} /\ open \in [Handlers -> BOOLEAN]

\* Closing a file leaves the claim and the table of open files well formed.
LEMMA ClosingIsTyped == ASSUME FileTyped, NEW h \in Handlers, Close(h) PROVE FileTyped'
<1>1. open' \in [Handlers -> BOOLEAN]
  BY SMT DEF FileTyped, Close, Shut
<1>2. claim' \in Handlers \cup {Nobody}
  BY SMT DEF FileTyped, Close
<1> QED
  BY <1>1, <1>2 DEF FileTyped

\* At the start nobody has claimed anything.
LEMMA ClaimInit == Init => ClaimInv
  BY Bounds, SMT DEF Bounds, Init, ClaimInv, Typed, Places, Resting, RunningIsOut, Closed,
     ClosedThere, OpenThere, Preparing, NotRunning, Quiet, NothingOut, WorkerHoldsClaim,
     ClaimIsUsed, Works, Dropped

\* No step of the callers, the handlers, the line or a logout disturbs it.
LEMMA ClaimStep == ClaimInv /\ [Next]_vars => ClaimInv'
<1> SUFFICES ASSUME ClaimInv, [Next]_vars PROVE ClaimInv'
  OBVIOUS
<1> USE Bounds DEF Bounds, ClaimInv
<1>1. ASSUME NEW h \in Handlers, Opened(h) PROVE ClaimInv'
  <2>1. Typed'
    <3>1. FileTyped'
      <4>1. FileTyped
        BY DEF FileTyped, Typed
      <4>2. Close(h) \/ UNCHANGED <<claim, open>>
        BY <1>1, Zenon DEF Opened, EndCancelled, file
      <4> QED
        BY <4>1, <4>2, ClosingIsTyped, Zenon DEF FileTyped
    <3> QED
      BY <1>1, <3>1, SMT DEF FileTyped, Opened, EndCancelled, EndJob, Goto, file, wire, Typed,
         Places
  <2>2. ClosedThere'
    BY <1>1, SMT DEF Opened, EndCancelled, Close, Shut, EndJob, Goto, file, wire, Typed, Places,
       Closed, ClosedThere
  <2>3. RunningIsOut'
    BY <1>1, SMT DEF Opened, EndCancelled, Close, Shut, EndJob, Goto, file, wire, Typed, Places,
       Resting, RunningIsOut, OpenThere, NotRunning, Preparing
  <2>4. OpenThere'
    BY <1>1, SMT DEF Opened, EndCancelled, Close, Shut, EndJob, Goto, file, wire, Typed, Places,
       OpenThere, NotRunning, Preparing, NothingOut, Quiet
  <2>5. NotRunning'
    BY <1>1, SMT DEF Opened, EndCancelled, Close, Shut, EndJob, Goto, file, wire, Typed, Places,
       NotRunning, Preparing
  <2>6. NothingOut'
    BY <1>1, SMT DEF Opened, EndCancelled, Close, Shut, EndJob, Goto, file, wire, Typed, Places,
       NothingOut, Quiet, OpenThere, Preparing, NotRunning
  <2>7. WorkerHoldsClaim'
    BY <1>1, SMT DEF Opened, EndCancelled, Close, Shut, EndJob, Goto, file, wire, Typed, Places,
       WorkerHoldsClaim, Works, Closed, ClosedThere, OpenThere
  <2>8. ClaimIsUsed'
    BY <1>1, SMT DEF Opened, EndCancelled, Close, Shut, EndJob, Goto, file, wire, Typed, Places,
       ClaimIsUsed, WorkerHoldsClaim, Works, Dropped, OpenThere
  <2> QED
    BY <2>1, <2>2, <2>3, <2>4, <2>5, <2>6, <2>7, <2>8
<1>2. ASSUME NEW h \in Handlers, ContinueCancelled(h) PROVE ClaimInv'
  <2>1. Typed'
    <3>1. FileTyped'
      <4>1. FileTyped
        BY DEF FileTyped, Typed
      <4>2. Close(h) \/ UNCHANGED <<claim, open>>
        BY <1>2, Zenon DEF ContinueCancelled, EndCancelled, file
      <4> QED
        BY <4>1, <4>2, ClosingIsTyped, Zenon DEF FileTyped
    <3>2. pc' \in [Handlers -> Places]
      BY <1>2, SMT DEF ContinueCancelled, Back, Goto, Typed, Places
    <3>3. run' \in [Handlers -> {"no", "yes", "cancelled"}]
      BY <1>2, SMT DEF ContinueCancelled, EndCancelled, EndJob, Typed
    <3>4. flight' \in [Handlers -> {"no", "queued", "sent"}]
      BY <1>2, SMT DEF ContinueCancelled, wire, Typed
    <3> QED
      BY <3>1, <3>2, <3>3, <3>4 DEF FileTyped, Typed
  <2>2. ClosedThere'
    BY <1>2, SMT DEF ContinueCancelled, EndCancelled, Back, Close, Shut, EndJob, Goto, file,
       wire, Typed, Places, Closed, ClosedThere
  <2>3. RunningIsOut'
    BY <1>2, SMT DEF ContinueCancelled, EndCancelled, Back, Close, Shut, EndJob, Goto, file,
       wire, Typed, Places, Resting, RunningIsOut, OpenThere, NotRunning, Preparing
  <2>4. OpenThere'
    BY <1>2, SMT DEF ContinueCancelled, EndCancelled, Back, Close, Shut, EndJob, Goto, file,
       wire, Typed, Places, OpenThere, NotRunning, Preparing, NothingOut, Quiet
  <2>5. NotRunning'
    BY <1>2, SMT DEF ContinueCancelled, EndCancelled, Back, Close, Shut, EndJob, Goto, file,
       wire, Typed, Places, NotRunning, Preparing
  <2>6. NothingOut'
    BY <1>2, SMT DEF ContinueCancelled, EndCancelled, Back, Close, Shut, EndJob, Goto, file,
       wire, Typed, Places, NothingOut, Quiet, OpenThere, Preparing, NotRunning
  <2>7. WorkerHoldsClaim'
    BY <1>2, SMT DEF ContinueCancelled, EndCancelled, Back, Close, Shut, EndJob, Goto, file,
       wire, Typed, Places, WorkerHoldsClaim, Works, Closed, ClosedThere, OpenThere
  <2>8. ClaimIsUsed'
    BY <1>2, SMT DEF ContinueCancelled, EndCancelled, Back, Close, Shut, EndJob, Goto, file,
       wire, Typed, Places, ClaimIsUsed, WorkerHoldsClaim, Works, Dropped, OpenThere
  <2> QED
    BY <2>1, <2>2, <2>3, <2>4, <2>5, <2>6, <2>7, <2>8
<1>3. ASSUME NEW h \in Handlers, Finish(h) PROVE ClaimInv'
  <2>1. Typed'
    BY <1>3, SMT DEF Finish, Shut, Goto, queue, wire, Typed, Places
  <2>2. ClosedThere'
    BY <1>3, SMT DEF Finish, Shut, Goto, queue, wire, Typed, Places, Closed, ClosedThere
  <2>3. RunningIsOut'
    BY <1>3, SMT DEF Finish, Shut, Goto, queue, wire, Typed, Places, Resting, RunningIsOut,
       OpenThere, NotRunning, Preparing
  <2>4. OpenThere'
    BY <1>3, SMT DEF Finish, Shut, Goto, queue, wire, Typed, Places, OpenThere, NotRunning,
       Preparing, NothingOut, Quiet
  <2>5. NotRunning'
    BY <1>3, SMT DEF Finish, Shut, Goto, queue, wire, Typed, Places, NotRunning, Preparing
  <2>6. NothingOut'
    BY <1>3, SMT DEF Finish, Shut, Goto, queue, wire, Typed, Places, NothingOut, Quiet,
       OpenThere, Preparing, NotRunning
  <2>7. WorkerHoldsClaim'
    BY <1>3, SMT DEF Finish, Shut, Goto, queue, wire, Typed, Places, WorkerHoldsClaim, Works,
       Closed, ClosedThere, OpenThere
  <2>8. ClaimIsUsed'
    BY <1>3, SMT DEF Finish, Shut, Goto, queue, wire, Typed, Places, ClaimIsUsed,
       WorkerHoldsClaim, Works, Dropped, OpenThere
  <2> QED
    BY <2>1, <2>2, <2>3, <2>4, <2>5, <2>6, <2>7, <2>8
<1>4. ASSUME NEW h \in Handlers, FinishFails(h) PROVE ClaimInv'
  <2>1. Typed'
    BY <1>4, SMT DEF FinishFails, Shut, Goto, queue, wire, Typed, Places
  <2>2. ClosedThere'
    BY <1>4, SMT DEF FinishFails, Shut, Goto, queue, wire, Typed, Places, Closed, ClosedThere
  <2>3. RunningIsOut'
    BY <1>4, SMT DEF FinishFails, Shut, Goto, queue, wire, Typed, Places, Resting, RunningIsOut,
       OpenThere, NotRunning, Preparing
  <2>4. OpenThere'
    BY <1>4, SMT DEF FinishFails, Shut, Goto, queue, wire, Typed, Places, OpenThere, NotRunning,
       Preparing, NothingOut, Quiet
  <2>5. NotRunning'
    BY <1>4, SMT DEF FinishFails, Shut, Goto, queue, wire, Typed, Places, NotRunning, Preparing
  <2>6. NothingOut'
    BY <1>4, SMT DEF FinishFails, Shut, Goto, queue, wire, Typed, Places, NothingOut, Quiet,
       OpenThere, Preparing, NotRunning
  <2>7. WorkerHoldsClaim'
    BY <1>4, SMT DEF FinishFails, Shut, Goto, queue, wire, Typed, Places, WorkerHoldsClaim,
       Works, Closed, ClosedThere, OpenThere
  <2>8. ClaimIsUsed'
    BY <1>4, SMT DEF FinishFails, Shut, Goto, queue, wire, Typed, Places, ClaimIsUsed,
       WorkerHoldsClaim, Works, Dropped, OpenThere
  <2> QED
    BY <2>1, <2>2, <2>3, <2>4, <2>5, <2>6, <2>7, <2>8
<1>5. ASSUME NEW h \in Handlers, RecordFails(h) PROVE ClaimInv'
  <2>1. Typed'
    BY <1>5, SMT DEF RecordFails, Shut, Goto, queue, wire, Typed, Places
  <2>2. ClosedThere'
    BY <1>5, SMT DEF RecordFails, Shut, Goto, queue, wire, Typed, Places, Closed, ClosedThere
  <2>3. RunningIsOut'
    BY <1>5, SMT DEF RecordFails, Shut, Goto, queue, wire, Typed, Places, Resting, RunningIsOut,
       OpenThere, NotRunning, Preparing
  <2>4. OpenThere'
    BY <1>5, SMT DEF RecordFails, Shut, Goto, queue, wire, Typed, Places, OpenThere, NotRunning,
       Preparing, NothingOut, Quiet
  <2>5. NotRunning'
    BY <1>5, SMT DEF RecordFails, Shut, Goto, queue, wire, Typed, Places, NotRunning, Preparing
  <2>6. NothingOut'
    BY <1>5, SMT DEF RecordFails, Shut, Goto, queue, wire, Typed, Places, NothingOut, Quiet,
       OpenThere, Preparing, NotRunning
  <2>7. WorkerHoldsClaim'
    BY <1>5, SMT DEF RecordFails, Shut, Goto, queue, wire, Typed, Places, WorkerHoldsClaim,
       Works, Closed, ClosedThere, OpenThere
  <2>8. ClaimIsUsed'
    BY <1>5, SMT DEF RecordFails, Shut, Goto, queue, wire, Typed, Places, ClaimIsUsed,
       WorkerHoldsClaim, Works, Dropped, OpenThere
  <2> QED
    BY <2>1, <2>2, <2>3, <2>4, <2>5, <2>6, <2>7, <2>8
<1>6. ASSUME NEW h \in Handlers, Settle(h) PROVE ClaimInv'
  <2>1. Typed'
    <3>1. FileTyped'
      <4>1. FileTyped
        BY DEF FileTyped, Typed
      <4>2. Close(h) \/ UNCHANGED <<claim, open>>
        BY <1>6, Zenon DEF Settle, file
      <4> QED
        BY <4>1, <4>2, ClosingIsTyped, Zenon DEF FileTyped
    <3>2. pc' \in [Handlers -> Places]
      BY <1>6, SMT DEF Settle, Goto, Typed, Places
    <3>3. run' \in [Handlers -> {"no", "yes", "cancelled"}]
      BY <1>6, SMT DEF Settle, EndJob, Typed
    <3>4. flight' \in [Handlers -> {"no", "queued", "sent"}]
      BY <1>6, SMT DEF Settle, Typed
    <3> QED
      BY <3>1, <3>2, <3>3, <3>4 DEF FileTyped, Typed
  <2>2. ClosedThere'
    BY <1>6, SMT DEF Settle, Stops, Close, Shut, EndJob, Goto, file, Typed, Places, Closed,
       ClosedThere
  <2>3. RunningIsOut'
    BY <1>6, SMT DEF Settle, Stops, Close, Shut, EndJob, Goto, file, Typed, Places, Resting,
       RunningIsOut, OpenThere, NotRunning, Preparing
  <2>4. OpenThere'
    BY <1>6, SMT DEF Settle, Stops, Close, Shut, EndJob, Goto, file, Typed, Places, OpenThere,
       NotRunning, Preparing, NothingOut, Quiet
  <2>5. NotRunning'
    BY <1>6, SMT DEF Settle, Stops, Close, Shut, EndJob, Goto, file, Typed, Places, NotRunning,
       Preparing
  <2>6. NothingOut'
    BY <1>6, SMT DEF Settle, Stops, Close, Shut, EndJob, Goto, file, Typed, Places, NothingOut,
       Quiet, OpenThere, Preparing, NotRunning
  <2>7. WorkerHoldsClaim'
    BY <1>6, SMT DEF Settle, Stops, Close, Shut, EndJob, Goto, file, Typed, Places,
       WorkerHoldsClaim, Works, Closed, ClosedThere, OpenThere
  <2>8. ClaimIsUsed'
    BY <1>6, SMT DEF Settle, Stops, Close, Shut, EndJob, Goto, file, Typed, Places, ClaimIsUsed,
       WorkerHoldsClaim, Works, Dropped, OpenThere
  <2> QED
    BY <2>1, <2>2, <2>3, <2>4, <2>5, <2>6, <2>7, <2>8
<1>7. ASSUME NEW h \in Handlers, Land(h) PROVE ClaimInv'
  <2>1. Typed'
    BY <1>7, SMT DEF Land, MainReply, Goto, queue, Typed, Places
  <2>2. ClosedThere'
    BY <1>7, SMT DEF Land, MainReply, Goto, queue, Typed, Places, Closed, ClosedThere
  <2>3. RunningIsOut'
    BY <1>7, SMT DEF Land, MainReply, Goto, queue, Typed, Places, Resting, RunningIsOut,
       OpenThere, NotRunning, Preparing
  <2>4. OpenThere'
    BY <1>7, SMT DEF Land, MainReply, Goto, queue, Typed, Places, OpenThere, NotRunning,
       Preparing, NothingOut, Quiet
  <2>5. NotRunning'
    BY <1>7, SMT DEF Land, MainReply, Goto, queue, Typed, Places, NotRunning, Preparing
  <2>6. NothingOut'
    BY <1>7, SMT DEF Land, MainReply, Goto, queue, Typed, Places, NothingOut, Quiet, OpenThere,
       Preparing, NotRunning
  <2>7. WorkerHoldsClaim'
    BY <1>7, SMT DEF Land, MainReply, Goto, queue, Typed, Places, WorkerHoldsClaim, Works,
       Closed, ClosedThere, OpenThere
  <2>8. ClaimIsUsed'
    BY <1>7, SMT DEF Land, MainReply, Goto, queue, Typed, Places, ClaimIsUsed, WorkerHoldsClaim,
       Works, Dropped, OpenThere
  <2> QED
    BY <2>1, <2>2, <2>3, <2>4, <2>5, <2>6, <2>7, <2>8
<1>8. ASSUME NEW h \in Handlers, LineFails(h) PROVE ClaimInv'
  <2>1. Typed'
    BY <1>8, SMT DEF LineFails, MainReply, Goto, file, queue, Typed, Places
  <2>2. ClosedThere'
    BY <1>8, SMT DEF LineFails, MainReply, Goto, file, queue, Typed, Places, Closed, ClosedThere
  <2>3. RunningIsOut'
    BY <1>8, SMT DEF LineFails, MainReply, Goto, file, queue, Typed, Places, Resting,
       RunningIsOut, OpenThere, NotRunning, Preparing
  <2>4. OpenThere'
    BY <1>8, SMT DEF LineFails, MainReply, Goto, file, queue, Typed, Places, OpenThere,
       NotRunning, Preparing, NothingOut, Quiet
  <2>5. NotRunning'
    BY <1>8, SMT DEF LineFails, MainReply, Goto, file, queue, Typed, Places, NotRunning, Preparing
  <2>6. NothingOut'
    BY <1>8, SMT DEF LineFails, MainReply, Goto, file, queue, Typed, Places, NothingOut, Quiet,
       OpenThere, Preparing, NotRunning
  <2>7. WorkerHoldsClaim'
    BY <1>8, SMT DEF LineFails, MainReply, Goto, file, queue, Typed, Places, WorkerHoldsClaim,
       Works, Closed, ClosedThere, OpenThere
  <2>8. ClaimIsUsed'
    BY <1>8, SMT DEF LineFails, MainReply, Goto, file, queue, Typed, Places, ClaimIsUsed,
       WorkerHoldsClaim, Works, Dropped, OpenThere
  <2> QED
    BY <2>1, <2>2, <2>3, <2>4, <2>5, <2>6, <2>7, <2>8
<1>9. ASSUME NEW h \in Handlers, Drop(h) PROVE ClaimInv'
  <2>1. Typed'
    <3>1. FileTyped'
      <4>1. FileTyped
        BY DEF FileTyped, Typed
      <4>2. Close(h) \/ UNCHANGED <<claim, open>>
        BY <1>9, Zenon DEF Drop, file
      <4> QED
        BY <4>1, <4>2, ClosingIsTyped, Zenon DEF FileTyped
    <3>2. pc' \in [Handlers -> Places]
      BY <1>9, SMT DEF Drop, Goto, Typed, Places
    <3>3. run' \in [Handlers -> {"no", "yes", "cancelled"}]
      BY <1>9, SMT DEF Drop, queue, Typed
    <3>4. flight' \in [Handlers -> {"no", "queued", "sent"}]
      BY <1>9, SMT DEF Drop, Typed
    <3> QED
      BY <3>1, <3>2, <3>3, <3>4 DEF FileTyped, Typed
  <2>2. ClosedThere'
    BY <1>9, SMT DEF Drop, Awaits, Close, Shut, Goto, file, queue, Typed, Places, Closed,
       ClosedThere
  <2>3. RunningIsOut'
    BY <1>9, SMT DEF Drop, Awaits, Close, Shut, Goto, file, queue, Typed, Places, Resting,
       RunningIsOut, OpenThere, NotRunning, Preparing
  <2>4. OpenThere'
    BY <1>9, SMT DEF Drop, Awaits, Close, Shut, Goto, file, queue, Typed, Places, OpenThere,
       NotRunning, Preparing, NothingOut, Quiet
  <2>5. NotRunning'
    BY <1>9, SMT DEF Drop, Awaits, Close, Shut, Goto, file, queue, Typed, Places, NotRunning,
       Preparing
  <2>6. NothingOut'
    BY <1>9, SMT DEF Drop, Awaits, Close, Shut, Goto, file, queue, Typed, Places, NothingOut,
       Quiet, OpenThere, Preparing, NotRunning
  <2>7. WorkerHoldsClaim'
    BY <1>9, SMT DEF Drop, Awaits, Close, Shut, Goto, file, queue, Typed, Places,
       WorkerHoldsClaim, Works, Closed, ClosedThere, OpenThere
  <2>8. ClaimIsUsed'
    BY <1>9, SMT DEF Drop, Awaits, Close, Shut, Goto, file, queue, Typed, Places, ClaimIsUsed,
       WorkerHoldsClaim, Works, Dropped, OpenThere
  <2> QED
    BY <2>1, <2>2, <2>3, <2>4, <2>5, <2>6, <2>7, <2>8
<1> USE DEF Typed, Places, Resting, RunningIsOut, Closed, ClosedThere, OpenThere, Preparing,
   NotRunning, Quiet, NothingOut, WorkerHoldsClaim, ClaimIsUsed, Works, Dropped
<1>10. CASE UNCHANGED vars
  BY <1>10, SMT DEF vars, file, queue, wire
<1>11. ASSUME NEW c \in Callers, NEW h \in Handlers, Ask(c, h) PROVE ClaimInv'
  BY <1>11, SMT DEF Ask, file, queue, wire
<1>12. ASSUME NEW c \in Callers, Caller(c) PROVE ClaimInv'
  BY <1>12, SMT DEF Caller, Find, Put, file, queue, wire
<1>13. CASE StartCancel
  BY <1>13, SMT DEF StartCancel, file, queue, wire
<1>14. ASSUME NEW h \in Handlers, Cancel(h) PROVE ClaimInv'
  BY <1>14, SMT DEF Cancel, file, wire
<1>15. ASSUME NEW h \in Handlers, Take(h) PROVE ClaimInv'
  BY <1>15, SMT DEF Take, Goto, file, wire
<1>16. ASSUME NEW h \in Handlers, Look(h) PROVE ClaimInv'
  BY <1>16, SMT DEF Look, EndJob, Goto, file, wire
<1>17. ASSUME NEW h \in Handlers, Claim(h) PROVE ClaimInv'
  BY <1>17, SMT DEF Claim, Goto, file, queue, wire
<1>18. ASSUME NEW h \in Handlers, Begin(h) PROVE ClaimInv'
  BY <1>18, SMT DEF Begin, Goto, queue, wire
<1>19. ASSUME NEW h \in Handlers, BeginFails(h) PROVE ClaimInv'
  BY <1>19, SMT DEF BeginFails, EndJob, Goto, file, wire
<1>20. ASSUME NEW h \in Handlers, Start(h) PROVE ClaimInv'
  BY <1>20, SMT DEF Start, Goto, file, wire
<1>21. ASSUME NEW h \in Handlers, Denied(h) PROVE ClaimInv'
  BY <1>21, SMT DEF Denied, EndJob, Goto, file, wire
<1>22. ASSUME NEW h \in Handlers, FindOther(h) PROVE ClaimInv'
  BY <1>22, SMT DEF FindOther, EndJob, Goto, file, wire
<1>23. ASSUME NEW h \in Handlers, Give(h) PROVE ClaimInv'
  BY <1>23, SMT DEF Give, Goto, file, wire
<1>24. ASSUME NEW h \in Handlers, Unmark(h) PROVE ClaimInv'
  BY <1>24, SMT DEF Unmark, Goto, file, wire
<1>25. ASSUME NEW h \in Handlers, Continue(h) PROVE ClaimInv'
  BY <1>25, SMT DEF Continue, Back, Goto, file, queue
<1>39. ASSUME NEW h \in Handlers, GoOn(h) PROVE ClaimInv'
  BY <1>39, SMT DEF GoOn, Goto, file, queue, wire
<1>26. ASSUME NEW h \in Handlers, Recorded(h) PROVE ClaimInv'
  BY <1>26, SMT DEF Recorded, Goto, file, queue, wire
<1>27. ASSUME NEW h \in Handlers, Release(h) PROVE ClaimInv'
  BY <1>27, SMT DEF Release, Goto, file, queue, wire
<1>28. ASSUME NEW h \in Handlers, AnswerAll(h) PROVE ClaimInv'
  BY <1>28, SMT DEF AnswerAll, Back, EndJob, Goto, file
<1>29. ASSUME NEW h \in Handlers, Wake(h) PROVE ClaimInv'
  BY <1>29, SMT DEF Wake, Goto, file, queue, wire
<1>30. ASSUME NEW h \in Handlers, Send(h) PROVE ClaimInv'
  BY <1>30, SMT DEF Send, file, queue
<1>31. ASSUME NEW h \in Handlers, FailKept(h) PROVE ClaimInv'
  BY <1>31, SMT DEF FailKept, MainReply, Close, Shut, EndJob, Goto
<1>32. ASSUME NEW h \in Handlers, FailBad(h) PROVE ClaimInv'
  BY <1>32, SMT DEF FailBad, Close, Shut, Goto, queue
<1>33. ASSUME NEW h \in Handlers, Discard(h) PROVE ClaimInv'
  BY <1>33, SMT DEF Discard, EndJob, Goto, wire
<1>34. ASSUME NEW h \in Handlers, SeekComes(h) PROVE ClaimInv'
  BY <1>34, SMT DEF SeekComes, Goto, file, queue
<1>35. ASSUME NEW h \in Handlers, SeekEnds(h) PROVE ClaimInv'
  BY <1>35, SMT DEF SeekEnds, Goto, file, queue
<1>36. ASSUME NEW h \in Handlers, Stop(h) PROVE ClaimInv'
  BY <1>36, SMT DEF Stop, file, queue, wire
<1>37. ASSUME NEW h \in Handlers, Drain(h) PROVE ClaimInv'
  BY <1>37, SMT DEF Drain, EndJob, Goto, file, wire
<1>38. ASSUME NEW h \in Handlers, Free(h) PROVE ClaimInv'
  BY <1>38, SMT DEF Free, file, wire
<1> QED
  BY <1>1, <1>2, <1>3, <1>4, <1>5, <1>6, <1>7, <1>8, <1>9, <1>10, <1>11, <1>12, <1>13, <1>14,
     <1>15, <1>16, <1>17, <1>18, <1>19, <1>20, <1>21, <1>22, <1>23, <1>24, <1>25, <1>26, <1>27,
     <1>28, <1>29, <1>30, <1>31, <1>32, <1>33, <1>34, <1>35, <1>36, <1>37, <1>38, <1>39
  DEF Next, Handler, Prepare, Work, Reply, End

\* The whole invariant, from which the two theorems below are read off.
THEOREM ClaimAlways == Spec => []ClaimInv
  BY ClaimInit, ClaimStep, PTL DEF Spec

\* One downloader of a file: whoever opens, writes or records it holds the claim, so
\* never two accounts; and a handler that lives never sits on a claim it does not use, so
\* the next job of the file finds somebody who works on it, or nobody.
THEOREM OneDownloader == Spec => []ClaimsMeetWork
<1>1. ClaimInv => ClaimsMeetWork
  BY DEF ClaimInv, ClaimsMeetWork
<1> QED
  BY <1>1, ClaimAlways, PTL

\* A job is never left alone: a handler that idles has a request out for it exactly
\* when it has one.
THEOREM JobsGoOn == Spec => []JobIsAsked
<1>1. ClaimInv => JobIsAsked
  BY SMT DEF ClaimInv, OpenThere, RunningIsOut, Resting, JobIsAsked
<1> QED
  BY <1>1, ClaimAlways, PTL

\* What the flag and the place of a handler say of the chunks since a cancel.
Counted(h) ==
  /\ extra[h] \in {0, 1}
  /\ run[h] = "yes" => extra[h] = 0
  /\ extra[h] = 1 /\ run[h] = "cancelled" => pc[h] = "main"

ExtraInv == extra \in [Handlers -> Nat] /\ \A h \in Handlers : Counted(h)

\* At the start nothing was cancelled.
LEMMA ExtraInit == Init => ExtraInv
  BY DEF Init, ExtraInv, Counted

\* A step that counts nothing, where each flag stays, is set, or goes with its job,
\* and no handler leaves the place where it looks at the flag while it is set.
LEMMA CountKept ==
  ASSUME Typed, ExtraInv, extra' = extra,
         \A h \in Handlers :
           /\ run'[h] \in {run[h], "no"} \/ run[h] = "yes"
           /\ pc'[h] = pc[h] \/ pc[h] # "main" \/ run[h] = "yes" \/ run'[h] = "no"
           /\ run'[h] # "no" => run[h] # "no"
  PROVE  ExtraInv'
<1>1. ASSUME NEW h \in Handlers PROVE Counted(h)'
  <2> USE DEF Typed, ExtraInv, Counted
  <2>1. Counted(h)
    OBVIOUS
  <2>2. CASE run[h] = "yes"
    BY <2>1, <2>2
  <2>3. CASE run'[h] = "no"
    BY <2>1, <2>3
  <2>4. CASE run'[h] = run[h] /\ run[h] # "yes" /\ (pc'[h] = pc[h] \/ pc[h] # "main")
    BY <2>1, <2>4
  <2> QED
    BY <2>2, <2>3, <2>4
<1> QED
  BY <1>1 DEF ExtraInv

\* Only a chunk that lands counts, and the handler that takes it looks at the flag next.
LEMMA ExtraStep == ClaimInv /\ ExtraInv /\ [Next]_vars => ExtraInv'
<1> SUFFICES ASSUME ClaimInv, ExtraInv, [Next]_vars PROVE ExtraInv'
  OBVIOUS
<1>1. Typed
  BY DEF ClaimInv
<1>2. ASSUME NEW h \in Handlers, Land(h) PROVE ExtraInv'
  <2>1. pc[h] = "select" /\ run[h] # "no"
    BY <1>2 DEF Land, MainReply, ClaimInv, OpenThere
  <2>2. pc' = [pc EXCEPT ![h] = "main"] /\ run' = run
    BY <1>2 DEF Land, Goto, queue
  <2>3. extra' = [extra EXCEPT ![h] = IF run[h] = "cancelled" THEN @ + 1 ELSE @]
    BY <1>2 DEF Land
  <2>4. Counted(h)
    BY DEF ExtraInv
  <2>5. extra[h] = 0
    BY <2>1, <2>4, <1>1 DEF Counted, Typed
  <2>6. ASSUME NEW g \in Handlers PROVE Counted(g)'
    BY <1>1, <2>1, <2>2, <2>3, <2>5 DEF ExtraInv, Counted, Typed
  <2>7. extra' \in [Handlers -> Nat]
    BY <2>3 DEF ExtraInv
  <2> QED
    BY <2>6, <2>7 DEF ExtraInv
<1>3. ASSUME NEW h \in Handlers, Start(h) PROVE ExtraInv'
  <2>1. /\ pc[h] = "start" /\ pc' = [pc EXCEPT ![h] = "main"]
        /\ run' = [run EXCEPT ![h] = "yes"] /\ extra' = [extra EXCEPT ![h] = 0]
    BY <1>3 DEF Start, Goto
  <2>2. ASSUME NEW g \in Handlers PROVE Counted(g)'
    BY <1>1, <2>1 DEF ExtraInv, Counted, Typed
  <2>3. extra' \in [Handlers -> Nat]
    BY <2>1 DEF ExtraInv
  <2> QED
    BY <2>2, <2>3 DEF ExtraInv
<1> DEFINE Calm ==
      /\ extra' = extra
      /\ \A h \in Handlers :
           /\ run'[h] \in {run[h], "no"} \/ run[h] = "yes"
           /\ pc'[h] = pc[h] \/ pc[h] # "main" \/ run[h] = "yes" \/ run'[h] = "no"
           /\ run'[h] # "no" => run[h] # "no"
<1>4. Calm => ExtraInv'
  BY <1>1, CountKept
<1> USE DEF Typed
<1>5. ASSUME NEW h \in Handlers, GoOn(h) \/ Continue(h) PROVE Calm
  BY <1>1, <1>5 DEF GoOn, Continue, Goto, queue, past
<1>6. ASSUME NEW h \in Handlers, ContinueCancelled(h) \/ AnswerAll(h) PROVE Calm
  BY <1>1, <1>6 DEF ContinueCancelled, AnswerAll, EndCancelled, EndJob, Goto, past
<1>7. ASSUME NEW h \in Handlers,
             Finish(h) \/ FinishFails(h) \/ RecordFails(h) \/ Recorded(h) \/ Release(h)
      PROVE  Calm
  BY <1>1, <1>7 DEF Finish, FinishFails, RecordFails, Recorded, Release, Goto, queue, past
<1>8. ASSUME NEW h \in Handlers, Settle(h) PROVE Calm
  BY <1>1, <1>8 DEF Settle, EndJob, Goto, past
<1>9. ASSUME NEW h \in Handlers, Wake(h) \/ Discard(h) PROVE Calm
  BY <1>1, <1>9 DEF Wake, Discard, EndJob, Goto, queue, past
<1>10. ASSUME NEW h \in Handlers, LineFails(h) \/ FailKept(h) \/ FailBad(h) PROVE Calm
  BY <1>1, <1>10 DEF LineFails, FailKept, FailBad, MainReply, EndJob, Goto, queue, past
<1>11. ASSUME NEW h \in Handlers, Take(h) \/ Look(h) \/ Claim(h) \/ Begin(h) PROVE Calm
  BY <1>1, <1>11 DEF Take, Look, Claim, Begin, EndJob, Goto, queue, past
<1>12. ASSUME NEW h \in Handlers, BeginFails(h) \/ Opened(h) \/ Denied(h) PROVE Calm
  BY <1>1, <1>12 DEF BeginFails, Opened, Denied, EndCancelled, EndJob, Goto, past
<1>13. ASSUME NEW h \in Handlers, FindOther(h) \/ Give(h) \/ Unmark(h) PROVE Calm
  BY <1>1, <1>13 DEF FindOther, Give, Unmark, EndJob, Goto, past
<1>14. ASSUME NEW h \in Handlers, Send(h) \/ SeekComes(h) \/ SeekEnds(h) PROVE Calm
  BY <1>1, <1>14 DEF Send, SeekComes, SeekEnds, Goto, queue, past
<1>15. ASSUME NEW h \in Handlers, Stop(h) \/ Cancel(h) PROVE Calm
  BY <1>1, <1>15 DEF Stop, Cancel, queue, past
<1>16. ASSUME NEW h \in Handlers, Drop(h) PROVE Calm
  BY <1>1, <1>16 DEF Drop, Awaits, Goto, queue, past
<1>17. ASSUME NEW h \in Handlers, Drain(h) \/ Free(h) PROVE Calm
  BY <1>1, <1>17 DEF Drain, Free, EndJob, Goto, past
<1>18. ASSUME NEW c \in Callers, Caller(c) \/ \E h \in Handlers : Ask(c, h) PROVE Calm
  BY <1>1, <1>18 DEF Caller, Find, Put, Ask, queue, past
<1>19. CASE StartCancel \/ UNCHANGED vars
  BY <1>4, <1>19 DEF StartCancel, vars, queue, past
<1> QED
  <2> HIDE DEF Calm
  <2> QED
    BY <1>2, <1>3, <1>4, <1>5, <1>6, <1>7, <1>8, <1>9, <1>10, <1>11, <1>12, <1>13, <1>14,
       <1>15, <1>16, <1>17, <1>18, <1>19
    DEF Next, Handler, Prepare, Work, Reply, End

\* After a cancel at most one more chunk lands: the one that was out, or the one that the
\* handler had decided to ask for when the flag was set.
THEOREM CancelIsHeeded == Spec => []CancelStops
<1>1. ClaimInv /\ ExtraInv /\ [Next]_vars => ExtraInv'
  BY ExtraStep
<1>2. ExtraInv => CancelStops
  BY DEF ExtraInv, Counted, CancelStops
<1> QED
  BY <1>1, <1>2, ExtraInit, ClaimAlways, PTL DEF Spec

----------------------------------------------------------------------------
\* MediaStore: sets, quotients and pieces of a plaintext.

\* A bounded set of numbers that is not empty has a greatest member.
LEMMA GreatestIs ==
  ASSUME NEW S, NEW b \in Nat, S \subseteq 0..b, S # {}
  PROVE  Max(S) \in S /\ \A y \in S : Max(S) >= y
<1> DEFINE T == {(n + 1)..b : n \in S}
           R == StrictSubsetOrdering(0..b)
<1>1. IsFiniteSet(0..b)
  BY FS_Interval
<1>2. IsWellFoundedOn(R, SUBSET (0..b))
  BY <1>1, FS_StrictSubsetOrderingWellFounded, FS_FiniteSubsetsOfFinite
<1>3. T \subseteq SUBSET (0..b)
  <2>1. ASSUME NEW n \in S PROVE (n + 1)..b \subseteq 0..b
    OBVIOUS
  <2> QED
    BY <2>1
<1>4. T # {}
  OBVIOUS
<1>5. PICK x \in T : \A y \in T : <<y, x>> \notin R
  <2> HIDE DEF T, R
  <2> QED
    BY <1>2, <1>3, <1>4, WFMin
<1>6. PICK m \in S : x = (m + 1)..b
  OBVIOUS
<1>7. ASSUME NEW y \in S, y > m PROVE FALSE
  <2>1. (y + 1)..b \in SUBSET (0..b) /\ x \in SUBSET (0..b)
    BY <1>3
  <2>2. (y + 1)..b \subseteq x
    BY <1>6, <1>7
  <2>3. y \in x /\ y \notin (y + 1)..b
    BY <1>6, <1>7
  <2>4. <<(y + 1)..b, x>> \in R
    BY <2>1, <2>2, <2>3 DEF StrictSubsetOrdering
  <2> QED
    BY <2>4, <1>5
<1>8. \A y \in S : m >= y
  <2>1. S \subseteq Int
    OBVIOUS
  <2> QED
    BY <1>7, <2>1
<1> QED
  BY <1>8 DEF Max

\* A set of numbers that is not empty has a smallest member.
LEMMA SmallestIs ==
  ASSUME NEW S, S \subseteq Nat, S # {}
  PROVE  Min(S) \in S /\ \A y \in S : Min(S) <= y
<1>1. PICK b \in S : TRUE
  OBVIOUS
<1> DEFINE T == {k \in 0..b : b - k \in S}
<1>2. T \subseteq 0..b /\ b \in Nat
  OBVIOUS
<1>3. 0 \in T
  OBVIOUS
<1> HIDE DEF T
<1>4. Max(T) \in T /\ \A y \in T : Max(T) >= y
  BY <1>2, <1>3, GreatestIs
<1>5. b - Max(T) \in S /\ Max(T) \in 0..b
  BY <1>4 DEF T
<1>6. ASSUME NEW y \in S PROVE b - Max(T) <= y
  <2>1. CASE y > b
    BY <2>1, <1>2, <1>5
  <2>2. CASE y <= b
    <3>1. b - y \in T
      BY <2>2, <1>2 DEF T
    <3> QED
      BY <3>1, <1>4, <1>5, <1>2
  <2> QED
    BY <2>1, <2>2, <1>2
<1> QED
  BY <1>5, <1>6 DEF Min

\* What the quotient of two numbers is.
LEMMA DivIs ==
  ASSUME NEW a \in Nat, NEW b \in Nat \ {0}
  PROVE  /\ a \div b \in Nat /\ (a \div b) * b <= a /\ a < (a \div b) * b + b
<1>1. a \div b \in Int /\ (a \div b) * b <= a /\ a < (a \div b) * b + b
  OBVIOUS
<1>2. a \div b >= 0
  <2>1. ASSUME a \div b <= -1 PROVE FALSE
    <3>1. (a \div b) * b <= (-1) * b
      BY <1>1, <2>1
    <3> QED
      BY <1>1, <3>1
  <2> QED
    BY <1>1, <2>1
<1> QED
  BY <1>1, <1>2

\* More pieces of one length are longer.
LEMMA TimesGrows ==
  ASSUME NEW i \in Int, NEW k \in Int, NEW b \in Nat \ {0}, i <= k
  PROVE  i * b <= k * b
OBVIOUS

\* i pieces of length b fit into a length, or the i-th begins before its end.
LEMMA PartsAre ==
  ASSUME NEW n \in Nat, NEW b \in Nat \ {0}, NEW i \in Nat
  PROVE  i \in 1..((n + b - 1) \div b) <=> i >= 1 /\ (i - 1) * b < n
<1> DEFINE q == (n + b - 1) \div b
<1>1. q \in Nat /\ q * b <= n + b - 1 /\ n + b - 1 < q * b + b
  <2>1. n + b - 1 \in Nat
    OBVIOUS
  <2> QED
    BY <2>1, DivIs
<1> HIDE DEF q
<1>2. (i - 1) * b = i * b - b
  OBVIOUS
<1>3. CASE i <= q
  <2>1. i * b <= q * b
    BY <1>1, <1>3, TimesGrows
  <2>2. i * b \in Int /\ q * b \in Int
    BY <1>1
  <2>3. (i - 1) * b < n
    BY <2>1, <2>2, <1>1, <1>2
  <2> QED
    BY <2>3, <1>3, <1>1 DEF q
<1>4. CASE i > q
  <2>1. (q + 1) * b <= i * b
    BY <1>1, <1>4, TimesGrows
  <2>2. (q + 1) * b = q * b + b
    BY <1>1
  <2>3. i * b \in Int /\ q * b \in Int
    BY <1>1
  <2>4. ~((i - 1) * b < n)
    BY <2>1, <2>2, <2>3, <1>1, <1>2
  <2> QED
    BY <2>4, <1>4, <1>1 DEF q
<1> QED
  BY <1>1, <1>3, <1>4

\* The sizes, from the assumption.
LEMMA SizesAre ==
  /\ Size \in Nat \ {0} /\ Seg \in Nat \ {0} /\ Chunk \in Nat \ {0} /\ MaxId \in Nat
BY Sizes

\* The segments of a file: those that begin before its end.
LEMMA SegIdsAre ==
  ASSUME NEW i \in Nat
  PROVE  i \in SegIds <=> i >= 1 /\ (i - 1) * Seg < Size
BY PartsAre, SizesAre DEF SegIds

\* The same of its chunks.
LEMMA ChunkIdsAre ==
  ASSUME NEW i \in Nat
  PROVE  i \in ChunkIds <=> i >= 1 /\ (i - 1) * Chunk < Size
BY PartsAre, SizesAre DEF ChunkIds

\* The lesser of two numbers.
LEMMA LeastIs ==
  ASSUME NEW a \in Nat, NEW b \in Nat
  PROVE  /\ Least(a, b) \in Nat /\ Least(a, b) <= a /\ Least(a, b) <= b
         /\ Least(a, b) = a \/ Least(a, b) = b
BY DEF Least


----------------------------------------------------------------------------
\* A piece of a plaintext: its length and its units.
LEMMA PieceIs ==
  ASSUME content \in [Files -> Contents], NEW f \in Files, NEW a \in Nat, NEW b \in Nat, a <= b
  PROVE  /\ Piece(f, a, b) \in Pieces /\ Len(Piece(f, a, b)) = b - a
         /\ \A k \in 1..(b - a) : Piece(f, a, b)[k] = <<content[f], a + k>>
<1>1. \A k \in 1..(b - a) : <<content[f], a + k>> \in Units
  BY DEF Units
<1>2. b - a \in Nat
  OBVIOUS
<1>3. Piece(f, a, b) \in [1..(b - a) -> Units]
  BY <1>1 DEF Piece
<1>4. Piece(f, a, b) \in Seq(Units)
  BY <1>2, <1>3, SeqDef
<1>5. Len(Piece(f, a, b)) = b - a
  BY <1>2 DEF Piece
<1>6. \A k \in 1..(b - a) : Piece(f, a, b)[k] = <<content[f], a + k>>
  BY DEF Piece
<1> QED
  BY <1>4, <1>5, <1>6 DEF Pieces

\* A piece that ends where it begins.
LEMMA NoPiece ==
  ASSUME NEW f, NEW a \in Nat
  PROVE  Piece(f, a, a) = <<>>
<1>1. a - a = 0
  OBVIOUS
<1>2. Piece(f, a, a) = [k \in 1..0 |-> <<content[f], a + k>>]
  BY <1>1 DEF Piece
<1> QED
  BY <1>2

\* SubSeq under a name: the prover would open it before it sees the lemma.
Cut(s, m, n) == SubSeq(s, m, n)

\* A piece of a piece is a piece.
LEMMA PieceCut ==
  ASSUME content \in [Files -> Contents], NEW f \in Files, NEW a \in Nat, NEW b \in Nat, a <= b,
         NEW x \in Nat, NEW y \in Nat, a <= x, x <= y, y <= b,
         NEW m, NEW n, m = x - a + 1, n = y - a
  PROVE  Cut(Piece(f, a, b), m, n) = Piece(f, x, y)
<1> DEFINE w == Piece(f, a, b)
           s == SubSeq(w, m, n)
           t == Piece(f, x, y)
<1>1. w \in Seq(Units) /\ Len(w) = b - a
  BY PieceIs DEF Pieces
<1>2. \A j \in 1..(b - a) : w[j] = <<content[f], a + j>>
  BY PieceIs
<1>3. /\ t \in Seq(Units) /\ Len(t) = y - x
      /\ \A j \in 1..(y - x) : t[j] = <<content[f], x + j>>
  BY PieceIs DEF Pieces
<1> HIDE DEF w, t
<1>4. m \in Int /\ n \in Int /\ n - m + 1 = y - x /\ m >= 1 /\ n <= b - a
  OBVIOUS
<1>5. /\ s \in Seq(Units) /\ Len(s) = y - x
      /\ \A j \in 1..(y - x) : s[j] = w[m + j - 1]
  <2>1. \A j \in m..n : w[j] \in Units
    BY <1>1, <1>4, ElementOfSeq
  <2>2. /\ SubSeq(w, m, n) \in Seq(Units)
        /\ Len(SubSeq(w, m, n)) = IF m <= n THEN n - m + 1 ELSE 0
        /\ \A j \in 1..(n - m + 1) : SubSeq(w, m, n)[j] = w[m + j - 1]
    BY <2>1, <1>4, SubSeqProperties
  <2> QED
    BY <1>4, <2>2
<1> HIDE DEF s
<1>6. \A j \in 1..Len(s) : s[j] = t[j]
  <2>1. TAKE j \in 1..Len(s)
  <2>2. m + j - 1 \in 1..(b - a) /\ a + (m + j - 1) = x + j /\ j \in 1..(y - x)
    BY <1>5
  <2> QED
    BY <2>2, <1>2, <1>3, <1>5
<1>7. s = t
  BY <1>3, <1>5, <1>6, SeqEqual
<1> QED
  BY <1>7 DEF w, s, t, Cut

\* Two pieces, one after the other.
LEMMA PieceAdd ==
  ASSUME content \in [Files -> Contents], NEW f \in Files,
         NEW a \in Nat, NEW b \in Nat, NEW c \in Nat, a <= b, b <= c
  PROVE  Piece(f, a, b) \o Piece(f, b, c) = Piece(f, a, c)
<1> DEFINE s == Piece(f, a, b)
           t == Piece(f, b, c)
           w == Piece(f, a, c)
<1>1. s \in Seq(Units) /\ Len(s) = b - a /\ \A k \in 1..(b - a) : s[k] = <<content[f], a + k>>
  BY PieceIs DEF Pieces
<1>2. t \in Seq(Units) /\ Len(t) = c - b /\ \A k \in 1..(c - b) : t[k] = <<content[f], b + k>>
  BY PieceIs DEF Pieces
<1>3. a <= c
  OBVIOUS
<1>4. w \in Seq(Units) /\ Len(w) = c - a /\ \A k \in 1..(c - a) : w[k] = <<content[f], a + k>>
  BY <1>3, PieceIs DEF Pieces
<1> HIDE DEF s, t, w
<1>6. /\ s \o t \in Seq(Units) /\ Len(s \o t) = c - a
      /\ \A k \in 1..(c - a) : (s \o t)[k] = IF k <= b - a THEN s[k] ELSE t[k - (b - a)]
  <2>1. (b - a) + (c - b) = c - a
    OBVIOUS
  <2>2. /\ s \o t \in Seq(Units) /\ Len(s \o t) = Len(s) + Len(t)
        /\ \A k \in 1..(Len(s) + Len(t)) :
             (s \o t)[k] = IF k <= Len(s) THEN s[k] ELSE t[k - Len(s)]
    BY <1>1, <1>2, ConcatProperties
  <2> QED
    BY <1>1, <1>2, <2>1, <2>2
<1>7. ASSUME NEW k \in 1..(c - a) PROVE (s \o t)[k] = w[k]
  <2>1. CASE k <= b - a
    <3>1. k \in 1..(b - a)
      BY <2>1
    <3> QED
      BY <3>1, <2>1, <1>1, <1>4, <1>6
  <2>2. CASE ~(k <= b - a)
    <3>1. k - (b - a) \in 1..(c - b) /\ b + (k - (b - a)) = a + k
      BY <2>2
    <3>2. t[k - (b - a)] = <<content[f], a + k>>
      BY <3>1, <1>2
    <3> QED
      BY <3>2, <2>2, <1>4, <1>6
  <2> QED
    BY <2>1, <2>2
<1>8. s \o t = w
  BY <1>4, <1>6, <1>7, SeqEqual
<1> QED
  BY <1>8 DEF s, t, w

----------------------------------------------------------------------------
\* A segment never is nothing, and only one that reaches the end is short.
LEMMA SegmentIs ==
  ASSUME content \in [Files -> Contents], NEW f \in Files, NEW i \in SegIds
  PROVE  /\ i \in Nat /\ i >= 1 /\ (i - 1) * Seg \in Nat /\ i * Seg = (i - 1) * Seg + Seg
         /\ Segment(f, i) \in Pieces /\ Segment(f, i) # Bad
         /\ Len(Segment(f, i)) = Least(i * Seg, Size) - (i - 1) * Seg
         /\ Len(Segment(f, i)) = Seg <=> i * Seg <= Size
         /\ Len(Segment(f, i)) # Seg => Segment(f, i) = Piece(f, (i - 1) * Seg, Size)
<1>1. i \in Nat /\ i >= 1 /\ (i - 1) * Seg < Size
  <2>1. i \in Nat
    BY SizesAre DEF SegIds
  <2> QED
    BY <2>1, SegIdsAre
<1>2. (i - 1) * Seg \in Nat /\ i * Seg = (i - 1) * Seg + Seg
  <2>1. 0 * Seg <= (i - 1) * Seg
    BY <1>1, SizesAre, TimesGrows
  <2> QED
    BY <1>1, <2>1, SizesAre
<1> DEFINE a == (i - 1) * Seg
           c == i * Seg
<1> HIDE DEF a, c
<1>3. a \in Nat /\ c = a + Seg /\ a < Size
  BY <1>1, <1>2 DEF a, c
<1>4. Least(c, Size) \in Nat /\ a < Least(c, Size)
  BY <1>3, SizesAre DEF Least
<1>5. Segment(f, i) = Piece(f, a, Least(c, Size))
  BY DEF Segment, a, c
<1>6. Segment(f, i) \in Pieces /\ Len(Segment(f, i)) = Least(c, Size) - a
  <2> DEFINE e == Least(c, Size)
  <2> HIDE DEF e
  <2>1. e \in Nat /\ a <= e /\ a \in Nat
    BY <1>3, <1>4 DEF e
  <2>2. Piece(f, a, e) \in Pieces /\ Len(Piece(f, a, e)) = e - a
    BY <2>1, PieceIs
  <2> QED
    BY <2>2, <1>5 DEF e
<1>7. Len(Segment(f, i)) = Seg <=> c <= Size
  BY <1>3, <1>6, SizesAre DEF Least
<1>8. Segment(f, i) # Bad
  BY <1>3, <1>4, <1>6 DEF Bad
<1>9. Len(Segment(f, i)) # Seg => Segment(f, i) = Piece(f, a, Size)
  BY <1>5, <1>7, <1>3, SizesAre DEF Least
<1> QED
  BY <1>1, <1>2, <1>6, <1>7, <1>8, <1>9 DEF a, c

\* A complete file has all its segments.
LEMMA WholeIs ==
  ASSUME content \in [Files -> Contents], NEW f \in Files
  PROVE  /\ Whole(f) \in Seq(Pieces) /\ \A i \in SegIds : Whole(f)[i] = Segment(f, i)
         /\ Len(Whole(f)) \in Nat /\ SegIds = 1..Len(Whole(f))
<1> DEFINE q == (Size + Seg - 1) \div Seg
<1>1. q \in Nat
  <2>1. Size + Seg - 1 \in Nat
    BY SizesAre
  <2> QED
    BY <2>1, SizesAre, DivIs
<1>2. SegIds = 1..q
  BY DEF SegIds
<1> HIDE DEF q
<1>3. Whole(f) = [i \in 1..q |-> Segment(f, i)]
  BY <1>2 DEF Whole
<1>4. \A i \in 1..q : Segment(f, i) \in Pieces
  BY <1>2, SegmentIs
<1>5. Whole(f) \in [1..q -> Pieces]
  BY <1>3, <1>4
<1>6. Whole(f) \in Seq(Pieces) /\ Len(Whole(f)) = q
  BY <1>1, <1>3, <1>5, SeqDef
<1> QED
  BY <1>1, <1>2, <1>3, <1>6

\* What is taken out of the buffer is the next segments of the file, and what
\* stays is where it goes on.
LEMMA Filled ==
  ASSUME content \in [Files -> Contents], NEW f \in Files, NEW n \in Nat, NEW to \in Nat,
         NEW all, n * Seg <= to, to <= Size, all = Piece(f, n * Seg, to)
  PROVE  /\ FullSegs(all) \in Seq(Pieces)
         /\ Len(FullSegs(all)) \in Nat /\ DOMAIN FullSegs(all) = 1..Len(FullSegs(all))
         /\ \A i \in 1..Len(FullSegs(all)) :
              /\ n + i \in SegIds
              /\ FullSegs(all)[i] = Segment(f, n + i) /\ Len(FullSegs(all)[i]) = Seg
         /\ LeftOver(all) \in Pieces /\ Len(LeftOver(all)) < Seg
         /\ \E upto \in Nat : /\ upto = (n + Len(FullSegs(all))) * Seg
                              /\ LeftOver(all) = Piece(f, upto, to)
                              /\ Len(LeftOver(all)) = to - upto
<1> DEFINE a == n * Seg
           d == Len(all) \div Seg
<1>1. a \in Nat
  <2>1. 0 * Seg <= n * Seg
    BY SizesAre, TimesGrows
  <2> QED
    BY <2>1, SizesAre
<1>2. Len(all) = to - a /\ to - a \in Nat
  <2> HIDE DEF a
  <2>1. a <= to /\ all = Piece(f, a, to)
    BY DEF a
  <2>2. Len(Piece(f, a, to)) = to - a
    BY <1>1, <2>1, PieceIs
  <2> QED
    BY <1>1, <2>1, <2>2
<1>3. d \in Nat /\ d * Seg <= to - a /\ to - a < d * Seg + Seg
  BY <1>2, SizesAre, DivIs
<1>4. ASSUME NEW i \in Nat, i <= d PROVE i * Seg \in Nat /\ i * Seg <= to - a
  <2>1. 0 * Seg <= i * Seg /\ i * Seg <= d * Seg
    BY <1>3, <1>4, SizesAre, TimesGrows
  <2>2. i * Seg \in Int /\ d * Seg \in Int /\ 0 * Seg = 0
    BY <1>3, SizesAre
  <2> QED
    BY <1>2, <1>3, <2>1, <2>2
<1>5. ASSUME NEW i \in 1..d
      PROVE  /\ n + i \in SegIds
             /\ SubSeq(all, (i - 1) * Seg + 1, i * Seg) = Segment(f, n + i)
             /\ Len(Segment(f, n + i)) = Seg
  <2> DEFINE u == (i - 1) * Seg
             w == i * Seg
             from == a + u
             upto == a + w
             first == u + 1
  <2>1. i \in Nat /\ i - 1 \in Nat /\ i - 1 <= d /\ i <= d
    BY <1>3
  <2>2. u \in Nat /\ w \in Nat /\ w <= to - a
    BY <2>1, <1>4
  <2>3. w = u + Seg
    BY <2>1, SizesAre
  <2>4. (n + i) * Seg = a + w /\ (n + i - 1) * Seg = a + u
    BY <2>1, SizesAre
  <2> HIDE DEF a, u, w
  <2>5. SubSeq(all, u + 1, w) = Piece(f, a + u, a + w)
    <3>1. u <= w /\ a <= to
      BY <2>2, <2>3, <1>1, SizesAre
    <3>2. all = Piece(f, a, to)
      BY DEF a
    <3>3. /\ first = from - a + 1 /\ w = upto - a /\ from \in Nat /\ upto \in Nat
          /\ a <= from /\ from <= upto /\ upto <= to
      BY <3>1, <2>2, <1>1
    <3> HIDE DEF first, from, upto
    <3>4. Cut(Piece(f, a, to), first, w) = Piece(f, from, upto)
      BY <3>1, <3>3, <1>1, PieceCut
    <3> QED
      BY <3>2, <3>4 DEF first, from, upto, Cut
  <2>6. n + i \in SegIds
    <3>1. n + i \in Nat /\ n + i >= 1 /\ a + u < Size
      BY <1>1, <2>1, <2>2, <2>3, SizesAre
    <3> QED
      BY <3>1, <2>4, SegIdsAre
  <2>7. Least(a + w, Size) = a + w
    BY <1>1, <2>2, SizesAre DEF Least
  <2>8. Segment(f, n + i) = Piece(f, a + u, a + w)
    BY <2>4, <2>7 DEF Segment
  <2>9. Len(Segment(f, n + i)) = Seg
    <3>1. from \in Nat /\ upto \in Nat /\ from <= upto /\ upto - from = Seg
      BY <1>1, <2>2, <2>3, SizesAre
    <3> HIDE DEF from, upto
    <3>2. Len(Piece(f, from, upto)) = upto - from
      BY <3>1, PieceIs
    <3> QED
      BY <3>1, <3>2, <2>8 DEF from, upto
  <2> QED
    BY <2>5, <2>6, <2>8, <2>9 DEF u, w
<1>6. FullSegs(all) = [i \in 1..d |-> SubSeq(all, (i - 1) * Seg + 1, i * Seg)]
  BY DEF FullSegs
<1>7. \A i \in 1..d : FullSegs(all)[i] = Segment(f, n + i)
  BY <1>5, <1>6
<1>8. LeftOver(all) = SubSeq(all, d * Seg + 1, to - a)
  BY <1>2 DEF LeftOver
<1>9. (n + d) * Seg = a + d * Seg
  BY <1>3, SizesAre
<1> DEFINE w == d * Seg
<1>10. w \in Nat /\ w <= to - a /\ to - a < w + Seg
  BY <1>3, <1>4
<1> HIDE DEF a, d, w
<1>11. /\ LeftOver(all) = Piece(f, a + w, to)
       /\ LeftOver(all) \in Pieces /\ Len(LeftOver(all)) = to - (a + w)
  <2> DEFINE long == to - a
             from == a + w
             first == w + 1
  <2>1. a <= to /\ long \in Nat /\ w <= long /\ a + long = to
    BY <1>1, <1>2, <1>10
  <2>2. from \in Nat /\ from <= to
    BY <1>1, <1>10
  <2>3. /\ all = Piece(f, a, to) /\ LeftOver(all) = SubSeq(all, first, long)
    BY <1>8 DEF a, w
  <2>31. first = from - a + 1 /\ long = to - a /\ a <= from
    BY <1>1, <1>10
  <2> HIDE DEF long, first, from
  <2>4. Cut(Piece(f, a, to), first, long) = Piece(f, from, to)
    BY <2>1, <2>2, <2>31, <1>1, PieceCut
  <2>5. LeftOver(all) = Piece(f, from, to)
    BY <2>3, <2>4 DEF Cut
  <2>6. Piece(f, from, to) \in Pieces /\ Len(Piece(f, from, to)) = to - from
    BY <2>2, PieceIs
  <2> QED
    BY <2>5, <2>6 DEF from
<1>12. \A i \in 1..d : Segment(f, n + i) \in Pieces
  BY <1>5, SegmentIs
<1>13. FullSegs(all) \in [1..d -> Pieces]
  BY <1>6, <1>7, <1>12
<1>14. FullSegs(all) \in Seq(Pieces) /\ Len(FullSegs(all)) = d /\ DOMAIN FullSegs(all) = 1..d
  BY <1>3, <1>6, <1>13, SeqDef
<1>15. Len(LeftOver(all)) < Seg /\ Len(LeftOver(all)) = to - (a + w)
  BY <1>11, <1>10, <1>1, SizesAre
<1>16. \E upto \in Nat : /\ upto = (n + Len(FullSegs(all))) * Seg
                         /\ LeftOver(all) = Piece(f, upto, to)
                         /\ Len(LeftOver(all)) = to - upto
  <2> DEFINE upto == a + w
  <2>1. upto \in Nat
    BY <1>1, <1>10
  <2>2. upto = (n + Len(FullSegs(all))) * Seg
    BY <1>9, <1>14 DEF w
  <2>3. LeftOver(all) = Piece(f, upto, to) /\ Len(LeftOver(all)) = to - upto
    BY <1>11
  <2> HIDE DEF upto
  <2> QED
    BY <2>1, <2>2, <2>3
<1> QED
  BY <1>3, <1>5, <1>7, <1>11, <1>14, <1>15, <1>16

\* The last segment makes the file whole.
LEMMA Ended ==
  ASSUME content \in [Files -> Contents], NEW f \in Files, NEW segs \in Seq(Pieces), NEW buffer,
         \A i \in 1..Len(segs) : segs[i] = Segment(f, i) /\ Len(segs[i]) = Seg,
         buffer = Piece(f, Len(segs) * Seg, Size), buffer \in Pieces,
         Len(buffer) < Seg, Len(segs) * Seg + Len(buffer) = Size
  PROVE  /\ buffer = <<>> => segs = Whole(f)
         /\ buffer # <<>> => /\ Append(segs, buffer) = Whole(f)
                             /\ buffer = Segment(f, Len(segs) + 1)
<1> DEFINE n == Len(segs)
           a == n * Seg
           k == Len(Whole(f))
<1>1. n \in Nat /\ a \in Nat
  <2>1. n \in Nat
    OBVIOUS
  <2>2. 0 * Seg <= n * Seg
    BY <2>1, SizesAre, TimesGrows
  <2> QED
    BY <2>1, <2>2, SizesAre
<1>2. Len(buffer) \in Nat /\ (Len(buffer) = 0 <=> buffer = <<>>)
  BY EmptySeq, LenProperties DEF Pieces
<1>3. (n + 1) * Seg = a + Seg /\ (n + 1 - 1) * Seg = a /\ (n + 2 - 1) * Seg = a + Seg
  BY <1>1, SizesAre
<1>4. /\ Whole(f) \in Seq(Pieces) /\ k \in Nat /\ SegIds = 1..k
      /\ \A i \in 1..k : Whole(f)[i] = Segment(f, i)
  BY WholeIs
<1>5. a + Len(buffer) = Size /\ Len(buffer) < Seg
  OBVIOUS
<1>6. n = 0 \/ (n >= 1 /\ (n - 1) * Seg < Size)
  <2>1. CASE n >= 1
    <3>1. (n - 1) * Seg = a - Seg
      BY <1>1, SizesAre
    <3> QED
      BY <3>1, <2>1, <1>1, <1>2, <1>5, SizesAre
  <2> QED
    BY <2>1, <1>1
<1> DEFINE m == n + 1
           l == n + 2
<1>7. n = 0 \/ n \in 1..k
  BY <1>1, <1>4, <1>6, SegIdsAre
<1>8. l \notin 1..k
  <2>1. ~(a + Seg < Size) /\ l \in Nat
    BY <1>1, <1>2, <1>5, SizesAre
  <2>2. (l - 1) * Seg = a + Seg
    BY <1>3
  <2> HIDE DEF l
  <2> QED
    BY <2>1, <2>2, <1>4, SegIdsAre
<1> HIDE DEF n, a, k
<1>9. CASE buffer = <<>>
  <2>1. a = Size
    BY <1>1, <1>2, <1>5, <1>9
  <2>2. m \notin 1..k
    <3>1. ~(a < Size) /\ m \in Nat /\ (m - 1) * Seg = a
      BY <1>1, <1>3, <2>1, SizesAre
    <3> HIDE DEF m
    <3> QED
      BY <3>1, <1>4, SegIdsAre
  <2>3. n = k
    <3>1. n + 1 \notin 1..k /\ n \in Nat /\ k \in Nat /\ (n = 0 \/ n \in 1..k)
      BY <1>1, <1>4, <1>7, <2>2
    <3> QED
      BY <3>1
  <2>4. segs = Whole(f)
    <3>1. Len(segs) = Len(Whole(f)) /\ \A i \in 1..Len(segs) : segs[i] = Whole(f)[i]
      BY <1>4, <2>3 DEF n, k
    <3> QED
      BY <3>1, <1>4, SeqEqual
  <2> QED
    BY <2>4, <1>9
<1>10. CASE buffer # <<>>
  <2>1. a < Size
    BY <1>1, <1>2, <1>5, <1>10, SizesAre
  <2>2. m \in 1..k
    <3>1. m \in Nat /\ m >= 1 /\ (m - 1) * Seg < Size
      BY <1>1, <1>3, <2>1
    <3> HIDE DEF m
    <3> QED
      BY <3>1, <1>4, SegIdsAre
  <2>3. n + 1 = k
    BY <1>1, <1>4, <1>8, <2>2
  <2>4. Least((n + 1) * Seg, Size) = Size
    BY <1>1, <1>2, <1>3, <1>5, SizesAre DEF Least
  <2>5. buffer = Segment(f, n + 1)
    BY <2>4, <1>3 DEF Segment, n, a
  <2>6. Append(segs, buffer) = Whole(f)
    <3>1. /\ Append(segs, buffer) \in Seq(Pieces) /\ Len(Append(segs, buffer)) = n + 1
          /\ \A i \in 1..n : Append(segs, buffer)[i] = segs[i]
          /\ Append(segs, buffer)[n + 1] = buffer
      BY <1>1 DEF n
    <3>2. \A i \in 1..(n + 1) : Append(segs, buffer)[i] = Segment(f, i)
      <4>1. \A i \in 1..n : segs[i] = Segment(f, i)
        BY DEF n
      <4>2. ASSUME NEW i \in 1..(n + 1) PROVE i \in 1..n \/ i = n + 1
        BY <1>1
      <4> QED
        BY <3>1, <4>1, <4>2, <2>5
    <3>3. /\ Len(Append(segs, buffer)) = Len(Whole(f))
          /\ \A i \in 1..Len(Append(segs, buffer)) : Append(segs, buffer)[i] = Whole(f)[i]
      BY <3>1, <3>2, <2>3, <1>4 DEF k
    <3> QED
      BY <3>1, <3>3, <1>4, SeqEqual
  <2> QED
    BY <2>5, <2>6, <1>10 DEF n
<1> QED
  BY <1>9, <1>10

----------------------------------------------------------------------------
\* The inductive invariant.

Job == [pc : {"idle", "begun", "open", "cut", "finished", "adopted", "measured",
              "reset"}, id : 0..MaxId,
        buffer : Pieces, slots : [ChunkIds -> Nat], cells : Nat, name : Seq(Pieces)]

PoolFile == [name : Seq(Pieces), segs : Seq(Pieces), durable : Nat]

StoreTyped ==
  /\ matrix \subseteq Files /\ content \in [Files -> Contents]
  /\ rows \in [Files -> Row \union {None}]
  /\ top \in 0..MaxId /\ bases \in Nat
  /\ pend \in [Ids -> PendingFile \union {None}]
  /\ seek \in [Ids -> SeekFile \union {None}]
  /\ pool \subseteq PoolFile
  /\ job \in [Files -> Job]

Active(f) == job[f].pc # "idle"

\* No id is used twice, by rows or downloads; a file's download and its row may share one.
IdsAreOwn ==
  /\ \A f \in Files : rows[f] # None => rows[f].id <= top
  /\ \A f \in Files : Active(f) => job[f].id \in 1..top
  /\ \A f, g \in Files : f # g =>
       /\ rows[f] # None /\ rows[g] # None => rows[f].id # rows[g].id
       /\ Active(f) /\ Active(g) => job[f].id # job[g].id
       /\ Active(f) /\ rows[g] # None => job[f].id # rows[g].id

\* A record opens to its owner's segment or not at all, and then it was not
\* synced or is the last that was; only the last is shorter than a segment.
Sound(p) ==
  /\ p.durable <= Len(p.segs)
  /\ \A i \in 1..Len(p.segs) :
       /\ p.segs[i] = Bad \/ (i \in SegIds /\ p.segs[i] = Segment(p.owner, i))
       /\ p.segs[i] = Bad => i >= p.durable
       /\ p.segs[i] # Bad /\ Len(p.segs[i]) # Seg => i = Len(p.segs)

PendingIsSound == \A id \in Ids : pend[id] # None => Sound(pend[id])

\* The file a download appends to.
Mine(f) == pend[job[f].id]

OpenIs(f) ==
  /\ Mine(f) # None /\ Mine(f).owner = f
  /\ \A i \in 1..Len(Mine(f).segs) :
       Mine(f).segs[i] = Segment(f, i) /\ Len(Mine(f).segs[i]) = Seg
  /\ job[f].buffer = Piece(f, Len(Mine(f).segs) * Seg, PlainLen(f))
  /\ Len(job[f].buffer) < Seg /\ PlainLen(f) <= Size
  /\ f \notin matrix /\ seek[job[f].id] # None => job[f].cells >= Len(seek[job[f].id].cells)

FinishedIs(f) ==
  /\ job[f].name = Whole(f)
  /\ Mine(f) # None => Mine(f).segs = Whole(f) /\ Mine(f).durable = Len(Mine(f).segs)

GoesWell(f) ==
  /\ job[f].pc = "begun" => job[f].buffer = <<>>
  /\ job[f].pc = "open" => OpenIs(f)
  /\ job[f].pc = "finished" => FinishedIs(f)
  /\ job[f].pc \in {"adopted", "measured"} => job[f].name = Whole(f)

JobsGoWell == \A f \in Files : GoesWell(f)

PoolIsWhole == \A p \in pool : p.segs = p.name /\ p.durable = Len(p.segs)

HashesAreRight == \A f \in Files : rows[f] # None => rows[f].hash \in {None, Whole(f)}

\* No nonce base is drawn twice.
BasesAreOwn ==
  /\ \A id \in Ids : /\ pend[id] # None => pend[id].base <= bases
                     /\ seek[id] # None => seek[id].base <= bases
  /\ \A i, k \in Ids : i # k =>
       /\ pend[i] # None /\ pend[k] # None => pend[i].base # pend[k].base
       /\ seek[i] # None /\ seek[k] # None => seek[i].base # seek[k].base

\* Under the base of a pending file only its owner's segments were sealed, and
\* under that of a seek file no number beyond its end.
SealedIs ==
  \A n \in sealed :
    /\ n[2] \in 0..bases /\ n[3] \in Nat
    /\ \A id \in Ids :
         /\ pend[id] # None /\ n[1] = "main" /\ n[2] = pend[id].base
              => n[4] = Segment(pend[id].owner, n[3])
         /\ seek[id] # None /\ n[1] = "seek" /\ n[2] = seek[id].base
              => n[3] <= Len(seek[id].cells)

StoreInv ==
  /\ StoreTyped /\ IdsAreOwn /\ PendingIsSound /\ JobsGoWell /\ PoolIsWhole /\ HashesAreRight
  /\ BasesAreOwn /\ SealedIs /\ NonceOnce

----------------------------------------------------------------------------
LEMMA IdsAre == Ids = 1..MaxId /\ MaxId \in Nat /\ \A i \in Ids : i \in Nat
BY SizesAre DEF Ids

\* What the files hold does not change.
LEMMA SameContent ==
  ASSUME content' = content
  PROVE  /\ \A f, a, b : Piece(f, a, b)' = Piece(f, a, b)
         /\ \A f, i : Segment(f, i)' = Segment(f, i)
         /\ \A f : Whole(f)' = Whole(f)
BY DEF Piece, Segment, Whole

LEMMA SameSound ==
  ASSUME content' = content
  PROVE  \A p : Sound(p)' <=> Sound(p)
BY SameContent DEF Sound

LEMMA IdleIs == Idle \in Job /\ Idle.pc = "idle"
<1>1. <<>> \in Pieces /\ <<>> \in Seq(Pieces)
  BY EmptySeq DEF Pieces
<1>2. NoSlots \in [ChunkIds -> Nat]
  BY DEF NoSlots
<1> QED
  BY <1>1, <1>2, SizesAre DEF Idle, Job

\* Rows and downloads only end.
LEMMA IdsFollow ==
  ASSUME IdsAreOwn, top' = top,
         \A f \in Files : rows'[f] # None => rows[f] # None /\ rows'[f].id = rows[f].id,
         \A f \in Files : job'[f].pc # "idle" => job[f].pc # "idle" /\ job'[f].id = job[f].id
  PROVE  IdsAreOwn'
<1>1. \A f \in Files : rows'[f] # None => rows'[f].id <= top'
  BY DEF IdsAreOwn
<1>2. \A f \in Files : Active(f)' => job'[f].id \in 1..top'
  BY DEF IdsAreOwn, Active
<1>3. ASSUME NEW f \in Files, NEW g \in Files, f # g
      PROVE  /\ rows'[f] # None /\ rows'[g] # None => rows'[f].id # rows'[g].id
             /\ Active(f)' /\ Active(g)' => job'[f].id # job'[g].id
             /\ Active(f)' /\ rows'[g] # None => job'[f].id # rows'[g].id
  BY <1>3 DEF IdsAreOwn, Active
<1> QED
  BY <1>1, <1>2, <1>3 DEF IdsAreOwn

\* Only the files of one id change.
OnlyAt(id) == \A k \in Ids : k # id => pend'[k] = pend[k] /\ seek'[k] = seek[k]

\* A download's files are no other download's.
LEMMA OthersGoOn ==
  ASSUME StoreTyped, IdsAreOwn, JobsGoWell, UNCHANGED <<content, matrix>>,
         NEW f \in Files, Active(f),
         OnlyAt(job[f].id), NEW g \in Files, g # f, job'[g] = job[g]
  PROVE  GoesWell(g)'
<1>1. CASE ~Active(g)
  BY <1>1 DEF GoesWell, Active
<1>2. CASE Active(g)
  <2>1. job[g].id # job[f].id /\ job[g].id \in Ids
    BY <1>2, SizesAre DEF IdsAreOwn, Ids, StoreTyped
  <2>2. Mine(g)' = Mine(g) /\ seek'[job'[g].id] = seek[job[g].id] /\ PlainLen(g)' = PlainLen(g)
    BY <2>1 DEF OnlyAt, Mine, PlainLen
  <2>3. GoesWell(g)
    BY DEF JobsGoWell
  <2> QED
    BY <2>2, <2>3, SameContent DEF GoesWell, OpenIs, FinishedIs
<1> QED
  BY <1>1, <1>2

\* A file is kept, is gone, or was begun with a new base.
PendingGoesOn(id) ==
  pend'[id] # None =>
    \/ /\ pend[id] # None /\ pend'[id].base = pend[id].base
       /\ pend'[id].owner = pend[id].owner
    \/ pend'[id].base > bases /\ pend'[id].base <= bases'

SeekGoesOn(id) ==
  seek'[id] # None =>
    \/ /\ seek[id] # None /\ seek'[id].base = seek[id].base
       /\ Len(seek'[id].cells) >= Len(seek[id].cells)
    \/ seek'[id].base > bases /\ seek'[id].base <= bases'

\* New nonce bases are new.
LEMMA BasesGoOn ==
  ASSUME StoreTyped, StoreTyped', BasesAreOwn, NEW id \in Ids, OnlyAt(id), bases' >= bases,
         PendingGoesOn(id), SeekGoesOn(id)
  PROVE  BasesAreOwn'
<1>1. /\ bases \in Nat /\ bases' \in Nat
      /\ \A k \in Ids : /\ pend[k] # None => pend[k].base \in Nat
                        /\ pend'[k] # None => pend'[k].base \in Nat
                        /\ seek[k] # None => seek[k].base \in Nat
                        /\ seek'[k] # None => seek'[k].base \in Nat
  BY DEF StoreTyped, PendingFile, SeekFile
<1>2. ASSUME NEW k \in Ids
      PROVE  /\ pend'[k] # None => pend'[k].base <= bases'
             /\ seek'[k] # None => seek'[k].base <= bases'
  BY <1>1 DEF OnlyAt, PendingGoesOn, SeekGoesOn, BasesAreOwn
<1>3. ASSUME NEW k \in Ids, k # id
      PROVE  /\ pend'[id] # None /\ pend'[k] # None => pend'[id].base # pend'[k].base
             /\ seek'[id] # None /\ seek'[k] # None => seek'[id].base # seek'[k].base
  <2>1. pend'[k] = pend[k] /\ seek'[k] = seek[k]
    BY <1>3 DEF OnlyAt
  <2> QED
    BY <1>1, <1>3, <2>1 DEF PendingGoesOn, SeekGoesOn, BasesAreOwn
<1>4. ASSUME NEW i \in Ids, NEW k \in Ids, i # k, i # id, k # id
      PROVE  /\ pend'[i] # None /\ pend'[k] # None => pend'[i].base # pend'[k].base
             /\ seek'[i] # None /\ seek'[k] # None => seek'[i].base # seek'[k].base
  BY <1>4 DEF OnlyAt, BasesAreOwn
<1> QED
  BY <1>2, <1>3, <1>4 DEF BasesAreOwn

\* What is sealed new: segments of the file's owner, or one cell after the last.
NewSegment(id, n) ==
  /\ n[1] = "main" /\ n[3] \in Nat
  /\ pend[id] # None /\ pend'[id] # None /\ pend'[id].base = pend[id].base
  /\ pend'[id].owner = pend[id].owner
  /\ n[2] = pend[id].base /\ n[4] = Segment(pend[id].owner, n[3])

NewCell(id, n) ==
  /\ n[1] = "seek" /\ n[3] \in Nat
  /\ seek'[id] # None /\ n[2] = seek'[id].base /\ n[3] <= Len(seek'[id].cells)
  /\ \/ n[2] > bases
     \/ seek[id] # None /\ n[2] = seek[id].base /\ n[3] > Len(seek[id].cells)

\* No nonce is used again.
LEMMA SealedGoesOn ==
  ASSUME StoreTyped, StoreTyped', BasesAreOwn, BasesAreOwn', SealedIs, NonceOnce,
         content' = content, NEW id \in Ids, OnlyAt(id), bases' >= bases,
         PendingGoesOn(id), SeekGoesOn(id),
         NEW new, sealed' = sealed \union new,
         \/ \A n \in new : NewSegment(id, n)
         \/ \E m : new = {m} /\ NewCell(id, m)
  PROVE  SealedIs' /\ NonceOnce'
<1>1. /\ bases \in Nat /\ bases' \in Nat
      /\ \A k \in Ids : /\ pend[k] # None => pend[k].base \in Nat
                        /\ pend'[k] # None => pend'[k].base \in Nat
                        /\ seek[k] # None => seek[k].base \in Nat /\ Len(seek[k].cells) \in Nat
                        /\ seek'[k] # None => seek'[k].base \in Nat /\ Len(seek'[k].cells) \in Nat
  BY LenProperties DEF StoreTyped, PendingFile, SeekFile
<1>2. ASSUME NEW n \in sealed
      PROVE  /\ n[2] \in 0..bases' /\ n[2] \in 0..bases /\ n[3] \in Nat
             /\ \A k \in Ids :
                  /\ pend'[k] # None /\ n[1] = "main" /\ n[2] = pend'[k].base
                       => n[4] = Segment(pend'[k].owner, n[3])
                  /\ seek'[k] # None /\ n[1] = "seek" /\ n[2] = seek'[k].base
                       => n[3] <= Len(seek'[k].cells)
  <2>1. /\ n[2] \in 0..bases /\ n[3] \in Nat
        /\ \A k \in Ids :
             /\ pend[k] # None /\ n[1] = "main" /\ n[2] = pend[k].base
                  => n[4] = Segment(pend[k].owner, n[3])
             /\ seek[k] # None /\ n[1] = "seek" /\ n[2] = seek[k].base
                  => n[3] <= Len(seek[k].cells)
    BY DEF SealedIs
  <2>2. n[2] \in 0..bases'
    BY <1>1, <2>1
  <2>3. ASSUME NEW k \in Ids, k # id
        PROVE  /\ pend'[k] # None /\ n[1] = "main" /\ n[2] = pend'[k].base
                    => n[4] = Segment(pend'[k].owner, n[3])
               /\ seek'[k] # None /\ n[1] = "seek" /\ n[2] = seek'[k].base
                    => n[3] <= Len(seek'[k].cells)
    BY <2>1, <2>3 DEF OnlyAt
  <2>4. /\ pend'[id] # None /\ n[1] = "main" /\ n[2] = pend'[id].base
             => n[4] = Segment(pend'[id].owner, n[3])
        /\ seek'[id] # None /\ n[1] = "seek" /\ n[2] = seek'[id].base
             => n[3] <= Len(seek'[id].cells)
    <3>1. pend'[id] # None /\ n[1] = "main" /\ n[2] = pend'[id].base
            => n[4] = Segment(pend'[id].owner, n[3])
      BY <1>1, <2>1 DEF PendingGoesOn
    <3>2. seek'[id] # None /\ n[1] = "seek" /\ n[2] = seek'[id].base
            => n[3] <= Len(seek'[id].cells)
      BY <1>1, <2>1 DEF SeekGoesOn
    <3> QED
      BY <3>1, <3>2
  <2> QED
    BY <2>1, <2>2, <2>3, <2>4
<1>3. CASE \A n \in new : NewSegment(id, n)
  <2>1. ASSUME NEW n \in new
        PROVE  /\ n[1] = "main" /\ n[2] \in 0..bases' /\ n[2] = pend[id].base /\ n[3] \in Nat
               /\ n[4] = Segment(pend[id].owner, n[3])
               /\ pend[id] # None /\ pend'[id] # None /\ pend'[id].base = pend[id].base
               /\ pend'[id].owner = pend[id].owner
    BY <1>1, <1>3, <2>1 DEF NewSegment, BasesAreOwn
  <2>2. ASSUME NEW n \in new, NEW k \in Ids, pend'[k] # None, n[2] = pend'[k].base
        PROVE  n[4] = Segment(pend'[k].owner, n[3])
    <3>1. k = id
      BY <2>1, <2>2 DEF BasesAreOwn
    <3> QED
      BY <2>1, <3>1
  <2>3. ASSUME NEW n \in new
        PROVE  /\ n[2] \in 0..bases' /\ n[3] \in Nat
               /\ \A k \in Ids :
                    /\ pend'[k] # None /\ n[1] = "main" /\ n[2] = pend'[k].base
                         => n[4] = Segment(pend'[k].owner, n[3])
                    /\ seek'[k] # None /\ n[1] = "seek" /\ n[2] = seek'[k].base
                         => n[3] <= Len(seek'[k].cells)
    BY <2>1, <2>2
  <2>4. SealedIs'
    BY <1>2, <2>3, SameContent DEF SealedIs
  <2>5. ASSUME NEW m \in sealed, NEW n \in new, m[1] = n[1], m[2] = n[2], m[3] = n[3]
        PROVE  m[4] = n[4]
    BY <2>1, <2>5 DEF SealedIs
  <2>6. ASSUME NEW m \in new, NEW n \in new, m[3] = n[3]
        PROVE  m[4] = n[4]
    BY <2>1, <2>6
  <2>7. NonceOnce'
    BY <2>5, <2>6 DEF NonceOnce
  <2> QED
    BY <2>4, <2>7
<1>4. CASE \E m : new = {m} /\ NewCell(id, m)
  <2>1. PICK m : new = {m} /\ NewCell(id, m)
    BY <1>4
  <2>2. /\ m[1] = "seek" /\ m[3] \in Nat /\ seek'[id] # None /\ m[2] = seek'[id].base
        /\ m[3] <= Len(seek'[id].cells)
    BY <2>1 DEF NewCell
  <2>3. m[2] \in 0..bases'
    BY <1>1, <2>2 DEF BasesAreOwn
  <2>4. ASSUME NEW k \in Ids, seek'[k] # None, m[2] = seek'[k].base
        PROVE  m[3] <= Len(seek'[k].cells)
    <3>1. k = id
      BY <2>2, <2>4 DEF BasesAreOwn
    <3> QED
      BY <2>2, <3>1
  <2>5. SealedIs'
    BY <1>2, <2>1, <2>2, <2>3, <2>4, SameContent DEF SealedIs
  <2>6. ASSUME NEW n \in sealed PROVE ~(n[1] = m[1] /\ n[2] = m[2] /\ n[3] = m[3])
    <3>1. CASE m[2] > bases
      BY <1>1, <1>2, <2>3, <3>1
    <3>2. CASE seek[id] # None /\ m[2] = seek[id].base /\ m[3] > Len(seek[id].cells)
      <4>1. n[1] = "seek" /\ n[2] = seek[id].base => n[3] <= Len(seek[id].cells)
        BY <3>2 DEF SealedIs
      <4> QED
        BY <4>1, <3>2, <2>2, <1>1, <1>2
    <3> QED
      BY <2>1, <3>1, <3>2 DEF NewCell
  <2>7. NonceOnce'
    BY <2>1, <2>6 DEF NonceOnce
  <2> QED
    BY <2>5, <2>7
<1> QED
  BY <1>3, <1>4

----------------------------------------------------------------------------
\* A download goes on in its own files.
LEMMA OwnStep ==
  ASSUME StoreInv, StoreTyped', UNCHANGED <<content, matrix, rows, top>>,
         NEW f \in Files, Active(f),
         \A g \in Files : g # f => job'[g] = job[g],
         job'[f].pc # "idle" => job'[f].id = job[f].id,
         OnlyAt(job[f].id), pend'[job[f].id] # None => Sound(pend'[job[f].id]),
         GoesWell(f)', PoolIsWhole', bases' >= bases,
         PendingGoesOn(job[f].id), SeekGoesOn(job[f].id),
         NEW new, sealed' = sealed \union new,
         \/ \A n \in new : NewSegment(job[f].id, n)
         \/ \E m : new = {m} /\ NewCell(job[f].id, m)
  PROVE  StoreInv'
<1>1. /\ StoreTyped /\ IdsAreOwn /\ PendingIsSound /\ JobsGoWell /\ HashesAreRight
      /\ BasesAreOwn /\ SealedIs /\ NonceOnce
  BY DEF StoreInv
<1>2. job[f].id \in Ids
  BY <1>1, IdsAre DEF IdsAreOwn, StoreTyped
<1>3. IdsAreOwn'
  <2>1. \A g \in Files : job'[g].pc # "idle" => job[g].pc # "idle" /\ job'[g].id = job[g].id
    BY DEF Active
  <2> QED
    BY <1>1, <2>1, IdsFollow
<1>4. PendingIsSound'
  BY <1>1, SameSound DEF PendingIsSound, OnlyAt
<1>5. JobsGoWell'
  BY <1>1, OthersGoOn DEF JobsGoWell
<1>6. HashesAreRight'
  BY <1>1, SameContent DEF HashesAreRight
<1>7. BasesAreOwn'
  BY <1>1, <1>2, BasesGoOn
<1>8. SealedIs' /\ NonceOnce'
  BY <1>1, <1>2, <1>7, SealedGoesOn
<1> QED
  BY <1>3, <1>4, <1>5, <1>6, <1>7, <1>8 DEF StoreInv

\* Beside the downloads files are only removed.
FilesGo ==
  \A k \in Ids : pend'[k] \in {pend[k], None} /\ seek'[k] \in {seek[k], None}

\* Removing files keeps the invariant.
LEMMA RemovalStep ==
  ASSUME StoreInv, StoreTyped', UNCHANGED <<content, sealed, bases>>, FilesGo,
         IdsAreOwn', JobsGoWell', PoolIsWhole', HashesAreRight'
  PROVE  StoreInv'
<1>1. PendingIsSound /\ BasesAreOwn /\ SealedIs /\ NonceOnce
  BY DEF StoreInv
<1>2. PendingIsSound'
  BY <1>1, SameSound DEF PendingIsSound, FilesGo
<1>3. BasesAreOwn'
  BY <1>1 DEF BasesAreOwn, FilesGo
<1>4. SealedIs'
  <2>1. ASSUME NEW n \in sealed, NEW k \in Ids
        PROVE  /\ pend'[k] # None /\ n[1] = "main" /\ n[2] = pend'[k].base
                    => n[4] = Segment(pend'[k].owner, n[3])
               /\ seek'[k] # None /\ n[1] = "seek" /\ n[2] = seek'[k].base
                    => n[3] <= Len(seek'[k].cells)
    BY <1>1 DEF SealedIs, FilesGo
  <2>2. \A n \in sealed : n[2] \in 0..bases /\ n[3] \in Nat
    BY <1>1 DEF SealedIs
  <2> QED
    BY <2>1, <2>2, SameContent DEF SealedIs
<1>5. NonceOnce'
  BY <1>1 DEF NonceOnce
<1> QED
  BY <1>2, <1>3, <1>4, <1>5 DEF StoreInv

\* What a download that goes on relies on is left alone.
GoesOnAsBefore(f) ==
  /\ job'[f].pc \in {"open", "finished", "adopted", "measured"} =>
       /\ job'[f].pc = job[f].pc /\ job'[f].id = job[f].id /\ job'[f].buffer = job[f].buffer
       /\ job'[f].cells = job[f].cells /\ job'[f].name = job[f].name
  /\ job'[f].pc = "begun" => job'[f].buffer = <<>> \/ job'[f] = job[f]
  /\ job'[f].pc = "open" =>
       /\ pend'[job[f].id] = pend[job[f].id]
       /\ seek'[job[f].id] \in {seek[job[f].id], None}
  /\ job'[f].pc = "finished" => pend'[job[f].id] \in {pend[job[f].id], None}

\* A download whose files are left alone goes on.
LEMMA StaysWell ==
  ASSUME JobsGoWell, UNCHANGED <<content, matrix>>, NEW f \in Files, GoesOnAsBefore(f)
  PROVE  GoesWell(f)'
<1>1. GoesWell(f)
  BY DEF JobsGoWell
<1>2. ASSUME job'[f].pc = "open" PROVE OpenIs(f)'
  <2>1. OpenIs(f) /\ job'[f].id = job[f].id /\ job'[f].buffer = job[f].buffer
    BY <1>1, <1>2 DEF GoesOnAsBefore, GoesWell
  <2>2. Mine(f)' = Mine(f) /\ PlainLen(f)' = PlainLen(f)
    BY <1>2, <2>1 DEF GoesOnAsBefore, Mine, PlainLen
  <2>3. f \notin matrix' /\ seek'[job'[f].id] # None
          => job'[f].cells >= Len(seek'[job'[f].id].cells)
    BY <1>2, <2>1 DEF GoesOnAsBefore, OpenIs
  <2> QED
    BY <2>1, <2>2, <2>3, SameContent DEF OpenIs
<1>3. ASSUME job'[f].pc = "finished" PROVE FinishedIs(f)'
  <2>1. FinishedIs(f) /\ job'[f].name = job[f].name /\ Mine(f)' \in {Mine(f), None}
    BY <1>1, <1>3 DEF GoesOnAsBefore, GoesWell, Mine
  <2> QED
    BY <2>1, SameContent DEF FinishedIs
<1>4. job'[f].pc \in {"adopted", "measured"} => job'[f].name = Whole(f)'
  BY <1>1, SameContent DEF GoesOnAsBefore, GoesWell
<1>5. job'[f].pc = "begun" => job'[f].buffer = <<>>
  BY <1>1 DEF GoesOnAsBefore, GoesWell
<1> QED
  BY <1>2, <1>3, <1>4, <1>5 DEF GoesWell

\* A new row's id is nobody's.
LEMMA MadeRow ==
  ASSUME StoreTyped, NEW f \in Files, MakesRow(f)
  PROVE  /\ rows' \in [Files -> Row \union {None}] /\ top' = top + 1 /\ top' \in 0..MaxId
         /\ rows'[f] # None /\ rows'[f].id = top + 1 /\ rows'[f].hash = None
         /\ \A g \in Files : g # f => rows'[g] = rows[g]
<1>1. top \in Nat /\ top + 1 \in Ids /\ top' = top + 1
  BY IdsAre DEF StoreTyped, MakesRow
<1>2. NewRow \in Row /\ NewRow.id = top + 1 /\ NewRow.hash = None
  BY <1>1 DEF NewRow, Row
<1>3. NewRow # None
  BY <1>2, Nothing
<1>4. rows' = [rows EXCEPT ![f] = NewRow] /\ rows \in [Files -> Row \union {None}]
  BY DEF MakesRow, StoreTyped
<1> HIDE DEF NewRow, Row
<1>5. /\ rows' \in [Files -> Row \union {None}] /\ rows'[f] = NewRow
      /\ \A g \in Files : g # f => rows'[g] = rows[g]
  BY <1>2, <1>4
<1> QED
  BY <1>1, <1>2, <1>3, <1>5, IdsAre

LEMMA RowArrivesKeeps ==
  ASSUME StoreInv, UNCHANGED given, NEW f \in Files, RowArrives(f)
  PROVE  StoreInv'
<1>1. /\ StoreTyped /\ IdsAreOwn /\ JobsGoWell /\ PoolIsWhole /\ HashesAreRight
      /\ rows[f] = None
      /\ UNCHANGED <<content, matrix, pend, seek, pool, job, sealed, bases>> /\ MakesRow(f)
  BY DEF StoreInv, RowArrives, given, disk, history
<1>2. /\ rows' \in [Files -> Row \union {None}] /\ top' = top + 1 /\ top' \in 0..MaxId
      /\ rows'[f] # None /\ rows'[f].id = top + 1 /\ rows'[f].hash = None
      /\ \A g \in Files : g # f => rows'[g] = rows[g]
  BY <1>1, MadeRow
<1>3. StoreTyped'
  BY <1>1, <1>2 DEF StoreTyped
<1>4. IdsAreOwn'
  <2>1. top \in Nat
    BY <1>1, IdsAre DEF StoreTyped
  <2>2. \A g \in Files : rows[g] # None => rows[g].id \in Nat /\ rows[g].id <= top
    BY <1>1, IdsAre DEF StoreTyped, IdsAreOwn, Row
  <2>3. \A g \in Files : Active(g) => job[g].id \in 1..top
    BY <1>1 DEF IdsAreOwn
  <2>4. \A g \in Files : rows'[g] # None => rows'[g].id <= top'
    BY <1>2, <2>1, <2>2
  <2>5. \A g \in Files : Active(g)' => job'[g].id \in 1..top'
    BY <1>1, <1>2, <2>1, <2>3 DEF Active
  <2>6. ASSUME NEW g \in Files, NEW h \in Files, g # h
        PROVE  /\ rows'[g] # None /\ rows'[h] # None => rows'[g].id # rows'[h].id
               /\ Active(g)' /\ Active(h)' => job'[g].id # job'[h].id
               /\ Active(g)' /\ rows'[h] # None => job'[g].id # rows'[h].id
    <3>1. rows'[g] # None /\ rows'[h] # None => rows'[g].id # rows'[h].id
      BY <1>1, <1>2, <2>1, <2>2, <2>6 DEF IdsAreOwn
    <3>2. Active(g)' /\ Active(h)' => job'[g].id # job'[h].id
      BY <1>1, <2>6 DEF IdsAreOwn, Active
    <3>3. Active(g)' /\ rows'[h] # None => job'[g].id # rows'[h].id
      BY <1>1, <1>2, <2>1, <2>3, <2>6 DEF IdsAreOwn, Active
    <3> QED
      BY <3>1, <3>2, <3>3
  <2> QED
    BY <2>4, <2>5, <2>6 DEF IdsAreOwn
<1>5. HashesAreRight'
  BY <1>1, <1>2, SameContent DEF HashesAreRight
<1>6. JobsGoWell'
  <2>1. \A g \in Files : GoesOnAsBefore(g)
    BY <1>1 DEF GoesOnAsBefore
  <2> QED
    BY <1>1, <2>1, StaysWell DEF JobsGoWell
<1>7. PoolIsWhole'
  BY <1>1 DEF PoolIsWhole
<1>8. FilesGo
  BY <1>1 DEF FilesGo
<1> QED
  BY <1>1, <1>3, <1>4, <1>5, <1>6, <1>7, <1>8, RemovalStep

LEMMA BeginDownloadKeeps ==
  ASSUME StoreInv, UNCHANGED given, NEW f \in Files, BeginDownload(f)
  PROVE  StoreInv'
<1> DEFINE j == [Idle EXCEPT !.pc = "begun", !.id = rows'[f].id]
<1>1. /\ StoreTyped /\ IdsAreOwn /\ JobsGoWell /\ PoolIsWhole /\ HashesAreRight
      /\ job[f].pc = "idle" /\ job' = [job EXCEPT ![f] = j]
      /\ UNCHANGED <<content, matrix, pend, seek, pool, sealed, bases>>
      /\ IF rows[f] = None THEN MakesRow(f) ELSE UNCHANGED <<rows, top>>
  BY DEF StoreInv, BeginDownload, given, disk, history
<1>2. /\ rows' \in [Files -> Row \union {None}] /\ top' \in 0..MaxId /\ top <= top'
      /\ rows'[f] # None
      /\ \A g \in Files : g # f => rows'[g] = rows[g]
      /\ (rows[f] # None /\ rows'[f] = rows[f]) \/ (rows'[f].id > top /\ rows'[f].hash = None)
      /\ rows'[f].id <= top' /\ rows'[f].id \in Ids
  <2>1. top \in Nat /\ \A r \in Row : r.id \in Ids
    BY <1>1, IdsAre DEF StoreTyped, Row
  <2>2. CASE rows[f] = None
    <3>1. /\ rows' \in [Files -> Row \union {None}] /\ top' = top + 1 /\ top' \in 0..MaxId
          /\ rows'[f] # None /\ rows'[f].id = top + 1 /\ rows'[f].hash = None
          /\ \A g \in Files : g # f => rows'[g] = rows[g]
      BY <1>1, <2>2, MadeRow
    <3> QED
      BY <2>1, <3>1, IdsAre
  <2>3. CASE rows[f] # None
    <3>1. rows' = rows /\ top' = top
      BY <1>1, <2>3
    <3>2. rows[f] \in Row
      BY <1>1, <2>3 DEF StoreTyped
    <3> QED
      BY <1>1, <2>1, <2>3, <3>1, <3>2 DEF StoreTyped, IdsAreOwn
  <2> QED
    BY <2>2, <2>3
<1>3. j \in Job /\ j.pc = "begun" /\ j.id = rows'[f].id /\ j.buffer = <<>>
  <2>1. rows'[f].id \in 0..MaxId
    BY <1>2, IdsAre
  <2>2. \A x \in Job, i \in 0..MaxId :
          LET y == [x EXCEPT !.pc = "begun", !.id = i]
          IN y \in Job /\ y.pc = "begun" /\ y.id = i /\ y.buffer = x.buffer
    BY DEF Job
  <2>3. Idle.buffer = <<>>
    BY DEF Idle
  <2> QED
    BY <2>1, <2>2, <2>3, IdleIs
<1> HIDE DEF j
<1>4. /\ job' \in [Files -> Job] /\ job'[f] = j
      /\ \A g \in Files : g # f => job'[g] = job[g]
  BY <1>1, <1>3 DEF StoreTyped
<1>5. StoreTyped'
  BY <1>1, <1>2, <1>4 DEF StoreTyped
<1>6. IdsAreOwn'
  <2>1. top \in Nat /\ top' \in Nat
    BY <1>1, <1>2, IdsAre DEF StoreTyped
  <2>2. \A g \in Files : rows[g] # None => rows[g].id \in Nat /\ rows[g].id <= top
    BY <1>1, IdsAre DEF StoreTyped, IdsAreOwn, Row
  <2>3. \A g \in Files : Active(g) => job[g].id \in 1..top
    BY <1>1 DEF IdsAreOwn
  <2>4. \A g \in Files : rows'[g] # None => rows'[g].id <= top'
    BY <1>2, <2>1, <2>2
  <2>5. \A g \in Files : Active(g)' => job'[g].id \in 1..top'
    BY <1>2, <1>3, <1>4, <2>1, <2>3, IdsAre DEF Active
  <2>6. rows'[f].id \in Nat
    BY <1>2, IdsAre
  <2>7. ASSUME NEW g \in Files, g # f
        PROVE  /\ rows'[g] # None => rows'[g].id # rows'[f].id
               /\ Active(g)' => job'[g].id # rows'[f].id /\ job'[g].id \in Nat
    <3>1. rows'[g] # None => rows'[g].id # rows'[f].id
      BY <1>1, <1>2, <2>1, <2>2, <2>6, <2>7 DEF IdsAreOwn
    <3>2. Active(g)' => job'[g].id # rows'[f].id /\ job'[g].id \in Nat
      BY <1>1, <1>2, <1>4, <2>1, <2>3, <2>6, <2>7 DEF IdsAreOwn, Active
    <3> QED
      BY <3>1, <3>2
  <2>8. ASSUME NEW g \in Files, NEW h \in Files, g # h
        PROVE  /\ rows'[g] # None /\ rows'[h] # None => rows'[g].id # rows'[h].id
               /\ Active(g)' /\ Active(h)' => job'[g].id # job'[h].id
               /\ Active(g)' /\ rows'[h] # None => job'[g].id # rows'[h].id
    <3>1. CASE g = f
      BY <3>1, <2>7, <2>8, <1>3, <1>4
    <3>2. CASE h = f
      BY <3>2, <2>7, <2>8, <1>3, <1>4
    <3>3. CASE g # f /\ h # f
      BY <3>3, <2>8, <1>1, <1>2, <1>4 DEF IdsAreOwn, Active
    <3> QED
      BY <3>1, <3>2, <3>3
  <2> QED
    BY <2>4, <2>5, <2>8 DEF IdsAreOwn
<1>7. HashesAreRight'
  BY <1>1, <1>2, SameContent DEF HashesAreRight
<1>8. JobsGoWell'
  <2>1. \A g \in Files : GoesOnAsBefore(g)
    BY <1>1, <1>3, <1>4 DEF GoesOnAsBefore
  <2> QED
    BY <1>1, <2>1, StaysWell DEF JobsGoWell
<1>9. PoolIsWhole' /\ FilesGo
  BY <1>1 DEF PoolIsWhole, FilesGo
<1> QED
  BY <1>1, <1>5, <1>6, <1>7, <1>8, <1>9, RemovalStep

----------------------------------------------------------------------------
\* Steps that end a download, change rows without giving ids, or remove files.
LEMMA ClearingStep ==
  ASSUME StoreInv, UNCHANGED <<content, matrix, top, sealed, bases>>,
         rows' \in [Files -> Row \union {None}],
         \A f \in Files : rows'[f] # None =>
           /\ rows[f] # None /\ rows'[f].id = rows[f].id
           /\ rows'[f].hash \in {None, rows[f].hash, Whole(f)},
         pend' \in [Ids -> PendingFile \union {None}], seek' \in [Ids -> SeekFile \union {None}],
         FilesGo, pool' \subseteq PoolFile, PoolIsWhole', job' \in [Files -> Job],
         \A f \in Files : job'[f].pc # "idle" => job[f].pc # "idle" /\ job'[f].id = job[f].id,
         JobsGoWell'
  PROVE  StoreInv'
<1>1. StoreTyped /\ IdsAreOwn /\ HashesAreRight
  BY DEF StoreInv
<1>2. StoreTyped'
  BY <1>1 DEF StoreTyped
<1>3. IdsAreOwn'
  <2>1. /\ \A f \in Files : rows'[f] # None => rows[f] # None /\ rows'[f].id = rows[f].id
        /\ top' = top
    OBVIOUS
  <2> QED
    BY <1>1, <2>1, IdsFollow
<1>4. HashesAreRight'
  BY <1>1, SameContent DEF HashesAreRight
<1> QED
  BY <1>2, <1>3, <1>4, RemovalStep

\* A row that is emptied.
LEMMA ResetRow ==
  ASSUME NEW r \in Row \union {None}
  PROVE  /\ Reset(r) \in Row \union {None}
         /\ Reset(r) # None => r # None /\ Reset(r).id = r.id /\ Reset(r).hash = None
<1>1. CASE r = None
  BY <1>1 DEF Reset
<1>2. CASE r \in Row
  <2>1. r # None
    BY <1>2, Nothing
  <2>2. Reset(r) = [r EXCEPT !.done = FALSE, !.hash = None]
    BY <2>1 DEF Reset
  <2>3. Reset(r) \in Row /\ Reset(r).id = r.id /\ Reset(r).hash = None
    BY <1>2, <2>2 DEF Row
  <2> QED
    BY <2>1, <2>3
<1> QED
  BY <1>1, <1>2

\* The rows are those of before, or some of them emptied, or one deleted.
RowsFade ==
  \A f \in Files : rows'[f] \in {rows[f], Reset(rows[f]), None}

LEMMA FadedRows ==
  ASSUME StoreTyped, rows' = [f \in Files |-> rows'[f]], RowsFade
  PROVE  /\ rows' \in [Files -> Row \union {None}]
         /\ \A f \in Files : rows'[f] # None =>
              /\ rows[f] # None /\ rows'[f].id = rows[f].id
              /\ rows'[f].hash \in {None, rows[f].hash, Whole(f)}
<1>1. \A f \in Files : rows[f] \in Row \union {None}
  BY DEF StoreTyped
<1>2. ASSUME NEW f \in Files
      PROVE  /\ rows'[f] \in Row \union {None}
             /\ rows'[f] # None =>
                  /\ rows[f] # None /\ rows'[f].id = rows[f].id
                  /\ rows'[f].hash \in {None, rows[f].hash, Whole(f)}
  BY <1>1, ResetRow DEF RowsFade
<1> QED
  BY <1>2

\* The writer thread's steps that leave the disk and the downloads alone.
LEMMA RowsKeep ==
  ASSUME StoreInv, UNCHANGED <<content, matrix, top, sealed, bases, pend, seek, job>>,
         rows' = [f \in Files |-> rows'[f]], RowsFade, pool' \subseteq pool
  PROVE  StoreInv'
<1>1. StoreTyped /\ JobsGoWell /\ PoolIsWhole
  BY DEF StoreInv
<1>2. /\ rows' \in [Files -> Row \union {None}]
      /\ \A f \in Files : rows'[f] # None =>
           /\ rows[f] # None /\ rows'[f].id = rows[f].id
           /\ rows'[f].hash \in {None, rows[f].hash, Whole(f)}
  BY <1>1, FadedRows
<1>3. /\ pend' \in [Ids -> PendingFile \union {None}] /\ seek' \in [Ids -> SeekFile \union {None}]
      /\ pool' \subseteq PoolFile /\ job' \in [Files -> Job]
  BY <1>1 DEF StoreTyped
<1>4. PoolIsWhole' /\ FilesGo
  BY <1>1 DEF PoolIsWhole, FilesGo
<1>5. JobsGoWell'
  <2>1. \A f \in Files : GoesOnAsBefore(f)
    BY DEF GoesOnAsBefore
  <2> QED
    BY <1>1, <2>1, StaysWell DEF JobsGoWell
<1> QED
  BY <1>2, <1>3, <1>4, <1>5, ClearingStep

LEMMA SmallStepsKeep ==
  ASSUME StoreInv, UNCHANGED given,
         \/ AskSweep \/ SweepEnds \/ CollectEnds \/ Age \/ SweepRows \/ Unlink \/ EvictRow \/ DelRow
         \/ \E f \in Files : Read(f) \/ Evict(f) \/ DelFiles(f)
         \/ \E h \in tidy.files : SweepPool(h)
         \/ \E h \in opening : EnterReader(h)
         \/ \E h \in reading : CloseReader(h)
  PROVE  StoreInv'
<1>1. rows = [f \in Files |-> rows[f]] /\ \A f \in Files : rows[f] \in Row \union {None}
  BY DEF StoreInv, StoreTyped
<1>2. CASE \/ AskSweep \/ SweepEnds \/ CollectEnds \/ Age
           \/ \E f \in Files : Read(f) \/ Evict(f) \/ DelFiles(f)
           \/ \E h \in tidy.files : SweepPool(h)
           \/ \E h \in opening : EnterReader(h)
           \/ \E h \in reading : CloseReader(h)
  <2>1. UNCHANGED <<content, matrix, top, sealed, bases, pend, seek, job, rows, pool>>
    BY <1>2 DEF AskSweep, SweepEnds, CollectEnds, Age, Read, Evict, DelFiles, SweepPool,
                EnterReader, CloseReader, given, table, disk, history
  <2>2. rows' = [f \in Files |-> rows'[f]] /\ RowsFade /\ pool' \subseteq pool
    BY <1>1, <2>1 DEF RowsFade
  <2> QED
    BY <2>1, <2>2, RowsKeep
<1>3. CASE SweepRows
  <2>1. UNCHANGED <<content, matrix, top, sealed, bases, pend, seek, job, pool>>
    BY <1>3 DEF SweepRows, given, disk, history
  <2>2. rows' = [f \in Files |->
          IF rows[f] # None /\ rows[f].done /\ ~IsComplete(rows[f])
            THEN Reset(rows[f]) ELSE rows[f]]
    BY <1>3 DEF SweepRows
  <2>3. rows' = [f \in Files |-> rows'[f]] /\ RowsFade /\ pool' \subseteq pool
    BY <2>1, <2>2 DEF RowsFade
  <2> QED
    BY <2>1, <2>3, RowsKeep
<1>4. CASE Unlink
  <2>1. UNCHANGED <<content, matrix, top, sealed, bases, pend, seek, job, rows>>
    BY <1>4 DEF Unlink, given, table, history
  <2>2. pool' \subseteq pool
    BY <1>4 DEF Unlink
  <2>3. rows' = [f \in Files |-> rows'[f]] /\ RowsFade
    BY <1>1, <2>1 DEF RowsFade
  <2> QED
    BY <2>1, <2>2, <2>3, RowsKeep
<1>5. CASE EvictRow
  <2>1. UNCHANGED <<content, matrix, top, sealed, bases, pend, seek, job, pool>>
    BY <1>5 DEF EvictRow, given, disk, history
  <2>2. rows' = [rows EXCEPT ![tidy.of] = Reset(@)]
    BY <1>5 DEF EvictRow
  <2>3. rows' = [f \in Files |-> rows'[f]] /\ RowsFade
    BY <1>1, <2>2 DEF RowsFade
  <2> QED
    BY <2>1, <2>3, RowsKeep
<1>6. CASE DelRow
  <2>1. UNCHANGED <<content, matrix, top, sealed, bases, pend, seek, job, pool>>
    BY <1>6 DEF DelRow, given, disk, history
  <2>2. rows' = [rows EXCEPT ![tidy.of] = None]
    BY <1>6 DEF DelRow
  <2>3. rows' = [f \in Files |-> rows'[f]] /\ RowsFade
    BY <1>1, <2>2 DEF RowsFade
  <2> QED
    BY <2>1, <2>3, RowsKeep
<1> QED
  BY <1>2, <1>3, <1>4, <1>5, <1>6

\* A download ends, and its row is emptied or recorded complete.
LEMMA RowAndJobKeep ==
  ASSUME StoreInv, UNCHANGED given, NEW f \in Files, Record(f) \/ PostReset(f)
  PROVE  StoreInv'
<1>1. StoreTyped /\ JobsGoWell /\ PoolIsWhole
  BY DEF StoreInv
<1>2. /\ UNCHANGED <<content, matrix, top, sealed, bases, pend, seek, pool>>
      /\ job' = [job EXCEPT ![f] = Idle] /\ job \in [Files -> Job]
  BY <1>1 DEF Record, PostReset, given, disk, history, StoreTyped
<1>3. /\ job' \in [Files -> Job] /\ job'[f] = Idle
      /\ \A g \in Files : g # f => job'[g] = job[g]
  BY <1>2, IdleIs
<1>4. \A g \in Files : GoesOnAsBefore(g)
  <2>1. GoesOnAsBefore(f)
    BY <1>3, IdleIs DEF GoesOnAsBefore
  <2>2. \A g \in Files : g # f => GoesOnAsBefore(g)
    BY <1>2, <1>3 DEF GoesOnAsBefore
  <2> QED
    BY <2>1, <2>2
<1>5. \A g \in Files : job'[g].pc # "idle" => job[g].pc # "idle" /\ job'[g].id = job[g].id
  BY <1>3, IdleIs
<1>6. /\ rows' \in [Files -> Row \union {None}]
      /\ \A g \in Files : rows'[g] # None =>
           /\ rows[g] # None /\ rows'[g].id = rows[g].id
           /\ rows'[g].hash \in {None, rows[g].hash, Whole(g)}
  <2>1. rows = [g \in Files |-> rows[g]] /\ \A g \in Files : rows[g] \in Row \union {None}
    BY <1>1 DEF StoreTyped
  <2>2. CASE PostReset(f)
    <3>1. rows' = [g \in Files |-> rows'[g]] /\ RowsFade
      BY <2>1, <2>2 DEF PostReset, RowsFade
    <3> QED
      BY <1>1, <3>1, FadedRows
  <2>3. CASE Record(f)
    <3>1. CASE rows' = rows
      BY <2>1, <3>1
    <3> DEFINE r == rows[f]
    <3>2. CASE r = None /\ rows' # rows
      <4>1. rows' = [rows EXCEPT ![f] = None]
        BY <2>3, <3>2 DEF Record
      <4>2. rows' = [g \in Files |-> rows'[g]] /\ RowsFade
        BY <2>1, <4>1 DEF RowsFade
      <4> QED
        BY <1>1, <4>2, FadedRows
    <3>3. CASE r # None /\ rows' # rows
      <4> DEFINE n == [r EXCEPT !.done = TRUE, !.hash = job[f].name]
      <4>1. rows' = [rows EXCEPT ![f] = n]
        BY <2>3, <3>3 DEF Record
      <4>2. r \in Row /\ job[f].name \in Seq(Pieces) /\ job[f].name = Whole(f)
        BY <1>1, <2>1, <2>3, <3>3 DEF Record, StoreTyped, Job, JobsGoWell, GoesWell
      <4>3. n \in Row /\ n.id = r.id /\ n.hash = Whole(f)
        BY <4>2 DEF Row
      <4> HIDE DEF n, r
      <4>4. rows'[f] = n /\ \A g \in Files : g # f => rows'[g] = rows[g]
        BY <2>1, <4>1
      <4>5. rows' \in [Files -> Row \union {None}]
        BY <2>1, <4>1, <4>3
      <4> QED
        BY <3>3, <4>3, <4>4, <4>5 DEF r
    <3> QED
      BY <3>1, <3>2, <3>3
  <2> QED
    BY <2>2, <2>3
<1>7. /\ pend' \in [Ids -> PendingFile \union {None}] /\ seek' \in [Ids -> SeekFile \union {None}]
      /\ pool' \subseteq PoolFile
  BY <1>1, <1>2 DEF StoreTyped
<1>8. PoolIsWhole' /\ FilesGo
  BY <1>1, <1>2 DEF PoolIsWhole, FilesGo
<1>9. JobsGoWell'
  BY <1>1, <1>2, <1>4, StaysWell DEF JobsGoWell
<1> QED
  BY <1>2, <1>3, <1>5, <1>6, <1>7, <1>8, <1>9, ClearingStep

----------------------------------------------------------------------------
\* Steps that remove pending files.

\* What a download holds.
LEMMA JobIs ==
  ASSUME StoreTyped, NEW f \in Files
  PROVE  /\ job[f] \in Job /\ job[f].id \in 0..MaxId /\ job[f].buffer \in Pieces
         /\ job[f].slots \in [ChunkIds -> Nat] /\ job[f].cells \in Nat
         /\ job[f].name \in Seq(Pieces)
<1>1. job[f] \in Job
  BY DEF StoreTyped
<1> QED
  BY <1>1 DEF Job

LEMMA ActiveIds ==
  ASSUME StoreTyped, IdsAreOwn, NEW f \in Files, Active(f)
  PROVE  /\ job[f].id \in Ids
         /\ \A g \in Files : g # f /\ Active(g) => job[g].id # job[f].id
BY IdsAre DEF IdsAreOwn, StoreTyped

\* A sweep or a removal cuts off the downloads whose files it takes.
LEMMA RemovalKeeps ==
  ASSUME StoreInv, UNCHANGED given,
         SweepPending \/ \E stays \in BOOLEAN : DelPending(stays)
  PROVE  StoreInv'
<1>1. StoreTyped /\ JobsGoWell /\ PoolIsWhole
  BY DEF StoreInv
<1>2. PICK gone \in SUBSET Ids :
        /\ pend' = [id \in Ids |-> IF id \in gone THEN None ELSE pend[id]]
        /\ seek' = [id \in Ids |-> IF id \in gone THEN None ELSE seek[id]]
        /\ job' = CutOff({id \in gone : pend[id] # None})
        /\ UNCHANGED <<content, matrix, rows, top, sealed, bases, pool>>
  <2>1. PICK taken : RemovePending(taken)
    BY DEF SweepPending, DelPending
  <2>2. UNCHANGED <<content, matrix, rows, top, sealed, bases, pool>>
    BY DEF SweepPending, DelPending, given, table, history
  <2> DEFINE gone == taken \intersect Ids
  <2>3. /\ pend' = [id \in Ids |-> IF id \in gone THEN None ELSE pend[id]]
        /\ seek' = [id \in Ids |-> IF id \in gone THEN None ELSE seek[id]]
    BY <2>1 DEF RemovePending
  <2>4. job' = CutOff({id \in gone : pend[id] # None})
    <3>1. job' = CutOff({id \in taken : pend[id] # None})
      BY <2>1 DEF RemovePending
    <3>2. \A f \in Files : job[f].pc = "open" => job[f].id \in Ids
      <4>1. IdsAreOwn
        BY DEF StoreInv
      <4> QED
        BY <1>1, <4>1, ActiveIds DEF Active
    <3> QED
      BY <3>1, <3>2 DEF CutOff
  <2> QED
    BY <2>2, <2>3, <2>4
<1>3. ASSUME NEW f \in Files
      PROVE  \/ job'[f] = job[f] /\ ~(job[f].pc = "open" /\ job[f].id \in gone /\ Mine(f) # None)
             \/ /\ job'[f] \in Job /\ job'[f].pc = "cut"
                /\ job[f].pc = "open" /\ job'[f].id = job[f].id
  <2>1. job'[f] = IF job[f].pc = "open" /\ job[f].id \in gone /\ Mine(f) # None
                    THEN [job[f] EXCEPT !.pc = "cut"] ELSE job[f]
    BY <1>2 DEF CutOff, Mine
  <2>2. [job[f] EXCEPT !.pc = "cut"] \in Job /\ [job[f] EXCEPT !.pc = "cut"].pc = "cut"
        /\ [job[f] EXCEPT !.pc = "cut"].id = job[f].id
    BY <1>1, JobIs DEF Job
  <2> QED
    BY <2>1, <2>2
<1>4. job' \in [Files -> Job]
  <2>1. job' = [f \in Files |-> job'[f]]
    BY <1>2 DEF CutOff
  <2>2. \A f \in Files : job'[f] \in Job
    BY <1>1, <1>3, JobIs
  <2> QED
    BY <2>1, <2>2
<1>5. FilesGo
  BY <1>2 DEF FilesGo
<1>6. /\ pend' \in [Ids -> PendingFile \union {None}] /\ seek' \in [Ids -> SeekFile \union {None}]
      /\ rows' \in [Files -> Row \union {None}] /\ pool' \subseteq PoolFile
  BY <1>1, <1>2 DEF StoreTyped
<1>7. ASSUME NEW f \in Files PROVE GoesOnAsBefore(f)
  <2>1. CASE job'[f] = job[f] /\ job[f].pc = "open"
    <3>1. OpenIs(f)
      BY <1>1, <2>1 DEF JobsGoWell, GoesWell
    <3>2. job[f].id \in Ids /\ job[f].id \notin gone
      <4>1. IdsAreOwn
        BY DEF StoreInv
      <4> QED
        BY <1>1, <1>3, <2>1, <3>1, <4>1, ActiveIds DEF OpenIs, Active
    <3> QED
      BY <1>2, <2>1, <3>2 DEF GoesOnAsBefore
  <2>2. CASE job'[f] = job[f] /\ job[f].pc # "open"
    <3>1. job[f].pc = "finished" => job[f].id \in Ids
      <4>1. IdsAreOwn
        BY DEF StoreInv
      <4> QED
        BY <1>1, <4>1, ActiveIds DEF Active
    <3> QED
      BY <1>5, <2>2, <3>1 DEF GoesOnAsBefore, FilesGo
  <2>3. CASE job'[f].pc = "cut"
    BY <2>3 DEF GoesOnAsBefore
  <2> QED
    BY <1>3, <2>1, <2>2, <2>3
<1>8. JobsGoWell'
  BY <1>1, <1>2, <1>7, StaysWell DEF JobsGoWell
<1>9. \A f \in Files : job'[f].pc # "idle" => job[f].pc # "idle" /\ job'[f].id = job[f].id
  BY <1>3
<1>10. PoolIsWhole'
  BY <1>1, <1>2 DEF PoolIsWhole
<1>11. \A f \in Files : rows'[f] # None =>
         /\ rows[f] # None /\ rows'[f].id = rows[f].id
         /\ rows'[f].hash \in {None, rows[f].hash, Whole(f)}
  BY <1>2
<1> QED
  BY <1>2, <1>4, <1>5, <1>6, <1>8, <1>9, <1>10, <1>11, ClearingStep

\* Only f's download changes, and its files at most go.
LEMMA OwnClearing ==
  ASSUME StoreInv, UNCHANGED <<content, matrix, rows, top, sealed, bases>>, NEW f \in Files,
         Active(f), NEW j \in Job, job' = [job EXCEPT ![f] = j],
         j.pc # "idle" /\ j.id = job[f].id,
         pend' \in {pend, [pend EXCEPT ![job[f].id] = None]},
         seek' \in {seek, [seek EXCEPT ![job[f].id] = None]},
         pool' \subseteq PoolFile, PoolIsWhole', GoesWell(f)'
  PROVE  StoreInv'
<1>1. StoreTyped /\ IdsAreOwn /\ JobsGoWell
  BY DEF StoreInv
<1>2. job[f].id \in Ids
  BY <1>1, ActiveIds
<1>3. /\ FilesGo /\ OnlyAt(job[f].id)
      /\ pend' \in [Ids -> PendingFile \union {None}] /\ seek' \in [Ids -> SeekFile \union {None}]
  BY <1>1, <1>2 DEF FilesGo, OnlyAt, StoreTyped
<1>4. /\ job' \in [Files -> Job] /\ job'[f] = j
      /\ \A g \in Files : g # f => job'[g] = job[g]
  BY <1>1 DEF StoreTyped
<1>5. JobsGoWell'
  BY <1>1, <1>3, <1>4, OthersGoOn DEF JobsGoWell
<1>6. \A g \in Files : job'[g].pc # "idle" => job[g].pc # "idle" /\ job'[g].id = job[g].id
  BY <1>4 DEF Active
<1>7. rows' \in [Files -> Row \union {None}]
  BY <1>1 DEF StoreTyped
<1> QED
  BY <1>3, <1>4, <1>5, <1>6, <1>7, ClearingStep

LEMMA DiscardFilesKeeps ==
  ASSUME StoreInv, UNCHANGED given, NEW f \in Files, DiscardFiles(f)
  PROVE  StoreInv'
<1> DEFINE j == [job[f] EXCEPT !.pc = "reset"]
<1>1. StoreTyped /\ PoolIsWhole
  BY DEF StoreInv
<1>2. /\ UNCHANGED <<content, matrix, rows, top, sealed, bases, pool>> /\ Active(f)
      /\ job' = [job EXCEPT ![f] = j]
      /\ pend' = [pend EXCEPT ![job[f].id] = None]
      /\ seek' \in {seek, [seek EXCEPT ![job[f].id] = None]}
  BY DEF DiscardFiles, given, table, history, Active
<1>3. j \in Job /\ j.pc = "reset" /\ j.id = job[f].id
  BY <1>1, JobIs DEF Job
<1> HIDE DEF j
<1>4. GoesWell(f)'
  <2>1. job'[f] = j
    BY <1>1, <1>2 DEF StoreTyped
  <2> QED
    BY <1>3, <2>1 DEF GoesWell
<1>5. PoolIsWhole' /\ pool' \subseteq PoolFile
  BY <1>1, <1>2 DEF PoolIsWhole, StoreTyped
<1> QED
  BY <1>2, <1>3, <1>4, <1>5, OwnClearing

LEMMA DropCellKeeps ==
  ASSUME StoreInv, UNCHANGED given, NEW f \in Files, DropCell(f)
  PROVE  StoreInv'
<1> DEFINE j == [job[f] EXCEPT !.slots = [job[f].slots EXCEPT ![NextChunk(f)] = 0]]
<1>1. StoreTyped /\ JobsGoWell /\ PoolIsWhole
  BY DEF StoreInv
<1>2. /\ UNCHANGED <<content, matrix, rows, top, sealed, bases, pool, pend, seek>> /\ Active(f)
      /\ job' = [job EXCEPT ![f] = j] /\ job[f].pc = "open"
  BY DEF DropCell, given, table, history, disk, Active
<1>3. /\ j \in Job /\ j.pc = job[f].pc /\ j.id = job[f].id /\ j.buffer = job[f].buffer
      /\ j.cells = job[f].cells /\ j.name = job[f].name
  <2>1. [job[f].slots EXCEPT ![NextChunk(f)] = 0] \in [ChunkIds -> Nat]
    BY <1>1, JobIs
  <2> DEFINE s == [job[f].slots EXCEPT ![NextChunk(f)] = 0]
  <2> HIDE DEF s
  <2>2. j = [job[f] EXCEPT !.slots = s]
    BY DEF s
  <2>3. s \in [ChunkIds -> Nat]
    BY <2>1 DEF s
  <2> QED
    BY <1>1, <2>2, <2>3, JobIs DEF Job
<1> HIDE DEF j
<1>4. job'[f] = j
  BY <1>1, <1>2 DEF StoreTyped
<1>5. GoesWell(f)'
  <2>1. GoesOnAsBefore(f)
    BY <1>2, <1>3, <1>4 DEF GoesOnAsBefore
  <2> QED
    BY <1>1, <1>2, <2>1, StaysWell
<1>6. PoolIsWhole' /\ pool' \subseteq PoolFile
  BY <1>1, <1>2 DEF PoolIsWhole, StoreTyped
<1> QED
  BY <1>2, <1>3, <1>5, <1>6, OwnClearing DEF Active

\* What it makes of the download.
LEMMA MeasuredJob ==
  ASSUME NEW f \in Files, Measure(f)
  PROVE  \E j : /\ j \in {Idle, [job[f] EXCEPT !.pc = "measured"], [job[f] EXCEPT !.pc = "reset"]}
               /\ job' = [job EXCEPT ![f] = j]
<1>1. CASE InPool(job[f].name) # {}
  BY <1>1 DEF Measure
<1>2. CASE InPool(job[f].name) = {} /\ f \in matrix
  BY <1>2 DEF Measure
<1>3. CASE InPool(job[f].name) = {} /\ f \notin matrix
  BY <1>3 DEF Measure
<1> QED
  BY <1>1, <1>2, <1>3

\* A download that finds its file, or not, goes on with the name alone.
LEMMA MeasureKeeps ==
  ASSUME StoreInv, UNCHANGED given, NEW f \in Files, Measure(f)
  PROVE  StoreInv'
<1>1. StoreTyped /\ JobsGoWell /\ PoolIsWhole
  BY DEF StoreInv
<1>2. UNCHANGED <<content, matrix, rows, top, sealed, bases, pend, seek, pool>>
  BY DEF Measure, given, table, disk, history
<1>3. PICK j : /\ j \in {Idle, [job[f] EXCEPT !.pc = "measured"], [job[f] EXCEPT !.pc = "reset"]}
               /\ job' = [job EXCEPT ![f] = j]
  BY MeasuredJob
<1>4. job[f] \in Job /\ job[f].pc = "adopted" /\ job[f].name = Whole(f)
  BY <1>1 DEF Measure, StoreTyped, JobsGoWell, GoesWell
<1>5. /\ j \in Job /\ j.pc \in {"idle", "measured", "reset"}
      /\ j.pc # "idle" => j.id = job[f].id
      /\ j.pc = "measured" => j.name = Whole(f)
  <2>1. CASE j = Idle
    BY <2>1, IdleIs
  <2>2. CASE j = [job[f] EXCEPT !.pc = "measured"]
    BY <2>2, <1>4 DEF Job
  <2>3. CASE j = [job[f] EXCEPT !.pc = "reset"]
    BY <2>3, <1>4 DEF Job
  <2> QED
    BY <1>3, <2>1, <2>2, <2>3
<1>6. job \in [Files -> Job]
  BY <1>1 DEF StoreTyped
<1>7. /\ job' \in [Files -> Job] /\ job'[f] = j
      /\ \A g \in Files : g # f => job'[g] = job[g]
  BY <1>3, <1>5, <1>6
<1>8. ASSUME NEW g \in Files PROVE GoesWell(g)'
  <2>1. CASE g = f
    BY <2>1, <1>2, <1>5, <1>7, SameContent DEF GoesWell
  <2>2. CASE g # f
    <3>1. GoesOnAsBefore(g)
      BY <2>2, <1>2, <1>7 DEF GoesOnAsBefore
    <3> QED
      BY <3>1, <1>1, <1>2, StaysWell
  <2> QED
    BY <2>1, <2>2
<1>9. /\ pend' \in [Ids -> PendingFile \union {None}] /\ seek' \in [Ids -> SeekFile \union {None}]
      /\ pool' \subseteq PoolFile /\ rows' \in [Files -> Row \union {None}]
  BY <1>1, <1>2 DEF StoreTyped
<1>10. PoolIsWhole' /\ FilesGo
  BY <1>1, <1>2 DEF PoolIsWhole, FilesGo
<1>11. \A g \in Files : rows'[g] # None =>
         /\ rows[g] # None /\ rows'[g].id = rows[g].id
         /\ rows'[g].hash \in {None, rows[g].hash, Whole(g)}
  BY <1>2
<1>12. \A g \in Files : job'[g].pc # "idle" => job[g].pc # "idle" /\ job'[g].id = job[g].id
  BY <1>4, <1>5, <1>7
<1>13. JobsGoWell'
  BY <1>8 DEF JobsGoWell
<1> QED
  BY <1>2, <1>7, <1>9, <1>10, <1>11, <1>12, <1>13, ClearingStep

\* A file that goes into the pool is whole and synced.
LEMMA AdoptKeeps ==
  ASSUME StoreInv, UNCHANGED given, NEW f \in Files, Adopt(f)
  PROVE  StoreInv'
<1> DEFINE id == job[f].id
           h == job[f].name
<1>1. StoreTyped /\ IdsAreOwn /\ JobsGoWell /\ PoolIsWhole
  BY DEF StoreInv
<1>2. /\ UNCHANGED <<content, matrix, rows, top, sealed, bases>> /\ job[f].pc = "finished"
      /\ Active(f)
  BY DEF Adopt, given, table, history, Active
<1>3. id \in Ids /\ FinishedIs(f)
  BY <1>1, <1>2, ActiveIds DEF JobsGoWell, GoesWell
<1>4. CASE pend[id] = None
  <2> DEFINE j == [job[f] EXCEPT !.pc = "reset"]
  <2>1. job' = [job EXCEPT ![f] = j] /\ UNCHANGED <<pool, pend, seek>>
    BY <1>4 DEF Adopt
  <2>2. j \in Job /\ j.pc = "reset" /\ j.id = job[f].id
    BY <1>1, JobIs DEF Job
  <2> HIDE DEF j
  <2>3. GoesWell(f)'
    <3>1. job'[f] = j
      BY <1>1, <2>1 DEF StoreTyped
    <3> QED
      BY <2>2, <3>1 DEF GoesWell
  <2>4. PoolIsWhole' /\ pool' \subseteq PoolFile
    BY <1>1, <2>1 DEF PoolIsWhole, StoreTyped
  <2> QED
    BY <1>2, <2>1, <2>2, <2>3, <2>4, OwnClearing
<1>5. CASE pend[id] # None
  <2> DEFINE j == [job[f] EXCEPT !.pc = "adopted"]
             n == [name |-> h, segs |-> pend[id].segs, durable |-> pend[id].durable]
  <2>1. /\ job' = [job EXCEPT ![f] = j]
        /\ pend' = [pend EXCEPT ![id] = None]
        /\ seek' \in {seek, [seek EXCEPT ![id] = None]}
        /\ pool' \subseteq pool \union {n}
    BY <1>5 DEF Adopt
  <2>2. j \in Job /\ j.pc = "adopted" /\ j.id = job[f].id /\ j.name = h
    BY <1>1, JobIs DEF Job
  <2>3. /\ h = Whole(f) /\ h \in Seq(Pieces) /\ pend[id] \in PendingFile
        /\ pend[id].segs = h /\ pend[id].durable = Len(pend[id].segs)
    BY <1>1, <1>3, <1>5, JobIs DEF FinishedIs, Mine, StoreTyped
  <2>4. n \in PoolFile /\ n.segs = n.name /\ n.durable = Len(n.segs)
    <3>1. pend[id].durable \in Nat
      BY <2>3 DEF PendingFile
    <3> QED
      BY <2>3, <3>1 DEF PoolFile
  <2> HIDE DEF j, n
  <2>5. GoesWell(f)'
    <3>1. job'[f] = j
      BY <1>1, <2>1 DEF StoreTyped
    <3> QED
      BY <1>2, <2>2, <2>3, <3>1, SameContent DEF GoesWell
  <2>6. PoolIsWhole' /\ pool' \subseteq PoolFile
    BY <1>1, <2>1, <2>4 DEF PoolIsWhole, StoreTyped
  <2> QED
    BY <1>2, <2>1, <2>2, <2>5, <2>6, OwnClearing
<1> QED
  BY <1>4, <1>5

----------------------------------------------------------------------------
\* The program stops.

\* What is left of records after a loss of power.
LEMMA DamagedIs ==
  ASSUME NEW segs \in Seq(Pieces), NEW d \in Nat, NEW hit \in Nat
  PROVE  /\ Damaged(segs, d, hit) \in Seq(Pieces)
         /\ d >= Len(segs) => Damaged(segs, d, hit) = segs
         /\ \/ /\ Len(Damaged(segs, d, hit)) = Least(d, Len(segs))
               /\ \A i \in 1..Len(Damaged(segs, d, hit)) : Damaged(segs, d, hit)[i] = segs[i]
            \/ /\ Len(Damaged(segs, d, hit)) = Len(segs)
               /\ \A i \in 1..Len(segs) :
                    \/ Damaged(segs, d, hit)[i] = segs[i]
                    \/ Damaged(segs, d, hit)[i] = Bad /\ i > d
<1>1. Len(segs) \in Nat
  BY LenProperties
<1>2. CASE hit = 0
  <2> DEFINE m == Least(d, Len(segs))
  <2>1. m \in Nat /\ m <= d /\ m <= Len(segs) /\ (d >= Len(segs) => m = Len(segs))
    BY <1>1 DEF Least
  <2>2. Damaged(segs, d, hit) = SubSeq(segs, 1, m)
    BY <1>2 DEF Damaged
  <2> HIDE DEF m
  <2>3. \A i \in 1..m : segs[i] \in Pieces
    BY <2>1, <1>1, ElementOfSeq
  <2>4. /\ SubSeq(segs, 1, m) \in Seq(Pieces)
        /\ Len(SubSeq(segs, 1, m)) = IF 1 <= m THEN m - 1 + 1 ELSE 0
        /\ \A i \in 1..(m - 1 + 1) : SubSeq(segs, 1, m)[i] = segs[1 + i - 1]
    BY <2>1, <2>3, SubSeqProperties
  <2> DEFINE t == SubSeq(segs, 1, m)
  <2> HIDE DEF t
  <2>5. t \in Seq(Pieces) /\ Len(t) = m /\ \A i \in 1..m : t[i] = segs[i]
    <3>1. m - 1 + 1 = m /\ \A i \in 1..m : 1 + i - 1 = i
      BY <2>1
    <3> QED
      BY <2>1, <2>4, <3>1 DEF t
  <2>6. d >= Len(segs) => t = segs
    BY <2>1, <2>5, SeqEqual
  <2>7. Damaged(segs, d, hit) = t
    BY <2>2 DEF t
  <2> QED
    BY <2>5, <2>6, <2>7 DEF m
<1>3. CASE hit # 0 /\ hit > d /\ hit <= Len(segs)
  <2>1. Damaged(segs, d, hit) = [segs EXCEPT ![hit] = Bad]
    BY <1>3 DEF Damaged
  <2>2. Bad \in Pieces /\ hit \in 1..Len(segs)
    BY <1>1, <1>3, EmptySeq DEF Bad, Pieces
  <2> HIDE DEF Bad
  <2>3. /\ [segs EXCEPT ![hit] = Bad] \in Seq(Pieces)
        /\ Len([segs EXCEPT ![hit] = Bad]) = Len(segs)
        /\ \A i \in 1..Len(segs) :
             [segs EXCEPT ![hit] = Bad][i] = IF i = hit THEN Bad ELSE segs[i]
    BY <2>2, ExceptSeq
  <2>4. ~(d >= Len(segs))
    BY <1>1, <1>3
  <2> QED
    BY <2>1, <2>3, <2>4, <1>3
<1>4. CASE hit # 0 /\ ~(hit > d /\ hit <= Len(segs))
  BY <1>4 DEF Damaged
<1> QED
  BY <1>2, <1>3, <1>4

\* A sound file stays one.
LEMMA DamagedIsSound ==
  ASSUME NEW p \in PendingFile, Sound(p), NEW hit \in Nat
  PROVE  LET q == [p EXCEPT !.segs = Damaged(@, p.durable, hit)]
         IN q \in PendingFile /\ q.base = p.base /\ q.owner = p.owner /\ Sound(q)
<1> DEFINE s == Damaged(p.segs, p.durable, hit)
           q == [p EXCEPT !.segs = s]
<1>1. p.segs \in Seq(Pieces) /\ p.durable \in Nat /\ Len(p.segs) \in Nat
  BY LenProperties DEF PendingFile
<1>2. /\ s \in Seq(Pieces)
      /\ \/ /\ Len(s) = Least(p.durable, Len(p.segs))
            /\ \A i \in 1..Len(s) : s[i] = p.segs[i]
         \/ /\ Len(s) = Len(p.segs)
            /\ \A i \in 1..Len(p.segs) : s[i] = p.segs[i] \/ (s[i] = Bad /\ i > p.durable)
  BY <1>1, DamagedIs
<1> HIDE DEF s, Bad
<1>3. /\ q \in PendingFile /\ q.base = p.base /\ q.owner = p.owner /\ q.durable = p.durable
      /\ q.segs = s
  BY <1>2 DEF PendingFile
<1>4. Len(s) \in Nat /\ p.durable <= Len(p.segs)
  BY <1>2, LenProperties DEF Sound
<1>5. CASE /\ Len(s) = Least(p.durable, Len(p.segs))
           /\ \A i \in 1..Len(s) : s[i] = p.segs[i]
  <2>1. Len(s) = p.durable
    BY <1>1, <1>4, <1>5 DEF Least
  <2>2. ASSUME NEW i \in 1..Len(s)
        PROVE  /\ s[i] = Bad \/ (i \in SegIds /\ s[i] = Segment(p.owner, i))
               /\ s[i] = Bad => i >= p.durable
               /\ s[i] # Bad /\ Len(s[i]) # Seg => i = Len(s)
    <3>1. i \in 1..Len(p.segs) /\ s[i] = p.segs[i]
      BY <1>1, <1>4, <1>5, <2>1
    <3>2. s[i] # Bad /\ Len(s[i]) # Seg => i = Len(s)
      BY <3>1, <2>1, <1>1, <1>4 DEF Sound
    <3> QED
      BY <3>1, <3>2 DEF Sound
  <2>3. Sound(q)
    BY <2>1, <2>2, <1>1, <1>3 DEF Sound
  <2> QED
    BY <1>3, <2>3 DEF s
<1>6. CASE /\ Len(s) = Len(p.segs)
           /\ \A i \in 1..Len(p.segs) : s[i] = p.segs[i] \/ (s[i] = Bad /\ i > p.durable)
  <2>1. ASSUME NEW i \in 1..Len(s)
        PROVE  /\ s[i] = Bad \/ (i \in SegIds /\ s[i] = Segment(p.owner, i))
               /\ s[i] = Bad => i >= p.durable
               /\ s[i] # Bad /\ Len(s[i]) # Seg => i = Len(s)
    BY <1>1, <1>6 DEF Sound
  <2>2. Sound(q)
    BY <2>1, <1>3, <1>4, <1>6 DEF Sound
  <2> QED
    BY <1>3, <2>2 DEF s
<1> QED
  BY <1>2, <1>5, <1>6

LEMMA KeptIs ==
  ASSUME NEW s \in SeekFile
  PROVE  /\ Kept(s) \in SeekFile /\ Kept(s) # None /\ Kept(s).base = s.base
         /\ Len(Kept(s).cells) \in Nat
<1> DEFINE good == {0} \union {k \in DOMAIN s.cells : s.cells[k].state = "good"}
           m == Max(good)
<1>1. s.cells \in Seq(Cell) /\ Len(s.cells) \in Nat /\ DOMAIN s.cells = 1..Len(s.cells) /\ s # None
  BY LenProperties, Nothing DEF SeekFile
<1>2. good \subseteq 0..Len(s.cells) /\ good # {}
  BY <1>1
<1>3. Kept(s) = [s EXCEPT !.cells = SubSeq(@, 1, m)]
  BY <1>1 DEF Kept
<1> HIDE DEF good
<1>4. m \in 0..Len(s.cells)
  BY <1>1, <1>2, GreatestIs
<1> HIDE DEF m
<1>5. \A i \in 1..m : s.cells[i] \in Cell
  BY <1>1, <1>4, ElementOfSeq
<1>6. SubSeq(s.cells, 1, m) \in Seq(Cell)
  <2>1. m \in Int
    BY <1>4, <1>1
  <2> QED
    BY <2>1, <1>5, SubSeqProperties
<1> DEFINE t == SubSeq(s.cells, 1, m)
<1> HIDE DEF t
<1>7. t \in Seq(Cell) /\ Len(t) \in Nat
  BY <1>6, LenProperties DEF t
<1>8. Kept(s) = [s EXCEPT !.cells = t]
  BY <1>3 DEF t
<1>9. Kept(s) \in SeekFile /\ Kept(s).base = s.base /\ Kept(s).cells = t
  BY <1>7, <1>8 DEF SeekFile
<1> QED
  BY <1>7, <1>9, Nothing

\* A complete file was synced: the power takes nothing of it.
LEMMA PoolOutlasts ==
  ASSUME StoreInv, NEW power \in BOOLEAN, NEW rebuilt \in BOOLEAN,
         NEW hit \in Nat, ProgramStops(power, hit, rebuilt)
  PROVE  pool' = pool
<1>1. CASE ~power
  BY <1>1 DEF ProgramStops, disk
<1>2. CASE power
  <2>1. pool' = {[p EXCEPT !.segs = Damaged(@, p.durable, hit)] : p \in pool}
    BY <1>2 DEF ProgramStops
  <2>2. ASSUME NEW p \in pool PROVE [p EXCEPT !.segs = Damaged(@, p.durable, hit)] = p
    <3>1. p \in PoolFile /\ p.durable = Len(p.segs)
      BY DEF StoreInv, StoreTyped, PoolIsWhole
    <3>2. p.segs \in Seq(Pieces) /\ p.durable \in Nat /\ Len(p.segs) \in Nat
      BY <3>1, LenProperties DEF PoolFile
    <3> DEFINE segs == p.segs
               d == p.durable
    <3>3. Damaged(segs, d, hit) = segs
      <4>1. segs \in Seq(Pieces) /\ d \in Nat /\ d >= Len(segs)
        BY <3>1, <3>2
      <4> HIDE DEF segs, d
      <4> QED
        BY <4>1, DamagedIs
    <3> QED
      BY <3>1, <3>3 DEF PoolFile
  <2> QED
    BY <2>1, <2>2
<1> QED
  BY <1>1, <1>2

\* The end of the program, with the power or without, with the table or without.
LEMMA ProgramStopsKeeps ==
  ASSUME StoreInv, UNCHANGED given, NEW power \in BOOLEAN, NEW rebuilt \in BOOLEAN,
         NEW hit \in Nat, ProgramStops(power, hit, rebuilt)
  PROVE  StoreInv'
<1>1. /\ StoreTyped /\ IdsAreOwn /\ PendingIsSound /\ JobsGoWell /\ PoolIsWhole /\ HashesAreRight
      /\ BasesAreOwn /\ SealedIs /\ NonceOnce
  BY DEF StoreInv
<1>2. /\ UNCHANGED <<content, matrix, bases>> /\ job' = [f \in Files |-> Idle]
      /\ rows' = IF rebuilt THEN [f \in Files |-> None] ELSE rows
      /\ top' = IF rebuilt THEN 0 ELSE top
  BY DEF ProgramStops, AllIdle, given
<1>3. ASSUME NEW id \in Ids
      PROVE  /\ pend'[id] \in PendingFile \union {None}
             /\ pend'[id] # None => /\ pend[id] # None /\ pend'[id].base = pend[id].base
                                    /\ pend'[id].owner = pend[id].owner /\ Sound(pend'[id])
  <2>1. pend[id] \in PendingFile \union {None} /\ (pend[id] # None => Sound(pend[id]))
    BY <1>1 DEF StoreTyped, PendingIsSound
  <2>2. CASE ~power
    BY <2>1, <2>2 DEF ProgramStops, disk
  <2>3. CASE power /\ pend[id] = None
    <3>1. pend'[id] = None
      BY <2>3 DEF ProgramStops
    <3> QED
      BY <3>1
  <2>4. CASE power /\ pend[id] # None
    <3> DEFINE q == [pend[id] EXCEPT !.segs = Damaged(@, pend[id].durable, hit)]
    <3>1. pend'[id] = q
      BY <2>4 DEF ProgramStops
    <3>2. q \in PendingFile /\ q.base = pend[id].base /\ q.owner = pend[id].owner /\ Sound(q)
      BY <2>1, <2>4, DamagedIsSound
    <3> QED
      BY <2>4, <3>1, <3>2
  <2> QED
    BY <2>2, <2>3, <2>4
<1>4. pend' \in [Ids -> PendingFile \union {None}]
  <2>1. pend' = [id \in Ids |-> pend'[id]]
    <3>1. CASE power
      BY <3>1 DEF ProgramStops
    <3>2. CASE ~power
      BY <3>2, <1>1 DEF ProgramStops, disk, StoreTyped
    <3> QED
      BY <3>1, <3>2
  <2> QED
    BY <2>1, <1>3
<1>5. ASSUME NEW id \in Ids
      PROVE  /\ seek'[id] \in SeekFile \union {None}
             /\ seek'[id] # None => seek[id] # None /\ seek'[id].base = seek[id].base
             /\ seek'[id] = seek[id] \/ (power /\ hit = 0 /\ seek'[id] = Kept(seek[id]))
  <2>1. seek[id] \in SeekFile \union {None}
    BY <1>1 DEF StoreTyped
  <2>2. CASE power /\ hit = 0
    <3>1. seek'[id] = Kept(seek[id])
      BY <2>2 DEF ProgramStops
    <3>2. Kept(None) = None
      BY DEF Kept
    <3> QED
      BY <2>1, <2>2, <3>1, <3>2, KeptIs
  <2>3. CASE ~(power /\ hit = 0)
    <3>1. seek' = seek
      BY <2>3 DEF ProgramStops, disk
    <3> QED
      BY <2>1, <3>1
  <2> QED
    BY <2>2, <2>3
<1>6. seek' \in [Ids -> SeekFile \union {None}]
  <2>1. seek' = [id \in Ids |-> seek'[id]]
    <3>1. CASE power /\ hit = 0
      BY <3>1 DEF ProgramStops
    <3>2. CASE ~(power /\ hit = 0)
      BY <3>2, <1>1 DEF ProgramStops, disk, StoreTyped
    <3> QED
      BY <3>1, <3>2
  <2> QED
    BY <2>1, <1>5
<1>7. pool' = pool
  BY PoolOutlasts
<1>8. StoreTyped'
  <2>1. rows' \in [Files -> Row \union {None}] /\ top' \in 0..MaxId
    BY <1>1, <1>2, IdsAre DEF StoreTyped
  <2>2. job' \in [Files -> Job]
    BY <1>2, IdleIs
  <2> QED
    BY <1>1, <1>2, <1>4, <1>6, <1>7, <2>1, <2>2 DEF StoreTyped
<1>9. \A f \in Files : job'[f].pc = "idle"
  BY <1>2, IdleIs
<1>10. IdsAreOwn'
  <2>1. CASE rebuilt
    <3>1. \A f \in Files : rows'[f] = None
      BY <1>2, <2>1
    <3> QED
      BY <3>1, <1>9 DEF IdsAreOwn, Active
  <2>2. CASE ~rebuilt
    <3>1. rows' = rows /\ top' = top
      BY <1>2, <2>2
    <3> QED
      BY <1>1, <1>9, <3>1, IdsFollow
  <2> QED
    BY <2>1, <2>2
<1>11. PendingIsSound'
  BY <1>2, <1>3, SameSound DEF PendingIsSound
<1>12. JobsGoWell'
  BY <1>9 DEF JobsGoWell, GoesWell
<1>13. PoolIsWhole'
  BY <1>1, <1>7 DEF PoolIsWhole
<1>14. HashesAreRight'
  BY <1>1, <1>2, SameContent DEF HashesAreRight
<1>15. BasesAreOwn'
  BY <1>1, <1>2, <1>3, <1>5 DEF BasesAreOwn
<1>16. /\ sealed' \subseteq sealed
       /\ power /\ hit = 0 => \A n \in sealed', id \in Ids :
            seek[id] # None /\ n[1] = "seek" /\ n[2] = seek[id].base
              => n[3] <= Len(Kept(seek[id]).cells)
  <2>1. CASE power /\ hit = 0
    BY <2>1 DEF ProgramStops
  <2>2. CASE ~(power /\ hit = 0)
    BY <2>2 DEF ProgramStops
  <2> QED
    BY <2>1, <2>2
<1>17. SealedIs'
  <2>1. ASSUME NEW n \in sealed', NEW id \in Ids
        PROVE  /\ pend'[id] # None /\ n[1] = "main" /\ n[2] = pend'[id].base
                    => n[4] = Segment(pend'[id].owner, n[3])
               /\ seek'[id] # None /\ n[1] = "seek" /\ n[2] = seek'[id].base
                    => n[3] <= Len(seek'[id].cells)
    <3>1. n \in sealed
      BY <1>16
    <3>2. pend'[id] # None /\ n[1] = "main" /\ n[2] = pend'[id].base
            => n[4] = Segment(pend'[id].owner, n[3])
      BY <1>1, <1>3, <3>1 DEF SealedIs
    <3>3. seek'[id] # None /\ n[1] = "seek" /\ n[2] = seek'[id].base
            => n[3] <= Len(seek'[id].cells)
      BY <1>1, <1>5, <1>16, <3>1 DEF SealedIs
    <3> QED
      BY <3>2, <3>3
  <2>2. \A n \in sealed' : n[2] \in 0..bases' /\ n[3] \in Nat
    BY <1>1, <1>2, <1>16 DEF SealedIs
  <2> QED
    BY <1>2, <2>1, <2>2, SameContent DEF SealedIs
<1>18. NonceOnce'
  BY <1>1, <1>16 DEF NonceOnce
<1> QED
  BY <1>8, <1>10, <1>11, <1>12, <1>13, <1>14, <1>15, <1>17, <1>18 DEF StoreInv

----------------------------------------------------------------------------
\* A download opens its file.

\* The full segments a file begins with.
LEMMA LeadingIs ==
  ASSUME NEW segs \in Seq(Pieces)
  PROVE  /\ LeadingFull(segs) \in Nat /\ LeadingFull(segs) <= Len(segs)
         /\ \A i \in 1..LeadingFull(segs) : Len(segs[i]) = Seg
         /\ LeadingFull(segs) = Len(segs) \/ Len(segs[LeadingFull(segs) + 1]) # Seg
<1> DEFINE S == {n \in 0..Len(segs) : \A i \in 1..n : Len(segs[i]) = Seg}
           m == LeadingFull(segs)
<1>1. Len(segs) \in Nat
  BY LenProperties
<1>2. S \subseteq 0..Len(segs) /\ 0 \in S
  BY <1>1
<1>3. m = Max(S)
  BY DEF LeadingFull
<1> HIDE DEF S
<1>4. Max(S) \in S /\ \A y \in S : Max(S) >= y
  BY <1>1, <1>2, GreatestIs
<1> HIDE DEF m
<1>5. m \in 0..Len(segs) /\ \A i \in 1..m : Len(segs[i]) = Seg
  BY <1>3, <1>4 DEF S
<1>6. ASSUME m # Len(segs), Len(segs[m + 1]) = Seg PROVE FALSE
  <2>1. m + 1 \in 0..Len(segs)
    BY <1>1, <1>5, <1>6
  <2>2. \A i \in 1..(m + 1) : Len(segs[i]) = Seg
    <3>1. \A i \in 1..(m + 1) : i \in 1..m \/ i = m + 1
      BY <1>5, <1>1
    <3> QED
      BY <3>1, <1>5, <1>6
  <2>3. m + 1 \in S
    BY <2>1, <2>2 DEF S
  <2> QED
    BY <2>3, <1>3, <1>4, <1>5, <1>1
<1> QED
  BY <1>1, <1>5, <1>6 DEF m

\* What a sound file gives back is the beginning of its owner's plaintext.
LEMMA ResumedIs ==
  ASSUME content \in [Files -> Contents], NEW p \in PendingFile, Sound(p)
  PROVE  LET n == LeadingFull(p.segs)
             held == Held(p.segs)
         IN /\ n \in Nat /\ n <= Len(p.segs)
            /\ \A i \in 1..n : /\ p.segs[i] = Segment(p.owner, i) /\ Len(p.segs[i]) = Seg
                               /\ i \in SegIds
            /\ held \in Pieces /\ Len(held) \in Nat /\ Len(held) < Seg
            /\ held = Piece(p.owner, n * Seg, n * Seg + Len(held))
            /\ n * Seg + Len(held) <= Size
<1> DEFINE n == LeadingFull(p.segs)
           f == p.owner
           held == Held(p.segs)
           a == n * Seg
<1>1. p.segs \in Seq(Pieces) /\ f \in Files /\ Len(p.segs) \in Nat
  BY LenProperties DEF PendingFile
<1>2. /\ n \in Nat /\ n <= Len(p.segs)
      /\ \A i \in 1..n : Len(p.segs[i]) = Seg
      /\ n = Len(p.segs) \/ Len(p.segs[n + 1]) # Seg
  BY <1>1, LeadingIs
<1>3. held = IF Len(p.segs) = n + 1 THEN p.segs[n + 1] ELSE Bad
  BY DEF Held
<1> HIDE DEF n, held
<1>4. Bad \in Pieces /\ Len(Bad) = 0 /\ Bad = <<>>
  BY EmptySeq DEF Bad, Pieces
<1>5. ASSUME NEW i \in 1..n
      PROVE  p.segs[i] = Segment(f, i) /\ Len(p.segs[i]) = Seg /\ i \in SegIds
  <2>1. i \in 1..Len(p.segs) /\ Len(p.segs[i]) = Seg
    BY <1>1, <1>2
  <2>2. p.segs[i] # Bad
    BY <2>1, <1>4, SizesAre
  <2> QED
    BY <2>1, <2>2 DEF Sound
<1>6. a \in Nat /\ a <= Size
  <2>1. CASE n = 0
    BY <2>1, SizesAre
  <2>2. CASE n # 0
    <3>1. n \in 1..n
      BY <1>2, <2>2
    <3>2. p.segs[n] = Segment(f, n) /\ Len(p.segs[n]) = Seg /\ n \in SegIds
      BY <3>1, <1>5
    <3>3. n * Seg <= Size /\ (n - 1) * Seg \in Nat /\ n * Seg = (n - 1) * Seg + Seg
      BY <1>1, <3>2, SegmentIs
    <3> QED
      BY <3>3, SizesAre
  <2> QED
    BY <2>1, <2>2
<1>7. CASE held = Bad
  <2>1. a + Len(held) = a
    BY <1>4, <1>6, <1>7
  <2>2. Piece(f, a, a) = <<>>
    BY <1>6, NoPiece
  <2> HIDE DEF a
  <2>3. held = Piece(f, a, a + Len(held))
    BY <2>1, <2>2, <1>4, <1>7
  <2> QED
    BY <1>2, <1>4, <1>5, <1>6, <1>7, <2>1, <2>3, SizesAre DEF n, held, a
<1>8. CASE held # Bad
  <2> DEFINE m == n + 1
  <2>1. Len(p.segs) = m /\ held = p.segs[m] /\ m \in 1..Len(p.segs) /\ Len(held) # Seg
    BY <1>1, <1>2, <1>3, <1>8
  <2>2. m \in SegIds /\ held = Segment(f, m)
    BY <2>1, <1>8 DEF Sound
  <2>3. (m - 1) * Seg = a
    BY <1>2, SizesAre
  <2> HIDE DEF m, a
  <2>4. /\ held \in Pieces /\ Len(held) = Least(m * Seg, Size) - a /\ m * Seg = a + Seg
        /\ held = Piece(f, a, Size) /\ ~(m * Seg <= Size)
    BY <1>1, <2>1, <2>2, <2>3, SegmentIs
  <2>5. Len(held) = Size - a /\ a + Len(held) = Size /\ Len(held) \in Nat /\ Len(held) < Seg
    BY <2>4, <1>6, SizesAre DEF Least
  <2>6. /\ held \in Pieces /\ Len(held) \in Nat /\ Len(held) < Seg
        /\ held = Piece(f, a, a + Len(held)) /\ a + Len(held) <= Size
    BY <2>4, <2>5, SizesAre
  <2> QED
    BY <1>2, <1>5, <2>6 DEF n, held, a
<1> QED
  BY <1>7, <1>8

LEMMA SlotsAre ==
  ASSUME NEW cells \in Seq(Cell)
  PROVE  SlotsOf(cells) \in [ChunkIds -> Nat]
<1>1. ASSUME NEW i \in ChunkIds
      PROVE  LET there == {s \in DOMAIN cells : cells[s].chunk = i /\ cells[s].state # "half"}
             IN (IF there = {} THEN 0 ELSE Min(there)) \in Nat
  <2> DEFINE there == {s \in DOMAIN cells : cells[s].chunk = i /\ cells[s].state # "half"}
  <2>1. there \subseteq Nat
    BY LenProperties
  <2> HIDE DEF there
  <2>2. there # {} => Min(there) \in Nat
    BY <2>1, SmallestIs
  <2>3. (IF there = {} THEN 0 ELSE Min(there)) \in Nat
    BY <2>2
  <2> QED
    BY <2>3 DEF there
<1> QED
  BY <1>1 DEF SlotsOf

\* A new pending file.
LEMMA FreshFile ==
  ASSUME NEW f \in Files, NEW base \in Nat
  PROVE  LET p == [owner |-> f, base |-> base, segs |-> <<>>, durable |-> 0]
         IN p \in PendingFile /\ p # None /\ Sound(p)
<1> DEFINE p == [owner |-> f, base |-> base, segs |-> <<>>, durable |-> 0]
<1>1. <<>> \in Seq(Pieces) /\ Len(<<>>) = 0
  BY EmptySeq
<1>2. p \in PendingFile /\ p.segs = <<>> /\ p.durable = 0
  BY <1>1 DEF PendingFile
<1> HIDE DEF p
<1>3. Sound(p)
  BY <1>1, <1>2 DEF Sound
<1> QED
  BY <1>2, <1>3, Nothing DEF p

----------------------------------------------------------------------------
\* What a download that is open relies on.
WellOpen(f, p, s, j) ==
  /\ p # None /\ p.owner = f
  /\ \A i \in 1..Len(p.segs) : p.segs[i] = Segment(f, i) /\ Len(p.segs[i]) = Seg
  /\ j.buffer = Piece(f, Len(p.segs) * Seg, Len(p.segs) * Seg + Len(j.buffer))
  /\ Len(j.buffer) < Seg /\ Len(p.segs) * Seg + Len(j.buffer) <= Size
  /\ f \notin matrix /\ s # None => j.cells >= Len(s.cells)

\* A step of one download: what it makes of its files and of itself.
LEMMA OwnKeeps ==
  ASSUME StoreInv, UNCHANGED <<content, matrix, rows, top, pool>>, NEW f \in Files, Active(f),
         NEW p \in PendingFile \union {None}, pend' = [pend EXCEPT ![job[f].id] = p],
         NEW s \in SeekFile \union {None}, seek' = [seek EXCEPT ![job[f].id] = s],
         NEW j \in Job, job' = [job EXCEPT ![f] = j],
         j.pc \in {"idle", "open", "finished"}, j.pc # "idle" => j.id = job[f].id,
         p # None => Sound(p),
         j.pc = "open" => WellOpen(f, p, s, j),
         j.pc = "finished" => /\ j.name = Whole(f)
                              /\ p # None => p.segs = Whole(f) /\ p.durable = Len(p.segs),
         bases' \in Nat, bases' >= bases,
         p # None => \/ /\ Mine(f) # None /\ p.base = Mine(f).base /\ p.owner = Mine(f).owner
                     \/ p.base > bases /\ p.base <= bases',
         s # None => \/ /\ seek[job[f].id] # None /\ s.base = seek[job[f].id].base
                        /\ Len(s.cells) >= Len(seek[job[f].id].cells)
                     \/ s.base > bases /\ s.base <= bases',
         NEW new, sealed' = sealed \union new,
         \/ \A n \in new : NewSegment(job[f].id, n)
         \/ \E m : new = {m} /\ NewCell(job[f].id, m)
  PROVE  StoreInv'
<1> DEFINE id == job[f].id
<1>1. StoreTyped /\ IdsAreOwn /\ PoolIsWhole
  BY DEF StoreInv
<1>2. id \in Ids
  BY <1>1, ActiveIds
<1>3. /\ pend' \in [Ids -> PendingFile \union {None}] /\ pend'[id] = p
      /\ seek' \in [Ids -> SeekFile \union {None}] /\ seek'[id] = s
      /\ OnlyAt(id)
  BY <1>1, <1>2 DEF StoreTyped, OnlyAt
<1>4. /\ job' \in [Files -> Job] /\ job'[f] = j
      /\ \A g \in Files : g # f => job'[g] = job[g]
  BY <1>1 DEF StoreTyped
<1>5. StoreTyped'
  BY <1>1, <1>3, <1>4 DEF StoreTyped
<1>6. PendingGoesOn(id) /\ SeekGoesOn(id)
  BY <1>3 DEF PendingGoesOn, SeekGoesOn, Mine
<1>7. GoesWell(f)'
  <2>1. ASSUME j.pc # "idle"
        PROVE Mine(f)' = p /\ seek'[job'[f].id] = s
              /\ PlainLen(f)' = Len(p.segs) * Seg + Len(j.buffer)
    BY <2>1, <1>3, <1>4 DEF Mine, PlainLen
  <2>2. CASE j.pc = "open"
    BY <2>1, <2>2, <1>4, SameContent DEF GoesWell, OpenIs, WellOpen
  <2>3. CASE j.pc = "finished"
    BY <2>1, <2>3, <1>4, SameContent DEF GoesWell, FinishedIs
  <2>4. CASE j.pc = "idle"
    BY <2>4, <1>4 DEF GoesWell
  <2> QED
    BY <2>2, <2>3, <2>4
<1>8. PoolIsWhole'
  BY <1>1 DEF PoolIsWhole
<1>9. pend'[id] # None => Sound(pend'[id])
  BY <1>3
<1> QED
  BY <1>3, <1>4, <1>5, <1>6, <1>7, <1>8, <1>9, OwnStep

\* All that is known of a download that is open.
LEMMA IsOpen ==
  ASSUME StoreInv, NEW f \in Files, job[f].pc = "open"
  PROVE  /\ StoreTyped /\ Active(f) /\ job[f].id \in Ids
         /\ content \in [Files -> Contents] /\ bases \in Nat
         /\ Mine(f) \in PendingFile /\ Sound(Mine(f)) /\ Mine(f) = pend[job[f].id]
         /\ seek[job[f].id] \in SeekFile \union {None}
         /\ WellOpen(f, Mine(f), seek[job[f].id], job[f])
         /\ Mine(f).segs \in Seq(Pieces) /\ Len(Mine(f).segs) \in Nat
         /\ Mine(f).durable \in Nat /\ Mine(f).base \in Nat /\ Mine(f).owner = f
         /\ \A i \in 1..Len(Mine(f).segs) :
              /\ Mine(f).segs[i] = Segment(f, i) /\ Mine(f).segs[i] # Bad
              /\ Len(Mine(f).segs[i]) = Seg /\ i \in SegIds
         /\ PlainLen(f) = Len(Mine(f).segs) * Seg + Len(job[f].buffer)
<1>1. StoreTyped /\ IdsAreOwn /\ PendingIsSound /\ OpenIs(f) /\ Active(f)
  BY DEF StoreInv, JobsGoWell, GoesWell, Active
<1>2. job[f].id \in Ids
  BY <1>1, ActiveIds
<1>3. Mine(f) \in PendingFile /\ Sound(Mine(f)) /\ Mine(f) # None /\ Mine(f).owner = f
  BY <1>1, <1>2 DEF StoreTyped, PendingIsSound, Mine, OpenIs
<1>4. Mine(f).segs \in Seq(Pieces) /\ Mine(f).durable \in Nat /\ Mine(f).base \in Nat
  BY <1>3 DEF PendingFile
<1>5. PlainLen(f) = Len(Mine(f).segs) * Seg + Len(job[f].buffer)
  BY DEF PlainLen, Mine
<1>6. WellOpen(f, Mine(f), seek[job[f].id], job[f])
  BY <1>1, <1>5 DEF OpenIs, WellOpen
<1>7. ASSUME NEW i \in 1..Len(Mine(f).segs)
      PROVE  /\ Mine(f).segs[i] = Segment(f, i) /\ Mine(f).segs[i] # Bad
             /\ Len(Mine(f).segs[i]) = Seg /\ i \in SegIds
  <2>1. Mine(f).segs[i] = Segment(f, i) /\ Len(Mine(f).segs[i]) = Seg
    BY <1>6 DEF WellOpen
  <2>2. Mine(f).segs[i] # Bad
    BY <2>1, EmptySeq, SizesAre DEF Bad
  <2> QED
    BY <2>1, <2>2, <1>3 DEF Sound
<1>8. seek[job[f].id] \in SeekFile \union {None} /\ content \in [Files -> Contents] /\ bases \in Nat
  BY <1>1, <1>2 DEF StoreTyped
<1>9. Len(Mine(f).segs) \in Nat
  BY <1>4, LenProperties
<1>10. Mine(f) = pend[job[f].id]
  BY DEF Mine
<1> QED
  BY <1>1, <1>2, <1>3, <1>4, <1>5, <1>6, <1>7, <1>8, <1>9, <1>10

LEMMA OpenStreamKeeps ==
  ASSUME StoreInv, UNCHANGED given, NEW f \in Files, OpenStream(f)
  PROVE  StoreInv'
<1> DEFINE p == [owner |-> f, base |-> bases + 1, segs |-> <<>>, durable |-> 0]
           j == [job[f] EXCEPT !.pc = "open"]
           s == seek[job[f].id]
<1>1. /\ StoreTyped /\ IdsAreOwn /\ job[f].pc = "begun" /\ Active(f) /\ f \in matrix
      /\ UNCHANGED <<content, matrix, rows, top, pool>> /\ seek' = seek
      /\ pend' = [pend EXCEPT ![job[f].id] = p] /\ job' = [job EXCEPT ![f] = j]
      /\ bases' = bases + 1 /\ sealed' = sealed
  BY DEF OpenStream, StoreInv, given, table, Active
<1>2. job[f].id \in Ids /\ bases \in Nat /\ job[f].buffer = <<>>
  <2>1. job[f].buffer = <<>>
    BY <1>1 DEF StoreInv, JobsGoWell, GoesWell
  <2> QED
    BY <1>1, <2>1, ActiveIds DEF StoreTyped
<1>3. p \in PendingFile /\ p # None /\ Sound(p)
  <2> DEFINE b == bases + 1
  <2>1. b \in Nat
    BY <1>2
  <2> HIDE DEF b
  <2> QED
    BY <2>1, FreshFile DEF b
<1>4. p.owner = f /\ p.base = bases + 1 /\ p.segs = <<>> /\ Len(p.segs) = 0
  BY EmptySeq
<1>5. j \in Job /\ j.pc = "open" /\ j.id = job[f].id /\ j.buffer = <<>>
  BY <1>1, <1>2, JobIs DEF Job
<1>6. s \in SeekFile \union {None} /\ seek' = [seek EXCEPT ![job[f].id] = s]
  BY <1>1, <1>2 DEF StoreTyped
<1> HIDE DEF p, j, s
<1>7. WellOpen(f, p, s, j)
  <2>1. Len(p.segs) * Seg = 0 /\ Len(j.buffer) = 0 /\ 0 + 0 = 0
    BY <1>4, <1>5, SizesAre, EmptySeq
  <2>2. Piece(f, 0, 0) = <<>>
    BY NoPiece
  <2> QED
    BY <2>1, <2>2, <1>1, <1>3, <1>4, <1>5, SizesAre DEF WellOpen
<1>8. /\ bases' \in Nat /\ bases' >= bases
      /\ p.base > bases /\ p.base <= bases'
      /\ s # None => /\ seek[job[f].id] # None /\ s.base = seek[job[f].id].base
                     /\ Len(s.cells) >= Len(seek[job[f].id].cells)
  <2>1. s # None => Len(s.cells) \in Nat
    BY <1>6, LenProperties DEF SeekFile
  <2> QED
    BY <1>1, <1>2, <1>4, <2>1 DEF s
<1>9. sealed' = sealed \union {}
  BY <1>1
<1> QED
  BY <1>1, <1>3, <1>5, <1>6, <1>7, <1>8, <1>9, OwnKeeps

\* The full segments of a file that is gone on with.
LEMMA CutBack ==
  ASSUME content \in [Files -> Contents], NEW p \in PendingFile, Sound(p)
  PROVE  LET n == LeadingFull(p.segs)
             q == [p EXCEPT !.segs = Cut(p.segs, 1, n), !.durable = Least(p.durable, n)]
         IN /\ q \in PendingFile /\ q # None /\ Sound(q) /\ q.base = p.base /\ q.owner = p.owner
            /\ Len(q.segs) = n
            /\ \A i \in 1..n : q.segs[i] = Segment(p.owner, i) /\ Len(q.segs[i]) = Seg
<1> DEFINE n == LeadingFull(p.segs)
           t == Cut(p.segs, 1, n)
           d == Least(p.durable, n)
           q == [p EXCEPT !.segs = t, !.durable = d]
<1>1. /\ n \in Nat /\ n <= Len(p.segs)
      /\ \A i \in 1..n : /\ p.segs[i] = Segment(p.owner, i) /\ Len(p.segs[i]) = Seg
                         /\ i \in SegIds
  BY ResumedIs
<1> HIDE DEF n
<1>2. p.segs \in Seq(Pieces) /\ p.durable \in Nat /\ Len(p.segs) \in Nat
  BY LenProperties DEF PendingFile
<1>3. t \in Seq(Pieces) /\ Len(t) = n /\ \A i \in 1..n : t[i] = p.segs[i]
  <2>1. \A i \in 1..n : p.segs[i] \in Pieces
    BY <1>1, <1>2, ElementOfSeq
  <2>2. /\ SubSeq(p.segs, 1, n) \in Seq(Pieces)
        /\ Len(SubSeq(p.segs, 1, n)) = IF 1 <= n THEN n - 1 + 1 ELSE 0
        /\ \A i \in 1..(n - 1 + 1) : SubSeq(p.segs, 1, n)[i] = p.segs[1 + i - 1]
    BY <1>1, <2>1, SubSeqProperties
  <2> HIDE DEF t
  <2>3. n - 1 + 1 = n /\ \A i \in 1..n : 1 + i - 1 = i
    BY <1>1
  <2> QED
    BY <2>2, <2>3, <1>1 DEF t, Cut
<1>4. d \in Nat /\ d <= n
  BY <1>1, <1>2 DEF Least
<1> HIDE DEF t, d
<1>5. /\ q \in PendingFile /\ q.base = p.base /\ q.owner = p.owner /\ q.segs = t
      /\ q.durable = d
  BY <1>3, <1>4 DEF PendingFile
<1> HIDE DEF q
<1>6. Sound(q)
  <2>1. ASSUME NEW i \in 1..n PROVE t[i] # Bad /\ t[i] = Segment(p.owner, i) /\ i \in SegIds
                                    /\ Len(t[i]) = Seg
    BY <1>1, <1>3, EmptySeq, SizesAre DEF Bad
  <2> QED
    BY <2>1, <1>3, <1>4, <1>5 DEF Sound
<1>7. q # None
  BY <1>5, Nothing
<1> QED
  BY <1>1, <1>3, <1>5, <1>6, <1>7 DEF q, t, d, n

LEMMA OpenMainKeeps ==
  ASSUME StoreInv, UNCHANGED given, NEW f \in Files, OpenMain(f)
  PROVE  StoreInv'
<1> DEFINE id == job[f].id
           p == pend[id]
           s == seek[id]
           anew == s # None /\ ~Reopens(f, s)
           slots == IF s # None /\ Reopens(f, s) THEN SlotsOf(s.cells) ELSE NoSlots
           cells == IF s # None /\ Reopens(f, s) THEN NumbersUsed(s.cells) ELSE 0
           opened == [job[f] EXCEPT !.pc = "open", !.slots = slots, !.cells = cells]
           new == [base |-> bases', cells |-> <<>>]
           t == IF anew THEN new ELSE s
<1>1. /\ StoreTyped /\ IdsAreOwn /\ PendingIsSound /\ job[f].pc = "begun" /\ Active(f)
      /\ f \notin matrix
      /\ UNCHANGED <<content, matrix, rows, top, pool>> /\ sealed' = sealed
  BY DEF OpenMain, StoreInv, given, table, Active
<1>2. id \in Ids /\ bases \in Nat /\ job[f].buffer = <<>> /\ content \in [Files -> Contents]
  <2>1. job[f].buffer = <<>>
    BY <1>1 DEF StoreInv, JobsGoWell, GoesWell
  <2> QED
    BY <1>1, <2>1, ActiveIds DEF StoreTyped
<1>3. p \in PendingFile \union {None} /\ s \in SeekFile \union {None}
      /\ (p # None => p \in PendingFile /\ Sound(p))
      /\ (s # None => s \in SeekFile /\ s.cells \in Seq(Cell) /\ Len(s.cells) \in Nat)
  <2>1. p \in PendingFile \union {None} /\ s \in SeekFile \union {None}
    BY <1>1, <1>2 DEF StoreTyped
  <2>2. s # None => s \in SeekFile /\ s.cells \in Seq(Cell) /\ Len(s.cells) \in Nat
    BY <2>1, LenProperties DEF SeekFile
  <2> QED
    BY <2>1, <2>2, <1>1, <1>2 DEF PendingIsSound
<1>4. slots \in [ChunkIds -> Nat] /\ cells \in Nat
      /\ (s # None /\ ~anew => cells >= Len(s.cells))
  <2>1. NoSlots \in [ChunkIds -> Nat]
    BY DEF NoSlots
  <2>2. s # None => SlotsOf(s.cells) \in [ChunkIds -> Nat]
    BY <1>3, SlotsAre
  <2> QED
    BY <2>1, <2>2, <1>3 DEF NumbersUsed
<1>5. /\ seek' = IF anew THEN [seek EXCEPT ![id] = new] ELSE seek
      /\ \/ /\ Resumes(f, p)
            /\ bases' = bases + (IF anew THEN 1 ELSE 0)
            /\ pend' = [pend EXCEPT ![id].segs = SubSeq(p.segs, 1, LeadingFull(p.segs)),
                                    ![id].durable = Least(p.durable, LeadingFull(p.segs))]
            /\ job' = [job EXCEPT ![f] = [opened EXCEPT !.buffer = Held(p.segs)]]
         \/ /\ bases' = bases + (IF anew THEN 2 ELSE 1)
            /\ pend' = [pend EXCEPT ![id] = [owner |-> f, base |-> bases + 1,
                                             segs |-> <<>>, durable |-> 0]]
            /\ job' = [job EXCEPT ![f] = opened]
  BY DEF OpenMain
<1> HIDE DEF slots, cells
<1>6. /\ opened \in Job /\ opened.pc = "open" /\ opened.id = id /\ opened.buffer = <<>>
      /\ opened.cells = cells
  BY <1>1, <1>2, <1>4, JobIs DEF Job
<1>7. bases' \in Nat /\ bases' >= bases /\ (anew => bases' > bases)
  BY <1>2, <1>5
<1>8. /\ t \in SeekFile \union {None} /\ seek' = [seek EXCEPT ![id] = t]
      /\ t # None => cells >= Len(t.cells)
      /\ t # None => \/ s # None /\ t.base = s.base /\ Len(t.cells) >= Len(s.cells)
                     \/ t.base > bases /\ t.base <= bases'
  <2>1. CASE anew
    <3>1. new \in SeekFile /\ Len(new.cells) = 0 /\ new.base = bases'
      BY <1>7, EmptySeq DEF SeekFile
    <3> HIDE DEF new
    <3> QED
      BY <2>1, <3>1, <1>4, <1>5, <1>7
  <2>2. CASE ~anew
    <3>1. t = s
      BY <2>2
    <3>2. seek' = [seek EXCEPT ![id] = s]
      BY <2>2, <1>1, <1>2, <1>5 DEF StoreTyped
    <3>3. t # None => cells >= Len(t.cells) /\ Len(t.cells) >= Len(s.cells)
      <4> HIDE DEF s, anew
      <4> QED
        BY <3>1, <2>2, <1>3, <1>4
    <3> QED
      BY <3>1, <3>2, <3>3, <1>3
  <2> QED
    BY <2>1, <2>2
<1> HIDE DEF t, anew
<1>9. CASE /\ Resumes(f, p)
           /\ pend' = [pend EXCEPT ![id].segs = SubSeq(p.segs, 1, LeadingFull(p.segs)),
                                   ![id].durable = Least(p.durable, LeadingFull(p.segs))]
           /\ job' = [job EXCEPT ![f] = [opened EXCEPT !.buffer = Held(p.segs)]]
  <2> DEFINE n == LeadingFull(p.segs)
             held == Held(p.segs)
             q == [p EXCEPT !.segs = Cut(p.segs, 1, n), !.durable = Least(p.durable, n)]
             j == [opened EXCEPT !.buffer = held]
  <2>1. p # None /\ p \in PendingFile /\ Sound(p) /\ p.owner = f
    BY <1>3, <1>9 DEF Resumes
  <2>2. /\ n \in Nat /\ held \in Pieces /\ Len(held) \in Nat /\ Len(held) < Seg
        /\ held = Piece(f, n * Seg, n * Seg + Len(held)) /\ n * Seg + Len(held) <= Size
    BY <1>2, <2>1, ResumedIs
  <2>3. /\ q \in PendingFile /\ q # None /\ Sound(q) /\ q.base = p.base /\ q.owner = f
        /\ Len(q.segs) = n
        /\ \A i \in 1..n : q.segs[i] = Segment(f, i) /\ Len(q.segs[i]) = Seg
    <3> HIDE DEF p
    <3> QED
      BY <1>2, <2>1, CutBack
  <2>4. pend' = [pend EXCEPT ![id] = q]
    BY <1>9 DEF Cut
  <2> HIDE DEF opened, held, n
  <2>5. j \in Job /\ j.pc = "open" /\ j.id = id /\ j.buffer = held /\ j.cells = cells
    BY <1>6, <2>2 DEF Job
  <2>6. job' = [job EXCEPT ![f] = j]
    BY <1>9 DEF held
  <2> HIDE DEF q, j
  <2>7. WellOpen(f, q, t, j)
    BY <1>8, <2>2, <2>3, <2>5 DEF WellOpen
  <2>8. Mine(f) # None /\ q.base = Mine(f).base /\ q.owner = Mine(f).owner
    BY <2>1, <2>3 DEF Mine
  <2>9. sealed' = sealed \union {}
    BY <1>1
  <2> QED
    BY <1>1, <1>7, <1>8, <2>3, <2>4, <2>5, <2>6, <2>7, <2>8, <2>9, OwnKeeps
<1>10. CASE /\ bases' = bases + (IF anew THEN 2 ELSE 1)
            /\ pend' = [pend EXCEPT ![id] = [owner |-> f, base |-> bases + 1,
                                             segs |-> <<>>, durable |-> 0]]
            /\ job' = [job EXCEPT ![f] = opened]
  <2> DEFINE b == bases + 1
             q == [owner |-> f, base |-> b, segs |-> <<>>, durable |-> 0]
  <2>1. b \in Nat /\ b > bases /\ b <= bases'
    BY <1>2, <1>10
  <2>2. pend' = [pend EXCEPT ![id] = q]
    BY <1>10
  <2> HIDE DEF b
  <2>3. q \in PendingFile /\ q # None /\ Sound(q)
    BY <2>1, FreshFile
  <2>4. q.owner = f /\ q.base = b /\ q.segs = <<>> /\ Len(q.segs) = 0
    BY EmptySeq
  <2> HIDE DEF q, opened
  <2>5. WellOpen(f, q, t, opened)
    <3>1. Len(q.segs) * Seg = 0 /\ Len(opened.buffer) = 0 /\ 0 + 0 = 0
      BY <1>6, <2>4, SizesAre, EmptySeq
    <3>2. Piece(f, 0, 0) = <<>>
      BY NoPiece
    <3> QED
      BY <3>1, <3>2, <1>6, <1>8, <2>3, <2>4, SizesAre DEF WellOpen
  <2>6. sealed' = sealed \union {}
    BY <1>1
  <2> QED
    BY <1>1, <1>6, <1>7, <1>8, <1>10, <2>1, <2>2, <2>3, <2>4, <2>5, <2>6, OwnKeeps
<1> QED
  BY <1>5, <1>9, <1>10

LEMMA SyncKeeps ==
  ASSUME StoreInv, UNCHANGED given, NEW f \in Files, Sync(f)
  PROVE  StoreInv'
<1> DEFINE p == Mine(f)
           n == Len(p.segs)
           q == [p EXCEPT !.durable = n]
           s == seek[job[f].id]
           j == job[f]
<1>1. /\ StoreTyped /\ j.pc = "open"
      /\ UNCHANGED <<content, matrix, rows, top, pool, sealed, bases, seek, job>>
      /\ pend' = [pend EXCEPT ![job[f].id] = q]
  BY DEF Sync, Mine, StoreInv, given, table, history
<1>2. /\ Active(f) /\ job[f].id \in Ids /\ bases \in Nat /\ p \in PendingFile /\ Sound(p)
      /\ s \in SeekFile \union {None} /\ WellOpen(f, p, s, j) /\ n \in Nat /\ p.owner = f
      /\ \A i \in 1..n : /\ p.segs[i] = Segment(f, i) /\ p.segs[i] # Bad
                         /\ Len(p.segs[i]) = Seg /\ i \in SegIds
  BY <1>1, IsOpen
<1>3. j \in Job /\ job' = [job EXCEPT ![f] = j] /\ seek' = [seek EXCEPT ![job[f].id] = s]
  BY <1>1, <1>2 DEF StoreTyped
<1> HIDE DEF p, n, s
<1>4. /\ q \in PendingFile /\ q.base = p.base /\ q.owner = f /\ q.segs = p.segs
      /\ q.durable = n
  BY <1>2 DEF PendingFile
<1> HIDE DEF q
<1>5. Sound(q) /\ WellOpen(f, q, s, j)
  BY <1>2, <1>4, Nothing DEF Sound, WellOpen, n
<1>6. sealed' = sealed \union {} /\ bases' \in Nat /\ bases' >= bases
  BY <1>1, <1>2
<1>7. s # None => /\ seek[job[f].id] # None /\ s.base = seek[job[f].id].base
                  /\ Len(s.cells) >= Len(seek[job[f].id].cells)
  <2>1. s # None => Len(s.cells) \in Nat
    BY <1>2, LenProperties DEF SeekFile
  <2> QED
    BY <2>1 DEF s
<1>8. Mine(f) # None /\ q.base = Mine(f).base /\ q.owner = Mine(f).owner
  BY <1>2, <1>4 DEF p, WellOpen
<1> QED
  BY <1>1, <1>2, <1>3, <1>4, <1>5, <1>6, <1>7, <1>8, OwnKeeps

LEMMA KeepKeeps ==
  ASSUME StoreInv, UNCHANGED given, NEW f \in Files, NEW torn \in BOOLEAN, Keep(f, torn)
  PROVE  StoreInv'
<1> DEFINE p == Mine(f)
           n == Len(p.segs)
           new == IF torn THEN Append(p.segs, Bad) ELSE p.segs
           d == Len(new)
           q == [p EXCEPT !.segs = new, !.durable = d]
           s == seek[job[f].id]
<1>1. /\ StoreTyped /\ job[f].pc = "open"
      /\ UNCHANGED <<content, matrix, rows, top, pool, sealed, bases, seek>>
      /\ pend' = [pend EXCEPT ![job[f].id] = q] /\ job' = [job EXCEPT ![f] = Idle]
  BY DEF Keep, Mine, StoreInv, given, table, history
<1>2. /\ Active(f) /\ job[f].id \in Ids /\ bases \in Nat /\ p \in PendingFile /\ Sound(p)
      /\ s \in SeekFile \union {None} /\ n \in Nat /\ p.owner = f /\ p # None
      /\ p.segs \in Seq(Pieces)
      /\ \A i \in 1..n : /\ p.segs[i] = Segment(f, i) /\ p.segs[i] # Bad
                         /\ Len(p.segs[i]) = Seg /\ i \in SegIds
  BY <1>1, IsOpen DEF WellOpen
<1>3. seek' = [seek EXCEPT ![job[f].id] = s]
  BY <1>1, <1>2 DEF StoreTyped
<1> HIDE DEF p, s
<1>4. /\ new \in Seq(Pieces) /\ d \in Nat
      /\ \/ d = n /\ \A i \in 1..n : new[i] = p.segs[i]
         \/ d = n + 1 /\ new[d] = Bad /\ \A i \in 1..n : new[i] = p.segs[i]
  <2>1. Bad \in Pieces
    BY EmptySeq DEF Bad, Pieces
  <2> HIDE DEF Bad
  <2>2. /\ Append(p.segs, Bad) \in Seq(Pieces) /\ Len(Append(p.segs, Bad)) = n + 1
        /\ \A i \in 1..n : Append(p.segs, Bad)[i] = p.segs[i]
        /\ Append(p.segs, Bad)[n + 1] = Bad
    BY <1>2, <2>1
  <2> QED
    BY <1>2, <2>2
<1> HIDE DEF new, d, n
<1>5. /\ q \in PendingFile /\ q.base = p.base /\ q.owner = f /\ q.segs = new
      /\ q.durable = d
  BY <1>2, <1>4 DEF PendingFile
<1> HIDE DEF q
<1>6. Sound(q)
  <2>1. d = Len(new)
    BY DEF d
  <2>2. ASSUME NEW i \in 1..d
        PROVE  /\ new[i] = Bad \/ (i \in SegIds /\ new[i] = Segment(f, i))
               /\ new[i] = Bad => i >= d
               /\ new[i] # Bad /\ Len(new[i]) # Seg => i = d
    <3>1. CASE i \in 1..n
      BY <3>1, <1>2, <1>4
    <3>2. CASE i \notin 1..n
      BY <3>2, <1>2, <1>4
    <3> QED
      BY <3>1, <3>2
  <2> QED
    BY <1>4, <1>5, <2>1, <2>2 DEF Sound
<1>7. sealed' = sealed \union {} /\ bases' \in Nat /\ bases' >= bases
  BY <1>1, <1>2
<1>8. s # None => /\ seek[job[f].id] # None /\ s.base = seek[job[f].id].base
                  /\ Len(s.cells) >= Len(seek[job[f].id].cells)
  <2>1. s # None => Len(s.cells) \in Nat
    BY <1>2, LenProperties DEF SeekFile
  <2> QED
    BY <2>1 DEF s
<1>9. Mine(f) # None /\ q.base = Mine(f).base /\ q.owner = Mine(f).owner
  BY <1>2, <1>5 DEF p
<1> QED
  BY <1>1, <1>2, <1>3, <1>5, <1>6, <1>7, <1>8, <1>9, IdleIs, OwnKeeps

----------------------------------------------------------------------------
\* A download writes.

LEMMA WholeIsSound ==
  ASSUME content \in [Files -> Contents], NEW p \in PendingFile, p.segs = Whole(p.owner),
         p.durable = Len(p.segs)
  PROVE  Sound(p)
<1> DEFINE f == p.owner
           k == Len(Whole(f))
<1>1. f \in Files
  BY DEF PendingFile
<1>2. /\ \A i \in SegIds : Whole(f)[i] = Segment(f, i)
      /\ k \in Nat /\ SegIds = 1..k
  BY <1>1, WholeIs
<1>3. ASSUME NEW i \in SegIds
      PROVE  Segment(f, i) # Bad /\ (Len(Segment(f, i)) # Seg => i = k)
  <2> DEFINE m == i + 1
  <2>1. /\ i \in Nat /\ i >= 1 /\ Segment(f, i) # Bad
        /\ Len(Segment(f, i)) # Seg => ~(i * Seg <= Size)
    BY <1>1, SegmentIs
  <2>2. m \in Nat /\ m - 1 = i
    BY <2>1
  <2>3. ~(i * Seg <= Size) => i * Seg \in Nat /\ ~(i * Seg < Size)
    BY <2>1, SizesAre
  <2> HIDE DEF m
  <2>4. m \in SegIds => i * Seg < Size
    BY <2>2, SegIdsAre
  <2>5. m \notin SegIds => i = k
    BY <2>1, <1>2 DEF m
  <2> QED
    BY <2>1, <2>3, <2>4, <2>5
<1> QED
  BY <1>2, <1>3 DEF Sound

LEMMA FinishFileKeeps ==
  ASSUME StoreInv, UNCHANGED given, NEW f \in Files, FinishFile(f)
  PROVE  StoreInv'
<1> DEFINE p == Mine(f)
           b == job[f].buffer
           all == IF b = <<>> THEN p.segs ELSE Append(p.segs, b)
           d == Len(all)
           q == [p EXCEPT !.segs = all, !.durable = d]
           s == seek[job[f].id]
           j == [job[f] EXCEPT !.pc = "finished", !.name = all, !.buffer = <<>>]
           new == IF all = p.segs THEN {} ELSE {<<"main", p.base, Len(all), b>>}
<1>1. /\ StoreTyped /\ job[f].pc = "open" /\ PlainLen(f) = Size
      /\ UNCHANGED <<content, matrix, rows, top, pool, bases, seek>>
      /\ pend' = [pend EXCEPT ![job[f].id] = q] /\ job' = [job EXCEPT ![f] = j]
      /\ sealed' = IF all = p.segs THEN sealed
                   ELSE sealed \union {<<"main", p.base, Len(all), b>>}
  <2> HIDE DEF all
  <2>1. job[f].pc = "open"
    BY DEF FinishFile
  <2>2. p \in PendingFile
    BY <2>1, IsOpen
  <2>3. SyncedAtEnd([p EXCEPT !.segs = all]) = Len(all)
    BY <2>2 DEF SyncedAtEnd, PendingFile
  <2>4. /\ pend' = [pend EXCEPT ![job[f].id].segs = all,
                               ![job[f].id].durable = SyncedAtEnd([p EXCEPT !.segs = all])]
        /\ PlainLen(f) = Size /\ UNCHANGED <<table, seek, pool, bases>>
        /\ job' = [job EXCEPT ![f] = j]
        /\ sealed' = IF all = p.segs THEN sealed
                     ELSE sealed \union {<<"main", p.base, Len(all), b>>}
    BY DEF FinishFile, Mine, all
  <2>5. pend' = [pend EXCEPT ![job[f].id] = q]
    BY <2>3, <2>4 DEF Mine
  <2> QED
    BY <2>1, <2>4, <2>5 DEF StoreInv, given, table
<1>2. /\ Active(f) /\ job[f].id \in Ids /\ bases \in Nat /\ p \in PendingFile
      /\ content \in [Files -> Contents]
      /\ s \in SeekFile \union {None} /\ WellOpen(f, p, s, job[f]) /\ p # None /\ p.owner = f
      /\ p.segs \in Seq(Pieces) /\ Len(p.segs) \in Nat
      /\ PlainLen(f) = Len(p.segs) * Seg + Len(b)
  BY <1>1, IsOpen DEF WellOpen
<1>3. seek' = [seek EXCEPT ![job[f].id] = s] /\ b \in Pieces
  BY <1>1, <1>2, JobIs DEF StoreTyped
<1> HIDE DEF p, s
<1>4. all = Whole(f) /\ (b # <<>> => b = Segment(f, Len(p.segs) + 1))
  <2> HIDE DEF b
  <2>1. /\ \A i \in 1..Len(p.segs) : p.segs[i] = Segment(f, i) /\ Len(p.segs[i]) = Seg
        /\ b = Piece(f, Len(p.segs) * Seg, Size)
        /\ Len(b) < Seg /\ Len(p.segs) * Seg + Len(b) = Size
    BY <1>1, <1>2 DEF WellOpen, b
  <2>2. /\ b = <<>> => p.segs = Whole(f)
        /\ b # <<>> => /\ Append(p.segs, b) = Whole(f)
                       /\ b = Segment(f, Len(p.segs) + 1)
    BY <1>2, <1>3, <2>1, Ended
  <2> QED
    BY <2>2
<1>5. /\ all \in Seq(Pieces) /\ d \in Nat
      /\ all # p.segs => b # <<>> /\ d = Len(p.segs) + 1
  BY <1>2, <1>3, LenProperties
<1> DEFINE w == all
<1> HIDE DEF all, d
<1>6. /\ q \in PendingFile /\ q.base = p.base /\ q.owner = f /\ q.segs = all
      /\ q.durable = d
  BY <1>2, <1>5 DEF PendingFile
<1>7. j \in Job /\ j.pc = "finished" /\ j.id = job[f].id /\ j.name = all
  <2>1. <<>> \in Pieces
    BY EmptySeq DEF Pieces
  <2> QED
    BY <1>1, <1>5, <2>1, JobIs DEF Job
<1> HIDE DEF q, j
<1>8. d = Len(all)
  BY DEF d
<1>9. Sound(q)
  BY <1>2, <1>4, <1>6, <1>8, WholeIsSound
<1>10. sealed' = sealed \union new
  BY <1>1
<1>11. \A n \in new : NewSegment(job[f].id, n)
  <2>1. pend[job[f].id] = p /\ pend'[job[f].id] = q /\ q # None
    BY <1>1, <1>2, <1>6, Nothing DEF p, Mine, StoreTyped
  <2>2. ASSUME all # p.segs
        PROVE  NewSegment(job[f].id, <<"main", p.base, Len(all), b>>)
    BY <2>1, <2>2, <1>2, <1>4, <1>5, <1>6, <1>8 DEF NewSegment
  <2> QED
    BY <2>2
<1> HIDE DEF new
<1>12. s # None => /\ seek[job[f].id] # None /\ s.base = seek[job[f].id].base
                  /\ Len(s.cells) >= Len(seek[job[f].id].cells)
  <2>1. s # None => Len(s.cells) \in Nat
    BY <1>2, LenProperties DEF SeekFile
  <2> QED
    BY <2>1 DEF s
<1>13. Mine(f) # None /\ q.base = Mine(f).base /\ q.owner = Mine(f).owner
  BY <1>2, <1>6 DEF p
<1>14. bases' \in Nat /\ bases' >= bases
  BY <1>1, <1>2
<1>15. q.segs = Whole(f) /\ q.durable = Len(q.segs) /\ j.name = Whole(f)
  BY <1>4, <1>6, <1>7, <1>8
<1> QED
  BY <1>1, <1>2, <1>3, <1>6, <1>7, <1>9, <1>10, <1>11, <1>12, <1>13, <1>14, <1>15, OwnKeeps

\* What is added is the rest of a chunk: it begins where the file ends.
LEMMA NextPiece ==
  ASSUME StoreInv, NEW f \in Files, job[f].pc = "open", PlainLen(f) < Size,
         NEW plain, plain = ChunkOf(f, NextChunk(f))
  PROVE  LET first == PlainLen(f) - (NextChunk(f) - 1) * Chunk + 1
             to == Least(NextChunk(f) * Chunk, Size)
         IN /\ to \in Nat /\ PlainLen(f) <= to /\ to <= Size /\ PlainLen(f) \in Nat
            /\ Cut(plain, first, Len(plain)) = Piece(f, PlainLen(f), to)
<1> DEFINE l == PlainLen(f)
           i == NextChunk(f)
           a == (i - 1) * Chunk
           to == Least(i * Chunk, Size)
           m == l - a + 1
           n == to - a
<1>1. l \in Nat /\ content \in [Files -> Contents]
  <2> DEFINE k == Len(Mine(f).segs)
             z == Len(job[f].buffer)
  <2>1. k \in Nat /\ l = k * Seg + z /\ content \in [Files -> Contents] /\ StoreTyped
    BY IsOpen
  <2>2. z \in Nat
    BY <2>1, JobIs, LenProperties DEF Pieces
  <2> HIDE DEF k, z, l
  <2>3. 0 * Seg <= k * Seg /\ 0 * Seg = 0 /\ k * Seg \in Int
    BY <2>1, SizesAre, TimesGrows
  <2> QED
    BY <2>1, <2>2, <2>3
<1>2. i = l \div Chunk + 1
  BY DEF NextChunk
<1>3. l \div Chunk \in Nat /\ (l \div Chunk) * Chunk <= l /\ l < (l \div Chunk) * Chunk + Chunk
  BY <1>1, SizesAre, DivIs
<1> HIDE DEF l, i
<1>4. i \in Nat /\ a = (l \div Chunk) * Chunk /\ i * Chunk = a + Chunk
  BY <1>2, <1>3, SizesAre
<1>5. a \in Nat /\ a <= l /\ l < a + Chunk
  <2>1. 0 * Chunk <= (l \div Chunk) * Chunk /\ 0 * Chunk = 0
    BY <1>3, SizesAre, TimesGrows
  <2> QED
    BY <2>1, <1>1, <1>3, <1>4, SizesAre
<1>6. to \in Nat /\ l <= to /\ to <= Size /\ a <= to
  BY <1>1, <1>4, <1>5, SizesAre DEF Least, l
<1>7. plain = Piece(f, a, to)
  BY DEF ChunkOf, i
<1> HIDE DEF a, to
<1>8. Len(Piece(f, a, to)) = to - a
  BY <1>1, <1>5, <1>6, PieceIs
<1> HIDE DEF m, n
<1>9. Cut(Piece(f, a, to), m, n) = Piece(f, l, to)
  BY <1>1, <1>5, <1>6, PieceCut DEF m, n
<1>10. Cut(plain, m, Len(plain)) = Piece(f, l, to)
  BY <1>7, <1>8, <1>9 DEF n
<1> QED
  BY <1>1, <1>6, <1>10 DEF l, i, to, m, a

LEMMA LandChunkKeeps ==
  ASSUME StoreInv, UNCHANGED given, NEW f \in Files, LandChunk(f)
  PROVE  StoreInv'
<1> DEFINE p == Mine(f)
           k == Len(p.segs)
           s == seek[job[f].id]
           l == PlainLen(f)
           plain == ChunkOf(f, NextChunk(f))
           first == l - (NextChunk(f) - 1) * Chunk + 1
           all == job[f].buffer \o Cut(plain, first, Len(plain))
           full == FullSegs(all)
           left_over == LeftOver(all)
           segs == p.segs \o full
           q == [p EXCEPT !.segs = segs]
           j == [job[f] EXCEPT !.buffer = left_over]
           new == {<<"main", p.base, k + i, full[i]>> : i \in DOMAIN full}
<1>1. /\ job[f].pc = "open" /\ l < Size
      /\ UNCHANGED <<content, matrix, rows, top, pool, bases, seek>>
      /\ pend' = [pend EXCEPT ![job[f].id].segs = segs]
      /\ job' = [job EXCEPT ![f].buffer = left_over]
      /\ sealed' = sealed \union new
  <2>1. /\ job[f].pc = "open" /\ l < Size
        /\ UNCHANGED <<content, matrix, rows, top, pool, bases, seek>>
    BY DEF LandChunk, given
  <2>2. PICK other : /\ other = plain
                     /\ Write(f, SubSeq(other, first, Len(other)))
    <3>1. CASE NextCell(f) = None
      BY <3>1 DEF LandChunk
    <3>2. CASE NextCell(f) # None
      <4>1. NextCell(f).of = f /\ NextCell(f).chunk = NextChunk(f)
        BY <3>2 DEF LandChunk, CellOpens
      <4> QED
        BY <3>2, <4>1 DEF LandChunk
    <3> QED
      BY <3>1, <3>2
  <2> HIDE DEF plain
  <2>3. Write(f, Cut(plain, first, Len(plain)))
    BY <2>2 DEF Cut
  <2> DEFINE data == Cut(plain, first, Len(plain))
  <2> HIDE DEF data, first, l
  <2>4. /\ pend' = [pend EXCEPT ![job[f].id].segs = p.segs \o FullSegs(job[f].buffer \o data)]
        /\ job' = [job EXCEPT ![f].buffer = LeftOver(job[f].buffer \o data)]
        /\ sealed' = sealed \union
             {<<"main", p.base, k + i, FullSegs(job[f].buffer \o data)[i]>> :
                i \in DOMAIN FullSegs(job[f].buffer \o data)}
    BY <2>3 DEF Write, Mine, data
  <2> QED
    BY <2>1, <2>4 DEF data, l
<1>2. /\ StoreTyped /\ Active(f) /\ job[f].id \in Ids /\ bases \in Nat /\ p \in PendingFile
      /\ Sound(p) /\ content \in [Files -> Contents]
      /\ s \in SeekFile \union {None} /\ WellOpen(f, p, s, job[f]) /\ p.owner = f
      /\ p.segs \in Seq(Pieces) /\ k \in Nat /\ p = pend[job[f].id] /\ p.durable \in Nat
      /\ \A i \in 1..k : /\ p.segs[i] = Segment(f, i) /\ p.segs[i] # Bad
                         /\ Len(p.segs[i]) = Seg /\ i \in SegIds
      /\ l = k * Seg + Len(job[f].buffer)
  BY <1>1, IsOpen
<1>3. PICK to \in Nat : /\ l <= to /\ to <= Size /\ l \in Nat
                        /\ Cut(plain, first, Len(plain)) = Piece(f, l, to)
  <2> DEFINE t == Least(NextChunk(f) * Chunk, Size)
  <2>1. plain = ChunkOf(f, NextChunk(f))
    OBVIOUS
  <2> HIDE DEF plain
  <2>2. t \in Nat /\ l <= t /\ t <= Size /\ l \in Nat
        /\ Cut(plain, first, Len(plain)) = Piece(f, l, t)
    BY <1>1, <2>1, NextPiece
  <2> QED
    BY <2>2
<1> HIDE DEF plain, first
<1> DEFINE data == Cut(plain, first, Len(plain))
           a == k * Seg
           z == Len(job[f].buffer)
<1>4. a \in Nat /\ z \in Nat /\ l = a + z
  <2>1. z \in Nat
    BY <1>2, JobIs, LenProperties DEF Pieces
  <2>2. 0 * Seg <= k * Seg
    BY <1>2, SizesAre, TimesGrows
  <2> QED
    BY <1>2, <2>1, <2>2, SizesAre
<1>5. all = Piece(f, a, to)
  <2>1. job[f].buffer = Piece(f, a, l)
    BY <1>2 DEF WellOpen
  <2>2. a <= l /\ a \in Nat /\ l \in Nat /\ l <= to /\ content \in [Files -> Contents]
    <3>1. content \in [Files -> Contents]
      BY <1>2
    <3>2. l <= to /\ l \in Nat
      BY <1>3
    <3> HIDE DEF l, a, z
    <3> QED
      BY <3>1, <3>2, <1>4
  <2> HIDE DEF a, l
  <2>3. Piece(f, a, l) \o Piece(f, l, to) = Piece(f, a, to)
    BY <2>2, PieceAdd
  <2> QED
    BY <1>3, <2>1, <2>3
<1>6. a <= to
  BY <1>3, <1>4
<1> HIDE DEF all, l, data
<1>7. /\ full \in Seq(Pieces) /\ Len(full) \in Nat /\ DOMAIN full = 1..Len(full)
      /\ \A i \in 1..Len(full) :
           k + i \in SegIds /\ full[i] = Segment(f, k + i) /\ Len(full[i]) = Seg
      /\ left_over \in Pieces /\ Len(left_over) < Seg
      /\ left_over = Piece(f, (k + Len(full)) * Seg, to)
      /\ (k + Len(full)) * Seg + Len(left_over) = to
  <2>1. /\ content \in [Files -> Contents] /\ k \in Nat /\ to <= Size
        /\ k * Seg <= to /\ all = Piece(f, k * Seg, to)
    BY <1>2, <1>3, <1>5, <1>6
  <2> HIDE DEF k
  <2>2. Size \in Nat
    BY SizesAre
  <2>3. /\ FullSegs(all) \in Seq(Pieces)
        /\ Len(FullSegs(all)) \in Nat /\ DOMAIN FullSegs(all) = 1..Len(FullSegs(all))
    BY <2>1, Filled
  <2>4. \A i \in 1..Len(FullSegs(all)) :
              /\ k + i \in SegIds
              /\ FullSegs(all)[i] = Segment(f, k + i) /\ Len(FullSegs(all)[i]) = Seg
    BY <2>1, Filled
  <2>5. LeftOver(all) \in Pieces /\ Len(LeftOver(all)) < Seg
    BY <2>1, Filled
  <2>6. PICK upto \in Nat : /\ upto = (k + Len(FullSegs(all))) * Seg
                            /\ LeftOver(all) = Piece(f, upto, to)
                            /\ Len(LeftOver(all)) = to - upto
    BY <2>1, Filled
  <2>7. /\ LeftOver(all) = Piece(f, (k + Len(FullSegs(all))) * Seg, to)
        /\ (k + Len(FullSegs(all))) * Seg + Len(LeftOver(all)) = to
    BY <2>6
  <2> QED
    BY <2>3, <2>4, <2>5, <2>7
<1> HIDE DEF full, left_over
<1>8. /\ segs \in Seq(Pieces) /\ Len(segs) = k + Len(full)
      /\ \A i \in 1..k : segs[i] = p.segs[i]
      /\ \A i \in 1..Len(full) : segs[k + i] = full[i]
  <2>1. /\ segs \in Seq(Pieces) /\ Len(segs) = Len(p.segs) + Len(full)
        /\ \A i \in 1..(Len(p.segs) + Len(full)) :
             segs[i] = IF i <= Len(p.segs) THEN p.segs[i] ELSE full[i - Len(p.segs)]
    <3> DEFINE old_segs == p.segs
    <3>1. old_segs \in Seq(Pieces) /\ full \in Seq(Pieces)
      BY <1>2, <1>7
    <3> HIDE DEF old_segs
    <3>2. /\ old_segs \o full \in Seq(Pieces)
          /\ Len(old_segs \o full) = Len(old_segs) + Len(full)
          /\ \A i \in 1..(Len(old_segs) + Len(full)) :
               (old_segs \o full)[i] = IF i <= Len(old_segs) THEN old_segs[i]
                                       ELSE full[i - Len(old_segs)]
      BY <3>1, ConcatProperties
    <3> QED
      BY <3>2 DEF old_segs
  <2> HIDE DEF segs
  <2>2. ASSUME NEW i \in 1..Len(full)
        PROVE k + i \in 1..(k + Len(full)) /\ ~(k + i <= k) /\ k + i - k = i
    <3>1. k \in Nat /\ Len(full) \in Nat
      BY <1>2, <1>7
    <3> HIDE DEF k
    <3> QED
      BY <3>1
  <2>3. ASSUME NEW i \in 1..k PROVE i \in 1..(k + Len(full)) /\ i <= k
    <3>1. k \in Nat /\ Len(full) \in Nat
      BY <1>2, <1>7
    <3> HIDE DEF k
    <3> QED
      BY <3>1
  <2>4. \A i \in 1..k : segs[i] = p.segs[i]
    BY <2>1, <2>3
  <2>5. ASSUME NEW i \in 1..Len(full) PROVE segs[k + i] = full[i]
    <3> DEFINE m == k + i
    <3>1. m \in 1..(k + Len(full)) /\ ~(m <= k) /\ m - k = i
      BY <2>2
    <3> HIDE DEF m
    <3>2. segs[m] = full[i]
      BY <2>1, <3>1
    <3> QED
      BY <3>2 DEF m
  <2> QED
    BY <2>1, <2>4, <2>5
<1>9. ASSUME NEW i \in 1..Len(segs)
      PROVE  i \in SegIds /\ segs[i] = Segment(f, i) /\ Len(segs[i]) = Seg /\ segs[i] # Bad
  <2> HIDE DEF segs, p, k
  <2>1. i \in SegIds /\ segs[i] = Segment(f, i) /\ Len(segs[i]) = Seg
    <3>1. CASE i \in 1..k
      BY <3>1, <1>2, <1>8
    <3>2. CASE i \notin 1..k
      <4> DEFINE m == i - k
      <4>1. m \in 1..Len(full) /\ k + m = i
        BY <3>2, <1>2, <1>7, <1>8
      <4> HIDE DEF m
      <4>2. segs[k + m] = full[m] /\ k + m \in SegIds /\ full[m] = Segment(f, k + m)
            /\ Len(full[m]) = Seg
        BY <4>1, <1>7, <1>8
      <4> QED
        BY <4>1, <4>2
    <3> QED
      BY <3>1, <3>2
  <2> QED
    BY <2>1, EmptySeq, SizesAre DEF Bad
<1> HIDE DEF segs
<1>10. /\ q \in PendingFile /\ q.segs = segs /\ q.base = p.base /\ q.owner = f
       /\ q.durable = p.durable /\ q # None
  <2>1. q \in PendingFile /\ q.segs = segs /\ q.base = p.base /\ q.owner = f
        /\ q.durable = p.durable
    <3> HIDE DEF p
    <3> QED
      BY <1>2, <1>8 DEF PendingFile
  <2> QED
    BY <2>1, Nothing
<1>11. /\ j \in Job /\ j.pc = "open" /\ j.id = job[f].id /\ j.buffer = left_over
       /\ j.cells = job[f].cells
  BY <1>1, <1>2, <1>7, JobIs DEF Job
<1>12. /\ pend' = [pend EXCEPT ![job[f].id] = q] /\ job' = [job EXCEPT ![f] = j]
       /\ seek' = [seek EXCEPT ![job[f].id] = s]
  BY <1>1, <1>2 DEF Mine, StoreTyped
<1> HIDE DEF q, j, p
<1>13. Sound(q)
  <2>1. p.durable <= Len(segs)
    <3>1. p.durable <= k /\ p.durable \in Nat /\ k \in Nat
      BY <1>2 DEF Sound
    <3> HIDE DEF k
    <3> QED
      BY <3>1, <1>7, <1>8
  <2> QED
    BY <2>1, <1>9, <1>10 DEF Sound
<1>14. WellOpen(f, q, s, j)
  <2>1. Len(segs) * Seg + Len(left_over) = to /\ left_over = Piece(f, Len(segs) * Seg, to)
    BY <1>7, <1>8
  <2>2. f \notin matrix /\ s # None => job[f].cells >= Len(s.cells)
    BY <1>2 DEF WellOpen
  <2> HIDE DEF s
  <2> QED
    BY <2>1, <2>2, <1>3, <1>7, <1>9, <1>10, <1>11 DEF WellOpen
<1>15. \A n \in new : NewSegment(job[f].id, n)
  <2>1. pend'[job[f].id] = q /\ pend[job[f].id] = p /\ p # None
    BY <1>2, <1>12 DEF StoreTyped, WellOpen
  <2>2. ASSUME NEW i \in 1..Len(full)
        PROVE  NewSegment(job[f].id, <<"main", p.base, k + i, full[i]>>)
    <3>1. full[i] = Segment(f, k + i)
      BY <1>7
    <3>2. k \in Nat
      BY <1>2
    <3>3. k + i \in Nat
      <4> HIDE DEF k
      <4> QED
        BY <3>2
    <3> QED
      BY <2>1, <3>1, <3>3, <1>2, <1>10 DEF NewSegment
  <2> QED
    BY <2>2, <1>7
<1> HIDE DEF new
<1>16. s # None => /\ seek[job[f].id] # None /\ s.base = seek[job[f].id].base
                   /\ Len(s.cells) >= Len(seek[job[f].id].cells)
  <2>1. s # None => Len(s.cells) \in Nat
    BY <1>2, LenProperties DEF SeekFile
  <2> QED
    BY <2>1
<1>17. Mine(f) # None /\ q.base = Mine(f).base /\ q.owner = Mine(f).owner
  BY <1>2, <1>10 DEF p, WellOpen
<1>18. bases' \in Nat /\ bases' >= bases
  BY <1>1, <1>2
<1> QED
  BY <1>1, <1>2, <1>10, <1>11, <1>12, <1>13, <1>14, <1>15, <1>16, <1>17, <1>18, OwnKeeps

\* What is before a new cell is as long as its number says.
LEMMA PaddedIs ==
  ASSUME NEW cells \in Seq(Cell), NEW slot \in Nat, slot >= 1, Len(cells) < slot, NEW cell \in Cell
  PROVE  /\ Append(Padded(cells, slot), cell) \in Seq(Cell)
         /\ Len(Append(Padded(cells, slot), cell)) = slot
<1> DEFINE m == slot - 1
           w == Padded(cells, slot)
<1>1. m \in Nat /\ m + 1 = slot
  OBVIOUS
<1>2. 1 \in ChunkIds
  <2>1. 1 - 1 = 0 /\ 0 * Chunk = 0
    BY SizesAre
  <2> QED
    BY <2>1, ChunkIdsAre, SizesAre
<1>3. ASSUME NEW k \in 1..m
      PROVE  (IF k > Len(cells) THEN [chunk |-> 1, of |-> None, state |-> "torn"]
              ELSE IF cells[k].state = "half" THEN [cells[k] EXCEPT !.state = "torn"] ELSE cells[k])
               \in Cell
  <2>1. CASE k > Len(cells)
    BY <2>1, <1>2 DEF Cell
  <2>2. CASE ~(k > Len(cells))
    <3>1. k \in 1..Len(cells)
      BY <2>2, LenProperties
    <3>2. cells[k] \in Cell
      BY <3>1, ElementOfSeq
    <3>3. [cells[k] EXCEPT !.state = "torn"] \in Cell
      BY <3>2 DEF Cell
    <3> QED
      BY <2>2, <3>2, <3>3
  <2> QED
    BY <2>1, <2>2
<1>4. w \in [1..m -> Cell]
  BY <1>3 DEF Padded
<1>5. w \in Seq(Cell) /\ Len(w) = m
  <2>1. DOMAIN w = 1..m
    BY DEF Padded
  <2> HIDE DEF w, m
  <2> QED
    BY <1>1, <1>4, <2>1, SeqDef
<1> HIDE DEF w, m
<1>6. Append(w, cell) \in Seq(Cell) /\ Len(Append(w, cell)) = m + 1
  BY <1>5
<1> QED
  BY <1>1, <1>6 DEF w

LEMMA SeekAppendKeeps ==
  ASSUME StoreInv, UNCHANGED given, NEW f \in Files, NEW i \in ChunkIds,
         NEW how \in {"done", "half", "none"}, SeekAppend(f, i, how)
  PROVE  StoreInv'
<1> DEFINE id == job[f].id
           p == Mine(f)
           s == seek[id]
           fresh == s = None
           written == IF fresh THEN [base |-> bases + 1, cells |-> <<>>] ELSE s
           slots == IF fresh THEN NoSlots ELSE job[f].slots
           slot == (IF fresh THEN 0 ELSE job[f].cells) + 1
           cell == [chunk |-> i, of |-> f, state |-> IF how = "done" THEN "good" ELSE "half"]
           cells == Append(Padded(written.cells, slot), cell)
           t == IF how = "none" THEN written ELSE [written EXCEPT !.cells = cells]
           next == IF how = "done" THEN [slots EXCEPT ![i] = slot] ELSE slots
           j == [job[f] EXCEPT !.slots = next, !.cells = slot]
           new == IF how = "none" THEN {} ELSE {<<"seek", written.base, slot, <<content[f], i>>>>}
<1>1. /\ job[f].pc = "open" /\ f \notin matrix
      /\ UNCHANGED <<content, matrix, rows, top, pool, pend>>
      /\ seek' = [seek EXCEPT ![id] = t] /\ job' = [job EXCEPT ![f] = j]
      /\ sealed' = sealed \union new
      /\ bases' = IF fresh THEN bases + 1 ELSE bases
  <2> HIDE DEF cells, slots
  <2>1. /\ job[f].pc = "open" /\ f \notin matrix
        /\ UNCHANGED <<table, pend, pool>>
        /\ seek' = [seek EXCEPT ![id] = t]
        /\ bases' = IF fresh THEN bases + 1 ELSE bases
    BY DEF SeekAppend, cells
  <2>2. sealed' = sealed \union new
    BY DEF SeekAppend
  <2>3. job' = [job EXCEPT ![f].slots = next, ![f].cells = slot]
    BY DEF SeekAppend, slots, TakesNumber
  <2> HIDE DEF next, slot
  <2>4. job' = [job EXCEPT ![f] = j]
    BY <2>3
  <2> QED
    BY <2>1, <2>2, <2>4 DEF given, table
<1>2. /\ StoreTyped /\ Active(f) /\ id \in Ids /\ bases \in Nat /\ p \in PendingFile
      /\ Sound(p) /\ s \in SeekFile \union {None} /\ WellOpen(f, p, s, job[f])
      /\ p = pend[id] /\ p.base \in Nat
  BY <1>1, IsOpen
<1>3. /\ job[f].cells \in Nat /\ job[f].slots \in [ChunkIds -> Nat]
      /\ s # None => /\ s.cells \in Seq(Cell) /\ Len(s.cells) \in Nat /\ s.base \in Nat
                     /\ Len(s.cells) <= job[f].cells
  <2>1. s # None => s.cells \in Seq(Cell) /\ Len(s.cells) \in Nat /\ s.base \in Nat
    BY <1>2, LenProperties DEF SeekFile
  <2>2. job[f].cells \in Nat /\ job[f].slots \in [ChunkIds -> Nat]
    BY <1>2, JobIs
  <2> QED
    BY <2>1, <2>2, <1>1, <1>2 DEF WellOpen
<1> HIDE DEF p, s
<1>4. /\ slot \in Nat /\ slot >= 1
      /\ written \in SeekFile /\ written.cells \in Seq(Cell) /\ Len(written.cells) \in Nat
      /\ Len(written.cells) < slot /\ written.base \in Nat
      /\ fresh => written.base = bases + 1
      /\ ~fresh => written.base = s.base /\ Len(written.cells) = Len(s.cells)
  <2>1. CASE fresh
    <3> DEFINE b == bases + 1
    <3>1. b \in Nat
      BY <1>2
    <3> HIDE DEF b
    <3>2. [base |-> b, cells |-> <<>>] \in SeekFile
      BY <3>1, EmptySeq DEF SeekFile
    <3> QED
      BY <2>1, <3>1, <3>2, EmptySeq DEF b
  <2>2. CASE ~fresh
    BY <2>2, <1>2, <1>3
  <2> QED
    BY <2>1, <2>2
<1>5. next \in [ChunkIds -> Nat]
  <2>1. slots \in [ChunkIds -> Nat]
    BY <1>3 DEF NoSlots
  <2> HIDE DEF slots, slot
  <2> QED
    BY <2>1, <1>4
<1>6. cell \in Cell
  BY DEF Cell
<1> HIDE DEF slot, written, cell
<1>7. cells \in Seq(Cell) /\ Len(cells) = slot
  BY <1>4, <1>6, PaddedIs
<1> HIDE DEF cells, next
<1>8. /\ t \in SeekFile /\ t.base = written.base /\ t # None
      /\ Len(t.cells) <= slot /\ (how # "none" => Len(t.cells) = slot)
      /\ Len(t.cells) \in Nat /\ Len(t.cells) >= Len(written.cells)
  <2>1. CASE how = "none"
    BY <2>1, <1>4, Nothing
  <2>2. CASE how # "none"
    <3> DEFINE e == [written EXCEPT !.cells = cells]
    <3>1. e \in SeekFile /\ e.base = written.base /\ e.cells = cells
      BY <1>4, <1>7 DEF SeekFile
    <3> HIDE DEF e
    <3>2. t = e
      BY <2>2 DEF e
    <3> QED
      BY <2>2, <3>1, <3>2, <1>4, <1>7, Nothing
  <2> QED
    BY <2>1, <2>2
<1>9. /\ j \in Job /\ j.pc = "open" /\ j.id = id /\ j.buffer = job[f].buffer /\ j.cells = slot
  BY <1>1, <1>2, <1>4, <1>5, JobIs DEF Job
<1>10. pend' = [pend EXCEPT ![id] = p] /\ p # None
  BY <1>1, <1>2 DEF StoreTyped, WellOpen
<1> HIDE DEF t, j, new
<1>11. WellOpen(f, p, t, j)
  BY <1>2, <1>8, <1>9 DEF WellOpen
<1>12. bases' \in Nat /\ bases' >= bases
  BY <1>1, <1>2
<1>13. p.base = Mine(f).base /\ p.owner = Mine(f).owner /\ Mine(f) # None
  BY <1>10 DEF p
<1>14. \/ seek[id] # None /\ t.base = seek[id].base /\ Len(t.cells) >= Len(seek[id].cells)
       \/ t.base > bases /\ t.base <= bases'
  <2>1. CASE fresh
    BY <2>1, <1>1, <1>2, <1>4, <1>8
  <2>2. CASE ~fresh
    BY <2>2, <1>4, <1>8 DEF s
  <2> QED
    BY <2>1, <2>2
<1>15. \/ \A n \in new : NewSegment(id, n)
       \/ \E m : new = {m} /\ NewCell(id, m)
  <2>1. CASE how = "none"
    BY <2>1 DEF new
  <2>2. CASE how # "none"
    <3> DEFINE m == <<"seek", written.base, slot, <<content[f], i>>>>
    <3>1. m[1] = "seek" /\ m[2] = written.base /\ m[3] = slot /\ new = {m}
      BY <2>2 DEF new
    <3>2. seek'[id] = t
      BY <1>1, <1>2 DEF StoreTyped
    <3> HIDE DEF m
    <3>3. fresh => m[2] > bases
      BY <3>1, <1>2, <1>4
    <3>4. ~fresh => seek[id] # None /\ m[2] = seek[id].base /\ m[3] > Len(seek[id].cells)
      BY <3>1, <1>4 DEF s
    <3>5. NewCell(id, m)
      BY <3>1, <3>2, <3>3, <3>4, <2>2, <1>4, <1>8 DEF NewCell
    <3> QED
      BY <3>1, <3>5
  <2> QED
    BY <2>1, <2>2
<1> QED
  BY <1>1, <1>2, <1>8, <1>9, <1>10, <1>11, <1>12, <1>13, <1>14, <1>15, OwnKeeps

----------------------------------------------------------------------------
LEMMA InitKeeps == StoreInit => StoreInv
<1> SUFFICES ASSUME StoreInit PROVE StoreInv
  OBVIOUS
<1> DEFINE first(f) == [id |-> FirstId[f], done |-> FALSE, hash |-> None]
<1>1. /\ matrix \subseteq Files /\ content \in [Files -> Contents]
  BY Sizes DEF StoreInit
<1>2. /\ rows = [f \in Files |-> first(f)] /\ top = LastId
      /\ pend = [id \in Ids |-> None] /\ seek = [id \in Ids |-> None] /\ pool = {}
      /\ job = [f \in Files |-> Idle] /\ sealed = {} /\ bases = 0
  BY DEF StoreInit
<1>3. /\ LastId \in Nat /\ LastId \in 0..MaxId
      /\ \A f \in Files : FirstId[f] \in Ids /\ FirstId[f] <= LastId
      /\ \A f, g \in Files : FirstId[f] = FirstId[g] => f = g
  BY Sizes, IdsAre
<1>4. \A f \in Files : /\ first(f) \in Row /\ first(f) # None
                       /\ first(f).id = FirstId[f] /\ first(f).hash = None
  <2>1. \A f \in Files : first(f) \in Row
    BY <1>3 DEF Row
  <2> QED
    BY <2>1, Nothing
<1> HIDE DEF first
<1>5. StoreTyped
  BY <1>1, <1>2, <1>3, <1>4, IdleIs DEF StoreTyped
<1>6. \A f \in Files : job[f].pc = "idle"
  BY <1>2, IdleIs
<1>7. IdsAreOwn
  BY <1>2, <1>3, <1>4, <1>6 DEF IdsAreOwn, Active
<1>8. PendingIsSound /\ BasesAreOwn
  BY <1>2 DEF PendingIsSound, BasesAreOwn
<1>9. JobsGoWell
  BY <1>6 DEF JobsGoWell, GoesWell
<1>10. PoolIsWhole /\ HashesAreRight
  BY <1>2, <1>4 DEF PoolIsWhole, HashesAreRight
<1>11. SealedIs /\ NonceOnce
  BY <1>2 DEF SealedIs, NonceOnce
<1> QED
  BY <1>5, <1>7, <1>8, <1>9, <1>10, <1>11 DEF StoreInv

LEMMA DownloadKeeps ==
  ASSUME StoreInv, UNCHANGED given, NEW f \in Files, Download(f)
  PROVE  StoreInv'
<1>1. CASE BeginDownload(f)
  BY <1>1, BeginDownloadKeeps
<1>2. CASE OpenMain(f)
  BY <1>2, OpenMainKeeps
<1>3. CASE OpenStream(f)
  BY <1>3, OpenStreamKeeps
<1>4. CASE LandChunk(f)
  BY <1>4, LandChunkKeeps
<1>5. CASE DropCell(f)
  BY <1>5, DropCellKeeps
<1>6. CASE \E i \in ChunkIds, how \in {"done", "half", "none"} : SeekAppend(f, i, how)
  BY <1>6, SeekAppendKeeps
<1>7. CASE Sync(f)
  BY <1>7, SyncKeeps
<1>8. CASE FinishFile(f)
  BY <1>8, FinishFileKeeps
<1>9. CASE Adopt(f)
  BY <1>9, AdoptKeeps
<1>10. CASE Record(f) \/ PostReset(f)
  BY <1>10, RowAndJobKeep
<1>13. CASE Measure(f)
  BY <1>13, MeasureKeeps
<1>11. CASE \E torn \in BOOLEAN : Keep(f, torn)
  BY <1>11, KeepKeeps
<1>12. CASE DiscardFiles(f)
  BY <1>12, DiscardFilesKeeps
<1> QED
  BY <1>1, <1>2, <1>3, <1>4, <1>5, <1>6, <1>7, <1>8, <1>9, <1>10, <1>11, <1>12,
     <1>13 DEF Download

LEMMA StoreStepKeeps ==
  ASSUME StoreInv, [StoreNext]_storeVars
  PROVE  StoreInv'
<1>1. ASSUME StoreNext PROVE UNCHANGED given
  BY <1>1 DEF StoreNext
<1>2. ASSUME NEW f \in Files, Download(f), StoreNext PROVE StoreInv'
  BY <1>1, <1>2, DownloadKeeps
<1>3. ASSUME NEW f \in Files, RowArrives(f), StoreNext PROVE StoreInv'
  BY <1>1, <1>3, RowArrivesKeeps
<1>4. ASSUME NEW f \in Files, Read(f), StoreNext PROVE StoreInv'
  BY <1>1, <1>4, SmallStepsKeep
<1>5. ASSUME Age, StoreNext PROVE StoreInv'
  BY <1>1, <1>5, SmallStepsKeep
<1>6. ASSUME Tidy, StoreNext PROVE StoreInv'
  <2>1. CASE SweepPending \/ \E stays \in BOOLEAN : DelPending(stays)
    BY <2>1, <1>1, <1>6, RemovalKeeps
  <2>2. CASE \/ AskSweep \/ SweepEnds \/ CollectEnds \/ SweepRows \/ Unlink \/ EvictRow \/ DelRow
             \/ \E f \in Files : Evict(f) \/ DelFiles(f)
             \/ \E h \in tidy.files : SweepPool(h)
    BY <2>2, <1>1, <1>6, SmallStepsKeep
  <2> QED
    BY <1>6, <2>1, <2>2 DEF Tidy
<1>7. ASSUME (\E h \in opening : EnterReader(h)) \/ (\E h \in reading : CloseReader(h)), StoreNext
      PROVE  StoreInv'
  BY <1>1, <1>7, SmallStepsKeep
<1>8. ASSUME NEW power \in BOOLEAN, NEW rebuilt \in BOOLEAN, NEW hit \in 0..(Size \div Seg + 1),
             ProgramStops(power, hit, rebuilt), StoreNext
      PROVE StoreInv'
  <2>1. hit \in Nat
    OBVIOUS
  <2> QED
    BY <2>1, <1>1, <1>8, ProgramStopsKeeps
<1>9. CASE StoreNext
  BY <1>9, <1>2, <1>3, <1>4, <1>5, <1>6, <1>7, <1>8 DEF StoreNext
<1>10. CASE UNCHANGED storeVars
  <2>1. UNCHANGED <<content, matrix, top, sealed, bases, pend, seek, job, rows, pool>>
    BY <1>10 DEF storeVars, given, table, disk, history
  <2>2. rows' = [f \in Files |-> rows'[f]] /\ RowsFade /\ pool' \subseteq pool
    BY <2>1 DEF StoreInv, StoreTyped, RowsFade
  <2> QED
    BY <2>1, <2>2, RowsKeep
<1> QED
  BY <1>9, <1>10

\* Every state of the store is as the invariant says.
THEOREM StoreIsSound == StoreSpec => []StoreInv
<1>1. StoreInit => StoreInv
  BY InitKeeps
<1>2. StoreInv /\ [StoreNext]_storeVars => StoreInv'
  BY StoreStepKeeps
<1> QED
  BY <1>1, <1>2, PTL DEF StoreSpec

LEMMA InvGivesBytes == StoreInv => BytesAreRight
<1> SUFFICES ASSUME StoreInv PROVE BytesAreRight
  OBVIOUS
<1>1. StoreTyped /\ PoolIsWhole /\ HashesAreRight
  BY DEF StoreInv
<1>2. ASSUME NEW f \in Files, rows[f] # None, NEW p \in InPool(rows[f].hash)
      PROVE  p.segs = Whole(f)
  <2>1. p \in pool /\ p.name = rows[f].hash /\ p.segs = p.name
    BY <1>1 DEF InPool, PoolIsWhole
  <2>2. p.name \in Seq(Pieces)
    BY <1>1, <2>1 DEF StoreTyped, PoolFile
  <2>3. rows[f].hash = Whole(f)
    BY <1>1, <1>2, <2>1, <2>2, Nothing DEF HashesAreRight
  <2> QED
    BY <2>1, <2>3
<1>3. ASSUME NEW f \in Files, job[f].pc = "open"
      PROVE  /\ \A i \in 1..Len(Mine(f).segs) : Mine(f).segs[i] = Segment(f, i)
             /\ job[f].buffer = Piece(f, Len(Mine(f).segs) * Seg, PlainLen(f))
  BY <1>3, IsOpen DEF WellOpen
<1> QED
  BY <1>2, <1>3 DEF BytesAreRight, Mine

\* What is shown and what is being written are the file's own bytes, for any
\* files, sizes, damage and ways to stop.
THEOREM StoredBytesAreRight == StoreSpec => []BytesAreRight
BY StoreIsSound, InvGivesBytes, PTL

\* No nonce seals two plaintexts: the numbers of a seek file's cells never come
\* again, whatever was cut short, and a new file has a new base.
THEOREM NoNonceTwice == StoreSpec => []NonceOnce
<1>1. StoreInv => NonceOnce
  BY DEF StoreInv
<1> QED
  BY <1>1, StoreIsSound, PTL

----------------------------------------------------------------------------
\* What no step takes.

\* Before the thread unlinks a file it has counted the rows, and none was written since.
Decided ==
  /\ tidy = [what \in DOMAIN ThreadIdle |-> tidy[what]]
  /\ tidy.pc \in {"orphan", "evict", "drop", "del"} => References(tidy.hash) <= 1

LEMMA DecidedInit == StoreInit => Decided
<1>1. ThreadIdle = [what \in DOMAIN ThreadIdle |-> ThreadIdle[what]]
  BY DEF ThreadIdle
<1>2. ThreadIdle.pc = "free"
  BY DEF ThreadIdle
<1> QED
  BY <1>1, <1>2 DEF StoreInit, Decided

\* The writes of the rows are the thread's own turns.
LEMMA StepKeepsDecided ==
  ASSUME StoreInv, Decided, [StoreNext]_storeVars
  PROVE  Decided'
<1>1. ASSUME tidy' = tidy, rows' = rows \/ ThreadFree PROVE Decided'
  BY <1>1 DEF Decided, References, ThreadFree
<1>2. ASSUME tidy' = [what \in DOMAIN ThreadIdle |-> tidy'[what]],
             tidy'.pc \notin {"orphan", "evict", "drop", "del"}
      PROVE  Decided'
  BY <1>2 DEF Decided
<1>3. ASSUME tidy' = [what \in DOMAIN ThreadIdle |-> tidy'[what]], rows' = rows,
             References(tidy'.hash) <= 1
      PROVE  Decided'
  BY <1>3 DEF Decided, References
<1>4. DOMAIN ThreadIdle = {"pc", "of", "names", "files", "hash"}
  BY DEF ThreadIdle
<1>5. ASSUME NEW f \in Files, Download(f) PROVE Decided'
  <2>1. tidy' = tidy /\ (rows' = rows \/ ThreadFree)
    BY <1>5 DEF Download, BeginDownload, OpenMain, OpenStream, LandChunk, DropCell, SeekAppend,
                Sync, FinishFile, Adopt, Measure, Record, Keep, DiscardFiles, PostReset, table
  <2> QED
    BY <2>1, <1>1
<1>6. ASSUME NEW f \in Files, RowArrives(f) \/ Read(f) PROVE Decided'
  <2>1. tidy' = tidy /\ (rows' = rows \/ ThreadFree)
    BY <1>6 DEF RowArrives, Read, table
  <2> QED
    BY <2>1, <1>1
<1>7. ASSUME \/ Age \/ UNCHANGED storeVars
             \/ (\E h \in opening : EnterReader(h)) \/ \E h \in reading : CloseReader(h)
      PROVE  Decided'
  <2>1. tidy' = tidy /\ rows' = rows
    BY <1>7 DEF Age, EnterReader, CloseReader, storeVars, table
  <2> QED
    BY <2>1, <1>1
<1>8. ASSUME NEW power, NEW rebuilt, NEW hit, ProgramStops(power, hit, rebuilt) PROVE Decided'
  <2>1. tidy' = ThreadIdle
    BY <1>8 DEF ProgramStops
  <2> QED
    BY <2>1, <1>2 DEF ThreadIdle
<1>9. ASSUME Tidy PROVE Decided'
  <2>1. CASE AskSweep \/ SweepEnds \/ CollectEnds
    <3>1. CASE AskSweep
      BY <3>1, <1>2 DEF AskSweep, ThreadIdle
    <3>2. CASE SweepEnds
      BY <3>2, <1>2 DEF SweepEnds, ThreadIdle
    <3>3. CASE CollectEnds
      <4>1. tidy' = ThreadIdle
        BY <3>3 DEF CollectEnds
      <4> QED
        BY <4>1, <1>2 DEF ThreadIdle
    <3> QED
      BY <2>1, <3>1, <3>2, <3>3
  <2>2. CASE SweepRows \/ SweepPending \/ \E stays \in BOOLEAN : DelPending(stays)
    BY <2>2, <1>2, <1>4 DEF SweepRows, SweepPending, DelPending, Decided
  <2>3. CASE EvictRow \/ DelRow
    BY <2>3, <1>2 DEF EvictRow, DelRow, ThreadIdle
  <2>4. CASE Unlink
    <3>1. tidy.pc \in DOMAIN AfterUnlink /\ DOMAIN AfterUnlink = {"orphan", "evict", "drop", "del"}
      BY <2>4 DEF Unlink, AfterUnlink
    <3>2. AfterUnlink[tidy.pc] \in {"pool", "collect", "clear", "pendings"}
      BY <3>1 DEF AfterUnlink
    <3>3. tidy' = [tidy EXCEPT !.pc = AfterUnlink[tidy.pc], !.hash = None]
      BY <2>4 DEF Unlink
    <3> QED
      BY <1>2, <1>4, <3>2, <3>3 DEF Decided
  <2>5. ASSUME NEW h, SweepPool(h) PROVE Decided'
    <3>1. References(h) = 0 => References(h) <= 1
      OBVIOUS
    <3>2. rows' = rows
      BY <2>5 DEF SweepPool, table
    <3>3. CASE References(h) = 0 /\ h \notin reading
      <4>1. tidy' = [tidy EXCEPT !.pc = "orphan", !.files = @ \ {h}, !.hash = h]
        BY <2>5, <3>3 DEF SweepPool
      <4> QED
        BY <1>3, <1>4, <3>1, <3>2, <3>3, <4>1 DEF Decided
    <3>4. CASE ~(References(h) = 0 /\ h \notin reading)
      <4>1. tidy' = [tidy EXCEPT !.pc = "pool", !.files = @ \ {h}, !.hash = None]
        BY <2>5, <3>4 DEF SweepPool
      <4> QED
        BY <1>2, <1>4, <4>1 DEF Decided
    <3> QED
      BY <3>3, <3>4
  <2>6. ASSUME NEW f \in Files, Evict(f) PROVE Decided'
    <3> DEFINE h == rows[f].hash
    <3>1. rows' = rows
      BY <2>6 DEF Evict, table
    <3>2. CASE MayGo(h)
      <4>1. PICK next : tidy' = [ThreadIdle EXCEPT !.pc = next, !.of = f, !.hash = h]
        BY <2>6, <3>2 DEF Evict
      <4>2. References(h) <= 1
        BY <3>2 DEF MayGo, IsOnlyOne
      <4> HIDE DEF h
      <4> QED
        BY <1>3, <3>1, <4>1, <4>2 DEF ThreadIdle
    <3>3. CASE ~MayGo(h)
      <4>1. PICK next \in {"collect", "clear"} :
              tidy' = [ThreadIdle EXCEPT !.pc = next, !.of = f, !.hash = None]
        BY <2>6, <3>3 DEF Evict
      <4> QED
        BY <1>2, <4>1 DEF ThreadIdle
    <3> QED
      BY <3>2, <3>3
  <2>7. ASSUME NEW f \in Files, DelFiles(f) PROVE Decided'
    <3> DEFINE h == rows[f].hash
    <3>1. rows' = rows
      BY <2>7 DEF DelFiles, table
    <3>2. CASE h # None /\ MayGo(h)
      <4>1. tidy' = [ThreadIdle EXCEPT !.pc = "del", !.of = f, !.hash = h]
        BY <2>7, <3>2 DEF DelFiles
      <4>2. References(h) <= 1
        BY <3>2 DEF MayGo, IsOnlyOne
      <4> HIDE DEF h
      <4> QED
        BY <1>3, <3>1, <4>1, <4>2 DEF ThreadIdle
    <3>3. CASE ~(h # None /\ MayGo(h))
      <4>1. tidy' = [ThreadIdle EXCEPT !.pc = "pendings", !.of = f, !.hash = None]
        BY <2>7, <3>3 DEF DelFiles
      <4> QED
        BY <1>2, <4>1 DEF ThreadIdle
    <3> QED
      BY <3>2, <3>3
  <2> QED
    BY <1>9, <2>1, <2>2, <2>3, <2>4, <2>5, <2>6, <2>7 DEF Tidy
<1> QED
  BY <1>5, <1>6, <1>7, <1>8, <1>9 DEF StoreNext

\* A complete file that goes was shown by one row at most.
LEMMA StepKeepsReferenced ==
  ASSUME StoreInv, Decided, [StoreNext]_storeVars
  PROVE  ReferencedIsKept
<1> DEFINE Stays(p) == \E q \in pool' : q.name = p.name
           Fine(p) == Stays(p) \/ References(p.name) <= 1
<1>1. SUFFICES \A p \in pool : Fine(p)
  BY DEF ReferencedIsKept
<1>2. ASSUME pool' = pool PROVE \A p \in pool : Fine(p)
  BY <1>2
<1>3. ASSUME NEW f \in Files, Download(f) PROVE \A p \in pool : Fine(p)
  <2>1. CASE pool' = pool
    BY <2>1, <1>2
  <2>2. CASE Adopt(f) /\ pool' # pool
    <3> DEFINE h == job[f].name
               n == [name |-> h, segs |-> pend[job[f].id].segs, durable |-> pend[job[f].id].durable]
    <3>1. pool' = (pool \ InPool(h)) \union {n}
      BY <2>2 DEF Adopt
    <3>2. n.name = h
      OBVIOUS
    <3> HIDE DEF n
    <3>3. ASSUME NEW p \in pool PROVE Stays(p)
      <4>1. CASE p.name = h
        BY <4>1, <3>1, <3>2
      <4>2. CASE p.name # h
        BY <4>2, <3>1 DEF InPool
      <4> QED
        BY <4>1, <4>2
    <3> QED
      BY <3>3
  <2>3. CASE ~Adopt(f)
    <3>1. pool' = pool
      BY <2>3, <1>3 DEF Download, BeginDownload, OpenMain, OpenStream, LandChunk, DropCell,
                       SeekAppend, Sync, FinishFile, Measure, Record, Keep, DiscardFiles,
                       PostReset, disk
    <3> QED
      BY <3>1, <1>2
  <2> QED
    BY <2>1, <2>2, <2>3
<1>4. ASSUME Tidy PROVE \A p \in pool : Fine(p)
  <2>1. CASE Unlink
    <3>1. tidy.pc \in {"orphan", "evict", "drop", "del"}
      BY <2>1 DEF Unlink, AfterUnlink
    <3>2. References(tidy.hash) <= 1 /\ pool' = pool \ InPool(tidy.hash)
      BY <2>1, <3>1 DEF Unlink, Decided
    <3> QED
      BY <3>2 DEF InPool
  <2>2. CASE ~Unlink
    <3>1. pool' = pool
      BY <2>2, <1>4 DEF Tidy, AskSweep, SweepRows, SweepPending, SweepPool, SweepEnds,
        CollectEnds, Evict, EvictRow, DelFiles, DelPending, DelRow, disk
    <3> QED
      BY <3>1, <1>2
  <2> QED
    BY <2>1, <2>2
<1>5. ASSUME \/ Age \/ \E f \in Files : RowArrives(f) \/ Read(f)
             \/ (\E h \in opening : EnterReader(h)) \/ \E h \in reading : CloseReader(h)
      PROVE  \A p \in pool : Fine(p)
  <2>1. pool' = pool
    BY <1>5 DEF Age, RowArrives, Read, EnterReader, CloseReader, disk
  <2> QED
    BY <2>1, <1>2
<1>6. ASSUME NEW power \in BOOLEAN, NEW rebuilt \in BOOLEAN, NEW hit \in 0..(Size \div Seg + 1),
             ProgramStops(power, hit, rebuilt)
      PROVE  \A p \in pool : Fine(p)
  <2>1. hit \in Nat
    OBVIOUS
  <2>2. pool' = pool
    BY <2>1, <1>6, PoolOutlasts
  <2> QED
    BY <2>2, <1>2
<1>7. CASE UNCHANGED storeVars
  <2>1. pool' = pool
    BY <1>7 DEF storeVars, disk
  <2> QED
    BY <2>1, <1>2
<1>8. CASE StoreNext
  BY <1>8, <1>3, <1>4, <1>5, <1>6 DEF StoreNext
<1> QED
  BY <1>7, <1>8

\* A chunked download opens its file in one step only.
LEMMA OnlyOpening ==
  ASSUME StoreInv, [StoreNext]_storeVars, NEW f \in Files,
         job[f].pc = "begun", job'[f].pc = "open", f \notin matrix
  PROVE  OpenMain(f)
<1> DEFINE Others(g) == \E j : job' = [job EXCEPT ![g] = j]
<1>1. job = [g \in Files |-> job[g]] /\ job'[f] # job[f]
  BY DEF StoreInv, StoreTyped
<1>2. job' # job
  BY <1>1
<1>3. ASSUME NEW g \in Files, Others(g), g # f PROVE FALSE
  BY <1>1, <1>3
<1>4. ASSUME NEW g \in Files, Download(g) PROVE OpenMain(f)
  <2>1. CASE g # f
    <3>1. Others(g) \/ job' = job
      <4>1. CASE BeginDownload(g)
        BY <4>1 DEF BeginDownload
      <4>2. CASE OpenMain(g)
        BY <4>2 DEF OpenMain
      <4>3. CASE OpenStream(g)
        BY <4>3 DEF OpenStream
      <4>4. CASE LandChunk(g)
        BY <4>4 DEF LandChunk, Write
      <4>5. CASE DropCell(g)
        BY <4>5 DEF DropCell
      <4>6. CASE \E i \in ChunkIds, how \in {"done", "half", "none"} : SeekAppend(g, i, how)
        <5>1. PICK i \in ChunkIds, how \in {"done", "half", "none"} : SeekAppend(g, i, how)
          BY <4>6
        <5>2. PICK slots, cells : job' = [job EXCEPT ![g].slots = slots, ![g].cells = cells]
          BY <5>1 DEF SeekAppend
        <5> QED
          BY <5>2
      <4>7. CASE Sync(g)
        BY <4>7 DEF Sync
      <4>8. CASE FinishFile(g)
        <5>1. PICK segs : job' = [job EXCEPT ![g].pc = "finished", ![g].name = segs,
                                              ![g].buffer = <<>>]
          BY <4>8 DEF FinishFile
        <5> QED
          BY <5>1
      <4>9. CASE Adopt(g)
        BY <4>9 DEF Adopt
      <4>10. CASE Record(g)
        BY <4>10 DEF Record
      <4>14. CASE Measure(g)
        <5>1. PICK j : job' = [job EXCEPT ![g] = j]
          BY <4>14, MeasuredJob
        <5> QED
          BY <5>1
      <4>11. CASE \E torn \in BOOLEAN : Keep(g, torn)
        BY <4>11 DEF Keep
      <4>12. CASE DiscardFiles(g)
        BY <4>12 DEF DiscardFiles
      <4>13. CASE PostReset(g)
        BY <4>13 DEF PostReset
      <4> QED
        BY <1>4, <4>1, <4>2, <4>3, <4>4, <4>5, <4>6, <4>7, <4>8, <4>9, <4>10, <4>11, <4>12,
           <4>13, <4>14 DEF Download
    <3> QED
      BY <3>1, <2>1, <1>2, <1>3
  <2>2. CASE g = f
    <3>1. ~(LandChunk(f) \/ DropCell(f) \/ Sync(f) \/ FinishFile(f) \/ Adopt(f) \/ Record(f)
            \/ PostReset(f) \/ BeginDownload(f) \/ OpenStream(f))
      BY DEF LandChunk, DropCell, Sync, FinishFile, Adopt, Record, PostReset, BeginDownload,
             OpenStream
    <3>2. \A i, how : ~SeekAppend(f, i, how)
      BY DEF SeekAppend
    <3>3. \A torn : ~Keep(f, torn)
      BY DEF Keep
    <3>5. ~Measure(f)
      BY DEF Measure
    <3>4. ~DiscardFiles(f)
      <4>1. ASSUME DiscardFiles(f) PROVE FALSE
        <5>1. job' = [job EXCEPT ![f].pc = "reset"] /\ job[f] \in Job
          BY <4>1 DEF DiscardFiles, StoreInv, StoreTyped
        <5>2. job'[f].pc = "reset"
          BY <5>1, <1>1 DEF Job
        <5> QED
          BY <5>2
      <4> QED
        BY <4>1
    <3> QED
      BY <1>4, <2>2, <3>1, <3>2, <3>3, <3>4, <3>5 DEF Download
  <2> QED
    BY <2>1, <2>2
<1>5. ASSUME Tidy PROVE FALSE
  <2>1. CASE SweepPending \/ \E stays \in BOOLEAN : DelPending(stays)
    <3>1. job'[f] = job[f]
      BY <2>1 DEF SweepPending, DelPending, RemovePending, CutOff
    <3> QED
      BY <3>1, <1>1
  <2>2. CASE ~(SweepPending \/ \E stays \in BOOLEAN : DelPending(stays))
    <3>1. job' = job
      BY <2>2, <1>5 DEF Tidy, AskSweep, SweepRows, SweepPool, SweepEnds, CollectEnds, Unlink,
                        EvictRow, DelRow, Evict, DelFiles
    <3> QED
      BY <3>1, <1>2
  <2> QED
    BY <2>1, <2>2
<1>6. ~(\/ Age \/ \E g \in Files : RowArrives(g) \/ Read(g)
        \/ (\E h \in opening : EnterReader(h)) \/ \E h \in reading : CloseReader(h))
  BY <1>2 DEF Age, RowArrives, Read, EnterReader, CloseReader
<1>7. \A power, rebuilt, hit : ~ProgramStops(power, hit, rebuilt)
  <2>1. ASSUME NEW power, NEW rebuilt, NEW hit, ProgramStops(power, hit, rebuilt) PROVE FALSE
    <3>1. job'[f] = Idle
      BY <2>1 DEF ProgramStops, AllIdle
    <3> QED
      BY <3>1, IdleIs
  <2> QED
    BY <2>1
<1>8. CASE UNCHANGED storeVars
  BY <1>8, <1>2 DEF storeVars
<1>9. CASE StoreNext
  BY <1>9, <1>4, <1>5, <1>6, <1>7 DEF StoreNext
<1> QED
  BY <1>8, <1>9

\* It goes on behind all that was synced.
LEMMA StepKeepsSynced ==
  ASSUME StoreInv, [StoreNext]_storeVars
  PROVE  SyncedIsKept
<1>1. SUFFICES ASSUME NEW f \in Files, job[f].pc = "begun", job'[f].pc = "open",
                      pend[job[f].id] # None, f \notin matrix, pend[job[f].id].owner = f,
                      NEW i \in 1..pend[job[f].id].durable, pend[job[f].id].segs[i] # Bad
               PROVE  (i - 1) * Seg + Len(pend[job[f].id].segs[i])
                        <= Len(pend'[job[f].id].segs) * Seg + Len(job'[f].buffer)
  BY DEF SyncedIsKept
<1> DEFINE id == job[f].id
           p == pend[id]
           n == LeadingFull(p.segs)
           held == Held(p.segs)
           k == Len(p.segs)
<1>2. OpenMain(f) /\ StoreTyped /\ IdsAreOwn /\ PendingIsSound /\ Active(f)
  BY <1>1, OnlyOpening DEF StoreInv, Active
<1>3. id \in Ids /\ content \in [Files -> Contents]
  BY <1>2, ActiveIds DEF StoreTyped
<1>4. p \in PendingFile /\ Sound(p) /\ p.segs \in Seq(Pieces) /\ k \in Nat /\ p.durable \in Nat
  <2>1. p \in PendingFile /\ Sound(p)
    BY <1>1, <1>2, <1>3 DEF StoreTyped, PendingIsSound
  <2> QED
    BY <2>1, LenProperties DEF PendingFile
<1>5. /\ n \in Nat /\ n <= k /\ held \in Pieces /\ Len(held) \in Nat
      /\ n * Seg + Len(held) <= Size
      /\ \A m \in 1..n : p.segs[m] = Segment(f, m) /\ Len(p.segs[m]) = Seg
  <2> HIDE DEF p, k
  <2> QED
    BY <1>1, <1>3, <1>4, ResumedIs DEF p, k
<1>6. Len(pend'[id].segs) = n /\ job'[f].buffer = held
  <2> DEFINE q == [p EXCEPT !.segs = Cut(p.segs, 1, n), !.durable = Least(p.durable, n)]
  <2>1. Resumes(f, p)
    BY <1>1, <1>5 DEF Resumes
  <2>2. pend' = [pend EXCEPT ![id].segs = SubSeq(p.segs, 1, n),
                             ![id].durable = Least(p.durable, n)]
    BY <1>2, <2>1 DEF OpenMain
  <2>3. pend' = [pend EXCEPT ![id] = q]
    BY <2>2 DEF Cut
  <2>4. pend'[id] = q
    BY <2>3, <1>2, <1>3 DEF StoreTyped
  <2>5. Len(q.segs) = n
    <3> HIDE DEF p
    <3> QED
      BY <1>3, <1>4, CutBack
  <2>6. PICK slots, cells :
          job' = [job EXCEPT ![f] = [[job[f] EXCEPT !.pc = "open", !.slots = slots, !.cells = cells]
                                       EXCEPT !.buffer = held]]
    BY <1>2, <2>1 DEF OpenMain
  <2>7. job[f] \in Job /\ job = [g \in Files |-> job[g]]
    BY <1>2 DEF StoreTyped
  <2>8. job'[f].buffer = held
    <3> HIDE DEF held
    <3> QED
      BY <2>6, <2>7 DEF Job
  <2> QED
    BY <2>4, <2>5, <2>8
<1> HIDE DEF n, held
<1>7. i \in Nat /\ i >= 1 /\ i <= p.durable /\ p.durable <= k /\ p.segs[i] # Bad
  BY <1>1, <1>4 DEF Sound
<1>8. CASE i <= n
  <2>1. i \in 1..n
    BY <1>5, <1>7, <1>8
  <2>2. Len(p.segs[i]) = Seg
    BY <1>5, <2>1
  <2>3. (i - 1) * Seg + Seg = i * Seg /\ i * Seg \in Int /\ n * Seg \in Int
    BY <1>5, <1>7, SizesAre
  <2>4. i * Seg <= n * Seg
    BY <1>5, <1>7, <1>8, SizesAre, TimesGrows
  <2> HIDE DEF p
  <2>5. (i - 1) * Seg + Len(p.segs[i]) <= n * Seg + Len(held)
    BY <2>2, <2>3, <2>4, <1>5
  <2> QED
    BY <2>5, <1>6 DEF p
<1>9. CASE ~(i <= n)
  <2> DEFINE m == n + 1
  <2>1. n # k /\ m \in 1..k /\ m <= i
    BY <1>5, <1>7, <1>9, <1>4
  <2>2. Len(p.segs[m]) # Seg
    <3>1. LeadingFull(p.segs) = Len(p.segs) \/ Len(p.segs[LeadingFull(p.segs) + 1]) # Seg
      <4> HIDE DEF p
      <4> QED
        BY <1>4, LeadingIs
    <3> QED
      BY <3>1, <2>1 DEF n
  <2>3. i = m /\ k = m
    <3>1. CASE p.segs[m] = Bad
      <4>1. m >= p.durable
        BY <2>1, <3>1, <1>4 DEF Sound
      <4> QED
        BY <4>1, <3>1, <2>1, <1>7, <1>4, <1>5
    <3>2. CASE p.segs[m] # Bad
      <4>1. m = k
        BY <2>1, <2>2, <3>2, <1>4 DEF Sound
      <4> QED
        BY <4>1, <2>1, <1>7, <1>4
    <3> QED
      BY <3>1, <3>2
  <2>4. held = p.segs[i]
    BY <2>3 DEF held, Held, n
  <2>5. i - 1 = n
    BY <2>3, <1>5
  <2> HIDE DEF p, m
  <2>6. n * Seg \in Int /\ (i - 1) * Seg = n * Seg /\ Len(p.segs[i]) = Len(held)
    BY <2>4, <2>5, <1>5, SizesAre
  <2>7. (i - 1) * Seg + Len(p.segs[i]) <= n * Seg + Len(held)
    BY <2>6, <1>5
  <2> QED
    BY <2>7, <1>6 DEF p
<1> QED
  BY <1>8, <1>9, <1>5, <1>7

\* No step takes a complete file that a second row shows, and a download that goes on
\* starts behind all that was synced.
THEOREM StoredBytesAreKept == StoreSpec => BytesAreKept
<1>1. StoreInv /\ Decided /\ [StoreNext]_storeVars => Decided'
  BY StepKeepsDecided
<1>2. StoreInv /\ Decided /\ [StoreNext]_storeVars
        => [ReferencedIsKept /\ SyncedIsKept]_storeVars
  BY StepKeepsReferenced, StepKeepsSynced
<1> QED
  BY <1>1, <1>2, DecidedInit, StoreIsSound, PTL DEF StoreSpec, BytesAreKept
=============================================================================
