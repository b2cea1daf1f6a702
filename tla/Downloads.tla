------------------------------ MODULE Downloads ------------------------------
(***************************************************************************)
(* The download jobs of one file of one server                             *)
(* (wbf-core/src/download_queue.rs): the handlers of the accounts on that  *)
(* server, the claim that makes one of them the downloader, the jobs and   *)
(* waiters they hand to each other, `media.cancel`, and a handler that is  *)
(* stopped.                                                                *)
(*                                                                         *)
(* A handler is one task.  Whoever asks or cancels runs beside it and      *)
(* meets it at two locks, the handler's own `QueueState` and the claims of *)
(* the core; a step here is what happens under one hold of one of them.    *)
(* A handler that is stopped is dropped at its next await.  How a chunk is *)
(* asked for, shared with a seek and retried is ChunkFlight's part: here   *)
(* the job has a request in flight or not, and `gets` says whether some    *)
(* GET waits for the file at this handler.  What the server and the line   *)
(* do with a request is LinkRequests' part.                                *)
(***************************************************************************)
EXTENDS Naturals, FiniteSets

CONSTANTS
  Handlers,    \* the download handlers, one per account (or per login of it)
  Callers,     \* `media.export_to`: each asks once and waits
  Chunks,      \* the file's length
  MayStop,     \* the handlers that may be stopped (logout)
  MaxFaults,   \* bound: failures of the line, the server, the disk
  MaxSeeks,    \* bound: GETs
  MaxUpsets,   \* bound: of these, cancels and stops together
  Nobody

ASSUME Bounds ==
  /\ Chunks \in Nat \ {0} /\ MaxFaults \in Nat /\ MaxSeeks \in Nat /\ MaxUpsets \in Nat
  /\ MayStop \subseteq Handlers /\ Nobody \notin Handlers

VARIABLES
  claim,       \* MediaClaims.held of the file
  complete,    \* the row is complete and its pool file is there
  landed,      \* chunks in the pending file m<id>
  inbox, prep, run, waiters,   \* QueueState of a handler: the job queued, preparing, downloading
  stopped,     \* Shared.stopped
  pc,          \* where the handler's task is
  open, pos, cut,   \* its OpenMedia: the writer's position, the name deleted under it
  flight,      \* the main file's request: "no", "queued" in the line, "sent"
  gets,        \* some GET waits for a chunk of the open file
  target, outcome,  \* whom the job is handed to; how the job ended
  call, at,    \* a caller, and the handler whose queue it goes to
  cancelling, cancels,  \* the handlers `media.cancel` has still to visit; was it called
  faults, seeks,
  late,        \* history: callers that joined a job already ended
  extra        \* history: chunks that landed since the job was cancelled

queue == <<inbox, prep, run, waiters>>
file == <<open, pos, cut>>
wire == <<flight, gets>>
ends == <<target, outcome>>
callers == <<call, at>>
canceller == <<cancelling, cancels>>
bounds == <<faults, seeks>>
past == <<late, extra>>
vars == <<claim, complete, landed, queue, stopped, pc, file, wire, ends, callers, canceller,
          bounds, past>>

\* May another thing happen that nobody has to expect?
Upset == faults + seeks + cancels + Cardinality({h \in Handlers : stopped[h]}) < MaxUpsets

\* Its task's future is dropped, or being dropped.
Dropped(h) == pc[h] \in {"closing", "gone"}

\* The handler's await points, where an abort takes hold.
Awaits(h) == pc[h] \in {"select", "look", "begin", "record"} \/ (pc[h] = "answer" /\ gets[h])

Goto(h, where) == pc' = [pc EXCEPT ![h] = where]

\* continue_main goes back to prepare_download, or to the loop.
Back(h) == IF prep[h] # "no" THEN "unmark" ELSE "top"

----------------------------------------------------------------------------
\* The queue of a handler.

Answer(cs, how) == call' = [c \in Callers |-> IF c \in cs THEN how ELSE call[c]]

Busy(h) == inbox[h] \/ prep[h] # "no" \/ run[h] # "no"

\* A job that has ended and is still marked as preparing.
JustEnded(h) == pc[h] = "unmark" /\ run[h] = "no"

\* enqueue_into.  A job that is there already is joined, also in the moment
\* when it has ended and is still marked as preparing.
EnqueueInto(h, cs) ==
  /\ waiters' = [waiters EXCEPT ![h] = @ \cup cs]
  /\ inbox' = [inbox EXCEPT ![h] = @ \/ ~Busy(h)]
  /\ late' = late \cup IF JustEnded(h) THEN cs ELSE {}

\* The table entry and the waiters go in one hold of the lock.
EndJob(h, how) ==
  /\ run' = [run EXCEPT ![h] = "no"]
  /\ waiters' = [waiters EXCEPT ![h] = {}]
  /\ Answer(waiters[h], how)

Shut(h) ==
  /\ open' = [open EXCEPT ![h] = FALSE]
  /\ pos' = [pos EXCEPT ![h] = 0]
  /\ cut' = [cut EXCEPT ![h] = FALSE]

\* take_open: closed, and the claim released.
Close(h) == Shut(h) /\ claim' = IF claim = h THEN Nobody ELSE claim

\* end_job(Cancelled): the file stays open while a GET waits.
EndCancelled(h) ==
  /\ EndJob(h, "cancelled")
  /\ IF open[h] /\ ~gets[h] THEN Close(h) ELSE UNCHANGED <<file, claim>>

----------------------------------------------------------------------------
\* Asking and cancelling.

\* ensure_queued: what is complete is answered at once.
Ask(c, h) ==
  /\ call[c] = "idle" /\ ~stopped[h]
  /\ at' = [at EXCEPT ![c] = h]
  /\ call' = [call EXCEPT ![c] = IF complete THEN "ok" ELSE "find"]
  /\ UNCHANGED <<claim, complete, landed, queue, stopped, pc, file, wire, ends, canceller, bounds,
                 past>>

\* find_other_downloader: somebody else's claim, and not one who is stopping.
OtherDownloader(h) ==
  IF claim \in {Nobody, h} \/ Dropped(claim) THEN Nobody
  ELSE IF stopped[claim] THEN Nobody ELSE claim

Find(c) ==
  /\ call[c] = "find"
  /\ call' = [call EXCEPT ![c] = "put"]
  /\ at' = [at EXCEPT ![c] = IF OtherDownloader(@) = Nobody THEN @ ELSE OtherDownloader(@)]
  /\ UNCHANGED <<claim, complete, landed, queue, stopped, pc, file, wire, ends, canceller, bounds,
                 past>>

Put(c) ==
  /\ call[c] = "put"
  /\ EnqueueInto(at[c], {c})
  /\ call' = [call EXCEPT ![c] = "waiting"]
  /\ at' = [at EXCEPT ![c] = Nobody]
  /\ UNCHANGED <<claim, complete, landed, prep, run, stopped, pc, file, wire, ends, canceller,
                 bounds, extra>>

StartCancel ==
  /\ cancels = 0 /\ Upset
  /\ cancels' = 1
  /\ cancelling' = {h \in Handlers : ~stopped[h]}
  /\ UNCHANGED <<claim, complete, landed, queue, stopped, pc, file, wire, ends, callers, bounds,
                 past>>

\* Downloader::cancel: a flag for what runs or is being prepared; what is only
\* queued goes, with its waiters.
Cancel(h) ==
  /\ h \in cancelling
  /\ cancelling' = cancelling \ {h}
  /\ run' = [run EXCEPT ![h] = IF @ = "yes" THEN "cancelled" ELSE @]
  /\ prep' = [prep EXCEPT ![h] = IF run[h] = "no" /\ @ = "yes" THEN "cancelled" ELSE @]
  /\ IF inbox[h] /\ run[h] = "no" /\ prep[h] = "no"
       THEN /\ inbox' = [inbox EXCEPT ![h] = FALSE]
            /\ waiters' = [waiters EXCEPT ![h] = {}]
            /\ Answer(waiters[h], "cancelled")
       ELSE UNCHANGED <<inbox, waiters, call>>
  /\ UNCHANGED <<claim, complete, landed, stopped, pc, file, wire, ends, at, cancels, bounds, past>>

----------------------------------------------------------------------------
\* A handler prepares a job.

\* process_inbox: out of the inbox and marked as preparing in one hold.
Take(h) ==
  /\ pc[h] = "top" /\ inbox[h]
  /\ inbox' = [inbox EXCEPT ![h] = FALSE]
  /\ prep' = [prep EXCEPT ![h] = "yes"]
  /\ Goto(h, IF run[h] # "no" THEN "unmark" ELSE IF open[h] THEN "opened" ELSE "look")
  /\ UNCHANGED <<claim, complete, landed, run, waiters, stopped, file, wire, ends, callers,
                 canceller, bounds, past>>

\* find_complete_entry: an await on the cache.
Look(h) ==
  /\ pc[h] = "look"
  /\ IF complete
       THEN EndJob(h, "ok") /\ Goto(h, "unmark")
       ELSE Goto(h, "claim") /\ UNCHANGED <<run, waiters, call>>
  /\ UNCHANGED <<claim, complete, landed, inbox, prep, stopped, file, wire, ends, at, canceller,
                 bounds, past>>

\* Mutant: the claim goes by the account, so everybody gets it.
ClaimAnyway(h) ==
  /\ pc[h] = "claim"
  /\ claim' = h
  /\ Goto(h, "begin")
  /\ UNCHANGED <<complete, landed, queue, stopped, file, wire, ends, callers, canceller, bounds,
                 past>>

\* open_media: MediaClaims::claim.
Claim(h) ==
  /\ pc[h] = "claim"
  /\ IF claim \in {Nobody, h}
       THEN claim' = h /\ Goto(h, "begin")
       ELSE claim' = claim /\ Goto(h, "denied")
  /\ UNCHANGED <<complete, landed, queue, stopped, file, wire, ends, callers, canceller, bounds,
                 past>>

\* begin_row is an await on the cache; then the pending file is resumed or made.
Begin(h) ==
  /\ pc[h] = "begin"
  /\ open' = [open EXCEPT ![h] = TRUE]
  /\ pos' = [pos EXCEPT ![h] = landed]
  /\ cut' = [cut EXCEPT ![h] = FALSE]
  /\ Goto(h, "opened")
  /\ UNCHANGED <<claim, complete, landed, queue, stopped, wire, ends, callers, canceller, bounds,
                 past>>

Fault == faults < MaxFaults /\ Upset /\ faults' = faults + 1

BeginFails(h) ==
  /\ pc[h] = "begin"
  /\ Fault
  /\ claim' = Nobody
  /\ EndJob(h, "failed")
  /\ Goto(h, "unmark")
  /\ UNCHANGED <<complete, landed, inbox, prep, stopped, file, wire, ends, at, canceller, seeks,
                 past>>

\* is_cancelled_while_preparing, after the file was opened.
Opened(h) ==
  /\ pc[h] = "opened"
  /\ IF prep[h] = "cancelled"
       THEN EndCancelled(h) /\ Goto(h, "unmark")
       ELSE Goto(h, "start") /\ UNCHANGED <<run, waiters, call, file, claim>>
  /\ UNCHANGED <<complete, landed, inbox, prep, stopped, wire, ends, at, canceller, bounds, past>>

\* start_job: into the downloading table.
Start(h) ==
  /\ pc[h] = "start"
  /\ run' = [run EXCEPT ![h] = "yes"]
  /\ extra' = [extra EXCEPT ![h] = 0]
  /\ Goto(h, "main")
  /\ UNCHANGED <<claim, complete, landed, inbox, prep, waiters, stopped, file, wire, ends, callers,
                 canceller, bounds, late>>

\* The same check when another handler has the claim.
Denied(h) ==
  /\ pc[h] = "denied"
  /\ IF prep[h] = "cancelled"
       THEN EndJob(h, "cancelled") /\ Goto(h, "unmark")
       ELSE Goto(h, "handing") /\ UNCHANGED <<run, waiters, call>>
  /\ UNCHANGED <<claim, complete, landed, inbox, prep, stopped, file, wire, ends, at, canceller,
                 bounds, past>>

\* Mutant: with nobody to hand it to, the job is dropped without a word.
FindOtherSilently(h) ==
  /\ pc[h] = "handing"
  /\ target' = [target EXCEPT ![h] = OtherDownloader(h)]
  /\ Goto(h, IF OtherDownloader(h) = Nobody THEN "unmark" ELSE "give")
  /\ UNCHANGED <<claim, complete, landed, queue, stopped, file, wire, outcome, callers, canceller,
                 bounds, past>>

\* hand_over: to the one who has the claim, if it is not just stopping.
FindOther(h) ==
  /\ pc[h] = "handing"
  /\ IF OtherDownloader(h) = Nobody
       THEN EndJob(h, "failed") /\ Goto(h, "unmark") /\ UNCHANGED target
       ELSE /\ target' = [target EXCEPT ![h] = OtherDownloader(h)]
            /\ Goto(h, "give")
            /\ UNCHANGED <<run, waiters, call>>
  /\ UNCHANGED <<claim, complete, landed, inbox, prep, stopped, file, wire, outcome, at, canceller,
                 bounds, past>>

\* The waiters leave this queue and join the other's.
Given(h) == [waiters EXCEPT ![h] = {}, ![target[h]] = @ \cup waiters[h]]

Give(h) ==
  /\ pc[h] = "give"
  /\ waiters' = Given(h)
  /\ inbox' = [inbox EXCEPT ![target[h]] = @ \/ ~Busy(target[h])]
  /\ late' = late \cup IF JustEnded(target[h]) THEN waiters[h] ELSE {}
  /\ target' = [target EXCEPT ![h] = Nobody]
  /\ Goto(h, "unmark")
  /\ UNCHANGED <<claim, complete, landed, prep, run, stopped, file, wire, outcome, callers,
                 canceller, bounds, extra>>

\* process_download_job: the mark goes; a cancel that came too late for the
\* checks above is passed on to the job if it has started.
Unmark(h) ==
  /\ pc[h] = "unmark"
  /\ prep' = [prep EXCEPT ![h] = "no"]
  /\ run' = [run EXCEPT ![h] = IF prep[h] = "cancelled" /\ @ = "yes" THEN "cancelled" ELSE @]
  /\ Goto(h, "top")
  /\ UNCHANGED <<claim, complete, landed, inbox, waiters, stopped, file, wire, ends, callers,
                 canceller, bounds, past>>

----------------------------------------------------------------------------
\* A handler downloads.

\* Mutant: the flag is not looked at.
GoOnAnyway(h) ==
  /\ pc[h] = "main"
  /\ run[h] # "no"
  /\ Goto(h, "next")
  /\ UNCHANGED <<claim, complete, landed, queue, stopped, file, wire, ends, callers, canceller,
                 bounds, past>>

\* continue_main looks at the flag of the job; from here to what it does next a
\* cancel is no longer seen.
GoOn(h) ==
  /\ pc[h] = "main"
  /\ run[h] = "yes"
  /\ Goto(h, "next")
  /\ UNCHANGED <<claim, complete, landed, queue, stopped, file, wire, ends, callers, canceller,
                 bounds, past>>

ContinueCancelled(h) ==
  /\ pc[h] = "main"
  /\ run[h] = "cancelled"
  /\ EndCancelled(h)
  /\ Goto(h, Back(h))
  /\ UNCHANGED <<complete, landed, inbox, prep, stopped, wire, ends, at, canceller, bounds, past>>

\* The next request (a chunk that a seek has brought is ChunkFlight's part).
Continue(h) ==
  /\ pc[h] = "next"
  /\ pos[h] < Chunks
  /\ flight' = [flight EXCEPT ![h] = "queued"]
  /\ Goto(h, Back(h))
  /\ UNCHANGED <<claim, complete, landed, queue, stopped, file, gets, ends, callers, canceller,
                 bounds, past>>

\* finish_job: the file is moved into the pool and the row's write is queued
\* with the cache's writer, who does it whatever becomes of this task.
Finish(h) ==
  /\ pc[h] = "next"
  /\ pos[h] = Chunks /\ ~cut[h]
  /\ complete' = TRUE /\ landed' = 0
  /\ outcome' = [outcome EXCEPT ![h] = "ok"]
  /\ Shut(h)
  /\ Goto(h, "record")
  /\ UNCHANGED <<claim, queue, stopped, wire, target, callers, canceller, bounds, past>>

\* The pending file cannot be moved, because its name is gone or the disk says so.
FinishFails(h) ==
  /\ pc[h] = "next"
  /\ pos[h] = Chunks
  /\ IF cut[h] THEN UNCHANGED faults ELSE Fault
  /\ outcome' = [outcome EXCEPT ![h] = "failed"]
  /\ Shut(h)
  /\ complete' = FALSE
  /\ Goto(h, "release")
  /\ UNCHANGED <<claim, landed, queue, stopped, wire, target, callers, canceller, seeks, past>>

\* The file is in the pool and the row's write fails: a job that failed, and no
\* pending file to go on from.
RecordFails(h) ==
  /\ pc[h] = "next"
  /\ pos[h] = Chunks /\ ~cut[h]
  /\ Fault
  /\ landed' = 0
  /\ outcome' = [outcome EXCEPT ![h] = "failed"]
  /\ Shut(h)
  /\ Goto(h, "record")
  /\ UNCHANGED <<claim, complete, queue, stopped, wire, target, callers, canceller, seeks, past>>

\* record_finished came back.
Recorded(h) ==
  /\ pc[h] = "record"
  /\ Goto(h, "release")
  /\ UNCHANGED <<claim, complete, landed, queue, stopped, file, wire, ends, callers, canceller,
                 bounds, past>>

Release(h) ==
  /\ pc[h] = "release"
  /\ claim' = IF claim = h THEN Nobody ELSE claim
  /\ Goto(h, "answer")
  /\ UNCHANGED <<complete, landed, queue, stopped, file, wire, ends, callers, canceller, bounds,
                 past>>

\* answer_seeks_from_pool and end_job.
AnswerAll(h) ==
  /\ pc[h] = "answer"
  /\ gets' = [gets EXCEPT ![h] = FALSE]
  /\ EndJob(h, outcome[h])
  /\ outcome' = [outcome EXCEPT ![h] = "ok"]
  /\ Goto(h, Back(h))
  /\ UNCHANGED <<claim, complete, landed, inbox, prep, stopped, file, flight, target, at, canceller,
                 bounds, past>>

----------------------------------------------------------------------------
\* A handler between two events.

Stops(h) == run[h] = "cancelled" /\ flight[h] # "sent"

\* handle_cancellations: a request that is still queued is withdrawn; what is
\* sent is waited for.  close_idle_without_job: a file with no job and no GET.
Settle(h) ==
  /\ pc[h] = "top" /\ ~inbox[h]
  /\ IF Stops(h) THEN EndJob(h, "cancelled") ELSE UNCHANGED <<run, waiters, call>>
  /\ flight' = [flight EXCEPT ![h] = IF Stops(h) THEN "no" ELSE @]
  /\ IF open[h] /\ ~gets[h] /\ run'[h] = "no" THEN Close(h) ELSE UNCHANGED <<file, claim>>
  /\ Goto(h, "select")
  /\ UNCHANGED <<complete, landed, inbox, prep, stopped, gets, ends, at, canceller, bounds, past>>

\* The permit of the Notify.
Wake(h) ==
  /\ pc[h] = "select"
  /\ inbox[h] \/ Stops(h)
  /\ Goto(h, "top")
  /\ UNCHANGED <<claim, complete, landed, queue, stopped, file, wire, ends, callers, canceller,
                 bounds, past>>

----------------------------------------------------------------------------
\* What comes back for a request.

Send(h) ==
  /\ flight[h] = "queued"
  /\ flight' = [flight EXCEPT ![h] = "sent"]
  /\ UNCHANGED <<claim, complete, landed, queue, stopped, pc, file, gets, ends, callers, canceller,
                 bounds, past>>

\* The sender's time with a request that the handler has lost interest in is its own.
MainReply(h) == pc[h] = "select" /\ flight[h] = "sent"

\* chunk_arrived: the chunk is written, whether the job is cancelled or not.
Land(h) ==
  /\ MainReply(h)
  /\ pos' = [pos EXCEPT ![h] = @ + 1]
  /\ landed' = IF cut[h] THEN landed ELSE pos[h] + 1
  /\ flight' = [flight EXCEPT ![h] = "no"]
  /\ extra' = [extra EXCEPT ![h] = IF run[h] = "cancelled" THEN @ + 1 ELSE @]
  /\ Goto(h, "main")
  /\ UNCHANGED <<claim, complete, queue, stopped, open, cut, gets, ends, callers, canceller, bounds,
                 late>>

\* Mutant: the main file's request goes with the GETs'.
LineFailsForAll(h) ==
  /\ MainReply(h)
  /\ Fault
  /\ flight' = [flight EXCEPT ![h] = "no"]
  /\ gets' = [gets EXCEPT ![h] = FALSE]
  /\ Goto(h, "top")
  /\ UNCHANGED <<claim, complete, landed, queue, stopped, file, ends, callers, canceller, seeks,
                 past>>

\* The line broke: the main file's request goes back in front, the GETs get the error.
LineFails(h) ==
  /\ MainReply(h)
  /\ Fault
  /\ flight' = [flight EXCEPT ![h] = "queued"]
  /\ gets' = [gets EXCEPT ![h] = FALSE]
  /\ Goto(h, "top")
  /\ UNCHANGED <<claim, complete, landed, queue, stopped, file, ends, callers, canceller, seeks,
                 past>>

\* fail_media without discard: too many time-outs, a refusal for now, no space.
FailKept(h) ==
  /\ MainReply(h)
  /\ Fault
  /\ Close(h)
  /\ flight' = [flight EXCEPT ![h] = "no"]
  /\ gets' = [gets EXCEPT ![h] = FALSE]
  /\ EndJob(h, "failed")
  /\ Goto(h, "top")
  /\ UNCHANGED <<complete, landed, inbox, prep, stopped, ends, at, canceller, seeks, past>>

\* fail_media with discard, for the job's request or for a GET's: a bad chunk, or
\* the server has no such file.  take_open releases the claim first.
FailBad(h) ==
  /\ pc[h] = "select" /\ open[h]
  /\ flight[h] = "sent" \/ gets[h]
  /\ Fault
  /\ Close(h)
  /\ flight' = [flight EXCEPT ![h] = "no"]
  /\ gets' = [gets EXCEPT ![h] = FALSE]
  /\ Goto(h, "discard")
  /\ UNCHANGED <<complete, landed, queue, stopped, ends, callers, canceller, seeks, past>>

\* Then the pending file is deleted by its name, and the row is reset.
Discard(h) ==
  /\ pc[h] = "discard"
  /\ landed' = 0 /\ complete' = FALSE
  /\ cut' = [g \in Handlers |-> cut[g] \/ open[g]]
  /\ EndJob(h, "failed")
  /\ Goto(h, "top")
  /\ UNCHANGED <<claim, inbox, prep, stopped, open, pos, wire, ends, at, canceller, bounds, past>>

\* A GET that finds the file open here, and its chunk not.
SeekComes(h) ==
  /\ pc[h] = "select" /\ open[h]
  /\ seeks < MaxSeeks /\ Upset
  /\ seeks' = seeks + 1
  /\ gets' = [gets EXCEPT ![h] = TRUE]
  /\ Goto(h, "top")
  /\ UNCHANGED <<claim, complete, landed, queue, stopped, file, flight, ends, callers, canceller,
                 faults, past>>

\* Its chunk, or an error of its own.
SeekEnds(h) ==
  /\ pc[h] = "select" /\ gets[h]
  /\ gets' = [gets EXCEPT ![h] = FALSE]
  /\ Goto(h, "top")
  /\ UNCHANGED <<claim, complete, landed, queue, stopped, file, flight, ends, callers, canceller,
                 bounds, past>>

----------------------------------------------------------------------------
\* The end of a handler.

\* stop_downloader_of: out of the map, and the task aborted.
Stop(h) ==
  /\ h \in MayStop /\ ~stopped[h] /\ Upset
  /\ stopped' = [stopped EXCEPT ![h] = TRUE]
  /\ UNCHANGED <<claim, complete, landed, queue, pc, file, wire, ends, callers, canceller, bounds,
                 past>>

\* Drop for DownloadHandler, close_everything: the claims of what is open or
\* being opened.
Drop(h) ==
  /\ stopped[h] /\ Awaits(h)
  /\ IF open[h] \/ pc[h] = "begin" THEN Close(h) ELSE UNCHANGED <<file, claim>>
  /\ flight' = [flight EXCEPT ![h] = "no"]
  /\ gets' = [gets EXCEPT ![h] = FALSE]
  /\ Goto(h, "closing")
  /\ UNCHANGED <<complete, landed, queue, stopped, ends, callers, canceller, bounds, past>>

\* Everything in its queue gets an error.
Drain(h) ==
  /\ pc[h] = "closing"
  /\ inbox' = [inbox EXCEPT ![h] = FALSE]
  /\ prep' = [prep EXCEPT ![h] = "no"]
  /\ EndJob(h, "failed")
  /\ Goto(h, "gone")
  /\ UNCHANGED <<claim, complete, landed, stopped, file, wire, ends, at, canceller, bounds, past>>

\* Who put a job there later still holds the queue; the waiters go with it.
Holds(h) == (\E c \in Callers : call[c] = "put" /\ at[c] = h) \/ (\E g \in Handlers : target[g] = h)

Free(h) ==
  /\ pc[h] = "gone" /\ waiters[h] # {} /\ ~Holds(h)
  /\ waiters' = [waiters EXCEPT ![h] = {}]
  /\ inbox' = [inbox EXCEPT ![h] = FALSE]
  /\ Answer(waiters[h], "failed")
  /\ UNCHANGED <<claim, complete, landed, prep, run, stopped, pc, file, wire, ends, at, canceller,
                 bounds, past>>

----------------------------------------------------------------------------
Init ==
  /\ claim = Nobody /\ complete = FALSE /\ landed = 0
  /\ inbox = [h \in Handlers |-> FALSE] /\ prep = [h \in Handlers |-> "no"]
  /\ run = [h \in Handlers |-> "no"] /\ waiters = [h \in Handlers |-> {}]
  /\ stopped = [h \in Handlers |-> FALSE] /\ pc = [h \in Handlers |-> "top"]
  /\ open = [h \in Handlers |-> FALSE] /\ pos = [h \in Handlers |-> 0]
  /\ cut = [h \in Handlers |-> FALSE]
  /\ flight = [h \in Handlers |-> "no"] /\ gets = [h \in Handlers |-> FALSE]
  /\ target = [h \in Handlers |-> Nobody] /\ outcome = [h \in Handlers |-> "ok"]
  /\ call = [c \in Callers |-> "idle"] /\ at = [c \in Callers |-> Nobody]
  /\ cancelling = {} /\ cancels = 0 /\ faults = 0 /\ seeks = 0
  /\ late = {} /\ extra = [h \in Handlers |-> 0]

Caller(c) == Find(c) \/ Put(c)

Prepare(h) ==
  \/ Take(h) \/ Look(h) \/ Claim(h) \/ Begin(h) \/ Opened(h) \/ Start(h)
  \/ Denied(h) \/ FindOther(h) \/ Give(h) \/ Unmark(h)

Work(h) ==
  \/ GoOn(h) \/ ContinueCancelled(h) \/ Continue(h) \/ Finish(h) \/ FinishFails(h)
  \/ RecordFails(h) \/ Recorded(h) \/ Release(h) \/ AnswerAll(h) \/ Settle(h) \/ Wake(h)
  \/ Discard(h)

Handler(h) == Prepare(h) \/ BeginFails(h) \/ Work(h)

Reply(h) == Land(h) \/ LineFails(h) \/ FailKept(h) \/ FailBad(h)

End(h) == Drop(h) \/ Drain(h) \/ Free(h)

Next ==
  \/ \E c \in Callers : Caller(c) \/ \E h \in Handlers : Ask(c, h)
  \/ StartCancel
  \/ \E h \in Handlers :
       \/ Cancel(h) \/ Handler(h) \/ Send(h) \/ Reply(h) \/ SeekComes(h) \/ SeekEnds(h)
       \/ Stop(h) \/ End(h)

Spec == Init /\ [][Next]_vars

\* Tasks run when they can, and a request that is sent comes back (LinkRequests).
\* Nothing is assumed of who asks, cancels, seeks and stops.
FairSpec ==
  /\ Spec
  /\ \A c \in Callers : WF_vars(Caller(c))
  /\ \A h \in Handlers : /\ WF_vars(Handler(h)) /\ WF_vars(Send(h)) /\ WF_vars(End(h))
                         /\ SF_vars(Reply(h)) /\ SF_vars(SeekEnds(h))

----------------------------------------------------------------------------
Places == {"top", "select", "look", "claim", "begin", "opened", "start", "denied", "handing",
           "give", "unmark", "main", "next", "record", "release", "answer", "discard",
           "closing", "gone"}

\* One downloader: whoever is opening the pending file, has it open, or has not
\* yet recorded what became of it, holds the claim; so no two handlers do.
Works(h) == open[h] \/ pc[h] \in {"begin", "record", "release"}

WorkerHoldsClaim == \A h \in Handlers : Works(h) => claim = h

\* A claim is not forgotten: a handler that lives and holds it is at work under
\* it, whatever was cancelled, failed, or sought meanwhile.
ClaimIsUsed == claim # Nobody /\ ~Dropped(claim) => Works(claim)

\* Both: the claim and the work on the file go together.
ClaimsMeetWork == WorkerHoldsClaim /\ ClaimIsUsed

\* A job in the table is never left alone: an idle handler has a request out for
\* it, so its next reply goes on with it.
JobIsAsked ==
  \A h \in Handlers : pc[h] = "select" => (run[h] # "no" <=> flight[h] # "no")

\* After a cancel at most one more chunk lands, wherever the handler was when it
\* came: the one that is out, or the one it had already decided to ask for.  A
\* queued request is withdrawn, and what lands finds the flag before the next.
CancelStops == \A h \in Handlers : extra[h] <= 1

\* A caller that waits is with exactly one handler, wherever its job was handed.
Whereabouts(c) == {h \in Handlers : c \in waiters[h]}

\* A caller is told something, whatever becomes of the job and its handler,
\* unless it joined a job in the moment between its end and its unmarking.
Told(c) == call[c] = "waiting" ~> (call[c] # "waiting" \/ c \in late)

EveryoneIsTold == \A c \in Callers : Told(c)
=============================================================================
