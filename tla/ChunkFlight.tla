----------------------------- MODULE ChunkFlight -----------------------------
(***************************************************************************)
(* One file at one download handler (wbf-core/src/download_queue.rs): the  *)
(* requests in flight for it, shared by the job that writes the pending    *)
(* file and by the GETs that seek in it, and what the handler does with    *)
(* each reply.                                                             *)
(*                                                                         *)
(* The handler is one task; between its awaits only the line's sender and  *)
(* a cancel run beside it.  How a job comes to this handler and ends at    *)
(* another is Downloads' part, and how a request goes out, comes back and  *)
(* may come back late is LinkRequests' part: here a request is queued or   *)
(* out, possibly twice, and each copy that is out comes back once.  A      *)
(* request in the sender's hand counts as out.                             *)
(***************************************************************************)
EXTENDS Naturals, FiniteSets

CONSTANTS
  N,           \* chunks of the file
  Gets,        \* the GETs, each for one position
  MaxJobs,     \* bound: how often the file is asked for
  MaxFaults    \* bound: replies that are not the plain good one

ASSUME Bounds == N \in Nat \ {0} /\ MaxJobs \in Nat /\ MaxFaults \in Nat

Chunks == 0 .. N - 1
Info == N                       \* Download/Info, next to the Reads of the chunks
Requests == Chunks \cup {Info}
Nothing == N + 1

VARIABLES
  job, ended,     \* the entry in `downloading`; how the last job ended
  open, known,    \* it is in `open`; its block was verified by Info
  next, stash,    \* on disk: the position of the pending file, the chunks in its .seek
  complete,       \* in the pool, and the row says so
  only,           \* its entry in `seek_only`: "no", "new" or "verified"
  entry,          \* the keys of in_flight
  main, gets,     \* who waits: the request of the main file, the GETs of each request
  timeouts, bad,  \* InFlight.retries
  queued, out,    \* copies of a request waiting in the line, and sent
  get, wants,     \* a GET, and its chunk
  pc,             \* the handler's task
  jobs, faults

flight == <<entry, main, gets, timeouts, bad>>
disk == <<next, stash, complete>>
vars == <<job, ended, open, known, disk, only, flight, queued, out, get, wants, pc, jobs, faults>>

----------------------------------------------------------------------------
\* The tables.

\* The pending file's sealed part, or its .seek.
Local(c) == c < next \/ c \in stash

Tell(gs, how) == get' = [g \in Gets |-> IF g \in gs THEN how ELSE get[g]]

Waiting == UNION {gets[r] : r \in Requests}

\* Drop entries, with the counts of their retries.
Forget(rs) ==
  /\ timeouts' = [r \in Requests |-> IF r \in rs THEN 0 ELSE timeouts[r]]
  /\ bad' = [r \in Requests |-> IF r \in rs THEN 0 ELSE bad[r]]

\* want: a request in flight is joined, for a GET also brought to the front;
\* a new one is queued.
Queue(rs, there) ==
  [r \in Requests |->
     IF r \notin rs THEN queued[r]
     ELSE IF r \notin there THEN queued[r] + 1
     ELSE IF queued[r] > 0 THEN 1 ELSE 0]

\* resend: the same entry, to the front.
Resend(r) == queued' = [queued EXCEPT ![r] = @ + 1]

----------------------------------------------------------------------------
\* The end of a job.

End(how) == job' = "none" /\ ended' = how

\* Mutant: the GETs are not told.
FailSilently(discard) ==
  /\ entry' = {} /\ main' = Nothing /\ gets' = [r \in Requests |-> {}]
  /\ Forget(Requests)
  /\ Tell({}, "failed")
  /\ queued' = [r \in Requests |-> IF r \in entry THEN 0 ELSE queued[r]]
  /\ open' = FALSE /\ known' = FALSE
  /\ IF discard /\ open THEN next' = 0 /\ stash' = {} ELSE UNCHANGED <<next, stash>>
  /\ IF job # "none" THEN End("failed") ELSE UNCHANGED <<job, ended>>

\* fail_media: its requests are withdrawn, its GETs get the error; the file is
\* closed, and deleted if it is bad or not to be had.
Fail(discard) ==
  /\ entry' = {} /\ main' = Nothing /\ gets' = [r \in Requests |-> {}]
  /\ Forget(Requests)
  /\ Tell(Waiting, "failed")
  /\ queued' = [r \in Requests |-> IF r \in entry THEN 0 ELSE queued[r]]
  /\ open' = FALSE /\ known' = FALSE
  /\ IF discard /\ open THEN next' = 0 /\ stash' = {} ELSE UNCHANGED <<next, stash>>
  /\ IF job # "none" THEN End("failed") ELSE UNCHANGED <<job, ended>>

\* Only the GETs of this request get the error.
AnswerSeeks(r) ==
  /\ entry' = entry \ {r}
  /\ gets' = [gets EXCEPT ![r] = {}]
  /\ Forget({r})
  /\ Tell(gets[r], "failed")

----------------------------------------------------------------------------
\* The handler between two events.

\* A job comes in: the file is opened, and what was known for seeks alone goes.
StartJob ==
  /\ pc = "top" /\ job = "none" /\ ~complete
  /\ jobs < MaxJobs
  /\ jobs' = jobs + 1
  /\ job' = "running"
  /\ open' = TRUE
  /\ only' = IF open THEN only ELSE "no"
  /\ pc' = "main"
  /\ UNCHANGED <<ended, known, disk, flight, queued, out, get, wants, faults>>

\* media.cancel sets the flag, beside the handler.
Cancel ==
  /\ job = "running"
  /\ job' = "cancelled"
  /\ UNCHANGED <<ended, open, known, disk, only, flight, queued, out, get, wants, pc, jobs, faults>>

\* handle_cancellations: withdrawn in time, or nothing asked for.
MayEnd == job = "cancelled" /\ (main = Nothing \/ queued[main] > 0)

\* The main file's request is withdrawn; if a GET waits for it too it is queued
\* again for that one.
EndCancelled ==
  LET shared == main # Nothing /\ gets[main] # {} IN
  /\ End("cancelled")
  /\ main' = Nothing
  /\ entry' = IF shared THEN entry ELSE entry \ {main}
  /\ gets' = gets
  /\ Forget(IF shared THEN {} ELSE {main})
  /\ queued' = [r \in Requests |-> IF r = main THEN IF shared THEN 1 ELSE 0 ELSE queued[r]]

\* close_idle_without_job: no job and no request of a GET.
Settle ==
  /\ pc = "top"
  /\ IF MayEnd THEN EndCancelled ELSE UNCHANGED <<job, ended, flight, queued>>
  /\ open' = (open /\ ~(job' = "none" /\ entry' = {}))
  /\ known' = (known /\ open')
  /\ pc' = "select"
  /\ UNCHANGED <<disk, only, out, get, wants, jobs, faults>>

\* Other files' seeks push this one's entry out.
Evict ==
  /\ pc = "select" /\ only # "no" /\ entry = {}
  /\ only' = "no"
  /\ UNCHANGED <<job, ended, open, known, disk, flight, queued, out, get, wants, pc, jobs, faults>>

\* A job in the inbox, or the permit of a cancel.
Wake ==
  /\ pc = "select"
  /\ MayEnd \/ (job = "none" /\ jobs < MaxJobs /\ ~complete)
  /\ pc' = "top"
  /\ UNCHANGED <<job, ended, open, known, disk, only, flight, queued, out, get, wants, jobs, faults>>

----------------------------------------------------------------------------
\* continue_main.

Unwritten == pc = "main" /\ job = "running" /\ next < N

\* Info before the first chunk, joined if a GET has asked for it.
Want(r) ==
  /\ entry' = entry \cup {r}
  /\ main' = r
  /\ queued' = IF r \in entry THEN queued ELSE [queued EXCEPT ![r] = @ + 1]
  /\ pc' = "top"
  /\ UNCHANGED <<job, ended, open, known, disk, only, gets, timeouts, bad, out, get, wants, jobs,
                 faults>>

AskInfo == Unwritten /\ ~known /\ Want(Info)

AskChunk == Unwritten /\ known /\ next \notin stash /\ Want(next)

\* advance_from_seek_store: a chunk that a GET brought is moved over.
Move ==
  /\ Unwritten /\ known /\ next \in stash
  /\ next' = next + 1
  /\ UNCHANGED <<job, ended, open, known, stash, complete, only, flight, queued, out, get, wants, pc,
                 jobs, faults>>

\* The flag is seen before the next request.
StopMain ==
  /\ pc = "main" /\ job = "cancelled"
  /\ End("cancelled")
  /\ open' = (entry # {})
  /\ known' = (known /\ open')
  /\ pc' = "top"
  /\ UNCHANGED <<disk, only, flight, queued, out, get, wants, jobs, faults>>

\* finish_job: the file is in the pool, and the GETs are answered from there.
Finish ==
  /\ pc = "main" /\ job = "running" /\ next = N
  /\ End("ok")
  /\ complete' = TRUE
  /\ open' = FALSE /\ known' = FALSE
  /\ entry' = {} /\ gets' = [r \in Requests |-> {}] /\ main' = Nothing
  /\ Forget(Requests)
  /\ queued' = [r \in Requests |-> IF r \in entry THEN 0 ELSE queued[r]]
  /\ Tell(Waiting, "ok")
  /\ pc' = "top"
  /\ UNCHANGED <<next, stash, only, out, wants, jobs, faults>>

----------------------------------------------------------------------------
\* A GET.

Join(gs, rs) == [r \in Requests |-> IF r \in rs THEN gets[r] \cup gs ELSE gets[r]]

\* process_seek: what is here is given.
SeekLocal(g, c) ==
  /\ pc = "select" /\ get[g] = "idle"
  /\ complete \/ (open /\ Local(c))
  /\ Tell({g}, "ok")
  /\ wants' = [wants EXCEPT ![g] = c]
  /\ pc' = "top"
  /\ UNCHANGED <<job, ended, open, known, disk, only, flight, queued, out, jobs, faults>>

\* What is not is asked for, after Info if the block was not verified yet.  A
\* file that this handler does not download is not opened.
SeekRemote(g, c) ==
  LET r == IF known \/ (~open /\ only = "verified") THEN c ELSE Info IN
  /\ pc = "select" /\ get[g] = "idle"
  /\ ~complete /\ ~(open /\ Local(c))
  /\ Tell({g}, "waiting")
  /\ wants' = [wants EXCEPT ![g] = c]
  /\ only' = IF ~open /\ only = "no" THEN "new" ELSE only
  /\ entry' = entry \cup {r}
  /\ gets' = Join({g}, {r})
  /\ queued' = Queue({r}, entry)
  /\ pc' = "top"
  /\ UNCHANGED <<job, ended, open, known, disk, main, timeouts, bad, out, jobs, faults>>

----------------------------------------------------------------------------
\* A reply.

Comes(r) ==
  /\ pc = "select" /\ out[r] > 0
  /\ out' = [out EXCEPT ![r] = @ - 1]

\* Nobody waits for it any more.
Stale(r) ==
  /\ Comes(r) /\ r \notin entry
  /\ UNCHANGED <<job, ended, open, known, disk, only, flight, queued, get, wants, pc, jobs, faults>>

\* info_arrived: the main file goes on, and each GET asks for its chunk.
InfoArrives ==
  LET here == {g \in gets[Info] : open /\ Local(wants[g])}
      rest == gets[Info] \ here
      asks == {wants[g] : g \in rest}
  IN
  /\ Comes(Info) /\ Info \in entry
  /\ open \/ only # "no"
  /\ known' = open
  /\ only' = IF open THEN only ELSE "verified"
  /\ entry' = (entry \ {Info}) \cup asks
  /\ gets' = [r \in Requests |-> IF r = Info THEN {}
                                 ELSE gets[r] \cup {g \in rest : wants[g] = r}]
  /\ main' = IF main = Info THEN Nothing ELSE main
  /\ Forget({Info})
  /\ queued' = Queue(asks, entry)
  /\ Tell(here, "ok")
  /\ pc' = IF main = Info THEN "main" ELSE "top"
  /\ UNCHANGED <<job, ended, open, disk, wants, jobs, faults>>

\* chunk_arrived: written to the pending file if the job waits for it, to the
\* .seek otherwise, and given to each GET.
ChunkArrives(c) ==
  /\ Comes(c) /\ c \in entry /\ open /\ known
  /\ IF main = c THEN next' = next + 1 /\ stash' = stash
                 ELSE next' = next /\ stash' = stash \cup {c}
  /\ main' = IF main = c THEN Nothing ELSE main
  /\ entry' = entry \ {c} /\ gets' = [gets EXCEPT ![c] = {}] /\ Forget({c})
  /\ Tell(gets[c], "ok")
  /\ pc' = IF main = c THEN "main" ELSE "top"
  /\ UNCHANGED <<job, ended, open, known, complete, only, queued, wants, jobs, faults>>

\* Only sought: given, and nothing is written.
ChunkPasses(c) ==
  /\ Comes(c) /\ c \in entry /\ ~open /\ only = "verified"
  /\ entry' = entry \ {c} /\ gets' = [gets EXCEPT ![c] = {}] /\ Forget({c})
  /\ Tell(gets[c], "ok")
  /\ pc' = "top"
  /\ UNCHANGED <<job, ended, open, known, disk, only, main, queued, wants, jobs, faults>>

\* The file is neither open nor sought: the GETs hear that the downloader is gone.
Unknown(r) ==
  /\ Comes(r) /\ r \in entry /\ ~open
  /\ IF r = Info THEN only = "no" ELSE only # "verified"
  /\ AnswerSeeks(r)
  /\ only' = "no"
  /\ pc' = "top"
  /\ UNCHANGED <<job, ended, open, known, disk, main, queued, wants, jobs, faults>>

\* A chunk asked for by GETs alone, when a job has opened the file since and its
\* Info is still out: open_chunk's Err(Usage) is no bad chunk, and fails the file.
ChunkTooEarly(c) ==
  /\ Comes(c) /\ c \in entry /\ open /\ ~known
  /\ Fail(TRUE)
  /\ pc' = "top"
  /\ UNCHANGED <<complete, only, wants, jobs, faults>>

Fault == faults < MaxFaults /\ faults' = faults + 1

Again(r) ==
  /\ Resend(r)
  /\ UNCHANGED <<job, ended, open, known, disk, only, entry, main, gets, get, wants, jobs>>

\* A chunk that does not decrypt, a reply out of shape: asked for once more.
BadOnce(r) ==
  /\ Comes(r) /\ r \in entry /\ bad[r] = 0
  /\ Fault
  /\ bad' = [bad EXCEPT ![r] = 1]
  /\ Again(r)
  /\ pc' = "top"
  /\ UNCHANGED timeouts

\* Bad again, or an Info that contradicts the block: a bad file if it is open,
\* a bad description of the GET's if it is not.
Bad(r) ==
  /\ Comes(r) /\ r \in entry /\ (bad[r] = 1 \/ r = Info)
  /\ Fault
  /\ IF open THEN Fail(TRUE) /\ UNCHANGED only
             ELSE /\ AnswerSeeks(r) /\ only' = "no"
                  /\ UNCHANGED <<job, ended, open, known, next, stash, main, queued>>
  /\ pc' = "top"
  /\ UNCHANGED <<complete, wants, jobs>>

\* Err(Network): the GETs get the error, the main file waits for the next line.
LineFails(r) ==
  /\ Comes(r) /\ r \in entry
  /\ Fault
  /\ IF main = r
       THEN /\ gets' = [gets EXCEPT ![r] = {}]
            /\ Tell(gets[r], "failed")
            /\ Resend(r)
            /\ UNCHANGED <<entry, timeouts, bad>>
       ELSE AnswerSeeks(r) /\ UNCHANGED queued
  /\ pc' = "top"
  /\ UNCHANGED <<job, ended, open, known, disk, only, main, wants, jobs>>

\* Err(Timeout): up to TIMEOUT_ATTEMPTS in all.
TimesOut(r) ==
  /\ Comes(r) /\ r \in entry /\ timeouts[r] < 2
  /\ Fault
  /\ timeouts' = [timeouts EXCEPT ![r] = @ + 1]
  /\ Again(r)
  /\ pc' = "top"
  /\ UNCHANGED bad

\* Any other error, the third time-out included: the job stops if it waited for
\* this one, and the file is kept.
Errs(r) ==
  /\ Comes(r) /\ r \in entry
  /\ Fault
  /\ IF main = r THEN Fail(FALSE)
     ELSE AnswerSeeks(r) /\ UNCHANGED <<job, ended, open, known, next, stash, main, queued>>
  /\ pc' = "top"
  /\ UNCHANGED <<complete, only, wants, jobs>>

\* NotFound, Forbidden: everybody's.
Refused(r) ==
  /\ Comes(r) /\ r \in entry
  /\ Fault
  /\ Fail(TRUE)
  /\ pc' = "top"
  /\ UNCHANGED <<complete, only, wants, jobs>>

Send(r) ==
  /\ queued[r] > 0
  /\ queued' = [queued EXCEPT ![r] = @ - 1]
  /\ out' = [out EXCEPT ![r] = @ + 1]
  /\ UNCHANGED <<job, ended, open, known, disk, only, flight, get, wants, pc, jobs, faults>>

----------------------------------------------------------------------------
Init ==
  /\ job = "none" /\ ended = "none" /\ open = FALSE /\ known = FALSE
  /\ next = 0 /\ stash = {} /\ complete = FALSE /\ only = "no"
  /\ entry = {} /\ main = Nothing /\ gets = [r \in Requests |-> {}]
  /\ timeouts = [r \in Requests |-> 0] /\ bad = [r \in Requests |-> 0]
  /\ queued = [r \in Requests |-> 0] /\ out = [r \in Requests |-> 0]
  /\ get = [g \in Gets |-> "idle"] /\ wants = [g \in Gets |-> 0]
  /\ pc = "top" /\ jobs = 0 /\ faults = 0

Main == AskInfo \/ AskChunk \/ Move \/ StopMain \/ Finish

Good(r) ==
  \/ Stale(r) \/ Unknown(r)
  \/ r = Info /\ InfoArrives
  \/ r \in Chunks /\ (ChunkArrives(r) \/ ChunkPasses(r) \/ ChunkTooEarly(r))

Poor(r) == BadOnce(r) \/ Bad(r) \/ LineFails(r) \/ TimesOut(r) \/ Errs(r) \/ Refused(r)

Handler == Settle \/ Wake \/ Main

Reply(r) == Good(r) \/ Poor(r)

Seek(g) == \E c \in Chunks : SeekLocal(g, c) \/ SeekRemote(g, c)

Next ==
  \/ StartJob \/ Cancel \/ Evict \/ Handler
  \/ \E r \in Requests : Send(r) \/ Reply(r)
  \/ \E g \in Gets : Seek(g)

Spec == Init /\ [][Next]_vars

\* The handler runs when it can, and a request that is out comes back; jobs,
\* cancels and GETs come as they like.
FairSpec ==
  /\ Spec
  /\ WF_vars(Handler)
  /\ \A r \in Requests : WF_vars(Send(r)) /\ SF_vars(Reply(r))

----------------------------------------------------------------------------

\* Every GET is answered, and every job ends, whichever of them shares, cancels, retries
\* or loses the one request that is out for a chunk.
EveryoneEnds ==
  /\ \A g \in Gets : get[g] = "waiting" ~> get[g] # "waiting"
  /\ job # "none" ~> job = "none"
=============================================================================
