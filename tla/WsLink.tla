------------------------------- MODULE WsLink -------------------------------
(***************************************************************************)
(* One WebSocket line of the client: `WsLink` (wbf-sdk/src/link.rs) with   *)
(* the session table it dispatches through (wbf-sdk/src/sessions.rs).      *)
(*                                                                         *)
(* Callers register an entry in the table, queue one pack for the writer   *)
(* task and wait.  The reader task takes each arriving pack, looks the     *)
(* entry up and delivers.  The pulse task sends pings.  Whoever finds the  *)
(* line dead runs `shut_down`, which is three separate steps here because  *)
(* every other task runs between them.                                     *)
(*                                                                         *)
(* A call is one registration.  The generation number the code gives every *)
(* registration is the call itself, so the table is the set of calls that  *)
(* have an entry, and two calls with the same key are two generations.     *)
(***************************************************************************)
EXTENDS Naturals, Sequences

CONSTANTS
  Asks,        \* one request, one reply: request_with_policy / send_request
  Chunks,      \* the asks whose seq is a chunk index (Upload/Chunk)
  Timed,       \* the asks with an AckPolicy: own timeout, identical resends
  Pings,       \* the heartbeats of the pulse task
  Streams,     \* open_stream: one request, many packs
  Subs,        \* subscribe: lives until it is dropped or refused
  Id,          \* the id in the header of each call; 0 is no id
  ReplyId,     \* the id in the header of its reply (Upload/Create: the new one)
  ChunkIndex,  \* the seq of each chunk
  SeqHalf,     \* FIRST_LINE_SEQ: chunk indices below, line numbers from it on
  Attempts,    \* AckPolicy.attempts of the timed asks
  SendQueue,   \* SEND_QUEUE_PACKS
  StreamQueue, \* STREAM_QUEUE_PACKS
  SubQueue,    \* SUBSCRIPTION_QUEUE_PACKS
  JunkBudget,  \* CORRUPT_FRAME_BUDGET
  MaxPacks,    \* bound: packs the server sends in one named session
  MaxInbound,  \* bound: packs on their way to the reader
  Vanishes,    \* bound: whether the peer may go dark in this instance
  Nobody

Named == Streams \cup Subs
Oneshots == Asks \cup Pings
Calls == Oneshots \cup Named

ASSUME CallSets ==
  /\ Chunks \subseteq Asks /\ Timed \subseteq Asks
  /\ Asks \cap Pings = {} /\ Oneshots \cap Named = {} /\ Streams \cap Subs = {}
  /\ Nobody \notin Calls

ASSUME Headers ==
  /\ Id \in [Calls -> Nat] /\ ReplyId \in [Calls -> Nat]
  /\ \A c \in Named : Id[c] # 0
  /\ \A c \in Calls : Id[c] # 0 => ReplyId[c] = Id[c]
  /\ \A c \in Oneshots, s \in Named : Id[c] # Id[s] /\ ReplyId[c] # Id[s]
  /\ \A c \in Pings : Id[c] = 0
  /\ \A c \in Chunks : Id[c] # 0

ASSUME Limits ==
  /\ SeqHalf \in Nat \ {0}
  /\ ChunkIndex \in [Chunks -> 0 .. SeqHalf - 1]
  /\ Attempts \in Nat \ {0} /\ SendQueue \in Nat \ {0}
  /\ StreamQueue \in Nat \ {0} /\ SubQueue \in Nat \ {0}
  /\ JunkBudget \in Nat \ {0} /\ MaxPacks \in Nat /\ MaxInbound \in Nat
  /\ Vanishes \in BOOLEAN

VARIABLES
  closing,     \* how far the one effective shut_down has come
  alive,       \* the tasks still running
  entries,     \* the session table: the calls that have an entry
  pc, result,  \* where each caller is, and what it was told
  seq, attempt,
  inbox,       \* the oneshot slot or the mpsc inbox of each call
  reason,      \* the end reason of each named session
  gap, told,   \* the subscription's gap flag; pushes accounted for when it was last read
  got, seen,   \* packs the consumer took; last push the reader dispatched
  heard,       \* waiters for whom something arrived since their last snapshot
  allocated,   \* next_seq: line numbers handed out
  late,        \* history: the calls that began on a closed line
  outq,        \* the writer's queue
  inhand,      \* the pack the reader has decoded and not yet dispatched
  junkRow,     \* undecodable frames in a row
  asked, sent, over, inbound, silent   \* the server and the wire

callers == <<pc, result, seq, attempt, got, told, allocated, late>>
sinks == <<inbox, reason, gap, seen>>
wire == <<outq, asked, sent, over, inbound, silent>>
vars == <<closing, alive, entries, callers, sinks, heard, inhand, junkRow, wire>>

Tasks == {"writer", "reader", "pulse"}
Kinds == {"reply", "part", "last", "error", "junk", "broken"}
Pack == [kind : Kinds, id : Nat, seq : Nat, to : Calls \cup {Nobody}, n : Nat]
Junk == [kind |-> "junk", id |-> 0, seq |-> 0, to |-> Nobody, n |-> 0]

\* What fail_all puts into a oneshot slot.
Broken(c) == [kind |-> "broken", id |-> 0, seq |-> 0, to |-> c, n |-> 0]

closed == closing # "open"

----------------------------------------------------------------------------
\* The session table.

\* A SessionKey: a named session is its id, a question is (id, seq).
Key(c, s) == IF c \in Named THEN <<"session", Id[c], 0>> ELSE <<"reply", Id[c], s[c]>>

RemoveIf(c) == entries \ {c}

\* Control packs that answer something; every other pack belongs to a session.
IsControlResponse(p) == p.kind \in {"reply", "error"}

Session(p) == {c \in entries \cap Named : p.id # 0 /\ Id[c] = p.id}
Exact(p)   == {c \in entries \cap Oneshots : Id[c] = p.id /\ seq[c] = p.seq}
Created(p) == {c \in entries \cap Oneshots :
                 IsControlResponse(p) /\ Id[c] = 0 /\ seq[c] = p.seq}

\* The rules of find_key, in order; the set is empty when nobody waits.
FindKey(p) == IF Session(p) # {} THEN Session(p)
              ELSE IF Exact(p) # {} THEN Exact(p)
              ELSE Created(p)

----------------------------------------------------------------------------
\* shut_down: the first caller does it, the others return at once.

BeginShutDown == closing' = IF closing = "open" THEN "sealed" ELSE closing

\* fail_all empties the table under its lock: every entry's sink fails.
FailAll ==
  /\ closing = "sealed"
  /\ closing' = "drained"
  /\ entries' = {}
  /\ inbox' = [c \in Calls |-> IF c \in entries \cap Oneshots THEN <<Broken(c)>> ELSE inbox[c]]
  /\ reason' = [c \in Named |-> IF c \in entries /\ reason[c] = "none" THEN "network"
                                                                      ELSE reason[c]]
  /\ UNCHANGED <<alive, callers, gap, seen, heard, inhand, junkRow, wire>>

\* The tasks are aborted; the queue closes with its receiver.
AbortTasks ==
  /\ closing = "drained"
  /\ closing' = "stopped"
  /\ alive' = {}
  /\ UNCHANGED <<entries, callers, sinks, heard, inhand, junkRow, wire>>

\* WsLink::close, or the owner's copy is dropped.
Close ==
  /\ ~closed
  /\ BeginShutDown
  /\ UNCHANGED <<alive, entries, callers, sinks, heard, inhand, junkRow, wire>>

----------------------------------------------------------------------------
\* A caller.

\* next_seq: the counter with the upper half's bit set.  On the first lap that
\* is the sum, and the instances stay on it (OneLap): a lap is 2^31 requests.
LineSeqOfBothHalves(n) == n                                   \* mutant: the bit is missing
LineSeq(n) == SeqHalf + n
OneLap == allocated < SeqHalf

\* open_stream and subscribe take the id their caller put in the pack.  The line
\* hands out session numbers and repeats none in 2^56; here a number may come
\* back as soon as the last pack of the session before it has been dispatched.
OnItsWay(d) == \E i \in DOMAIN (inbound \o inhand) : (inbound \o inhand)[i].to = d

\* Mutant: a number is free again when the handle is dropped.
IdIsFreeOnDrop(c) == \A d \in Calls \ {c} : c \in Named /\ Id[d] = Id[c] => pc[d] \in {"idle", "done"}

IdIsFree(c) == c \in Named =>
  \A d \in Named \ {c} : Id[d] = Id[c] /\ pc[d] # "idle" => d \in over /\ ~OnItsWay(d)

\* The table refuses a key that is taken (Usage); otherwise a new generation.
Register(c) ==
  /\ c \in Chunks \/ OneLap
  /\ seq' = [seq EXCEPT ![c] = IF c \in Chunks THEN ChunkIndex[c] ELSE LineSeq(allocated)]
  /\ allocated' = IF c \in Chunks THEN allocated ELSE allocated + 1
  /\ IF \E d \in entries : Key(d, seq') = Key(c, seq')
       THEN /\ pc' = [pc EXCEPT ![c] = "done"]
            /\ result' = [result EXCEPT ![c] = "usage"]
            /\ UNCHANGED entries
       ELSE /\ pc' = [pc EXCEPT ![c] = "registered"]
            /\ entries' = entries \cup {c}
            /\ UNCHANGED result
  /\ late' = IF closed THEN late \cup {c} ELSE late
  /\ UNCHANGED <<closing, alive, attempt, got, told, sinks, heard, inhand, junkRow, wire>>

Start(c) ==
  /\ pc[c] = "idle"
  /\ c \notin Pings
  /\ IdIsFree(c)
  /\ Register(c)

\* The caller stops; its guard (or the end of request_with_policy) removes the
\* entry in the next step.
Finish(c, r) ==
  /\ pc' = [pc EXCEPT ![c] = "leaving"]
  /\ result' = [result EXCEPT ![c] = r]

\* Mutant: send does not look whether the line is open.
CheckNothing(c) ==
  /\ pc[c] = "registered"
  /\ pc' = [pc EXCEPT ![c] = "sending"]
  /\ UNCHANGED <<closing, alive, entries, result, seq, attempt, got, told, allocated, late,
                 sinks, heard, inhand, junkRow, wire>>

\* send: nothing goes out on a closed line.
CheckOpen(c) ==
  /\ pc[c] = "registered"
  /\ IF closed THEN Finish(c, "network")
     ELSE pc' = [pc EXCEPT ![c] = "sending"] /\ UNCHANGED result
  /\ UNCHANGED <<closing, alive, entries, seq, attempt, got, told, allocated, late,
                 sinks, heard, inhand, junkRow, wire>>

\* send: into the writer's queue.  The wait for the reply starts here, with a
\* fresh snapshot of what was heard.
Enqueue(c) ==
  /\ pc[c] = "sending"
  /\ "writer" \in alive
  /\ Len(outq) < SendQueue
  /\ outq' = Append(outq, c)
  /\ pc' = [pc EXCEPT ![c] = "waiting"]
  /\ attempt' = [attempt EXCEPT ![c] = @ + 1]
  /\ heard' = heard \ {c}
  /\ UNCHANGED <<closing, alive, entries, result, seq, got, told, allocated, late,
                 sinks, inhand, junkRow, asked, sent, over, inbound, silent>>

\* Mutant: the caller only notices a full queue that a live writer holds.
SendFailsWhenFull(c) ==
  /\ pc[c] = "sending"
  /\ "writer" \in alive /\ Len(outq) = SendQueue
  /\ Finish(c, "network")
  /\ UNCHANGED <<closing, alive, entries, seq, attempt, got, told, allocated, late,
                 sinks, heard, inhand, junkRow, wire>>

\* The queue is gone, or did not drain within SEND_TIMEOUT.
SendFails(c) ==
  /\ pc[c] = "sending"
  /\ "writer" \notin alive \/ Len(outq) = SendQueue
  /\ Finish(c, "network")
  /\ UNCHANGED <<closing, alive, entries, seq, attempt, got, told, allocated, late,
                 sinks, heard, inhand, junkRow, wire>>

\* The oneshot has a value: the reply, or the error of fail_all.
Receive(c) ==
  /\ c \in Oneshots
  /\ pc[c] = "waiting"
  /\ inbox[c] # <<>>
  /\ Finish(c, IF Head(inbox[c]).kind = "broken" THEN "network" ELSE "ok")
  /\ UNCHANGED <<closing, alive, entries, seq, attempt, got, told, allocated, late,
                 sinks, heard, inhand, junkRow, wire>>

NoReplyIsTimeout == "timeout"                                  \* mutant: closed or not
NoReplyError == IF closed THEN "network" ELSE "timeout"

\* AckPolicy.timeout is over: send the same pack again, or give up.
Elapse(c) ==
  /\ c \in Timed
  /\ pc[c] = "waiting"
  /\ inbox[c] = <<>>
  /\ IF attempt[c] < Attempts
       THEN pc' = [pc EXCEPT ![c] = "registered"] /\ UNCHANGED result
       ELSE Finish(c, NoReplyError)
  /\ UNCHANGED <<closing, alive, entries, seq, attempt, got, told, allocated, late,
                 sinks, heard, inhand, junkRow, wire>>

\* request_until_silent: the window is over.  Something arrived meanwhile: a
\* new window; otherwise nothing on this line answers.
FallSilent(c) ==
  /\ c \in Asks \ Timed
  /\ pc[c] = "waiting"
  /\ inbox[c] = <<>>
  /\ IF c \in heard
       THEN heard' = heard \ {c} /\ UNCHANGED <<pc, result>>
       ELSE Finish(c, NoReplyError) /\ UNCHANGED heard
  /\ UNCHANGED <<closing, alive, entries, seq, attempt, got, told, allocated, late,
                 sinks, inhand, junkRow, wire>>

\* The future or the handle is dropped at an await point.  PendingReply and
\* SessionInbox remove their entry; a caller still in `send`, or one inside
\* request_with_policy, has no such guard and leaves the entry behind.
Cancel(c) ==
  /\ c \notin Pings
  /\ pc[c] \in {"sending", "waiting"}
  /\ pc' = [pc EXCEPT ![c] = "done"]
  /\ result' = [result EXCEPT ![c] = "dropped"]
  /\ entries' = IF pc[c] = "waiting" /\ c \notin Timed THEN RemoveIf(c) ELSE entries
  /\ inbox' = [inbox EXCEPT ![c] = <<>>]
  /\ heard' = heard \ {c}
  /\ UNCHANGED <<closing, alive, seq, attempt, got, told, allocated, late,
                 reason, gap, seen, inhand, junkRow, wire>>

\* Mutant: the end of request_with_policy forgets the entry.
LeaveForgetful(c) ==
  /\ pc[c] = "leaving"
  /\ pc' = [pc EXCEPT ![c] = "done"]
  /\ entries' = IF c \in Timed THEN entries ELSE RemoveIf(c)
  /\ inbox' = [inbox EXCEPT ![c] = <<>>]
  /\ heard' = heard \ {c}
  /\ UNCHANGED <<closing, alive, result, seq, attempt, got, told, allocated, late,
                 reason, gap, seen, inhand, junkRow, wire>>

\* remove_if with the caller's own generation; the receiver goes with it.
Leave(c) ==
  /\ pc[c] = "leaving"
  /\ pc' = [pc EXCEPT ![c] = "done"]
  /\ entries' = RemoveIf(c)
  /\ inbox' = [inbox EXCEPT ![c] = <<>>]
  /\ heard' = heard \ {c}
  /\ UNCHANGED <<closing, alive, result, seq, attempt, got, told, allocated, late,
                 reason, gap, seen, inhand, junkRow, wire>>

----------------------------------------------------------------------------
\* The consumer of a named session (StreamHandle, Subscription).

NextPack(c) ==
  /\ c \in Named
  /\ pc[c] = "waiting"
  /\ inbox[c] # <<>>
  /\ got' = [got EXCEPT ![c] = Append(@, Head(inbox[c]))]
  /\ inbox' = [inbox EXCEPT ![c] = Tail(@)]
  /\ UNCHANGED <<closing, alive, entries, pc, result, seq, attempt, told, allocated, late,
                 reason, gap, seen, heard, inhand, junkRow, wire>>

\* The sink is gone and the inbox is empty: an error if there is a reason for
\* it, a normal end if there is none.
NextIsOver(c) ==
  /\ c \in Named
  /\ pc[c] = "waiting"
  /\ inbox[c] = <<>>
  /\ c \notin entries
  /\ Finish(c, IF reason[c] = "none" THEN "end" ELSE reason[c])
  /\ UNCHANGED <<closing, alive, entries, seq, attempt, got, told, allocated, late,
                 sinks, heard, inhand, junkRow, wire>>

\* Nothing came in time and the caller drops the handle.
NextTimesOut(c) ==
  /\ c \in Named
  /\ pc[c] = "waiting"
  /\ inbox[c] = <<>>
  /\ c \in entries
  /\ Finish(c, NoReplyError)
  /\ UNCHANGED <<closing, alive, entries, seq, attempt, got, told, allocated, late,
                 sinks, heard, inhand, junkRow, wire>>

\* take_gap reads the flag and clears it.
TakeGap(c) ==
  /\ c \in Subs
  /\ pc[c] = "waiting"
  /\ gap[c]
  /\ gap' = [gap EXCEPT ![c] = FALSE]
  /\ told' = [told EXCEPT ![c] = seen[c]]
  /\ UNCHANGED <<closing, alive, entries, pc, result, seq, attempt, got, allocated, late,
                 inbox, reason, seen, heard, inhand, junkRow, wire>>

----------------------------------------------------------------------------
\* The tasks.

WriterSends ==
  /\ "writer" \in alive
  /\ outq # <<>>
  /\ outq' = Tail(outq)
  /\ asked' = [asked EXCEPT ![Head(outq)] = @ + 1]
  /\ UNCHANGED <<closing, alive, entries, callers, sinks, heard, inhand, junkRow,
                 sent, over, inbound, silent>>

\* The sink cannot be written: the line is dead.
WriterFails ==
  /\ "writer" \in alive
  /\ outq # <<>>
  /\ outq' = Tail(outq)
  /\ BeginShutDown
  /\ alive' = alive \ {"writer"}
  /\ UNCHANGED <<entries, callers, sinks, heard, inhand, junkRow,
                 asked, sent, over, inbound, silent>>

\* A frame decodes.  It counts as a sign of life for every waiter; a Pong only
\* for the pulse.  Lookup for the hook happens here and decides nothing.
ReaderTakes ==
  /\ "reader" \in alive
  /\ inhand = <<>>
  /\ inbound # <<>>
  /\ Head(inbound).kind # "junk"
  /\ inhand' = <<Head(inbound)>>
  /\ inbound' = Tail(inbound)
  /\ junkRow' = 0
  /\ heard' = heard \cup {c \in Oneshots \ Timed :
                            pc[c] = "waiting" /\ (c \in Pings \/ Head(inbound).to \notin Pings)}
  /\ UNCHANGED <<closing, alive, entries, callers, sinks, outq, asked, sent, over, silent>>

\* A frame does not decode; a row of them ends the line.
ReaderSkips ==
  /\ "reader" \in alive
  /\ inhand = <<>>
  /\ inbound # <<>>
  /\ Head(inbound).kind = "junk"
  /\ inbound' = Tail(inbound)
  /\ junkRow' = junkRow + 1
  /\ IF junkRow' >= JunkBudget
       THEN BeginShutDown /\ alive' = alive \ {"reader"}
       ELSE UNCHANGED <<closing, alive>>
  /\ UNCHANGED <<entries, callers, sinks, heard, inhand, outq, asked, sent, over, silent>>

\* The peer closes the socket, or reading fails.
ReaderFails ==
  /\ "reader" \in alive
  /\ inhand = <<>>
  /\ BeginShutDown
  /\ alive' = alive \ {"reader"}
  /\ UNCHANGED <<entries, callers, sinks, heard, inhand, junkRow, wire>>

\* One sink takes one pack (deliver), and leaves the table when it is finished.
\* A sink whose receiver was dropped finishes without taking anything.
DeliverOneshot(c, p) ==
  /\ inbox' = IF pc[c] = "done" THEN inbox ELSE [inbox EXCEPT ![c] = <<p>>]
  /\ entries' = entries \ {c}
  /\ UNCHANGED <<reason, gap, seen>>

DeliverStream(c, p) ==
  LET gone == pc[c] = "done"
      full == Len(inbox[c]) >= StreamQueue IN
  /\ inbox' = IF gone \/ full THEN inbox ELSE [inbox EXCEPT ![c] = Append(@, p)]
  /\ reason' = IF ~gone /\ full /\ reason[c] = "none"
                 THEN [reason EXCEPT ![c] = "protocol"] ELSE reason
  /\ entries' = IF gone \/ full \/ p.kind \in {"last", "error"} THEN entries \ {c} ELSE entries
  /\ UNCHANGED <<gap, seen>>

DeliverSub(c, p) ==
  LET gone == pc[c] = "done"
      full == Len(inbox[c]) >= SubQueue IN
  /\ inbox' = IF gone \/ full THEN inbox ELSE [inbox EXCEPT ![c] = Append(@, p)]
  /\ gap' = IF ~gone /\ full THEN [gap EXCEPT ![c] = TRUE] ELSE gap
  /\ reason' = IF ~gone /\ full /\ p.kind = "error" /\ reason[c] = "none"
                 THEN [reason EXCEPT ![c] = "protocol"] ELSE reason
  /\ entries' = IF gone \/ p.kind = "error" THEN entries \ {c} ELSE entries
  /\ seen' = [seen EXCEPT ![c] = IF p.to = c THEN p.n ELSE @]

\* dispatch; a pack nobody waits for is only counted.  An aborted reader still
\* gets here: it stops at its next await.
Dispatch ==
  /\ inhand # <<>>
  /\ inhand' = <<>>
  /\ LET p == Head(inhand) IN
       IF FindKey(p) = {} THEN UNCHANGED <<entries, sinks>>
       ELSE \E c \in FindKey(p) :
              \/ c \in Oneshots /\ DeliverOneshot(c, p)
              \/ c \in Streams /\ DeliverStream(c, p)
              \/ c \in Subs /\ DeliverSub(c, p)
  /\ UNCHANGED <<closing, alive, callers, heard, junkRow, wire>>

\* beat: one ping at a time; the next one starts after the last was answered.
Beating(c) == pc[c] \notin {"idle", "done"}
LastBeatFailed == \E c \in Pings : pc[c] = "done" /\ result[c] \notin {"ok", "usage"}

Beat(c) ==
  /\ c \in Pings
  /\ "pulse" \in alive
  /\ pc[c] = "idle"
  /\ \A d \in Pings : ~Beating(d)
  /\ ~LastBeatFailed
  /\ ~closed
  /\ Register(c)

\* Sending the ping failed, or the line was closed under it.
BeatFails ==
  /\ "pulse" \in alive
  /\ LastBeatFailed
  /\ BeginShutDown
  /\ alive' = alive \ {"pulse"}
  /\ UNCHANGED <<entries, callers, sinks, heard, inhand, junkRow, wire>>

\* Mutant: no pong in time is taken for a slow one.
PongMayBeLate(c) ==
  /\ c \in Pings
  /\ "pulse" \in alive
  /\ pc[c] = "waiting"
  /\ inbox[c] = <<>>
  /\ heard' = heard \ {c}
  /\ UNCHANGED <<closing, alive, entries, callers, sinks, inhand, junkRow, wire>>

\* reply_timeout is over: something arrived meanwhile, keep waiting; nothing
\* at all, the line is dead.
PongOverdue(c) ==
  /\ c \in Pings
  /\ "pulse" \in alive
  /\ pc[c] = "waiting"
  /\ inbox[c] = <<>>
  /\ IF c \in heard
       THEN heard' = heard \ {c} /\ UNCHANGED <<closing, alive, pc, result>>
       ELSE /\ BeginShutDown
            /\ alive' = alive \ {"pulse"}
            /\ Finish(c, "timeout")
            /\ UNCHANGED heard
  /\ UNCHANGED <<entries, seq, attempt, got, told, allocated, late, sinks, inhand, junkRow, wire>>

\* An aborted pulse stops at its await; only a wait for the pong has a guard.
PulseAborted(c) ==
  /\ c \in Pings
  /\ "pulse" \notin alive
  /\ pc[c] \in {"sending", "waiting"}
  /\ pc' = [pc EXCEPT ![c] = "done"]
  /\ result' = [result EXCEPT ![c] = "dropped"]
  /\ entries' = IF pc[c] = "waiting" THEN RemoveIf(c) ELSE entries
  /\ inbox' = [inbox EXCEPT ![c] = <<>>]
  /\ heard' = heard \ {c}
  /\ UNCHANGED <<closing, alive, seq, attempt, got, told, allocated, late,
                 reason, gap, seen, inhand, junkRow, wire>>

----------------------------------------------------------------------------
\* The server, as the client relies on it: a reply copies the header of the
\* request (Create puts the new upload id in it), a session's packs carry its
\* id.  It may answer late, in any order, once per request it got, or never.
\* The socket is gone with the reader.

Put(p) ==
  /\ "reader" \in alive /\ ~silent
  /\ Len(inbound) < MaxInbound
  /\ inbound' = Append(inbound, p)
  /\ UNCHANGED <<closing, alive, entries, callers, sinks, heard, inhand, junkRow,
                 outq, asked, silent>>

ServerReplies(c) ==
  /\ c \in Oneshots
  /\ sent[c] < asked[c]
  /\ Put([kind |-> "reply", id |-> ReplyId[c], seq |-> seq[c], to |-> c, n |-> 0])
  /\ sent' = [sent EXCEPT ![c] = @ + 1]
  /\ UNCHANGED over

ServerPushes(c) ==
  /\ c \in Named
  /\ asked[c] > 0
  /\ c \notin over
  /\ sent[c] < MaxPacks
  /\ \E kind \in (IF c \in Streams THEN {"part", "last", "error"} ELSE {"part", "error"}) :
       /\ Put([kind |-> kind, id |-> Id[c], seq |-> seq[c], to |-> c, n |-> sent[c] + 1])
       /\ over' = IF kind = "part" THEN over ELSE over \cup {c}
  /\ sent' = [sent EXCEPT ![c] = @ + 1]

ServerGarbles == Put(Junk) /\ UNCHANGED <<sent, over>>

\* The peer is gone without closing the socket.
ServerVanishes ==
  /\ Vanishes /\ ~silent
  /\ silent' = TRUE
  /\ UNCHANGED <<closing, alive, entries, callers, sinks, heard, inhand, junkRow,
                 outq, asked, sent, over, inbound>>

----------------------------------------------------------------------------
Init ==
  /\ closing = "open" /\ alive = Tasks /\ entries = {}
  /\ pc = [c \in Calls |-> "idle"] /\ result = [c \in Calls |-> "none"]
  /\ seq = [c \in Calls |-> 0] /\ attempt = [c \in Calls |-> 0]
  /\ inbox = [c \in Calls |-> <<>>]
  /\ reason = [c \in Named |-> "none"]
  /\ gap = [c \in Subs |-> FALSE] /\ told = [c \in Subs |-> 0]
  /\ got = [c \in Named |-> <<>>] /\ seen = [c \in Subs |-> 0]
  /\ heard = {} /\ allocated = 0 /\ late = {}
  /\ outq = <<>> /\ inhand = <<>> /\ junkRow = 0
  /\ asked = [c \in Calls |-> 0] /\ sent = [c \in Calls |-> 0] /\ over = {}
  /\ inbound = <<>> /\ silent = FALSE

\* The steps of a caller that need nobody else's consent.
CallerStep(c) ==
  \/ CheckOpen(c) \/ Enqueue(c) \/ SendFails(c) \/ Receive(c)
  \/ Elapse(c) \/ FallSilent(c) \/ Leave(c)
  \/ NextPack(c) \/ NextIsOver(c) \/ NextTimesOut(c)

PulseStep ==
  \/ \E c \in Pings : Beat(c) \/ PongOverdue(c) \/ PulseAborted(c)
  \/ BeatFails

ReaderStep == ReaderTakes \/ ReaderSkips \/ Dispatch

ShutDownStep == FailAll \/ AbortTasks

Environment ==
  \/ Close \/ WriterFails \/ ReaderFails
  \/ ServerGarbles \/ ServerVanishes
  \/ \E c \in Calls : ServerReplies(c) \/ ServerPushes(c)

Next ==
  \/ \E c \in Calls : Start(c) \/ CallerStep(c) \/ Cancel(c) \/ TakeGap(c)
  \/ PulseStep \/ ReaderStep \/ WriterSends \/ ShutDownStep
  \/ Environment

Spec == Init /\ [][Next]_vars

\* Tokio keeps running what is ready and its timers fire: every task and every
\* caller that can go on does.  Nothing is assumed of the server, the network,
\* the owner, or of a caller that has not started.
FairSpec ==
  /\ Spec
  /\ \A c \in Calls : WF_vars(CallerStep(c))
  /\ WF_vars(PulseStep) /\ WF_vars(ReaderStep) /\ WF_vars(WriterSends)
  /\ WF_vars(ShutDownStep)

----------------------------------------------------------------------------
PcStates == {"idle", "registered", "sending", "waiting", "leaving", "done"}
Results == {"none", "ok", "usage", "network", "timeout", "protocol", "end", "dropped"}

TypeTable ==
  /\ closing \in {"open", "sealed", "drained", "stopped"}
  /\ alive \subseteq Tasks
  /\ entries \subseteq Calls

TypeCallers ==
  /\ pc \in [Calls -> PcStates]
  /\ result \in [Calls -> Results]
  /\ seq \in [Calls -> Nat]
  /\ attempt \in [Calls -> Nat]
  /\ got \in [Named -> Seq(Pack)]
  /\ told \in [Subs -> Nat]
  /\ allocated \in Nat
  /\ late \subseteq Calls

TypeSinks ==
  /\ inbox \in [Calls -> Seq(Pack)]
  /\ reason \in [Named -> {"none", "network", "protocol"}]
  /\ gap \in [Subs -> BOOLEAN]
  /\ seen \in [Subs -> Nat]

TypeWire ==
  /\ outq \in Seq(Calls)
  /\ asked \in [Calls -> Nat]
  /\ sent \in [Calls -> Nat]
  /\ over \subseteq Named
  /\ inbound \in Seq(Pack)
  /\ silent \in BOOLEAN

TypeReader ==
  /\ heard \subseteq Oneshots
  /\ inhand \in Seq(Pack)
  /\ junkRow \in Nat

TypeOK == TypeTable /\ TypeCallers /\ TypeSinks /\ TypeWire /\ TypeReader

\* Once shut_down has emptied the table, nobody sleeps on an entry in it: the
\* entries that still arrive belong to callers that are about to find the line
\* closed, so no caller waits for a reply that no task can deliver any more.
NoWaiterAfterClose ==
  closing \in {"drained", "stopped"} =>
    \A c \in entries : pc[c] \notin {"sending", "waiting"}

\* An entry outlives its caller only when the caller was dropped inside `send`
\* or inside request_with_policy; every path of return removes it.
NoOrphanEntry ==
  \A c \in entries : pc[c] = "done" => result[c] = "dropped"

\* What a caller holds answers what it asked, however late, duplicated or
\* reordered the packs of the line are.
SameRequest(c, d) ==
  \/ c = d
  \/ {c, d} \subseteq Chunks /\ Id[c] = Id[d] /\ ChunkIndex[c] = ChunkIndex[d]

OwnReply ==
  \A c \in Oneshots : \A i \in 1 .. Len(inbox[c]) : SameRequest(inbox[c][i].to, c)

\* A session whose id was used before gets its own packs only.
OwnPacks ==
  \A c \in Named : \A i \in 1 .. Len(inbox[c]) : inbox[c][i].to = c

\* A stream that ends without an error has given the consumer every pack of the
\* session, in order, up to and including the last.
CleanEndIsComplete ==
  \A c \in Streams : result[c] = "end" =>
    /\ got[c] # <<>>
    /\ got[c][Len(got[c])].kind \in {"last", "error"}
    /\ \A i \in DOMAIN got[c] : got[c][i].n = i

\* A push the full inbox could not hold is never lost in silence: the gap flag
\* is up, or was read after the loss.
LossIsTold ==
  \A c \in Subs : pc[c] = "waiting" =>
    \A n \in (told[c] + 1) .. seen[c] :
      \/ gap[c]
      \/ \E i \in DOMAIN inbox[c] : inbox[c][i].n = n
      \/ \E i \in DOMAIN got[c] : got[c][i].n = n

\* A session sees its own packs, whole or with notice: although the handle of an older
\* session of that id may be dropped long after the new one began, and an inbox may be
\* full, nothing foreign comes, no end is clean that is not, no loss is silent.
PacksAreWhole == OwnPacks /\ CleanEndIsComplete /\ LossIsTold

\* The line keeps the contract of RequestContract: one outcome per question, a
\* reply only to the question it answers, a timeout only on an open line, and no
\* answer to what was asked on a closed one.
Stage == [c \in Asks |->
            IF pc[c] = "idle" THEN "idle"
            ELSE IF result[c] # "none" THEN result[c]
            ELSE IF c \in late THEN "shut" ELSE "open"]

Contract == INSTANCE RequestContract WITH
  Requests <- Asks, Alike <- SameRequest,
  open <- ~closed, stage <- Stage, replied <- {c \in Asks : sent[c] > 0}

KeepsContract == Contract!ContractSpec

\* A closed line lets go of every caller that was waiting on it.
ReleasedOnClose ==
  \A c \in Oneshots : (closed /\ pc[c] # "idle") ~> (pc[c] = "done")

\* A peer that vanished without a word is noticed as long as the pulse beats.
DeadPeerNoticed ==
  (silent /\ \E c \in Pings : pc[c] = "idle") ~> closed

\* Both: nobody waits for ever on a line that is dead or closed.
NobodyIsStuck == ReleasedOnClose /\ DeadPeerNoticed
=============================================================================
