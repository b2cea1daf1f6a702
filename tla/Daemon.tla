-------------------------------- MODULE Daemon --------------------------------
(***************************************************************************)
(* The RPC side of the daemon: connections, their hello and encryption     *)
(* (wbf-daemon/src/connection.rs), the tasks of a connection (server.rs),  *)
(* subscriptions and pushes (push.rs), the gate of a call and the shutdown *)
(* (handle/mod.rs), and the broadcast of core's events (wbf-core/event.rs).*)
(*                                                                         *)
(* A connection is served by a reader, a writer, a push task and one task  *)
(* per request.  All of them hand frames to the writer through one bounded *)
(* channel; a frame is sealed under the connection's lock and sent after   *)
(* it is released, except for a close notice: the lock is held until the   *)
(* channel took it (the guard lives as long as the `if let`).              *)
(***************************************************************************)
EXTENDS Naturals, Sequences, FiniteSets

CONSTANTS
  Conns,        \* connections
  JobIds,       \* request ids a client may choose
  NoId,         \* a request without id; an event outside any job
  Users,        \* accounts that events are about
  AnyUser,      \* no account: no filter, or an event without account
  Room,         \* size of the channel to the writer (64 in the code)
  EventQueue,   \* EVENT_QUEUE: how many events the broadcast keeps
  Cases         \* bound: what the clients say, how often, who leaves, how many events

PackTypes == {"cipher", "plain"}
Names == {"room.message", "progress"}
Everything == "*"

\* The requests that a handle serves in a task of its own; "work" is any with a long job.
Methods == {"work", "daemon.shutdown", "encrypt", "decrypt"}
\* What makes the connection close at once, whatever its state.
Broken == {"noise", "text", "not JSON"}
Sayings == Methods \cup Broken \cup {"hello", "stranger", "malformed", "subscribe", "unsubscribe"}

Limits == Room \in Nat \ {0} /\ EventQueue \in Nat \ {0}
Scenario ==
  \A case \in Cases :
    /\ case.says \in [Conns -> SUBSET [type : PackTypes, says : Sayings, id : JobIds \cup {NoId},
                                       names : SUBSET (Names \cup {Everything}),
                                       user : Users \cup {AnyUser}]]
    /\ case.frames \in Nat /\ case.events \in Nat /\ case.leaves \subseteq Conns

VARIABLES
  case,         \* the scenario
  enforced,     \* EncryptionPolicy
  asked,        \* Handle.shutdown_requested
  closing,      \* Handle.shutdown, the broadcast of it
  down,         \* the process ended: RpcServer::run returned
  events,       \* every event core ever sent; the broadcast keeps the last EventQueue
  open,         \* how far a connection is: "no", "accepting", "open", "left" by its reader
  late,         \* it subscribed to the shutdown after the broadcast: it never sees it
  client,       \* the peer is still there
  said,         \* frames read from it
  hello,        \* Connection.protocol is set
  last,         \* Connection.last_inbound
  subs, only,   \* Subscriptions: names and account
  inFlight,     \* in_flight: ids of the requests that run
  tasks,        \* request tasks, in the order the reader spawned them
  reader,       \* what the reader is about to reply or to send
  pusher, pos,  \* the push task: what it holds, the next event it reads
  out, writing, \* the channel to the writer; the writer is there
  wire,         \* history: what the client was sent
  due           \* history: events sent while the connection listened and wanted them, as it
                \* still does

policy == <<enforced, asked, closing, down>>
talk == <<said, hello, last>>
wants == <<subs, only, due>>
pushing == <<pusher, pos>>
sending == <<out, writing, wire>>
life == <<open, late, client>>
daemonVars ==
  <<case, policy, events, life, talk, wants, inFlight, tasks, reader, pushing, sending>>

Nothing == [kind |-> "nothing"]
ReplyTo(n) == [kind |-> "reply", n |-> n]
PushOf(i) == [kind |-> "push", n |-> i]
Desync(from, to) == [kind |-> "desync", from |-> from, to |-> to]
Notice(why) == [kind |-> "notice", why |-> why]
Sealed(what, type) == [what |-> what, type |-> type]

IsServed(c) == open[c] = "open"
\* The lock of Connection, held by the reader while it sends a close notice.
IsFree(c) == ~(reader[c].step = "send" /\ reader[c].frame.what.kind = "notice")
IsBusy(c, n) == tasks[c][n].step # "ended"

-------------------------------------------------------------------------------
\* What the clients and the process do.

Accept(c) ==
  /\ open[c] = "no" /\ ~down /\ ~closing
  /\ case.says[c] # {}
  /\ open' = [open EXCEPT ![c] = "accepting"]
  /\ UNCHANGED <<case, policy, events, late, client, talk, wants, inFlight, tasks, reader,
                 pushing, sending>>

\* The handshake is over: the task counts itself and subscribes to the shutdown; the push task
\* is spawned.
Connect(c) ==
  /\ open[c] = "accepting" /\ ~down
  /\ open' = [open EXCEPT ![c] = "open"]
  /\ late' = [late EXCEPT ![c] = closing]
  /\ UNCHANGED <<case, policy, events, client, talk, wants, inFlight, tasks, reader, pushing,
                 sending>>

ClientLeaves(c) ==
  /\ c \in case.leaves /\ open[c] # "no" /\ client[c] /\ ~down
  /\ client' = [client EXCEPT ![c] = FALSE]
  /\ UNCHANGED <<case, policy, events, open, late, talk, wants, inFlight, tasks, reader,
                 pushing, sending>>

\* Both servers' loops see the broadcast and return; main ends and the runtime goes.
Exit ==
  /\ closing /\ ~down
  /\ down' = TRUE
  /\ UNCHANGED <<case, enforced, asked, closing, events, life, talk, wants, inFlight, tasks,
                 reader, pushing, sending>>

-------------------------------------------------------------------------------
\* Subscriptions.

WantsBy(names, user, event) ==
  /\ Everything \in names \/ event.name \in names
  /\ AnyUser \in {user, event.user} \/ user = event.user

Wants(c, event) == WantsBy(subs[c], only[c], event)

\* EventSink::emit.  `due` notes for whom the event is: a connection whose push task listens.
Listens(c) == IsServed(c) /\ pusher[c].step # "starting"

Emit(event) ==
  /\ events' = Append(events, event)
  /\ due' = [c \in Conns |-> IF Listens(c) /\ Wants(c, event) THEN due[c] \cup {Len(events) + 1}
                             ELSE due[c]]

\* An event of the background: a message arrived.
Happen(user) ==
  /\ ~down /\ Len(events) < case.events
  /\ Emit([name |-> "room.message", user |-> user, job |-> NoId])
  /\ UNCHANGED <<case, policy, life, talk, subs, only, inFlight, tasks, reader, pushing, sending>>

Subscribe(c, frame) ==
  LET names == IF frame.says = "subscribe" THEN subs[c] \cup frame.names
               ELSE subs[c] \ frame.names
      user == IF frame.says = "subscribe" /\ frame.user # AnyUser THEN frame.user ELSE only[c]
  IN /\ subs' = [subs EXCEPT ![c] = names]
     /\ only' = [only EXCEPT ![c] = user]
     /\ due' = [due EXCEPT ![c] = {i \in @ : WantsBy(names, user, events[i])}]

-------------------------------------------------------------------------------
\* Connection::receive and the reader's loop.

\* What comes of a frame: closed with a notice, answered by the reader, or a task.
Verdict(c, frame) ==
  CASE frame.says \in Broken -> "close"
    [] frame.says \notin Broken /\ frame.type = "plain" /\ enforced -> "close"
    [] OTHER -> CASE frame.says \in {"hello", "malformed"} ->
                       IF hello[c] \/ frame.says = "hello" THEN "reply" ELSE "close"
                  [] frame.says = "stranger" \/ ~hello[c] -> "close"
                  [] frame.says \in {"subscribe", "unsubscribe"} -> "reply"
                  [] OTHER -> "task"

\* A frame that cannot be opened, or is in clear when it must not be, leaves no trace.
IsOpened(frame) == frame.says \notin {"noise", "text"} /\ (frame.type = "cipher" \/ ~enforced)

Receive(c) ==
  /\ IsServed(c) /\ reader[c].step = "loop" /\ client[c] /\ ~down
  /\ said[c] < case.frames
  /\ \E frame \in case.says[c] :
       /\ said' = [said EXCEPT ![c] = @ + 1]
       /\ last' = [last EXCEPT ![c] = IF IsOpened(frame) THEN frame.type ELSE @]
       /\ hello' = [hello EXCEPT ![c] = @ \/ (frame.says = "hello" /\ IsOpened(frame))]
       /\ \/ /\ Verdict(c, frame) = "close"
             /\ reader' = [reader EXCEPT ![c] =
                  [step |-> "send", frame |-> Sealed(Notice("refused"), "plain")]]
             /\ UNCHANGED <<wants, tasks>>
          \/ /\ Verdict(c, frame) = "reply"
             /\ IF frame.says \in {"subscribe", "unsubscribe"} THEN Subscribe(c, frame)
                ELSE UNCHANGED wants
             /\ reader' = [reader EXCEPT ![c] =
                  [step |-> "seal", frame |-> Sealed(ReplyTo(said[c] + 1), "plain")]]
             /\ UNCHANGED tasks
          \/ /\ Verdict(c, frame) = "task"
             /\ tasks' = [tasks EXCEPT ![c] = Append(@,
                  [step |-> "spawned", says |-> frame.says, id |-> frame.id, n |-> said[c] + 1,
                   frame |-> Nothing])]
             /\ UNCHANGED <<wants, reader>>
  /\ UNCHANGED <<case, policy, events, life, inFlight, pushing, sending>>

\* Connection::outbound_type.
OutboundType(c) == IF enforced THEN "cipher" ELSE last[c]

ReaderSeals(c) ==
  /\ reader[c].step = "seal" /\ ~down
  /\ reader' = [reader EXCEPT ![c] =
                 [step |-> "send", frame |-> Sealed(@.frame.what, OutboundType(c))]]
  /\ UNCHANGED <<case, policy, events, life, talk, wants, inFlight, tasks, pushing, sending>>

HasRoom(c) == Len(out[c]) < Room \/ ~writing[c]

\* Mutant: a frame that finds the channel full is lost.
HandOrDrop(c, frame) ==
  /\ out' = [out EXCEPT ![c] = IF writing[c] /\ Len(@) < Room THEN Append(@, frame) ELSE @]
  /\ UNCHANGED <<writing, wire>>

\* The channel takes a frame; without a writer the frame is lost.
Hand(c, frame) ==
  /\ HasRoom(c)
  /\ out' = [out EXCEPT ![c] = IF writing[c] THEN Append(@, frame) ELSE @]
  /\ UNCHANGED <<writing, wire>>

\* Mutant: the push task is left running, with its handle on the channel.
KeepsPushing(c) == open' = [open EXCEPT ![c] = "left"] /\ UNCHANGED pusher

\* The loop is left: the push task is aborted and the reader's handle on the channel goes.
Leave(c) ==
  /\ open' = [open EXCEPT ![c] = "left"]
  /\ pusher' = [pusher EXCEPT ![c] = [step |-> "aborted"]]

ReaderSends(c) ==
  /\ reader[c].step = "send" /\ IsServed(c) /\ ~down
  /\ Hand(c, reader[c].frame)
  /\ reader' = [reader EXCEPT ![c] = [step |-> "loop"]]
  /\ IF reader[c].frame.what.kind = "notice" \/ ~writing[c] THEN Leave(c)
     ELSE UNCHANGED <<open, pusher>>
  /\ UNCHANGED <<case, policy, events, late, client, talk, wants, inFlight, tasks, pos>>

\* The reader sees the broadcast of the shutdown.
SeeShutdown(c) ==
  /\ IsServed(c) /\ reader[c].step = "loop" /\ closing /\ ~late[c] /\ ~down
  /\ reader' = [reader EXCEPT ![c] =
                 [step |-> "send", frame |-> Sealed(Notice("shutting down"), "plain")]]
  /\ UNCHANGED <<case, policy, events, life, talk, wants, inFlight, tasks, pushing, sending>>

\* The reader sees that the client left.
SeeClientGone(c) ==
  /\ IsServed(c) /\ reader[c].step = "loop" /\ ~client[c] /\ ~down
  /\ Leave(c)
  /\ UNCHANGED <<case, policy, events, late, client, talk, wants, inFlight, tasks, reader, pos,
                 sending>>

-------------------------------------------------------------------------------
\* The task of a request.

Step(c, n, task) == tasks' = [tasks EXCEPT ![c][n] = task]
At(c, n, step) == n \in DOMAIN tasks[c] /\ tasks[c][n].step = step /\ ~down

WithoutId(c, id) == inFlight' = [inFlight EXCEPT ![c] = @ \ {id}]

\* Handle::call as far as its gate: who comes after the shutdown was asked for is refused.
Call(c, n) ==
  /\ At(c, n, "spawned")
  /\ Step(c, n, [tasks[c][n] EXCEPT !.step = IF asked \/ closing THEN "answered" ELSE "running"])
  /\ inFlight' = IF asked \/ closing \/ tasks[c][n].id = NoId THEN inFlight
                 ELSE [inFlight EXCEPT ![c] = @ \cup {tasks[c][n].id}]
  /\ UNCHANGED <<case, policy, events, life, talk, wants, reader, pushing, sending>>

\* A long job tells how far it is; the event carries its id.
Progress(c, n) ==
  /\ At(c, n, "running") /\ tasks[c][n].says = "work"
  /\ Len(events) < case.events
  /\ Emit([name |-> "progress", user |-> AnyUser, job |-> tasks[c][n].id])
  /\ UNCHANGED <<case, policy, life, talk, subs, only, inFlight, tasks, reader, pushing, sending>>

\* The method did its work; its id is out of in_flight.
Finish(c, n) ==
  /\ At(c, n, "running")
  /\ Step(c, n, [tasks[c][n] EXCEPT !.step = "answered"])
  /\ WithoutId(c, tasks[c][n].id)
  /\ asked' = (asked \/ tasks[c][n].says = "daemon.shutdown")
  /\ enforced' = CASE tasks[c][n].says = "encrypt" -> TRUE
                   [] tasks[c][n].says = "decrypt" -> FALSE
                   [] OTHER -> enforced
  /\ UNCHANGED <<case, closing, down, events, life, talk, wants, reader, pushing, sending>>

TaskSeals(c, n) ==
  /\ At(c, n, "answered") /\ IsFree(c)
  /\ Step(c, n, [tasks[c][n] EXCEPT !.step = "sealed",
                                    !.frame = Sealed(ReplyTo(tasks[c][n].n), OutboundType(c))])
  /\ UNCHANGED <<case, policy, events, life, talk, wants, inFlight, reader, pushing, sending>>

\* begin_shutdown_if_requested follows: any task that hands its answer over may be the one.
TaskSends(c, n) ==
  /\ At(c, n, "sealed")
  /\ Hand(c, tasks[c][n].frame)
  /\ Step(c, n, [tasks[c][n] EXCEPT !.step = "ended", !.frame = Nothing])
  /\ closing' = (closing \/ asked)
  /\ UNCHANGED <<case, enforced, asked, down, events, life, talk, wants, inFlight, reader, pushing>>

-------------------------------------------------------------------------------
\* forward_pushes.

\* The task runs for the first time and has core: it hears what is sent from now on.  The
\* reader may have answered frames before, a subscription among them.
Listen(c) ==
  /\ IsServed(c) /\ pusher[c].step = "starting" /\ ~down
  /\ pusher' = [pusher EXCEPT ![c] = [step |-> "waiting"]]
  /\ pos' = [pos EXCEPT ![c] = Len(events) + 1]
  /\ UNCHANGED <<case, policy, events, life, talk, wants, inFlight, tasks, reader, sending>>

Oldest == IF Len(events) > EventQueue THEN Len(events) - EventQueue + 1 ELSE 1
IsMine(c, event) == event.job \in inFlight[c]

\* Mutant: who is too slow is only moved on.
MovesOn(c) == [step |-> "waiting"]

\* Lagged: who subscribed to anything is told how many were lost.
LaggedPush(c) ==
  IF subs[c] = {} THEN [step |-> "waiting"]
  ELSE [step |-> "taken", what |-> Desync(pos[c], Oldest - 1)]

TakeEvent(c) ==
  /\ IsServed(c) /\ pusher[c].step = "waiting" /\ ~down
  /\ pos[c] <= Len(events)
  /\ \/ /\ pos[c] < Oldest
        /\ pusher' = [pusher EXCEPT ![c] = LaggedPush(c)]
        /\ pos' = [pos EXCEPT ![c] = Oldest]
     \/ /\ pos[c] >= Oldest
        /\ pusher' = IF IsMine(c, events[pos[c]]) \/ Wants(c, events[pos[c]])
                     THEN [pusher EXCEPT ![c] = [step |-> "taken", what |-> PushOf(pos[c])]]
                     ELSE pusher
        /\ pos' = [pos EXCEPT ![c] = @ + 1]
  /\ UNCHANGED <<case, policy, events, life, talk, wants, inFlight, tasks, reader, sending>>

PushSeals(c) ==
  /\ pusher[c].step = "taken" /\ IsFree(c) /\ ~down
  /\ pusher' = [pusher EXCEPT ![c] = [step |-> "sealed",
                                      frame |-> Sealed(@.what, OutboundType(c))]]
  /\ UNCHANGED <<case, policy, events, life, talk, wants, inFlight, tasks, reader, pos, sending>>

\* Without a writer the push task ends.
PushSends(c) ==
  /\ pusher[c].step = "sealed" /\ ~down
  /\ Hand(c, pusher[c].frame)
  /\ pusher' = [pusher EXCEPT ![c] = [step |-> IF writing[c] THEN "waiting" ELSE "aborted"]]
  /\ UNCHANGED <<case, policy, events, life, talk, wants, inFlight, tasks, reader, pos>>

-------------------------------------------------------------------------------
\* The writer.

Write(c) ==
  /\ writing[c] /\ out[c] # <<>> /\ ~down
  /\ LET frame == Head(out[c]) IN
       /\ wire' = IF client[c] THEN [wire EXCEPT ![c] = Append(@, frame)] ELSE wire
       /\ writing' = [writing EXCEPT ![c] = client[c] /\ frame.what.kind # "notice"]
       /\ out' = [out EXCEPT ![c] = IF writing'[c] THEN Tail(@) ELSE <<>>]
  /\ UNCHANGED <<case, policy, events, life, talk, wants, inFlight, tasks, reader, pushing>>

\* Nobody holds the channel any more.
WriterEnds(c) ==
  /\ writing[c] /\ out[c] = <<>> /\ ~down
  /\ open[c] = "left" /\ pusher[c].step = "aborted"
  /\ \A n \in DOMAIN tasks[c] : ~IsBusy(c, n)
  /\ writing' = [writing EXCEPT ![c] = FALSE]
  /\ UNCHANGED <<case, policy, events, life, talk, wants, inFlight, tasks, reader, pushing, out,
                 wire>>

-------------------------------------------------------------------------------
DaemonInit ==
  /\ case \in Cases
  /\ enforced = TRUE /\ asked = FALSE /\ closing = FALSE /\ down = FALSE
  /\ events = <<>>
  /\ open = [c \in Conns |-> "no"]
  /\ late = [c \in Conns |-> FALSE]
  /\ client = [c \in Conns |-> TRUE]
  /\ said = [c \in Conns |-> 0]
  /\ hello = [c \in Conns |-> FALSE]
  /\ last = [c \in Conns |-> "cipher"]
  /\ subs = [c \in Conns |-> {}]
  /\ only = [c \in Conns |-> AnyUser]
  /\ due = [c \in Conns |-> {}]
  /\ inFlight = [c \in Conns |-> {}]
  /\ tasks = [c \in Conns |-> <<>>]
  /\ reader = [c \in Conns |-> [step |-> "loop"]]
  /\ pusher = [c \in Conns |-> [step |-> "starting"]]
  /\ pos = [c \in Conns |-> 1]
  /\ out = [c \in Conns |-> <<>>]
  /\ writing = [c \in Conns |-> TRUE]
  /\ wire = [c \in Conns |-> <<>>]

TaskStep(c) ==
  \E n \in DOMAIN tasks[c] :
    Call(c, n) \/ Progress(c, n) \/ Finish(c, n) \/ TaskSeals(c, n) \/ TaskSends(c, n)

Reading(c) == Receive(c) \/ ReaderSeals(c) \/ ReaderSends(c) \/ SeeShutdown(c) \/ SeeClientGone(c)
Pushing(c) == Listen(c) \/ TakeEvent(c) \/ PushSeals(c) \/ PushSends(c)

DaemonNext ==
  \/ \E c \in Conns :
       \/ Accept(c) \/ Connect(c) \/ ClientLeaves(c)
       \/ Reading(c) \/ TaskStep(c) \/ Pushing(c) \/ Write(c) \/ WriterEnds(c)
  \/ \E user \in Users : Happen(user)
  \/ Exit

\* What the daemon does for a connection by itself.
Serve(c) ==
  \/ ReaderSeals(c) \/ ReaderSends(c) \/ SeeShutdown(c) \/ SeeClientGone(c)
  \/ TaskStep(c) \/ Pushing(c) \/ Write(c) \/ WriterEnds(c)

\* The tasks of a connection get their turn, and none of them can take it for ever; nobody
\* has to speak, to leave or to connect, and a process that may end need not.
Fairness == \A c \in Conns : WF_daemonVars(Serve(c))

DaemonSpec == DaemonInit /\ [][DaemonNext]_daemonVars /\ Fairness

-------------------------------------------------------------------------------
\* The frames of a connection, in the order the client gets them.
Handed(c) == wire[c] \o out[c]

\* What the push task of c has read and not lost: on its way, or told to be missing.
IsTold(c, i) ==
  LET whats == {Handed(c)[k].what : k \in DOMAIN Handed(c)}
               \cup (IF pusher[c].step = "taken" THEN {pusher[c].what} ELSE {})
               \cup (IF pusher[c].step = "sealed" THEN {pusher[c].frame.what} ELSE {})
  IN \E what \in whats : \/ what = PushOf(i)
                         \/ what.kind = "desync" /\ what.from <= i /\ i <= what.to

\* A connection that wanted an event when it was sent and wants it still gets it, or a desync
\* for it, however the event raced with its subscriptions, its requests and the ring
\* (rpc-spec.md section 4: who missed a push is always told), once its push task listens: what
\* is sent before is lost without a word to who subscribed already (README, section 3).
MissedIsTold ==
  \A c \in Conns : open[c] = "open" /\ writing[c] =>
    \A i \in due[c] : i < pos[c] => IsTold(c, i)

IsAnswered(c, n) == \E k \in DOMAIN wire[c] : wire[c][k].what = ReplyTo(n)

\* No answer waits for ever for the channel, the lock or a task that is gone: once the clients
\* have said all they say, everything each of them said has been answered, unless its
\* connection ended or the process did.  And when the client is gone, and when the shutdown
\* was asked for on whatever connection, every task of a connection ends: it is not counted
\* for ever, and nothing holds the daemon.
EveryoneIsServed ==
  /\ []<>(\A c \in Conns : (writing[c] /\ ~down) => \A n \in 1 .. said[c] : IsAnswered(c, n))
  /\ \A c \in Conns :
       (IsServed(c) /\ ~late[c] /\ (asked \/ ~client[c]))
         ~> (down \/ (open[c] = "left" /\ ~writing[c]))

===============================================================================
