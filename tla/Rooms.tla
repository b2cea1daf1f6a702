-------------------------------- MODULE Rooms --------------------------------
(***************************************************************************)
(* What one account knows of its rooms: the cache of the server with its   *)
(* one writer (wbf-core/src/server_cache.rs, wbf-sdk/src/cache.rs), the    *)
(* pushes of the rooms line (room_sync.rs), a round of invites             *)
(* (invites.rs), the actions on a room (room_actions.rs), the list and the *)
(* look of a room (rooms_ops.rs) and the pull of recent events             *)
(* (sync_ops.rs).                                                          *)
(*                                                                         *)
(* All writes go through one queue to one writer; a write is a transaction *)
(* and survives a crash, what is queued does not.  A push and an answer of *)
(* the server travel on lines of their own and may pass each other.  The   *)
(* UI's part is what room-sync.md asks of it: to call room.invites at the  *)
(* start, after a push with a gap and after the line was opened again.     *)
(* Of the memberships, knock and ban are treated like leave here; events   *)
(* are those of one room.                                                  *)
(***************************************************************************)
EXTENDS Naturals, SequencesExt

CONSTANTS
  RoomIds,      \* the rooms
  Talk,         \* the room whose events are counted
  Calls,        \* calls of the RPC at one time
  Window,       \* RecentPlan.window
  RoomCases,    \* how often what may happen at the start: bounds
  Task,         \* who posts a write for the task of the line
  Absent        \* no row; nobody

Memberships == {"join", "invite", "leave"}
Chances == {"changes", "drops", "deaths", "fetches", "acts", "looks", "events", "recents",
            "crashes", "faults"}

RoomShapes ==
  /\ Talk \in RoomIds /\ Window \in Nat \ {0}
  /\ RoomCases \subseteq [Chances -> Nat]
  /\ Task \notin Calls \cup {Absent} /\ Absent \notin Calls
  /\ Absent \notin Memberships \cup {"yes", "no", "unknown"}

VARIABLES
  members,      \* the server: membership of each room and when it got it (`is`)
  head, sealAt, \* events of the room so far; the one that turned encryption on
  on, told,     \* the subscription is open; the UI was told that it is
  wire, feed,   \* pushes of invites and of events that are under way
  srvGap, lost, \* pushes were dropped: by the server, by the local inbox
  task,         \* the task that takes the pushes
  callers, touched,     \* InviteRounds: open rounds, rooms pushed since
  queue,        \* ServerCache: jobs for the writer
  mem, looks,   \* cache.db: room_list.membership, rooms.encrypted
  stored, watermark,    \* cache.db: events, sync_state.cg_seq
  call,         \* where each call is
  owes,         \* the UI has to call room.invites
  stale,        \* rooms last written by something that no push protects
  spilt,        \* rooms whose push was lost behind older ones of the same room, or that
                \* a round passed over for a push from before it
  asOf,         \* how new the snapshot of a round is that makes up for what was lost
  waived,       \* events that are left out or deleted on purpose
  roomsLeft     \* what is left of the bounds

roomServer == <<members, head, sealAt>>
roomsLine == <<on, told, wire, feed, srvGap, lost>>
cacheDb == <<mem, looks, stored, watermark>>
roomGhosts == <<stale, spilt, asOf, waived>>
roomVars ==
  <<roomServer, roomsLine, task, callers, touched, queue, cacheDb, call, owes, roomGhosts,
    roomsLeft>>

Resting == [pc |-> "idle"]
Untouched == [r \in RoomIds |-> 0]
Clock == Max({members[r].is : r \in RoomIds})

StillMay(what) == roomsLeft[what] > 0 /\ roomsLeft' = [roomsLeft EXCEPT ![what] = @ - 1]

RoomsInit ==
  /\ roomsLeft \in RoomCases
  /\ members = [r \in RoomIds |-> [m |-> "leave", is |-> 0]] /\ head = 0 /\ sealAt = 0
  /\ on = FALSE /\ told = TRUE /\ wire = <<>> /\ feed = <<>> /\ srvGap = FALSE /\ lost = FALSE
  /\ task = Resting /\ callers = 0 /\ touched = Untouched /\ queue = <<>>
  /\ mem = [r \in RoomIds |-> Absent] /\ looks = [r \in RoomIds |-> Absent]
  /\ stored = {} /\ watermark = 0
  /\ call = [c \in Calls |-> Resting] /\ owes = TRUE
  /\ stale = {} /\ spilt = {} /\ asOf = 0 /\ waived = {}

----------------------------------------------------------------------------
\* The server: its memberships, events and pushes.

\* Only an invite and its end are pushed as such.
Becomes(r, m) ==
  /\ m # members[r].m
  /\ members' = [members EXCEPT ![r] = [m |-> m, is |-> Clock + 1]]
  /\ IF on /\ "invite" \in {m, members[r].m}
     THEN /\ wire' = Append(wire, [room |-> r, m |-> m, is |-> Clock + 1, gap |-> srvGap])
          /\ srvGap' = FALSE
     ELSE UNCHANGED <<wire, srvGap>>

\* Somebody invites this account, takes the invite back or removes it from the
\* room; another device of its own accepts or refuses.
OthersChange(r, m) ==
  /\ StillMay("changes")
  /\ m = "invite" => members[r].m = "leave"
  /\ m = "join" => members[r].m = "invite"
  /\ Becomes(r, m)
  /\ UNCHANGED <<head, sealAt, on, told, feed, lost, task, callers, touched, queue, cacheDb,
                 call, owes, roomGhosts>>

\* The newest push does not fit: the server says so with the next one it sends.
\* Locally the inbox keeps a flag, and the task passes it on with the next push it
\* takes, which is one from before the loss; a gap that the lost push told of goes
\* the same way.
Waiting(r) == \/ \E i \in 1 .. (Len(wire) - 1) : wire[i].room = r
              \/ task.pc = "marked" /\ task.push.room = r
PushIsLost ==
  /\ wire # <<>> /\ StillMay("drops")
  /\ wire' = Front(wire)
  /\ \/ srvGap' = TRUE /\ UNCHANGED <<lost, spilt>>
     \/ /\ lost' = TRUE /\ UNCHANGED srvGap
        /\ spilt' = spilt \cup {r \in RoomIds :
                                  Waiting(r) /\ (r = Last(wire).room \/ Last(wire).gap)}
  /\ UNCHANGED <<roomServer, on, told, feed, task, callers, touched, queue, cacheDb, call, owes,
                 stale, asOf, waived>>

\* An event of the room; perhaps the one that turns encryption on.
NewEvent ==
  /\ StillMay("events")
  /\ head' = head + 1
  /\ sealAt' \in IF sealAt = 0 THEN {0, head + 1} ELSE {sealAt}
  /\ feed' = IF on THEN Append(feed, head + 1) ELSE feed
  /\ UNCHANGED <<members, on, told, wire, srvGap, lost, task, callers, touched, queue, cacheDb,
                 call, owes, roomGhosts>>

\* The line dies: what was under way is lost, and the subscription with it.
RoomsLineDies ==
  /\ on /\ StillMay("deaths")
  /\ on' = FALSE /\ wire' = <<>> /\ feed' = <<>>
  /\ UNCHANGED <<roomServer, told, srvGap, lost, task, callers, touched, queue, cacheDb, call,
                 owes, roomGhosts>>

\* init_rooms: both subscriptions start afresh and a new task takes the pushes;
\* what the old one waits for is written all the same.
Subscribe ==
  /\ ~on /\ task.pc # "marked"
  /\ on' = TRUE /\ told' = FALSE /\ srvGap' = FALSE /\ lost' = FALSE /\ task' = Resting
  /\ queue' = [i \in DOMAIN queue |-> IF queue[i].by = Task THEN [queue[i] EXCEPT !.by = Absent]
                                      ELSE queue[i]]
  /\ UNCHANGED <<roomServer, wire, feed, callers, touched, cacheDb, call, owes, roomGhosts,
                 roomsLeft>>

\* link.state opened, when the line is in its slot: the UI owes a round.
TellOpened ==
  /\ on /\ ~told /\ told' = TRUE /\ owes' = TRUE
  /\ UNCHANGED <<roomServer, on, wire, feed, srvGap, lost, task, callers, touched, queue,
                 cacheDb, call, roomGhosts, roomsLeft>>

----------------------------------------------------------------------------
\* The task of the rooms line takes one push at a time and waits for its write.

Post(job) == queue' = Append(queue, job)

\* mark_touched: only while a round is open.
Touch(r, is) == touched' = IF callers = 0 THEN touched ELSE [touched EXCEPT ![r] = Max({@, is})]
\* Mutant: nothing is marked before the write.
MarkLate(push) == UNCHANGED touched
\* record_invite_push: a push is marked before it is written.
MarkEarly(push) == Touch(push.room, push.is)

TakeInvite ==
  /\ on /\ task.pc = "idle" /\ wire # <<>>
  /\ task' = [pc |-> "marked", push |-> Head(wire), gap |-> Head(wire).gap \/ lost]
  /\ wire' = Tail(wire) /\ lost' = FALSE
  /\ MarkEarly(Head(wire))
  /\ UNCHANGED <<roomServer, on, told, feed, srvGap, callers, queue, cacheDb, call, owes,
                 roomGhosts, roomsLeft>>

WriteInvite ==
  /\ task.pc = "marked"
  /\ Post([do |-> "push", by |-> Task, room |-> task.push.room, m |-> task.push.m])
  /\ task' = [task EXCEPT !.pc = "wait"]
  /\ UNCHANGED <<roomServer, roomsLine, callers, touched, cacheDb, call, owes, roomGhosts,
                 roomsLeft>>

\* room.membership goes out, with the gap, once the write is committed; a write that
\* failed is only noted, its gap with it.
TellInvite ==
  /\ task.pc \in {"stored", "failed"}
  /\ owes' = (owes \/ (task.pc = "stored" /\ task.gap))
  /\ stale' = IF task.pc = "stored" THEN stale
              ELSE IF task.gap THEN RoomIds ELSE stale \cup {task.push.room}
  /\ asOf' = IF task.pc = "failed" /\ task.gap THEN Clock ELSE asOf
  /\ task' = Resting
  /\ UNCHANGED <<roomServer, roomsLine, callers, touched, queue, cacheDb, call, spilt, waived,
                 roomsLeft>>

\* on_push.
TakeEvents ==
  /\ on /\ task.pc = "idle" /\ feed # <<>>
  /\ Post([do |-> "events", by |-> Task, events |-> {Head(feed)}])
  /\ task' = [pc |-> "wait"] /\ feed' = Tail(feed)
  /\ UNCHANGED <<roomServer, on, told, wire, srvGap, lost, callers, touched, cacheDb, call,
                 owes, roomGhosts, roomsLeft>>

----------------------------------------------------------------------------
\* The calls.

GoesOn(c, next) == call' = [call EXCEPT ![c] = next]

\* The server does the request and answers; the answer may be lost.
AsksFor(c, what) == call[c] = Resting /\ StillMay(what)
AnsweredWith(c, job) == GoesOn(c, [pc |-> "answered", job |-> job])

\* fetch_invites: the round is opened before Invite/Fetch is sent.  One that begins
\* while another is open takes over what was pushed during that one, as if it had
\* come after its own snapshot: what it was to make up for is lost for these rooms.
FetchInvites(c) ==
  /\ AsksFor(c, "fetches")
  /\ callers' = callers + 1 /\ owes' = FALSE
  /\ spilt' = spilt \cup {r \in RoomIds : owes /\ touched[r] # 0}
  /\ GoesOn(c, [pc |-> "fetching"])
  /\ UNCHANGED <<roomServer, roomsLine, task, touched, queue, cacheDb, stale, asOf, waived>>

Counts == [r \in RoomIds |-> IF members[r].m = "invite" THEN members[r].is ELSE 0]

FetchAnswered(c) ==
  /\ call[c].pc = "fetching"
  /\ GoesOn(c, [pc |-> "fetched",
                job |-> [do |-> "round", by |-> c, snap |-> Counts, at |-> Clock]])
  /\ UNCHANGED <<roomServer, roomsLine, task, callers, touched, queue, cacheDb, owes,
                 roomGhosts, roomsLeft>>

\* The guard is dropped; the last one forgets what was pushed.  A round that broke
\* off or could not be written is an error to the UI, which asks again.
CloseRound(c) ==
  /\ call[c].pc \in {"round", "noround"}
  /\ callers' = callers - 1
  /\ touched' = IF callers = 1 THEN Untouched ELSE touched
  /\ owes' = (owes \/ call[c].pc = "noround")
  /\ GoesOn(c, Resting)
  /\ UNCHANGED <<roomServer, roomsLine, task, queue, cacheDb, roomGhosts, roomsLeft>>

\* enter_room, leave_room: what the server acknowledged is recorded.
Act(c, r, m) ==
  /\ AsksFor(c, "acts") /\ m \in {"join", "leave"}
  /\ m = "leave" => members[r].m # "leave"
  /\ Becomes(r, m)
  /\ AnsweredWith(c, [do |-> "member", by |-> c, room |-> r, m |-> m, is |-> members'[r].is])
  /\ UNCHANGED <<head, sealAt, on, told, feed, lost, task, callers, touched, queue, cacheDb,
                 owes, roomGhosts>>

\* forget_room: only a room that was left.
ForgetRoom(c, r) ==
  /\ AsksFor(c, "acts") /\ members[r].m = "leave"
  /\ AnsweredWith(c, [do |-> "forget", by |-> c, room |-> r, is |-> members[r].is])
  /\ UNCHANGED <<roomServer, roomsLine, task, callers, touched, queue, cacheDb, owes, roomGhosts>>

\* list_rooms: the rooms joined by now.
List(c) ==
  /\ AsksFor(c, "looks")
  /\ AnsweredWith(c, [do |-> "joined", by |-> c,
                      rooms |-> {r \in RoomIds : members[r].m = "join"},
                      ages |-> [r \in RoomIds |-> members[r].is]])
  /\ UNCHANGED <<roomServer, roomsLine, task, callers, touched, queue, cacheDb, owes, roomGhosts>>

\* conversation: the state of the room, its encryption with it.
Look(c, r) ==
  /\ AsksFor(c, "looks")
  /\ AnsweredWith(c, [do |-> "look", by |-> c, room |-> r, is |-> members[r].is,
                      seen |-> IF r = Talk /\ sealAt # 0 THEN "yes" ELSE "no"])
  /\ UNCHANGED <<roomServer, roomsLine, task, callers, touched, queue, cacheDb, owes, roomGhosts>>

\* Event/Recent: the newest window of what is after `base` and before `before`.
NewestEvents(base, before) ==
  (Max({base, Min({before, head + 1}) - 1 - Window}) + 1) .. (Min({before, head + 1}) - 1)

Recent(c) ==
  /\ AsksFor(c, "recents")
  /\ \E base \in {watermark, 0} :
       GoesOn(c, [pc |-> "window", base |-> base, before |-> head + 1, top |-> 0])
  /\ UNCHANGED <<roomServer, roomsLine, task, callers, touched, queue, cacheDb, owes, roomGhosts>>

\* recent_window: the events go to the writer before the next window is asked for;
\* the watermark will be the newest of the first.
AskWindow(c) ==
  /\ call[c].pc = "window"
  /\ LET got == NewestEvents(call[c].base, call[c].before) IN
     IF got = {} THEN GoesOn(c, [call[c] EXCEPT !.pc = "pulled"]) /\ UNCHANGED queue
     ELSE /\ Post([do |-> "events", by |-> c, events |-> got])
          /\ GoesOn(c, [pc |-> "wait", base |-> call[c].base, before |-> Min(got),
                      top |-> IF call[c].top = 0 THEN Max(got) ELSE call[c].top])
  /\ UNCHANGED <<roomServer, roomsLine, task, callers, touched, cacheDb, owes, roomGhosts,
                 roomsLeft>>

\* recent_sync goes on until it has caught up or the limit of the plan is reached;
\* what it then skips the UI has been told.
NextWindow(c) ==
  /\ call[c].pc = "stored" /\ "base" \in DOMAIN call[c]
  /\ \/ GoesOn(c, [call[c] EXCEPT !.pc = "window"]) /\ UNCHANGED waived
     \/ /\ GoesOn(c, [call[c] EXCEPT !.pc = "pulled"])
        /\ waived' = waived \cup ((call[c].base + 1) .. (call[c].before - 1))
  /\ UNCHANGED <<roomServer, roomsLine, task, callers, touched, queue, cacheDb, owes, stale,
                 spilt, asOf, roomsLeft>>

\* Mutant: the watermark goes as soon as the first window is in.
MarkFirst(c) ==
  /\ call[c].pc \in {"pulled", "window"}
  /\ IF call[c].top = 0 THEN call[c].pc = "pulled" /\ GoesOn(c, Resting) /\ UNCHANGED queue
     ELSE /\ Post([do |-> "mark", by |-> c, at |-> call[c].top])
          /\ GoesOn(c, [pc |-> "wait"])
  /\ UNCHANGED <<roomServer, roomsLine, task, callers, touched, cacheDb, owes, roomGhosts,
                 roomsLeft>>
\* pull_recent: the watermark goes last, through the same queue.
MarkRecent(c) ==
  /\ call[c].pc = "pulled"
  /\ IF call[c].top = 0 THEN GoesOn(c, Resting) /\ UNCHANGED queue
     ELSE /\ Post([do |-> "mark", by |-> c, at |-> call[c].top])
          /\ GoesOn(c, [pc |-> "wait"])
  /\ UNCHANGED <<roomServer, roomsLine, task, callers, touched, cacheDb, owes, roomGhosts,
                 roomsLeft>>

\* What was answered is written; a call waits for its write.
Record(c) ==
  /\ call[c].pc \in {"answered", "fetched"}
  /\ Post(call[c].job) /\ GoesOn(c, [pc |-> "wait"])
  /\ UNCHANGED <<roomServer, roomsLine, task, callers, touched, cacheDb, owes, roomGhosts,
                 roomsLeft>>

\* A round or a window breaks off.
BreaksOff(c) ==
  /\ StillMay("faults")
  /\ \/ call[c].pc \in {"fetching", "fetched"} /\ GoesOn(c, [pc |-> "noround"])
     \/ call[c].pc = "window" /\ GoesOn(c, Resting)
  /\ UNCHANGED <<roomServer, roomsLine, task, callers, touched, queue, cacheDb, owes, roomGhosts>>

\* The call returns: what it could not record nobody writes later.
Return(c) ==
  /\ call[c].pc \in {"stored", "failed"} /\ ~("base" \in DOMAIN call[c] /\ call[c].pc = "stored")
  /\ GoesOn(c, Resting)
  /\ UNCHANGED <<roomServer, roomsLine, task, callers, touched, queue, cacheDb, owes,
                 roomGhosts, roomsLeft>>

----------------------------------------------------------------------------
\* The writer: one job after the other, each a transaction.

Job == Head(queue)
\* A row of rooms comes with the first row of the room.
Row(r) == IF looks[r] = Absent THEN "unknown" ELSE looks[r]

\* apply_invite_round: the snapshot gives way to a push that came since; what it
\* does not list any more has ended.
Yields(r, count) == touched[r] # 0 /\ touched[r] >= count
Ended(r, snap) == mem[r] = "invite" /\ snap[r] = 0 /\ touched[r] = 0

Listed(snap) == {r \in RoomIds : snap[r] # 0 /\ ~Yields(r, snap[r])}
\* Ghost: a membership is stale when what was written is older than what the server
\* has, and nothing that would come later is bound to correct it.
Aged(r, is) == stale' = IF is < members[r].is THEN stale \cup {r} ELSE stale \ {r}

\* record_invite, record_membership after a push.
ApplyPush ==
  /\ Job.do = "push"
  /\ mem' = [mem EXCEPT ![Job.room] = Job.m] /\ looks' = [looks EXCEPT ![Job.room] = Row(Job.room)]
  /\ stale' = stale \ {Job.room}
  /\ UNCHANGED <<stored, watermark, spilt, asOf, waived>>

ApplyRound ==
  /\ Job.do = "round"
  /\ mem' = [r \in RoomIds |-> IF r \in Listed(Job.snap) THEN "invite"
                               ELSE IF Ended(r, Job.snap) THEN "leave" ELSE mem[r]]
  /\ looks' = [r \in RoomIds |-> IF r \in Listed(Job.snap) THEN Row(r) ELSE looks[r]]
  /\ stale' = IF Job.at >= asOf THEN stale \ {r \in RoomIds : touched[r] = 0}
              ELSE stale \cup {r \in RoomIds : /\ Job.at < members[r].is
                                              /\ (touched[r] = 0 \/ r \in Listed(Job.snap))}
  /\ asOf' = Max({asOf, Job.at})
  /\ UNCHANGED <<stored, watermark, spilt, waived>>

\* record_membership after an action of this account.
ApplyMember ==
  /\ Job.do = "member"
  /\ mem' = [mem EXCEPT ![Job.room] = Job.m]
  /\ looks' = [looks EXCEPT ![Job.room] = Row(Job.room)]
  /\ Aged(Job.room, Job.is)
  /\ UNCHANGED <<stored, watermark, spilt, asOf, waived>>

\* record_joined_rooms.
ApplyJoined ==
  /\ Job.do = "joined"
  /\ mem' = [r \in RoomIds |-> IF r \in Job.rooms THEN "join"
                               ELSE IF mem[r] = "join" THEN "leave" ELSE mem[r]]
  /\ looks' = [r \in RoomIds |-> IF r \in Job.rooms THEN Row(r) ELSE looks[r]]
  /\ stale' = stale \cup {r \in RoomIds : Job.ages[r] < members[r].is}
  /\ UNCHANGED <<stored, watermark, spilt, asOf, waived>>

\* upsert_conversations: a new row is that of a joined room; that a room is
\* encrypted is never taken back.
Rise(was, seen) == IF was = "yes" THEN was ELSE seen

ApplyLook ==
  /\ Job.do = "look"
  /\ mem' = [mem EXCEPT ![Job.room] = IF @ = Absent THEN "join" ELSE @]
  /\ looks' = [looks EXCEPT ![Job.room] = Rise(@, Job.seen)]
  /\ UNCHANGED <<stored, watermark, roomGhosts>>

\* forget_room: the row, the events and the room go in one transaction.
ApplyForget ==
  /\ Job.do = "forget"
  /\ mem' = [mem EXCEPT ![Job.room] = Absent] /\ looks' = [looks EXCEPT ![Job.room] = Absent]
  /\ IF Job.room = Talk THEN stored' = {} /\ waived' = waived \cup stored
     ELSE UNCHANGED <<stored, waived>>
  /\ Aged(Job.room, Job.is)
  /\ UNCHANGED <<watermark, spilt, asOf>>

\* upsert_events: an encrypted event, or the one that turns encryption on, is evidence.
Shows(e) == sealAt # 0 /\ e >= sealAt
ApplyEvents ==
  /\ Job.do = "events"
  /\ stored' = stored \cup Job.events
  /\ looks' = [looks EXCEPT ![Talk] = IF \E e \in Job.events : Shows(e) THEN "yes" ELSE Row(Talk)]
  /\ UNCHANGED <<mem, watermark, roomGhosts>>

\* set_cg_seq.
ApplyMark ==
  /\ Job.do = "mark" /\ watermark' = Job.at
  /\ UNCHANGED <<mem, looks, stored, roomGhosts>>

\* Who waits for the job learns how it went; nobody waits for what a task posted that
\* is gone.
EndsAs(c, result) == IF Job.do # "round" THEN result
                   ELSE IF result = "stored" THEN "round" ELSE "noround"
Report(result) ==
  /\ call' = IF Job.by \in Calls THEN [call EXCEPT ![Job.by].pc = EndsAs(Job.by, result)] ELSE call
  /\ task' = IF Job.by # Task THEN task
             ELSE IF Job.do = "push" THEN [task EXCEPT !.pc = result] ELSE Resting

Commit ==
  /\ queue # <<>> /\ queue' = Tail(queue)
  /\ \/ ApplyPush \/ ApplyRound \/ ApplyMember \/ ApplyJoined
     \/ ApplyLook \/ ApplyForget \/ ApplyEvents \/ ApplyMark
  /\ Report("stored")
  /\ UNCHANGED <<roomServer, roomsLine, callers, touched, owes, roomsLeft>>

\* The disk refuses: the transaction is undone.
WriteFails ==
  /\ queue # <<>> /\ StillMay("faults") /\ queue' = Tail(queue)
  /\ Report("failed")
  /\ UNCHANGED <<roomServer, roomsLine, callers, touched, cacheDb, owes, roomGhosts>>

\* The process stops: what was not committed is gone.
RoomsCrash ==
  /\ StillMay("crashes")
  /\ on' = FALSE /\ told' = TRUE /\ wire' = <<>> /\ feed' = <<>> /\ lost' = FALSE
  /\ task' = Resting /\ callers' = 0 /\ touched' = Untouched /\ queue' = <<>>
  /\ call' = [c \in Calls |-> Resting] /\ owes' = TRUE
  /\ UNCHANGED <<roomServer, srvGap, cacheDb, roomGhosts>>

RoomsNext ==
  \/ \E r \in RoomIds, m \in Memberships : OthersChange(r, m)
  \/ PushIsLost \/ NewEvent \/ RoomsLineDies \/ Subscribe \/ TellOpened
  \/ TakeInvite \/ WriteInvite \/ TellInvite \/ TakeEvents
  \/ \E c \in Calls, r \in RoomIds : \/ \E m \in Memberships : Act(c, r, m)
                                     \/ ForgetRoom(c, r) \/ Look(c, r)
  \/ \E c \in Calls : \/ FetchInvites(c) \/ FetchAnswered(c) \/ CloseRound(c) \/ List(c)
                      \/ Recent(c) \/ AskWindow(c) \/ NextWindow(c) \/ MarkRecent(c)
                      \/ Record(c) \/ BreaksOff(c) \/ Return(c)
  \/ Commit \/ WriteFails \/ RoomsCrash

RoomsSpec == RoomsInit /\ [][RoomsNext]_roomVars

----------------------------------------------------------------------------
\* Nothing is under way, and the UI has done what it has to.
AtRest ==
  /\ on /\ told /\ ~owes /\ ~srvGap /\ ~lost
  /\ wire = <<>> /\ queue = <<>> /\ task = Resting /\ call = [c \in Calls |-> Resting]

Settled(rooms) == AtRest => \A r \in rooms : mem[r] = "invite" <=> members[r].m = "invite"

\* Once all is at rest, the cache lists as invites exactly the invites the server has:
\* pushes, a round whose snapshot is older than they are, actions of this account, lost
\* pushes, a new line and a crash leave nothing behind; but for rooms whose last write
\* was outdated when it was made, or failed, and those `spilt`.
InvitesSettle == Settled(RoomIds \ (stale \cup spilt))

\* What the cache claims, its events bear out, whatever stops or fails on the way and in
\* whatever order looks, events and a forget are written: all events up to the watermark
\* are there, but for those that the plan's limit left out or that were forgotten; and a
\* room is not held for one without encryption by an event that shows the contrary.
ClaimsAreCovered ==
  /\ 1 .. watermark \subseteq stored \cup waived
  /\ looks[Talk] = "no" => \A e \in stored : ~Shows(e)
=============================================================================
