------------------------------- MODULE KeyShare -------------------------------
(***************************************************************************)
(* The key of one room (wbf-core/src/key_share.rs, room_crypto.rs): only a *)
(* background task of the account makes, changes and hands out room keys;  *)
(* who sends a message uses what is there or waits for it.                 *)
(*                                                                         *)
(* A room version is opaque to the client, which compares it for equality; *)
(* here it is the set of members itself, as with a server that hashes      *)
(* them: a version may come back.  A user is one device.  What the         *)
(* matrix-sdk-crypto library does with the outbound session is external.   *)
(***************************************************************************)
EXTENDS Naturals, Sequences

CONSTANTS
  Users,      \* the others who may be in the room
  Calls,      \* calls of the RPC at one time
  None,
  FirstRooms, \* who may be in the room at the start
  Cases       \* bounds: how often each thing may happen

Happenings == {"changes", "edits", "ages", "sends", "refreshes", "faults", "crashes"}

Sessions ==
  [id : Nat, with : SUBSET Users, queued : SUBSET Users, age : {"fresh", "due", "expired"},
   period : Nat, gone : BOOLEAN]
Wants == [members : SUBSET Users, discard : BOOLEAN]
Items == [what : {"prepare", "sent", "own", "opened"}, members : SUBSET Users]
Tasks ==
  [at : {"recv", "used", "line", "own", "room", "ask", "share", "send", "check"},
   up : BOOLEAN, failed : BOOLEAN, period : Nat]
Askings ==
  [at : {"idle", "fetch", "hand", "key", "wait", "check", "encrypt", "post", "sent"},
   members : SUBSET Users, woken : BOOLEAN, handed : BOOLEAN, clean : BOOLEAN,
   to : SUBSET Users]

\* What the constants must be: None is none of the values it stands beside.
ASSUME Shapes ==
  /\ Cases \subseteq [Happenings -> Nat] /\ FirstRooms \subseteq SUBSET Users
  /\ None \notin Sessions /\ None \notin Wants /\ \A members \in SUBSET Users : None # members

VARIABLES
  room,       \* the server: who is in the room, which is the room version too
  rotation,   \* the server: which period m.room.encryption asks for
  line,       \* the keys line is open
  session,    \* the crypto store: the outbound session of the room
  want,       \* KeyShareTask: `rooms` at this room
  used,       \* KeyShareTask: `used` at this room
  own,        \* KeyShareTask: upload_own_keys
  inbox,      \* KeyShareInbox
  task,       \* where the task is, on a line that is up, and what has failed
  retry,      \* retry_at is set
  ready,      \* RoomKeyReadiness.ready at this room
  call,       \* where each call is
  ui,         \* the room_devices the UI holds
  posted,     \* history: messages that the server took
  shaped,     \* history: the version that the session was last shared for
  left        \* what is left of the bounds

server == <<room, rotation>>
work == <<want, used, own, inbox, retry>>
vars == <<room, rotation, line, session, want, used, own, inbox, task, retry, ready, call, ui,
          posted, shaped, left>>

Want(members, discard) == [members |-> members, discard |-> discard]
Prepare(members) == [what |-> "prepare", members |-> members]
AfterSend(members) == [what |-> "sent", members |-> members]
UploadOwnKeys == [what |-> "own", members |-> {}]
LineOpened == [what |-> "opened", members |-> {}]

\* A session: who has it acknowledged (`with`), whose copy is not (`queued`).
NewSession(id, members, period) ==
  [id |-> id, with |-> {}, queued |-> members, age |-> "fresh", period |-> period,
   gone |-> FALSE]

AtRest == [at |-> "recv", up |-> FALSE, failed |-> FALSE, period |-> 0]
NoCall == [at |-> "idle", members |-> {}, woken |-> FALSE, handed |-> FALSE, clean |-> FALSE,
           to |-> {}]

TypeOK ==
  /\ room \in SUBSET Users /\ rotation \in {0, 1} /\ line \in BOOLEAN
  /\ session \in {None} \cup Sessions
  /\ want \in {None} \cup Wants /\ used \in {None} \cup SUBSET Users /\ own \in BOOLEAN
  /\ inbox \in Seq(Items)
  /\ task \in Tasks /\ retry \in BOOLEAN
  /\ ready \in {None} \cup SUBSET Users
  /\ call \in [Calls -> Askings]
  /\ ui \in SUBSET Users
  /\ posted \subseteq [members : SUBSET Users, to : SUBSET Users, clean : BOOLEAN]
  /\ shaped \in {None} \cup SUBSET Users
  /\ left \in [Happenings -> Nat]

Init ==
  /\ room \in FirstRooms /\ rotation = 0 /\ line = FALSE
  /\ session = None /\ want = None /\ used = None /\ own = FALSE /\ inbox = <<>>
  /\ task = AtRest /\ retry = FALSE /\ ready = None
  /\ call = [c \in Calls |-> NoCall] /\ ui = room
  /\ posted = {} /\ shaped = None
  /\ left \in Cases

Spend(what) == left[what] > 0 /\ left' = [left EXCEPT ![what] = @ - 1]
HandIn(item) == inbox' = Append(inbox, item)

-----------------------------------------------------------------------------
(* The room, time, the line. *)

RoomChanges ==
  /\ Spend("changes")
  /\ \E u \in Users : room' = IF u \in room THEN room \ {u} ELSE room \cup {u}
  /\ UNCHANGED <<rotation, line, session, work, task, ready, call, ui, posted, shaped>>

RotationIsEdited ==
  /\ Spend("edits") /\ rotation' = 1 - rotation
  /\ UNCHANGED <<room, line, session, work, task, ready, call, ui, posted, shaped>>

\* Messages and time bring a session near its end, and past it.
Ages ==
  /\ session # None /\ session.age # "expired" /\ Spend("ages")
  /\ session' = [session EXCEPT !.age = IF @ = "fresh" THEN "due" ELSE "expired"]
  /\ UNCHANGED <<server, line, work, task, ready, call, ui, posted, shaped>>

\* init_keys: its upload of the device's own keys may fail, then it wakes the task.
OpenLine ==
  /\ ~line /\ line' = TRUE
  /\ \/ HandIn(LineOpened) /\ UNCHANGED left
     \/ Spend("faults") /\ inbox' = inbox \o <<UploadOwnKeys, LineOpened>>
  /\ UNCHANGED <<server, session, want, used, own, task, retry, ready, call, ui, posted, shaped>>

LineDies ==
  /\ line /\ Spend("faults") /\ line' = FALSE /\ task' = [task EXCEPT !.up = FALSE]
  /\ UNCHANGED <<server, session, work, ready, call, ui, posted, shaped>>

-----------------------------------------------------------------------------
(* What a session is good for. *)

\* Mutant: a key counts as ready although somebody's copy is not acknowledged.
ReadyUnacked == session # None /\ ~session.gone /\ session.age # "expired"

KeyIsReady ==
  /\ session # None
  /\ ~session.gone
  /\ session.age # "expired"
  /\ session.queued = {}

MustRenew(members) ==
  \/ session = None \/ session.gone \/ session.age = "expired"
  \/ (session.with \cup session.queued) \ members # {}

\* share_room_key: a new session, or the same one for those who do not have it.
Shared(members) ==
  IF MustRenew(members)
  THEN NewSession(IF session = None THEN 1 ELSE session.id + 1, members, task.period)
  ELSE [session EXCEPT !.queued = @ \cup (members \ session.with)]

Discarded == IF session = None THEN None ELSE [session EXCEPT !.gone = TRUE]

\* The task changed the session: what a call has checked of it is of the past.
Stirred == call' = [c \in Calls |-> [call[c] EXCEPT !.clean = FALSE]]

-----------------------------------------------------------------------------
(* The task. *)

MergeWant(old, new) ==
  Want(new.members, new.discard \/ (old # None /\ old.discard))

\* The last item of a kind: of what is prepared, and of what was used, the latest counts.
Last(what) ==
  {i \in DOMAIN inbox :
     inbox[i].what = what /\ \A j \in DOMAIN inbox : j > i => inbox[j].what # what}

Brings(what) == \E i \in DOMAIN inbox : inbox[i].what = what

\* All that is there joins what is in hand: `rooms`, `used`, upload_own_keys.
TakeWork ==
  /\ task.at = "recv" /\ (inbox # <<>> \/ retry)
  /\ IF Brings("prepare")
     THEN \E i \in Last("prepare") : want' = MergeWant(want, Want(inbox[i].members, FALSE))
     ELSE UNCHANGED want
  /\ IF Brings("sent") THEN \E i \in Last("sent") : used' = inbox[i].members
     ELSE UNCHANGED used
  /\ own' = (own \/ Brings("own"))
  /\ inbox' = <<>>
  /\ task' = [AtRest EXCEPT !.at = IF used' = None THEN "line" ELSE "used"]
  /\ UNCHANGED <<server, line, session, retry, ready, call, ui, posted, shaped, left>>

\* Reads the crypto store only; a store that cannot be read is told in a note.
CheckAfterSend ==
  /\ task.at = "used"
  /\ \/ /\ KeyIsReady /\ session.age = "fresh"
        /\ UNCHANGED <<want, left>>
     \/ /\ ~(KeyIsReady /\ session.age = "fresh")
        /\ want' = MergeWant(want, Want(used, KeyIsReady))
        /\ UNCHANGED left
     \/ Spend("faults") /\ UNCHANGED want
  /\ used' = None
  /\ task' = [task EXCEPT !.at = "line"]
  /\ UNCHANGED <<server, line, session, own, inbox, retry, ready, call, ui, posted, shaped>>

\* Mutant: what failed waits for the next item.
EndsForGood(failed) == task' = AtRest /\ retry' = FALSE

\* The end of a round: the delay grows; only that there is one matters here.
Ends(failed) == task' = AtRest /\ retry' = failed

\* What prepare begins with.
Prepares == IF want.discard THEN "room" ELSE "ask"

\* reuse, never open: without a line it waits for the next item.
FindLine ==
  /\ task.at = "line"
  /\ IF (want = None /\ ~own) \/ ~line
     THEN Ends(FALSE)
     ELSE /\ task' = [task EXCEPT !.up = TRUE, !.at = IF own THEN "own" ELSE Prepares]
          /\ UNCHANGED retry
  /\ UNCHANGED <<server, line, session, want, used, own, inbox, ready, call, ui, posted, shaped,
                 left>>

\* A request of the task on its line fails: with the line, or refused.
RequestFails ==
  \/ ~task.up /\ UNCHANGED left
  \/ task.up /\ Spend("faults")

UploadOwn ==
  /\ task.at = "own"
  /\ \E failed \in BOOLEAN :
       /\ IF failed THEN RequestFails ELSE task.up /\ UNCHANGED left
       /\ own' = failed
       /\ IF want = None
          THEN Ends(failed)
          ELSE task' = [task EXCEPT !.at = Prepares, !.failed = failed] /\ UNCHANGED retry
  /\ UNCHANGED <<server, line, session, want, used, inbox, ready, call, ui, posted, shaped>>

\* Mutant: the want keeps its order to discard until the key is ready.
DiscardAgain ==
  /\ task.at = "room"
  /\ session' = Discarded /\ Stirred
  /\ UNCHANGED want
  /\ task' = [task EXCEPT !.at = "ask"]
  /\ UNCHANGED <<server, line, used, own, inbox, retry, ready, ui, posted, shaped, left>>

\* The head of prepare: a key that is to be discarded is, once.
DiscardFirst ==
  /\ task.at = "room"
  /\ session' = Discarded /\ Stirred
  /\ want' = [want EXCEPT !.discard = FALSE]
  /\ task' = [task EXCEPT !.at = "ask"]
  /\ UNCHANGED <<server, line, used, own, inbox, retry, ready, ui, posted, shaped, left>>

\* The room's own period; a session made for another one is discarded.
AskRotation ==
  /\ task.at = "ask"
  /\ \/ /\ task.up /\ UNCHANGED <<retry, left>>
        /\ task' = [task EXCEPT !.at = "share", !.period = rotation]
        /\ IF session # None /\ session.period # rotation
           THEN session' = Discarded /\ Stirred
           ELSE UNCHANGED <<session, call>>
     \/ RequestFails /\ Ends(TRUE) /\ UNCHANGED <<session, call>>
  /\ UNCHANGED <<server, line, want, used, own, inbox, ready, ui, posted, shaped>>

\* /keys/query and /keys/claim, which may fail; then share_room_key.
Share ==
  /\ task.at = "share"
  /\ \/ /\ task.up /\ UNCHANGED <<retry, left>>
        /\ session' = Shared(want.members) /\ Stirred
        /\ shaped' = want.members
        /\ task' = [task EXCEPT !.at = IF session'.queued = {} THEN "check" ELSE "send"]
     \/ RequestFails /\ Ends(TRUE) /\ UNCHANGED <<session, call, shaped>>
  /\ UNCHANGED <<server, line, want, used, own, inbox, ready, ui, posted>>

\* One to-device message after the other; what the server did not acknowledge stays queued.
SendKey ==
  /\ task.at = "send"
  /\ \/ /\ task.up /\ UNCHANGED <<retry, left>>
        /\ \E u \in session.queued :
             session' = [session EXCEPT !.with = @ \cup {u}, !.queued = @ \ {u}]
        /\ task' = [task EXCEPT !.at = IF session'.queued = {} THEN "check" ELSE "send"]
     \/ RequestFails /\ Ends(TRUE) /\ UNCHANGED session
  /\ UNCHANGED <<server, line, want, used, own, inbox, ready, call, ui, posted, shaped>>

\* Mutant: nobody is woken.
SetReadyQuietly(members) == ready' = members /\ UNCHANGED call

SetReady(members) ==
  /\ ready' = members
  /\ call' = [c \in Calls |-> [call[c] EXCEPT !.woken = TRUE]]

CheckReady ==
  /\ task.at = "check"
  /\ IF KeyIsReady
     THEN SetReady(want.members) /\ want' = None /\ Ends(task.failed)
     ELSE Ends(TRUE) /\ UNCHANGED <<want, ready, call>>
  /\ UNCHANGED <<server, line, session, used, own, inbox, ui, posted, shaped, left>>

Round == \/ TakeWork \/ CheckAfterSend \/ FindLine \/ UploadOwn \/ DiscardFirst \/ AskRotation
         \/ Share \/ SendKey \/ CheckReady

-----------------------------------------------------------------------------
(* The calls. *)

At(c, at) == call[c].at = at
Becomes(c, at) == call' = [call EXCEPT ![c].at = at]
Returns(c) == call' = [call EXCEPT ![c] = NoCall]
Others == <<room, rotation, line, session, want, used, own, task, retry, ready, shaped>>

\* room.refresh_devices.
StartRefresh(c) ==
  /\ At(c, "idle") /\ Spend("refreshes") /\ Becomes(c, "fetch")
  /\ UNCHANGED <<Others, inbox, ui, posted>>

\* The members of this moment, on the keys line (client_of opens it: OpenLine).
Fetch(c) ==
  /\ At(c, "fetch") /\ line
  /\ call' = [call EXCEPT ![c].at = "hand", ![c].members = room]
  /\ UNCHANGED <<Others, inbox, ui, posted, left>>

\* prepare_room_key; the UI gets the new state with the answer.
HandOver(c) ==
  /\ At(c, "hand")
  /\ HandIn(Prepare(call[c].members)) /\ ui' = call[c].members /\ Returns(c)
  /\ UNCHANGED <<Others, posted, left>>

\* The wish is handed in once, then it waits to be woken.
Waits(c, asking) ==
  /\ IF asking.handed THEN UNCHANGED inbox ELSE HandIn(Prepare(asking.members))
  /\ call' = [call EXCEPT ![c] = [asking EXCEPT !.at = "wait", !.handed = TRUE]]

\* is_room_key_ready_within: the version first, the key after an await.
Looks(c, asking) ==
  IF ready = asking.members
  THEN call' = [call EXCEPT ![c] = [asking EXCEPT !.at = "key"]] /\ UNCHANGED inbox
  ELSE Waits(c, asking)

\* wbf_send_encrypted; it has subscribed to the readiness before it looks.
StartSend(c) ==
  /\ At(c, "idle") /\ Spend("sends")
  /\ Looks(c, [NoCall EXCEPT !.members = ui])
  /\ UNCHANGED <<Others, ui, posted>>

LookAtKey(c) ==
  /\ At(c, "key")
  /\ IF KeyIsReady THEN Becomes(c, "check") /\ UNCHANGED inbox ELSE Waits(c, call[c])
  /\ UNCHANGED <<Others, ui, posted, left>>

Wake(c) ==
  /\ At(c, "wait") /\ call[c].woken
  /\ Looks(c, [call[c] EXCEPT !.woken = FALSE])
  /\ UNCHANGED <<Others, ui, posted, left>>

\* ROOM_KEY_WAIT is over, the line for the message or for the members cannot be had.
GivesUp(c) ==
  /\ call[c].at \in {"wait", "check", "fetch"} /\ Returns(c)
  /\ UNCHANGED <<Others, inbox, ui, posted, left>>

NotReady(c) == HandIn(Prepare(call[c].members)) /\ Returns(c)

\* encrypt_and_send looks once more, at the key alone.
CheckKey(c) ==
  /\ At(c, "check")
  /\ IF KeyIsReady
     THEN /\ call' = [call EXCEPT ![c].at = "encrypt", ![c].clean = shaped = call[c].members]
          /\ UNCHANGED inbox
     ELSE NotReady(c)
  /\ UNCHANGED <<Others, ui, posted, left>>

\* The library panics without a session and with an expired one, which is caught.
Encrypt(c) ==
  /\ At(c, "encrypt")
  /\ IF session # None /\ session.age # "expired"
     THEN /\ call' = [call EXCEPT ![c].at = "post", ![c].to = session.with]
          /\ UNCHANGED inbox
     ELSE NotReady(c)
  /\ UNCHANGED <<Others, ui, posted, left>>

\* The server takes a message of the version the room has, and refuses another (1506),
\* after which the members are fetched again; the answer may be lost on the way.
Post(c) ==
  /\ At(c, "post")
  /\ IF room = call[c].members
     THEN /\ posted' = posted \cup
               {[members |-> call[c].members, to |-> call[c].to, clean |-> call[c].clean]}
          /\ \/ Becomes(c, "sent") /\ UNCHANGED left
             \/ Spend("faults") /\ Returns(c)
     ELSE Becomes(c, "fetch") /\ UNCHANGED <<posted, left>>
  /\ UNCHANGED <<Others, inbox, ui>>

Sent(c) ==
  /\ At(c, "sent")
  /\ HandIn(AfterSend(call[c].members)) /\ Returns(c)
  /\ UNCHANGED <<Others, ui, posted, left>>

\* The program stops: only the crypto store stays, and what the UI holds.
Crash ==
  /\ Spend("crashes")
  /\ line' = FALSE /\ want' = None /\ used' = None /\ own' = FALSE /\ inbox' = <<>>
  /\ task' = AtRest /\ retry' = FALSE /\ ready' = None
  /\ call' = [c \in Calls |-> NoCall]
  /\ UNCHANGED <<server, session, ui, posted, shaped>>

-----------------------------------------------------------------------------
CallSteps(c) ==
  \/ StartRefresh(c) \/ Fetch(c) \/ HandOver(c) \/ StartSend(c) \/ LookAtKey(c) \/ Wake(c)
  \/ GivesUp(c) \/ CheckKey(c) \/ Encrypt(c) \/ Post(c) \/ Sent(c)

Next == \/ RoomChanges \/ RotationIsEdited \/ Ages \/ OpenLine \/ LineDies \/ Crash \/ Round
        \/ \E c \in Calls : CallSteps(c)

Spec == Init /\ [][Next]_vars

\* The task runs, its timer fires, the keeper opens the line again.
FairSpec == Spec /\ WF_vars(Round) /\ WF_vars(OpenLine)

-----------------------------------------------------------------------------
\* A message that the server took can be read by the members of its version and by nobody
\* else, when the key it found was handed out for that version (`clean`: the background
\* has not worked for another version, nor on the key, since the last look at it).
MessagesMeetTheRoom ==
  \A message \in posted : message.clean => message.to = message.members

\* Who waits for the key of a version while the background rests has not missed it.
WaiterIsWoken ==
  \A c \in Calls :
    (At(c, "wait") /\ ~call[c].woken /\ task.at = "recv" /\ inbox = <<>> /\ want = None)
      => ~(ready = call[c].members /\ KeyIsReady)

\* A key is put aside only for a reason: it is near its end, the room asks for another
\* period, or somebody who has it is not a member of what is prepared.
FreshIsKept ==
  [][(session # None /\ ~session.gone /\ session' # None /\
        (session'.gone \/ session'.id # session.id))
       => \/ session.age # "fresh"
          \/ session.period # rotation
          \/ (session.with \cup session.queued) \ want.members # {}]_vars

\* What was handed to the background is done in the end, after faults, without a line at
\* first, after every retry.
WorkIsDone ==
  <>[](inbox = <<>> /\ want = None /\ used = None /\ ~own)
=============================================================================
