---------------------------- MODULE KeyShare_proofs ----------------------------
(***************************************************************************)
(* What KeyShare promises, for any users, calls and bounds: KeyShareInv is *)
(* inductive.  Beside the types it says                                    *)
(*   TaskInv    what the task holds at each of its steps;                  *)
(*   ShapedInv  whom a session is for: who has it and whose copy is queued *)
(*              are the members it was shared for the last time;           *)
(*   CleanInv   what a call has checked of the key still holds when it     *)
(*              encrypts, and of what it encrypted when it posts;          *)
(*   WaitInv    a key that is there while somebody waits for it comes to a *)
(*              wish that is not met yet, whose round will wake the call.  *)
(***************************************************************************)
EXTENDS KeyShare, TLAPS

\* What the task holds at each of its steps.  A wish to discard is of a session that is
\* near its end, and it is not carried beyond the head of prepare.
TaskInv ==
  /\ task.at = "used" => used # None
  /\ task.at \in {"room", "ask", "share", "send", "check"} => want # None
  /\ task.at = "room" => want.discard
  /\ task.at = "send" => session # None
  /\ want # None /\ want.discard =>
       /\ session # None /\ session.age # "fresh"
       /\ task.at \notin {"ask", "share", "send", "check"}

\* A session is for the members it was shared for the last time, no more and no fewer.
ShapedInv == session # None => session.with \cup session.queued = shaped

\* What a call has checked of the key holds until it has encrypted with it.
CleanInv ==
  \A c \in Calls : call[c].clean =>
    /\ At(c, "encrypt") => /\ session # None /\ session.queued = {}
                           /\ session.with = call[c].members
    /\ At(c, "post") => call[c].to = call[c].members

\* A key that comes while somebody waits for it comes to a wish that is not yet met; the
\* end of the round wakes who waits.
WaitInv ==
  \A c \in Calls :
    At(c, "wait") /\ ~call[c].woken /\ ready = call[c].members /\ KeyIsReady
      => want # None

KeyShareInv ==
  TypeOK /\ TaskInv /\ ShapedInv /\ CleanInv /\ MessagesMeetTheRoom /\ WaitInv

----------------------------------------------------------------------------
LEMMA Known ==
  ASSUME TypeOK
  PROVE  /\ session # None => session \in Sessions
         /\ want # None => want \in Wants
         /\ used # None => used \in SUBSET Users
BY DEF TypeOK

LEMMA AtRestTyped == AtRest \in Tasks /\ AtRest.at = "recv"
BY DEF AtRest, Tasks

LEMMA NoCallTyped == NoCall \in Askings /\ NoCall.at = "idle" /\ ~NoCall.clean /\ ~NoCall.woken
BY DEF NoCall, Askings

LEMMA TaskAt ==
  ASSUME NEW t \in Tasks, NEW at \in {"recv", "used", "line", "own", "room", "ask", "share",
                                      "send", "check"}
  PROVE  [t EXCEPT !.at = at] \in Tasks /\ [t EXCEPT !.at = at].at = at
BY DEF Tasks

LEMMA HandInTyped ==
  ASSUME TypeOK, NEW item \in Items, HandIn(item)
  PROVE  inbox' \in Seq(Items)
BY DEF TypeOK, HandIn

LEMMA SpendTyped ==
  ASSUME TypeOK, NEW what \in Happenings, Spend(what)
  PROVE  left' \in [Happenings -> Nat]
BY DEF TypeOK, Spend

LEMMA MergeTyped ==
  ASSUME Shapes, NEW old \in {None} \cup Wants, NEW members \in SUBSET Users, NEW discard \in BOOLEAN
  PROVE  LET new == MergeWant(old, Want(members, discard)) IN
         /\ new \in Wants /\ new # None /\ new.members = members
         /\ new.discard <=> discard \/ (old # None /\ old.discard)
<1>1. (old # None /\ old.discard) \in BOOLEAN
  OBVIOUS
<1> DEFINE d == discard \/ (old # None /\ old.discard)
<1>2. d \in BOOLEAN /\ MergeWant(old, Want(members, discard)) = [members |-> members, discard |-> d]
  BY DEF MergeWant, Want
<1> HIDE DEF d
<1>3. [members |-> members, discard |-> d] \in Wants
  BY <1>2 DEF Wants
<1>4. \A w \in Wants : w # None
  BY DEF Shapes
<1> DEFINE new == [members |-> members, discard |-> d]
<1>5. new.members = members /\ new.discard = d
  OBVIOUS
<1> HIDE DEF new
<1>6. new \in Wants /\ new # None /\ MergeWant(old, Want(members, discard)) = new
  BY <1>2, <1>3, <1>4 DEF new
<1>7. QED
  BY <1>5, <1>6 DEF d

----------------------------------------------------------------------------
\* Types, and what the task holds.

LEMMA InitTyped ==
  ASSUME Shapes, Init
  PROVE  TypeOK /\ TaskInv
<1>1. TypeOK
  <2>1. room \in SUBSET Users /\ left \in [Happenings -> Nat] /\ ui \in SUBSET Users
    BY DEF Init, Shapes
  <2>2. call \in [Calls -> Askings] /\ task \in Tasks
    BY AtRestTyped, NoCallTyped DEF Init
  <2>3. inbox \in Seq(Items) /\ posted = {}
    BY DEF Init
  <2>4. QED
    BY <2>1, <2>2, <2>3 DEF Init, TypeOK
<1>2. TaskInv
  BY AtRestTyped DEF Init, TaskInv
<1>3. QED
  BY <1>1, <1>2

LEMMA SurroundingsTyped ==
  ASSUME Shapes, TypeOK, TaskInv,
         RoomChanges \/ RotationIsEdited \/ OpenLine \/ LineDies \/ Crash
  PROVE  TypeOK' /\ TaskInv'
<1>1. CASE RoomChanges
  <2>1. left' \in [Happenings -> Nat]
    BY <1>1, SpendTyped DEF RoomChanges, Happenings
  <2>2. room' \in SUBSET Users
    BY <1>1 DEF RoomChanges, TypeOK
  <2>3. QED
    BY <1>1, <2>1, <2>2 DEF RoomChanges, TypeOK, TaskInv, work
<1>2. CASE RotationIsEdited
  <2>1. left' \in [Happenings -> Nat]
    BY <1>2, SpendTyped DEF RotationIsEdited, Happenings
  <2>2. rotation' \in {0, 1}
    BY <1>2 DEF RotationIsEdited, TypeOK
  <2>3. QED
    BY <1>2, <2>1, <2>2 DEF RotationIsEdited, TypeOK, TaskInv, work
<1>3. CASE OpenLine
  <2>1. left' \in [Happenings -> Nat]
    BY <1>3, SpendTyped DEF OpenLine, Happenings, TypeOK
  <2>2. inbox' \in Seq(Items)
    <3>1. UploadOwnKeys \in Items /\ LineOpened \in Items /\ inbox \in Seq(Items)
      BY DEF LineOpened, UploadOwnKeys, TypeOK, Items
    <3>2. <<UploadOwnKeys, LineOpened>> \in Seq(Items)
      BY <3>1
    <3>3. inbox' = Append(inbox, LineOpened) \/ inbox' = inbox \o <<UploadOwnKeys, LineOpened>>
      BY <1>3 DEF OpenLine, HandIn
    <3>4. Append(inbox, LineOpened) \in Seq(Items)
      BY <3>1
    <3>5. inbox \o <<UploadOwnKeys, LineOpened>> \in Seq(Items)
      BY <3>1, <3>2
    <3>6. QED
      BY <3>3, <3>4, <3>5
  <2>3. QED
    BY <1>3, <2>1, <2>2 DEF OpenLine, TypeOK, TaskInv, server
<1>4. CASE LineDies
  <2>1. left' \in [Happenings -> Nat]
    BY <1>4, SpendTyped DEF LineDies, Happenings
  <2>2. task' \in Tasks /\ task'.at = task.at
    BY <1>4 DEF LineDies, TypeOK, Tasks
  <2>3. QED
    BY <1>4, <2>1, <2>2 DEF LineDies, TypeOK, TaskInv, server, work
<1>5. CASE Crash
  <2>1. left' \in [Happenings -> Nat]
    BY <1>5, SpendTyped DEF Crash, Happenings
  <2>2. call' \in [Calls -> Askings] /\ task' \in Tasks /\ task'.at = "recv"
    BY <1>5, AtRestTyped, NoCallTyped DEF Crash
  <2>3. inbox' \in Seq(Items)
    BY <1>5 DEF Crash
  <2>4. TypeOK'
    BY <1>5, <2>1, <2>2, <2>3 DEF Crash, TypeOK, server
  <2>5. TaskInv'
    BY <1>5, <2>2 DEF Crash, TaskInv
  <2>6. QED
    BY <2>4, <2>5
<1>6. QED
  BY <1>1, <1>2, <1>3, <1>4, <1>5

LEMMA TaskTyped ==
  ASSUME Shapes, TypeOK, TaskInv, TakeWork \/ CheckAfterSend \/ FindLine \/ UploadOwn
  PROVE  TypeOK' /\ TaskInv'
<1>1. CASE TakeWork
  <2>1. \A i \in DOMAIN inbox : inbox[i].members \in SUBSET Users
    <3>1. inbox \in Seq(Items)
      BY DEF TypeOK
    <3>2. \A i \in DOMAIN inbox : inbox[i] \in Items
      BY <3>1
    <3>3. QED
      BY <3>2 DEF Items
  <2>2. /\ want' \in {None} \cup Wants
        /\ want' # None /\ want'.discard => want # None /\ want.discard
    <3>1. ASSUME NEW i \in DOMAIN inbox, want' = MergeWant(want, Want(inbox[i].members, FALSE))
          PROVE  /\ want' \in {None} \cup Wants
                 /\ want' # None /\ want'.discard => want # None /\ want.discard
      <4>1. want \in {None} \cup Wants /\ inbox[i].members \in SUBSET Users
        BY <2>1 DEF TypeOK
      <4>2. QED
        BY <3>1, <4>1, MergeTyped
    <3>2. want' = want \/ \E i \in DOMAIN inbox : want' = MergeWant(want, Want(inbox[i].members, FALSE))
      BY <1>1 DEF TakeWork, Last
    <3>3. want \in {None} \cup Wants
      BY DEF TypeOK
    <3>4. QED
      BY <3>1, <3>2, <3>3
  <2>3. used' \in {None} \cup SUBSET Users /\ own' \in BOOLEAN
    <3>1. used' = used \/ \E i \in DOMAIN inbox : used' = inbox[i].members
      BY <1>1 DEF TakeWork, Last
    <3>2. own' = (own \/ Brings("own"))
      BY <1>1 DEF TakeWork
    <3>3. used \in {None} \cup SUBSET Users
      BY DEF TypeOK
    <3>4. own' \in BOOLEAN
      BY <3>2
    <3>5. QED
      BY <2>1, <3>1, <3>3, <3>4
  <2>4. task' \in Tasks /\ task'.at = IF used' = None THEN "line" ELSE "used"
    <3>1. PICK at \in {"line", "used"} : at = IF used' = None THEN "line" ELSE "used"
      OBVIOUS
    <3>2. task' = [AtRest EXCEPT !.at = at]
      BY <1>1, <3>1 DEF TakeWork
    <3>3. task' \in Tasks /\ task'.at = at
      BY <3>2 DEF AtRest, Tasks
    <3>4. QED
      BY <3>1, <3>3
  <2>5. UNCHANGED <<room, rotation, line, session, retry, ready, call, ui, posted, shaped, left>>
        /\ inbox' = <<>>
    BY <1>1 DEF TakeWork, server
  <2>6. TypeOK'
    BY <2>2, <2>3, <2>4, <2>5 DEF TypeOK
  <2>7. TaskInv'
    BY <2>2, <2>4, <2>5 DEF TaskInv
  <2>8. QED
    BY <2>6, <2>7
<1>2. CASE CheckAfterSend
  <2>1. KeyIsReady \in BOOLEAN
    BY DEF KeyIsReady
  <2>2. /\ want' \in {None} \cup Wants
        /\ want' # None /\ want'.discard =>
             (want # None /\ want.discard) \/ (session # None /\ session.age # "fresh")
    <3>1. ASSUME want' = MergeWant(want, Want(used, KeyIsReady)),
                 ~(KeyIsReady /\ session.age = "fresh")
          PROVE  /\ want' \in {None} \cup Wants
                 /\ want' # None /\ want'.discard =>
                      (want # None /\ want.discard) \/ (session # None /\ session.age # "fresh")
      <4>1. want \in {None} \cup Wants /\ used \in SUBSET Users
        BY <1>2, Known DEF TypeOK, TaskInv, CheckAfterSend
      <4>2. KeyIsReady => session # None /\ session.age # "fresh"
        BY <3>1 DEF KeyIsReady
      <4>3. QED
        BY <2>1, <3>1, <4>1, <4>2, MergeTyped
    <3>2. \/ want' = want
          \/ want' = MergeWant(want, Want(used, KeyIsReady)) /\ ~(KeyIsReady /\ session.age = "fresh")
      BY <1>2 DEF CheckAfterSend
    <3>3. want \in {None} \cup Wants
      BY DEF TypeOK
    <3>4. QED
      BY <3>1, <3>2, <3>3
  <2>3. task' \in Tasks /\ task'.at = "line" /\ used' = None
    BY <1>2, TaskAt DEF CheckAfterSend, TypeOK
  <2>4. left' \in [Happenings -> Nat]
    <3>1. left' = left \/ Spend("faults")
      BY <1>2 DEF CheckAfterSend
    <3>2. QED
      BY <3>1, SpendTyped DEF TypeOK, Happenings
  <2>5. UNCHANGED <<room, rotation, line, session, own, inbox, retry, ready, call, ui, posted, shaped>>
    BY <1>2 DEF CheckAfterSend, server
  <2>6. TypeOK'
    BY <2>2, <2>3, <2>4, <2>5 DEF TypeOK
  <2>7. TaskInv'
    BY <2>2, <2>3, <2>5 DEF TaskInv
  <2>8. QED
    BY <2>6, <2>7
<1>3. CASE FindLine
  <2>1. UNCHANGED <<room, rotation, line, session, want, used, own, inbox, ready, call, ui, posted,
                    shaped, left>>
    BY <1>3 DEF FindLine, server
  <2>2. /\ task' \in Tasks /\ retry' \in BOOLEAN
        /\ \/ task'.at \in {"recv", "own"}
           \/ task'.at = Prepares /\ want # None
    <3>1. CASE Ends(FALSE)
      BY <3>1, AtRestTyped DEF Ends
    <3>2. CASE ~Ends(FALSE)
      <4>1. /\ task' = [task EXCEPT !.up = TRUE, !.at = IF own THEN "own" ELSE Prepares]
            /\ retry' = retry /\ (want # None \/ own)
        BY <1>3, <3>2 DEF FindLine
      <4>2. task' \in Tasks /\ task'.at = IF own THEN "own" ELSE Prepares
        BY <4>1 DEF TypeOK, Tasks, Prepares
      <4>3. QED
        BY <4>1, <4>2 DEF TypeOK
    <3>3. QED
      BY <3>1, <3>2
  <2>3. TypeOK'
    BY <2>1, <2>2 DEF TypeOK
  <2>4. TaskInv'
    BY <2>1, <2>2 DEF TaskInv, Prepares
  <2>5. QED
    BY <2>3, <2>4
<1>4. CASE UploadOwn
  <2>1. PICK failed \in BOOLEAN :
          /\ IF failed THEN RequestFails ELSE task.up /\ UNCHANGED left
          /\ own' = failed
          /\ IF want = None
             THEN Ends(failed)
             ELSE task' = [task EXCEPT !.at = Prepares, !.failed = failed] /\ UNCHANGED retry
    BY <1>4 DEF UploadOwn
  <2>2. UNCHANGED <<room, rotation, line, session, want, used, inbox, ready, call, ui, posted, shaped>>
    BY <1>4 DEF UploadOwn, server
  <2>3. left' \in [Happenings -> Nat]
    <3>1. left' = left \/ Spend("faults")
      BY <2>1 DEF RequestFails
    <3>2. QED
      BY <3>1, SpendTyped DEF TypeOK, Happenings
  <2>4. /\ task' \in Tasks /\ retry' \in BOOLEAN
        /\ task'.at = "recv" \/ (task'.at = Prepares /\ want # None)
    <3>1. CASE want = None
      BY <2>1, <3>1, AtRestTyped DEF Ends
    <3>2. CASE want # None
      <4>1. Prepares \in {"room", "ask"} /\ task \in Tasks
        BY DEF Prepares, TypeOK
      <4>2. task' = [task EXCEPT !.at = Prepares, !.failed = failed] /\ retry' = retry
        BY <2>1, <3>2
      <4>3. task' \in Tasks /\ task'.at = Prepares
        BY <4>1, <4>2 DEF Tasks
      <4>4. QED
        BY <3>2, <4>2, <4>3 DEF TypeOK
    <3>3. QED
      BY <3>1, <3>2
  <2>5. TypeOK'
    BY <2>1, <2>2, <2>3, <2>4 DEF TypeOK
  <2>6. TaskInv'
    BY <2>2, <2>4 DEF TaskInv, Prepares
  <2>7. QED
    BY <2>5, <2>6
<1>5. QED
  BY <1>1, <1>2, <1>3, <1>4

----------------------------------------------------------------------------
\* prepare.

LEMMA SessionsAre ==
  ASSUME Shapes, TypeOK
  PROVE  /\ Discarded \in {None} \cup Sessions
         /\ session = None => Discarded = None
         /\ session # None =>
              /\ Discarded \in Sessions /\ Discarded # None /\ Discarded.gone
              /\ Discarded.with = session.with /\ Discarded.queued = session.queued
              /\ Discarded.age = session.age
         /\ \A members \in SUBSET Users :
              /\ Shared(members) \in Sessions /\ Shared(members) # None
              /\ Shared(members).with \cup Shared(members).queued = members
              /\ session # None =>
                   \/ Shared(members).id = session.id /\ Shared(members).gone = session.gone
                   \/ session.gone \/ session.age = "expired"
                   \/ (session.with \cup session.queued) \ members # {}
<1>1. \A s \in Sessions : s # None
  BY DEF Shapes
<1>2. session = None => Discarded = None
  BY DEF Discarded
<1>3. ASSUME session # None
      PROVE  /\ Discarded \in Sessions /\ Discarded # None /\ Discarded.gone
             /\ Discarded.with = session.with /\ Discarded.queued = session.queued
             /\ Discarded.age = session.age
  <2>1. session \in Sessions /\ Discarded = [session EXCEPT !.gone = TRUE]
    BY <1>3, Known DEF Discarded
  <2>2. QED
    BY <1>1, <2>1 DEF Sessions
<1>4. ASSUME NEW members \in SUBSET Users
      PROVE  /\ Shared(members) \in Sessions /\ Shared(members) # None
             /\ Shared(members).with \cup Shared(members).queued = members
             /\ session # None =>
                  \/ Shared(members).id = session.id /\ Shared(members).gone = session.gone
                  \/ session.gone \/ session.age = "expired"
                  \/ (session.with \cup session.queued) \ members # {}
  <2>1. CASE MustRenew(members)
    <3> DEFINE id == IF session = None THEN 1 ELSE session.id + 1
    <3>1. id \in Nat /\ task.period \in Nat
      <4>1. task.period \in Nat
        BY DEF TypeOK, Tasks
      <4>2. session # None => session.id \in Nat
        BY Known DEF Sessions
      <4>3. QED
        BY <4>1, <4>2
    <3>2. Shared(members) = NewSession(id, members, task.period)
      BY <2>1 DEF Shared
    <3> HIDE DEF id
    <3>3. /\ NewSession(id, members, task.period) \in Sessions
          /\ NewSession(id, members, task.period).with = {}
          /\ NewSession(id, members, task.period).queued = members
      BY <3>1 DEF NewSession, Sessions
    <3>4. session # None => \/ session.gone \/ session.age = "expired"
                            \/ (session.with \cup session.queued) \ members # {}
      BY <2>1 DEF MustRenew
    <3>5. QED
      BY <1>1, <3>2, <3>3, <3>4
  <2>2. CASE ~MustRenew(members)
    <3>1. /\ session \in Sessions /\ (session.with \cup session.queued) \ members = {}
          /\ session.with \subseteq Users /\ session.queued \subseteq Users
      <4>1. session # None /\ (session.with \cup session.queued) \ members = {}
        BY <2>2 DEF MustRenew
      <4>2. QED
        BY <4>1, Known DEF Sessions
    <3> DEFINE queued == session.queued \cup (members \ session.with)
    <3>2. Shared(members) = [session EXCEPT !.queued = queued]
      BY <2>2 DEF Shared
    <3>3. queued \in SUBSET Users /\ session.with \cup queued = members
      BY <3>1
    <3> HIDE DEF queued
    <3>4. /\ Shared(members) \in Sessions /\ Shared(members).with = session.with
          /\ Shared(members).queued = queued /\ Shared(members).id = session.id
          /\ Shared(members).gone = session.gone
      BY <3>1, <3>2, <3>3 DEF Sessions
    <3>5. QED
      BY <1>1, <3>3, <3>4
  <2>3. QED
    BY <2>1, <2>2
<1>5. QED
  BY <1>2, <1>3, <1>4

LEMMA StirredTyped ==
  ASSUME TypeOK, Stirred
  PROVE  /\ call' \in [Calls -> Askings]
         /\ \A c \in Calls :
              /\ ~call'[c].clean /\ call'[c].at = call[c].at /\ call'[c].woken = call[c].woken
              /\ call'[c].members = call[c].members /\ call'[c].to = call[c].to
<1>1. \A c \in Calls : call[c] \in Askings
  BY DEF TypeOK
<1>2. \A c \in Calls : call'[c] = [call[c] EXCEPT !.clean = FALSE]
  BY DEF Stirred
<1>3. \A x \in Askings : LET y == [x EXCEPT !.clean = FALSE] IN
        /\ y \in Askings /\ ~y.clean /\ y.at = x.at /\ y.woken = x.woken
        /\ y.members = x.members /\ y.to = x.to
  BY DEF Askings
<1>4. call' = [c \in Calls |-> call'[c]]
  BY DEF Stirred
<1>5. \A c \in Calls : call'[c] \in Askings
  BY <1>1, <1>2, <1>3
<1>6. call' \in [Calls -> Askings]
  BY <1>4, <1>5
<1>7. \A c \in Calls :
        /\ ~call'[c].clean /\ call'[c].at = call[c].at /\ call'[c].woken = call[c].woken
        /\ call'[c].members = call[c].members /\ call'[c].to = call[c].to
  BY <1>1, <1>2, <1>3
<1>8. QED
  BY <1>6, <1>7

\* A member whose key is sent goes from the queue to those who have it.
LEMMA SentIsTyped ==
  ASSUME NEW s \in Sessions, NEW u \in s.queued
  PROVE  LET n == [s EXCEPT !.with = @ \cup {u}, !.queued = @ \ {u}] IN
         /\ n \in Sessions /\ n.with = s.with \cup {u} /\ n.queued = s.queued \ {u}
         /\ n.id = s.id /\ n.gone = s.gone
<1>1. s.with \cup {u} \in SUBSET Users /\ s.queued \ {u} \in SUBSET Users
  BY DEF Sessions
<1> QED
  BY <1>1 DEF Sessions

LEMMA WokenTyped ==
  ASSUME TypeOK, NEW members, SetReady(members)
  PROVE  /\ call' \in [Calls -> Askings]
         /\ \A c \in Calls :
              /\ call'[c].woken /\ call'[c].at = call[c].at /\ call'[c].clean = call[c].clean
              /\ call'[c].members = call[c].members /\ call'[c].to = call[c].to
<1>1. \A c \in Calls : call[c] \in Askings
  BY DEF TypeOK
<1>2. \A c \in Calls : call'[c] = [call[c] EXCEPT !.woken = TRUE]
  BY DEF SetReady
<1>3. \A x \in Askings : LET y == [x EXCEPT !.woken = TRUE] IN
        /\ y \in Askings /\ y.woken /\ y.at = x.at /\ y.clean = x.clean
        /\ y.members = x.members /\ y.to = x.to
  BY DEF Askings
<1>4. call' = [c \in Calls |-> call'[c]]
  BY DEF SetReady
<1>5. \A c \in Calls : call'[c] \in Askings
  BY <1>1, <1>2, <1>3
<1>6. call' \in [Calls -> Askings]
  BY <1>4, <1>5
<1>7. \A c \in Calls :
        /\ call'[c].woken /\ call'[c].at = call[c].at /\ call'[c].clean = call[c].clean
        /\ call'[c].members = call[c].members /\ call'[c].to = call[c].to
  BY <1>1, <1>2, <1>3
<1>8. QED
  BY <1>6, <1>7

LEMMA PrepareTyped ==
  ASSUME Shapes, TypeOK, TaskInv, DiscardFirst \/ AskRotation \/ Share \/ SendKey \/ CheckReady
  PROVE  TypeOK' /\ TaskInv'
<1>1. task \in Tasks /\ want \in {None} \cup Wants /\ rotation \in Nat
  BY DEF TypeOK
<1>2. ASSUME NEW t \in Tasks, NEW at \in {"recv", "ask", "share", "send", "check"}, t.at = at,
             task' = t, task.at \in {"room", "ask", "share", "send", "check"}
      PROVE  /\ task' \in Tasks /\ task'.at \in {"recv", "ask", "share", "send", "check"}
             /\ want # None /\ want \in Wants
             /\ task.at # "room" => ~want.discard
  <2>1. want # None /\ want \in Wants
    BY <1>2, Known DEF TaskInv
  <2>2. want.discard \in BOOLEAN
    BY <2>1 DEF Wants
  <2>3. QED
    BY <1>2, <2>1, <2>2 DEF TaskInv
<1>3. CASE DiscardFirst
  <2>1. /\ task' \in Tasks /\ task'.at = "ask" /\ want # None /\ want \in Wants
    BY <1>1, <1>2, <1>3, TaskAt DEF DiscardFirst
  <2>2. want' \in Wants /\ ~want'.discard /\ want' # None
    <3>1. want' = [want EXCEPT !.discard = FALSE]
      BY <1>3 DEF DiscardFirst
    <3>2. want' \in Wants /\ ~want'.discard
      BY <2>1, <3>1 DEF Wants
    <3>3. QED
      BY <3>2 DEF Shapes
  <2>3. session' \in {None} \cup Sessions
    BY <1>3, SessionsAre DEF DiscardFirst
  <2>4. call' \in [Calls -> Askings]
    BY <1>3, StirredTyped DEF DiscardFirst
  <2>5. UNCHANGED <<room, rotation, line, used, own, inbox, retry, ready, ui, posted, shaped, left>>
    BY <1>3 DEF DiscardFirst, server
  <2>6. TypeOK'
    BY <2>1, <2>2, <2>3, <2>4, <2>5 DEF TypeOK
  <2>7. TaskInv'
    BY <2>1, <2>2 DEF TaskInv
  <2>8. QED
    BY <2>6, <2>7
<1>4. ASSUME Ends(TRUE), RequestFails, task.at \in {"ask", "share", "send", "check"},
             UNCHANGED <<room, rotation, line, session, want, used, own, inbox, ready, call, ui,
                         posted, shaped>>
      PROVE  TypeOK' /\ TaskInv'
  <2>1. task' \in Tasks /\ task'.at = "recv" /\ retry' = TRUE
    BY <1>4, AtRestTyped DEF Ends
  <2>2. left' \in [Happenings -> Nat]
    BY <1>4, SpendTyped DEF RequestFails, TypeOK, Happenings
  <2>3. TypeOK'
    BY <1>4, <2>1, <2>2 DEF TypeOK
  <2>4. TaskInv'
    BY <1>4, <2>1 DEF TaskInv
  <2>5. QED
    BY <2>3, <2>4
<1>5. ASSUME NEW at \in {"share", "send", "check"}, task'.at = at, task' \in Tasks,
             task.at \in {"ask", "share", "send"}, at = "send" => session' # None,
             session' \in {None} \cup Sessions, call' \in [Calls -> Askings],
             shaped' \in {None} \cup SUBSET Users,
             UNCHANGED <<room, rotation, line, want, used, own, inbox, retry, ready, ui, posted, left>>
      PROVE  TypeOK' /\ TaskInv'
  <2>1. want # None /\ want.discard => FALSE
    BY <1>5 DEF TaskInv
  <2>2. want # None
    BY <1>5 DEF TaskInv
  <2>3. TypeOK'
    BY <1>5 DEF TypeOK
  <2>4. TaskInv'
    BY <1>5, <2>1, <2>2 DEF TaskInv
  <2>5. QED
    BY <2>3, <2>4
<1>6. CASE AskRotation
  <2>1. CASE RequestFails /\ Ends(TRUE) /\ UNCHANGED <<session, call>>
    BY <1>4, <1>6, <2>1 DEF AskRotation, server
  <2>2. CASE /\ task' = [task EXCEPT !.at = "share", !.period = rotation]
             /\ UNCHANGED <<retry, left>>
             /\ \/ session' = Discarded /\ Stirred
                \/ UNCHANGED <<session, call>>
    <3>1. task' \in Tasks /\ task'.at = "share"
      BY <1>1, <2>2 DEF Tasks
    <3>2. session' \in {None} \cup Sessions /\ call' \in [Calls -> Askings]
      BY <2>2, SessionsAre, StirredTyped DEF TypeOK
    <3>3. QED
      BY <1>5, <1>6, <2>2, <3>1, <3>2 DEF AskRotation, server, TypeOK
  <2>3. QED
    BY <1>6, <2>1, <2>2 DEF AskRotation
<1>7. CASE Share
  <2>1. CASE RequestFails /\ Ends(TRUE) /\ UNCHANGED <<session, call, shaped>>
    BY <1>4, <1>7, <2>1 DEF Share, server
  <2>2. CASE /\ session' = Shared(want.members) /\ Stirred /\ shaped' = want.members
             /\ task' = [task EXCEPT !.at = IF session'.queued = {} THEN "check" ELSE "send"]
             /\ UNCHANGED <<retry, left>>
    <3>1. PICK at \in {"send", "check"} : at = IF session'.queued = {} THEN "check" ELSE "send"
      OBVIOUS
    <3>2. task' \in Tasks /\ task'.at = at
      BY <1>1, <2>2, <3>1, TaskAt
    <3>3. want.members \in SUBSET Users
      BY <1>7, Known DEF TaskInv, Share, Wants
    <3>4. session' \in {None} \cup Sessions /\ session' # None /\ call' \in [Calls -> Askings]
      BY <2>2, <3>3, SessionsAre, StirredTyped
    <3>5. QED
      BY <1>5, <1>7, <2>2, <3>2, <3>3, <3>4 DEF Share, server
  <2>3. QED
    BY <1>7, <2>1, <2>2 DEF Share
<1>8. CASE SendKey
  <2>1. CASE RequestFails /\ Ends(TRUE) /\ UNCHANGED session
    BY <1>4, <1>8, <2>1 DEF SendKey, server
  <2>2. ASSUME NEW u \in session.queued,
               session' = [session EXCEPT !.with = @ \cup {u}, !.queued = @ \ {u}],
               task' = [task EXCEPT !.at = IF session'.queued = {} THEN "check" ELSE "send"],
               UNCHANGED <<retry, left>>
        PROVE  TypeOK' /\ TaskInv'
    <3>1. PICK at \in {"send", "check"} : at = IF session'.queued = {} THEN "check" ELSE "send"
      OBVIOUS
    <3>2. task' \in Tasks /\ task'.at = at
      BY <1>1, <2>2, <3>1, TaskAt
    <3>3. session' \in Sessions /\ session' # None
      <4>1. session \in Sessions
        BY <1>8, Known DEF TaskInv, SendKey
      <4>2. session' \in Sessions
        BY <2>2, <4>1, SentIsTyped
      <4>3. QED
        BY <4>2 DEF Shapes
    <3>4. QED
      BY <1>5, <1>8, <2>2, <3>2, <3>3 DEF SendKey, server, TypeOK
  <2>3. QED
    BY <1>8, <2>1, <2>2 DEF SendKey
<1>9. CASE CheckReady
  <2>1. CASE /\ SetReady(want.members) /\ want' = None /\ Ends(task.failed)
    <3>1. want.members \in SUBSET Users
      BY <1>9, Known DEF TaskInv, CheckReady, Wants
    <3>2. call' \in [Calls -> Askings]
      BY <2>1, WokenTyped
    <3>3. task' \in Tasks /\ task'.at = "recv" /\ retry' \in BOOLEAN
      BY <1>1, <2>1, AtRestTyped DEF Ends, Tasks
    <3>4. UNCHANGED <<room, rotation, line, session, used, own, inbox, ui, posted, shaped, left>>
      BY <1>9 DEF CheckReady, server
    <3>5. TypeOK'
      BY <2>1, <3>1, <3>2, <3>3, <3>4 DEF TypeOK, SetReady
    <3>6. TaskInv'
      BY <2>1, <3>3 DEF TaskInv
    <3>7. QED
      BY <3>5, <3>6
  <2>2. CASE Ends(TRUE) /\ UNCHANGED <<want, ready, call>>
    <3>1. task' \in Tasks /\ task'.at = "recv" /\ retry' \in BOOLEAN
      BY <2>2, AtRestTyped DEF Ends
    <3>2. UNCHANGED <<room, rotation, line, session, used, own, inbox, ui, posted, shaped, left>>
      BY <1>9 DEF CheckReady, server
    <3>3. TypeOK'
      BY <2>2, <3>1, <3>2 DEF TypeOK
    <3>4. TaskInv'
      BY <1>9, <2>2, <3>1, <3>2 DEF TaskInv
    <3>5. QED
      BY <3>3, <3>4
  <2>3. QED
    BY <1>9, <2>1, <2>2 DEF CheckReady
<1>10. QED
  BY <1>3, <1>6, <1>7, <1>8, <1>9

----------------------------------------------------------------------------
\* The calls.

\* A step of a call, seen from the rest: where it is then, and what it may have checked.
Moves(c, x) ==
  /\ call' = [call EXCEPT ![c] = x]
  /\ x.at = "wait" => ~(ready = x.members /\ KeyIsReady)
  /\ x.at = "encrypt" /\ x.clean => KeyIsReady /\ shaped = x.members
  /\ x.at = "post" /\ x.clean => /\ call[c].at = "encrypt" /\ call[c].clean /\ session # None
                                 /\ x.members = call[c].members /\ x.to = session.with

LEMMA LooksIs ==
  ASSUME TypeOK, NEW c \in Calls, NEW x \in Askings, Looks(c, x)
  PROVE  /\ \E y \in Askings : Moves(c, y)
         /\ inbox' \in Seq(Items)
<1>1. Prepare(x.members) \in Items /\ inbox \in Seq(Items)
  BY DEF Prepare, Items, Askings, TypeOK
<1>2. CASE ready = x.members
  <2> DEFINE y == [x EXCEPT !.at = "key"]
  <2>1. y \in Askings /\ y.at = "key"
    BY DEF Askings
  <2>2. call' = [call EXCEPT ![c] = y] /\ inbox' = inbox
    BY <1>2 DEF Looks
  <2> HIDE DEF y
  <2>3. QED
    BY <1>1, <2>1, <2>2 DEF Moves
<1>3. CASE ready # x.members
  <2> DEFINE y == [x EXCEPT !.at = "wait", !.handed = TRUE]
  <2>1. y \in Askings /\ y.at = "wait" /\ y.members = x.members
    BY DEF Askings
  <2>2. call' = [call EXCEPT ![c] = y] /\ (inbox' = inbox \/ HandIn(Prepare(x.members)))
    BY <1>3 DEF Looks, Waits
  <2> HIDE DEF y
  <2>3. QED
    BY <1>1, <1>3, <2>1, <2>2, HandInTyped DEF Moves
<1>4. QED
  BY <1>2, <1>3

\* What one call does to the rest, in each of its steps.
CallLeaves(c) ==
  /\ UNCHANGED Others
  /\ left' = left \/ Spend("refreshes") \/ Spend("sends") \/ Spend("faults")
  /\ ui' = ui \/ ui' = call[c].members
  /\ \/ posted' = posted
     \/ /\ call[c].at = "post"
        /\ posted' = posted \cup {[members |-> call[c].members, to |-> call[c].to,
                                   clean |-> call[c].clean]}

LEMMA CallIsAlone ==
  ASSUME NEW c \in Calls, CallSteps(c)
  PROVE  CallLeaves(c)
<1>1. CASE StartRefresh(c)
  BY <1>1 DEF StartRefresh, CallLeaves
<1>2. CASE Fetch(c)
  BY <1>2 DEF Fetch, CallLeaves
<1>3. CASE HandOver(c)
  BY <1>3 DEF HandOver, CallLeaves
<1>4. CASE StartSend(c)
  BY <1>4 DEF StartSend, CallLeaves
<1>5. CASE LookAtKey(c)
  BY <1>5 DEF LookAtKey, CallLeaves
<1>6. CASE Wake(c)
  BY <1>6 DEF Wake, CallLeaves
<1>7. CASE GivesUp(c)
  BY <1>7 DEF GivesUp, CallLeaves
<1>8. CASE CheckKey(c)
  BY <1>8 DEF CheckKey, CallLeaves
<1>9. CASE Encrypt(c)
  BY <1>9 DEF Encrypt, CallLeaves
<1>10. CASE Post(c)
  <2>1. ui' = ui /\ UNCHANGED Others /\ call[c].at = "post"
    BY <1>10 DEF Post, At
  <2>2. left' = left \/ Spend("faults")
    BY <1>10 DEF Post
  <2>3. \/ posted' = posted
        \/ posted' = posted \cup {[members |-> call[c].members, to |-> call[c].to,
                                   clean |-> call[c].clean]}
    BY <1>10 DEF Post
  <2>4. QED
    BY <2>1, <2>2, <2>3 DEF CallLeaves
<1>11. CASE Sent(c)
  BY <1>11 DEF Sent, CallLeaves
<1>12. QED
  BY <1>1, <1>2, <1>3, <1>4, <1>5, <1>6, <1>7, <1>8, <1>9, <1>10, <1>11 DEF CallSteps

LEMMA BecomesIs ==
  ASSUME TypeOK, NEW c \in Calls, NEW at \in {"fetch", "check", "sent"}, Becomes(c, at)
  PROVE  \E x \in Askings : Moves(c, x)
<1> DEFINE x == [call[c] EXCEPT !.at = at]
<1>1. call \in [Calls -> Askings]
  BY DEF TypeOK
<1>2. call[c] \in Askings
  BY <1>1
<1>3. x \in Askings /\ x.at = at
  BY <1>2 DEF Askings
<1>4. call' = [call EXCEPT ![c] = x]
  BY <1>1 DEF Becomes
<1> HIDE DEF x
<1>5. Moves(c, x)
  BY <1>3, <1>4 DEF Moves
<1>6. QED
  BY <1>3, <1>5

LEMMA ReturnsIs ==
  ASSUME NEW c, Returns(c)
  PROVE  \E x \in Askings : Moves(c, x)
<1>1. Moves(c, NoCall)
  BY NoCallTyped DEF Moves, Returns
<1>2. QED
  BY <1>1, NoCallTyped

LEMMA WaitsIs ==
  ASSUME TypeOK, NEW c \in Calls, NEW x \in Askings, Waits(c, x), ~KeyIsReady
  PROVE  /\ \E y \in Askings : Moves(c, y)
         /\ inbox' = inbox \/ HandIn(Prepare(x.members))
<1> DEFINE y == [x EXCEPT !.at = "wait", !.handed = TRUE]
<1>1. y \in Askings /\ y.at = "wait"
  BY DEF Askings
<1>2. call' = [call EXCEPT ![c] = y] /\ (inbox' = inbox \/ HandIn(Prepare(x.members)))
  BY DEF Waits
<1> HIDE DEF y
<1>3. Moves(c, y)
  BY <1>1, <1>2 DEF Moves
<1>4. QED
  BY <1>1, <1>2, <1>3

LEMMA CallMoves ==
  ASSUME TypeOK, NEW c \in Calls, CallSteps(c)
  PROVE  (\E x \in Askings : Moves(c, x)) /\ inbox' \in Seq(Items)
<1>1. call \in [Calls -> Askings] /\ inbox \in Seq(Items) /\ room \in SUBSET Users
      /\ ui \in SUBSET Users
  BY DEF TypeOK
<1>2. call[c] \in Askings
  BY <1>1
<1>3. call[c].members \in SUBSET Users
  BY <1>2 DEF Askings
<1>4. Prepare(call[c].members) \in Items /\ AfterSend(call[c].members) \in Items
  BY <1>3 DEF Prepare, AfterSend, Items
<1>5. ASSUME \/ inbox' = inbox
             \/ HandIn(Prepare(call[c].members)) \/ HandIn(AfterSend(call[c].members))
      PROVE  inbox' \in Seq(Items)
  BY <1>1, <1>4, <1>5, HandInTyped
<1>6. CASE StartRefresh(c)
  <2>1. Becomes(c, "fetch") /\ inbox' = inbox
    BY <1>6 DEF StartRefresh
  <2>2. QED
    BY <1>5, <2>1, BecomesIs
<1>7. CASE Fetch(c)
  <2> DEFINE y == [call[c] EXCEPT !.at = "hand", !.members = room]
  <2>1. call' = [call EXCEPT ![c] = y] /\ inbox' = inbox
    BY <1>1, <1>7 DEF Fetch
  <2>2. y \in Askings /\ y.at = "hand"
    BY <1>1, <1>2 DEF Askings
  <2> HIDE DEF y
  <2>3. Moves(c, y)
    BY <2>1, <2>2 DEF Moves
  <2>4. QED
    BY <1>5, <2>1, <2>2, <2>3
<1>8. CASE HandOver(c)
  BY <1>5, <1>8, ReturnsIs DEF HandOver
<1>9. CASE StartSend(c)
  <2>1. [NoCall EXCEPT !.members = ui] \in Askings
    BY <1>1, NoCallTyped DEF Askings
  <2>2. Looks(c, [NoCall EXCEPT !.members = ui])
    BY <1>9 DEF StartSend
  <2>3. QED
    BY <2>1, <2>2, LooksIs
<1>10. CASE LookAtKey(c)
  <2>1. CASE KeyIsReady
    <3>1. Becomes(c, "check") /\ inbox' = inbox
      BY <1>10, <2>1 DEF LookAtKey
    <3>2. QED
      BY <1>5, <3>1, BecomesIs
  <2>2. CASE ~KeyIsReady
    <3>1. Waits(c, call[c])
      BY <1>10, <2>2 DEF LookAtKey
    <3>2. QED
      BY <1>2, <1>5, <2>2, <3>1, WaitsIs
  <2>3. QED
    BY <2>1, <2>2
<1>11. CASE Wake(c)
  <2>1. [call[c] EXCEPT !.woken = FALSE] \in Askings
    BY <1>2 DEF Askings
  <2>2. Looks(c, [call[c] EXCEPT !.woken = FALSE])
    BY <1>11 DEF Wake
  <2>3. QED
    BY <2>1, <2>2, LooksIs
<1>12. CASE GivesUp(c)
  <2>1. Returns(c) /\ inbox' = inbox
    BY <1>12 DEF GivesUp
  <2>2. QED
    BY <1>5, <2>1, ReturnsIs
<1>13. ASSUME NotReady(c)
       PROVE  (\E x \in Askings : Moves(c, x)) /\ inbox' \in Seq(Items)
  BY <1>5, <1>13, ReturnsIs DEF NotReady
<1>14. CASE CheckKey(c)
  <2>1. CASE KeyIsReady
    <3> DEFINE clean == shaped = call[c].members
               y == [call[c] EXCEPT !.at = "encrypt", !.clean = clean]
    <3>1. y \in Askings /\ y.at = "encrypt" /\ y.members = call[c].members /\ (y.clean <=> clean)
      <4>1. clean \in BOOLEAN
        OBVIOUS
      <4> HIDE DEF clean
      <4>2. QED
        BY <1>2, <4>1 DEF Askings
    <3>2. call' = [call EXCEPT ![c] = y] /\ inbox' = inbox
      BY <1>1, <1>14, <2>1 DEF CheckKey
    <3>3. y.clean => shaped = y.members
      BY <3>1
    <3> HIDE DEF y, clean
    <3>4. Moves(c, y)
      BY <2>1, <3>1, <3>2, <3>3 DEF Moves
    <3>5. QED
      BY <1>5, <3>1, <3>2, <3>4
  <2>2. CASE ~KeyIsReady
    BY <1>13, <1>14, <2>2 DEF CheckKey
  <2>3. QED
    BY <2>1, <2>2
<1>15. CASE Encrypt(c)
  <2>1. CASE session # None /\ session.age # "expired"
    <3> DEFINE y == [call[c] EXCEPT !.at = "post", !.to = session.with]
    <3>1. session.with \in SUBSET Users
      BY <2>1, Known DEF Sessions
    <3>2. y \in Askings /\ y.at = "post" /\ y.members = call[c].members
          /\ y.to = session.with /\ y.clean = call[c].clean
      BY <1>2, <3>1 DEF Askings
    <3>3. call' = [call EXCEPT ![c] = y] /\ inbox' = inbox /\ call[c].at = "encrypt"
      BY <1>1, <1>15, <2>1 DEF Encrypt, At
    <3> HIDE DEF y
    <3>4. Moves(c, y)
      BY <2>1, <3>2, <3>3 DEF Moves
    <3>5. QED
      BY <1>5, <3>2, <3>3, <3>4
  <2>2. CASE ~(session # None /\ session.age # "expired")
    <3>1. NotReady(c)
      BY <1>15, <2>2 DEF Encrypt
    <3>2. QED
      BY <1>13, <3>1
  <2>3. QED
    BY <2>1, <2>2
<1>16. CASE Post(c)
  <2>1. inbox' = inbox /\ (Becomes(c, "sent") \/ Returns(c) \/ Becomes(c, "fetch"))
    BY <1>16 DEF Post
  <2>2. QED
    BY <1>5, <2>1, BecomesIs, ReturnsIs
<1>17. CASE Sent(c)
  BY <1>5, <1>17, ReturnsIs DEF Sent
<1>18. QED
  BY <1>6, <1>7, <1>8, <1>9, <1>10, <1>11, <1>12, <1>14, <1>15, <1>16, <1>17 DEF CallSteps

\* The two steps that are left: the calls, and a session that grows old.
LEMMA CallTyped ==
  ASSUME TypeOK, TaskInv, NEW c \in Calls, CallSteps(c)
  PROVE  TypeOK' /\ TaskInv'
<1>1. call[c] \in Askings
  BY DEF TypeOK
<1>2. call' \in [Calls -> Askings] /\ inbox' \in Seq(Items)
  BY CallMoves DEF TypeOK, Moves
<1>3. CallLeaves(c)
  BY CallIsAlone
<1>4. left' \in [Happenings -> Nat]
  BY <1>3, SpendTyped DEF CallLeaves, TypeOK, Happenings
<1>5. ui' \in SUBSET Users
  BY <1>1, <1>3 DEF CallLeaves, TypeOK, Askings
<1>6. posted' \subseteq [members : SUBSET Users, to : SUBSET Users, clean : BOOLEAN]
  BY <1>1, <1>3 DEF CallLeaves, TypeOK, Askings
<1>7. UNCHANGED <<room, rotation, line, session, want, used, own, task, retry, ready, shaped>>
  BY <1>3 DEF CallLeaves, Others
<1>8. TypeOK'
  BY <1>2, <1>4, <1>5, <1>6, <1>7 DEF TypeOK
<1>9. TaskInv'
  BY <1>7 DEF TaskInv
<1>10. QED
  BY <1>8, <1>9

LEMMA AgesTyped ==
  ASSUME Shapes, TypeOK, TaskInv, Ages
  PROVE  /\ TypeOK' /\ TaskInv'
         /\ session # None /\ session' # None
         /\ session'.with = session.with /\ session'.queued = session.queued
         /\ session'.id = session.id /\ session'.gone = session.gone
         /\ session.age # "expired"
<1> DEFINE older == IF session.age = "fresh" THEN "due" ELSE "expired"
<1>1. session \in Sessions /\ session # None /\ session' = [session EXCEPT !.age = older]
      /\ session.age # "expired"
  BY Known DEF Ages
<1>2. older \in {"due", "expired"}
  OBVIOUS
<1> HIDE DEF older
<1>3. /\ session' \in Sessions /\ session'.age # "fresh"
      /\ session'.with = session.with /\ session'.queued = session.queued
      /\ session'.id = session.id /\ session'.gone = session.gone
  BY <1>1, <1>2 DEF Sessions
<1>4. session' # None
  BY <1>3 DEF Shapes
<1>5. left' \in [Happenings -> Nat]
  BY SpendTyped DEF Ages, Happenings
<1>6. UNCHANGED <<room, rotation, line, want, used, own, inbox, retry, task, ready, call, ui, posted,
                  shaped>>
  BY DEF Ages, server, work
<1>7. TypeOK'
  BY <1>3, <1>5, <1>6 DEF TypeOK
<1>8. TaskInv'
  BY <1>3, <1>4, <1>6 DEF TaskInv
<1>9. QED
  BY <1>1, <1>3, <1>4, <1>7, <1>8

----------------------------------------------------------------------------
\* What a step does to the session and to what was checked of it.

Keeps(c) ==
  /\ call'[c].at = call[c].at /\ call'[c].clean = call[c].clean
  /\ call'[c].members = call[c].members /\ call'[c].to = call[c].to

LeavesTheKey ==
  /\ UNCHANGED <<session, shaped, posted>>
  /\ \A c \in Calls : Keeps(c) \/ ~call'[c].clean

Discards ==
  /\ session' = Discarded /\ Stirred /\ UNCHANGED <<shaped, posted>>
  /\ session # None => session.age # "fresh" \/ session.period # rotation

SharesAnew ==
  /\ want # None /\ want.members \in SUBSET Users
  /\ session' = Shared(want.members) /\ shaped' = want.members /\ Stirred /\ UNCHANGED posted

SendsOne ==
  /\ session # None
  /\ \E u \in session.queued :
       session' = [session EXCEPT !.with = @ \cup {u}, !.queued = @ \ {u}]
  /\ UNCHANGED <<shaped, posted, call>>

LEMMA SessionSteps ==
  ASSUME TypeOK, TaskInv, Next
  PROVE  LeavesTheKey \/ Ages \/ Discards \/ SharesAnew \/ SendsOne \/ \E c \in Calls : CallSteps(c)
<1>1. ASSUME UNCHANGED <<session, shaped, posted, call>>
      PROVE  LeavesTheKey
  BY <1>1 DEF LeavesTheKey, Keeps
<1>2. CASE RoomChanges \/ RotationIsEdited \/ OpenLine \/ LineDies
  <2>1. UNCHANGED <<session, shaped, posted, call>>
    BY <1>2 DEF RoomChanges, RotationIsEdited, OpenLine, LineDies
  <2>2. QED
    BY <1>1, <2>1
<1>3. CASE TakeWork \/ CheckAfterSend \/ FindLine \/ UploadOwn
  <2>1. UNCHANGED <<session, shaped, posted, call>>
    BY <1>3 DEF TakeWork, CheckAfterSend, FindLine, UploadOwn
  <2>2. QED
    BY <1>1, <2>1
<1>4. CASE Crash
  BY <1>4, NoCallTyped DEF Crash, LeavesTheKey
<1>5. CASE DiscardFirst
  <2>1. session # None => session.age # "fresh"
    BY <1>5 DEF DiscardFirst, TaskInv
  <2>2. QED
    BY <1>5, <2>1 DEF DiscardFirst, Discards
<1>6. CASE AskRotation
  <2>1. UNCHANGED <<shaped, posted>>
    BY <1>6 DEF AskRotation
  <2>2. \/ UNCHANGED <<session, call>>
        \/ session' = Discarded /\ Stirred /\ session.period # rotation
    BY <1>6 DEF AskRotation
  <2>3. QED
    BY <1>1, <2>1, <2>2 DEF Discards
<1>7. CASE Share
  <2>1. want # None /\ want.members \in SUBSET Users
    BY <1>7, Known DEF Share, TaskInv, Wants
  <2>2. \/ UNCHANGED <<session, shaped, call, posted>>
        \/ session' = Shared(want.members) /\ shaped' = want.members /\ Stirred /\ UNCHANGED posted
    BY <1>7 DEF Share
  <2>3. QED
    BY <1>1, <2>1, <2>2 DEF SharesAnew
<1>8. CASE SendKey
  <2>1. session # None /\ UNCHANGED <<shaped, posted, call>>
    BY <1>8 DEF SendKey, TaskInv
  <2>2. \/ UNCHANGED session
        \/ \E u \in session.queued :
             session' = [session EXCEPT !.with = @ \cup {u}, !.queued = @ \ {u}]
    BY <1>8 DEF SendKey
  <2>3. QED
    BY <1>1, <2>1, <2>2 DEF SendsOne
<1>9. CASE CheckReady
  <2>1. UNCHANGED <<session, shaped, posted>>
    BY <1>9 DEF CheckReady
  <2>2. SetReady(want.members) \/ UNCHANGED call
    BY <1>9 DEF CheckReady
  <2>3. CASE SetReady(want.members)
    BY <2>1, <2>3, WokenTyped DEF LeavesTheKey, Keeps
  <2>4. QED
    BY <1>1, <2>1, <2>2, <2>3
<1>10. QED
  BY <1>2, <1>3, <1>4, <1>5, <1>6, <1>7, <1>8, <1>9 DEF Next, Round

LEMMA SendsOneIs ==
  ASSUME Shapes, TypeOK, SendsOne
  PROVE  /\ session # None /\ session.queued # {} /\ session' # None
         /\ session'.with \cup session'.queued = session.with \cup session.queued
         /\ session'.id = session.id /\ session'.gone = session.gone
<1>1. PICK u \in session.queued :
        session' = [session EXCEPT !.with = @ \cup {u}, !.queued = @ \ {u}]
  BY DEF SendsOne
<1>2. session \in Sessions /\ session # None
  BY Known DEF SendsOne
<1>3. session' \in Sessions
  BY <1>1, <1>2, SentIsTyped
<1>4. /\ session'.with = session.with \cup {u} /\ session'.queued = session.queued \ {u}
      /\ session'.id = session.id /\ session'.gone = session.gone
  BY <1>1, <1>2, SentIsTyped
<1>5. session' # None
  BY <1>3 DEF Shapes
<1>6. QED
  BY <1>2, <1>4, <1>5

LEMMA CallKeepsTheRest ==
  ASSUME TypeOK, NEW c \in Calls, CallSteps(c)
  PROVE  /\ UNCHANGED <<session, shaped, want, ready, rotation>>
         /\ \A d \in Calls : d # c => call'[d] = call[d]
         /\ \E x \in Askings : Moves(c, x) /\ call'[c] = x
<1>1. UNCHANGED <<session, shaped, want, ready, rotation>>
  BY CallIsAlone DEF CallLeaves, Others
<1>2. PICK x \in Askings : Moves(c, x)
  BY CallMoves
<1>3. call' = [call EXCEPT ![c] = x] /\ call \in [Calls -> Askings]
  BY <1>2 DEF Moves, TypeOK
<1>4. QED
  BY <1>1, <1>2, <1>3

LEMMA ShapedStep ==
  ASSUME Shapes, TypeOK, TaskInv, ShapedInv, Next
  PROVE  ShapedInv'
<1>1. CASE LeavesTheKey
  BY <1>1 DEF LeavesTheKey, ShapedInv
<1>2. CASE Ages
  <2>1. shaped' = shaped
    BY <1>2 DEF Ages
  <2>2. QED
    BY <1>2, <2>1, AgesTyped DEF ShapedInv
<1>3. CASE Discards
  BY <1>3, SessionsAre DEF Discards, ShapedInv
<1>4. CASE SharesAnew
  BY <1>4, SessionsAre DEF SharesAnew, ShapedInv
<1>5. CASE SendsOne
  BY <1>5, SendsOneIs DEF SendsOne, ShapedInv
<1>6. ASSUME NEW c \in Calls, CallSteps(c)
      PROVE  ShapedInv'
  BY <1>6, CallKeepsTheRest DEF ShapedInv
<1>7. QED
  BY <1>1, <1>2, <1>3, <1>4, <1>5, <1>6, SessionSteps

LEMMA CleanStep ==
  ASSUME Shapes, TypeOK, TaskInv, ShapedInv, CleanInv, MessagesMeetTheRoom, Next
  PROVE  CleanInv' /\ MessagesMeetTheRoom'
<1>1. CASE LeavesTheKey
  <2>1. UNCHANGED <<session, posted>>
    BY <1>1 DEF LeavesTheKey
  <2>2. ASSUME NEW d \in Calls, call'[d].clean
        PROVE  /\ At(d, "encrypt")' => /\ session # None /\ session.queued = {}
                                       /\ session.with = call'[d].members
               /\ At(d, "post")' => call'[d].to = call'[d].members
    <3>1. Keeps(d)
      BY <1>1, <2>2 DEF LeavesTheKey
    <3>2. QED
      BY <2>2, <3>1 DEF Keeps, CleanInv, At
  <2>3. QED
    BY <2>1, <2>2 DEF CleanInv, MessagesMeetTheRoom, At
<1>2. CASE Ages
  <2>1. UNCHANGED <<call, posted>>
    BY <1>2 DEF Ages
  <2>2. QED
    BY <1>2, <2>1, AgesTyped DEF CleanInv, MessagesMeetTheRoom, At
<1>3. CASE Discards \/ SharesAnew
  <2>1. posted' = posted /\ \A d \in Calls : ~call'[d].clean
    BY <1>3, StirredTyped DEF Discards, SharesAnew
  <2>2. QED
    BY <2>1 DEF CleanInv, MessagesMeetTheRoom
<1>4. CASE SendsOne
  <2>1. UNCHANGED <<call, posted>> /\ session # None /\ session.queued # {}
    BY <1>4, SendsOneIs DEF SendsOne
  <2>2. QED
    BY <2>1 DEF CleanInv, MessagesMeetTheRoom, At
<1>5. ASSUME NEW c \in Calls, CallSteps(c)
      PROVE  CleanInv' /\ MessagesMeetTheRoom'
  <2>1. PICK x \in Askings : Moves(c, x) /\ call'[c] = x
    BY <1>5, CallKeepsTheRest
  <2>2. UNCHANGED <<session, shaped>> /\ \A d \in Calls : d # c => call'[d] = call[d]
    BY <1>5, CallKeepsTheRest
  <2>3. x.at = "encrypt" /\ x.clean => /\ session # None /\ session.queued = {}
                                       /\ session.with = x.members
    <3>1. ASSUME x.at = "encrypt", x.clean
          PROVE  session # None /\ session.queued = {} /\ session.with = x.members
      <4>1. KeyIsReady /\ shaped = x.members
        BY <2>1, <3>1 DEF Moves
      <4>2. session # None /\ session.queued = {}
        BY <4>1 DEF KeyIsReady
      <4>3. QED
        BY <4>1, <4>2 DEF ShapedInv
    <3>2. QED
      BY <3>1
  <2>4. x.at = "post" /\ x.clean => x.to = x.members
    BY <2>1 DEF Moves, CleanInv, At
  <2>5. CleanInv'
    <3>1. ASSUME NEW d \in Calls, call'[d].clean
          PROVE  /\ call'[d].at = "encrypt" => /\ session' # None /\ session'.queued = {}
                                               /\ session'.with = call'[d].members
                 /\ call'[d].at = "post" => call'[d].to = call'[d].members
      <4>1. CASE d = c
        BY <2>1, <2>2, <2>3, <2>4, <3>1, <4>1
      <4>2. CASE d # c
        BY <2>2, <3>1, <4>2 DEF CleanInv, At
      <4>3. QED
        BY <4>1, <4>2
    <3>2. QED
      BY <3>1 DEF CleanInv, At
  <2>6. MessagesMeetTheRoom'
    <3>1. CallLeaves(c)
      BY <1>5, CallIsAlone
    <3>2. \/ posted' = posted
          \/ /\ call[c].at = "post"
             /\ posted' = posted \cup {[members |-> call[c].members, to |-> call[c].to,
                                        clean |-> call[c].clean]}
      BY <3>1 DEF CallLeaves
    <3>3. call[c].at = "post" /\ call[c].clean => call[c].to = call[c].members
      BY DEF CleanInv, At
    <3>4. QED
      BY <3>2, <3>3 DEF MessagesMeetTheRoom
  <2>7. QED
    BY <2>5, <2>6
<1>6. QED
  BY <1>1, <1>2, <1>3, <1>4, <1>5, SessionSteps

----------------------------------------------------------------------------
\* Who waits.

LEMMA WaitStep ==
  ASSUME Shapes, TypeOK, TaskInv, WaitInv, Next
  PROVE  WaitInv'
<1>1. ASSUME UNCHANGED <<call, ready>>, want # None => want' # None, KeyIsReady' => KeyIsReady
      PROVE  WaitInv'
  BY <1>1 DEF WaitInv, At
<1>2. ASSUME UNCHANGED <<call, ready, session>>, want # None => want' # None
      PROVE  WaitInv'
  <2>1. KeyIsReady' <=> KeyIsReady
    BY <1>2 DEF KeyIsReady
  <2>2. QED
    BY <1>1, <1>2, <2>1
<1>3. ASSUME want' # None
      PROVE  WaitInv'
  BY <1>3 DEF WaitInv
<1>4. CASE RoomChanges \/ RotationIsEdited \/ OpenLine \/ LineDies
  <2>1. UNCHANGED <<call, ready, session, want>>
    BY <1>4 DEF RoomChanges, RotationIsEdited, OpenLine, LineDies, work
  <2>2. QED
    BY <1>2, <2>1
<1>5. CASE Ages
  <2>1. UNCHANGED <<call, ready, want>>
    BY <1>5 DEF Ages, work
  <2>2. KeyIsReady' => KeyIsReady
    BY <1>5, AgesTyped DEF KeyIsReady
  <2>3. QED
    BY <1>1, <2>1, <2>2
<1>6. CASE Crash
  <2>1. \A c \in Calls : call'[c].at = "idle"
    BY <1>6, NoCallTyped DEF Crash
  <2>2. QED
    BY <2>1 DEF WaitInv, At
<1>7. CASE TakeWork
  <2>1. \/ want' = want
        \/ \E i \in DOMAIN inbox : want' = MergeWant(want, Want(inbox[i].members, FALSE))
    BY <1>7 DEF TakeWork, Last
  <2>2. ASSUME NEW i \in DOMAIN inbox, want' = MergeWant(want, Want(inbox[i].members, FALSE))
        PROVE  want' # None
    <3>1. inbox[i] \in Items /\ want \in {None} \cup Wants
      BY DEF TypeOK
    <3>2. inbox[i].members \in SUBSET Users
      BY <3>1 DEF Items
    <3>3. QED
      BY <2>2, <3>1, <3>2, MergeTyped
  <2>3. UNCHANGED <<call, ready, session>>
    BY <1>7 DEF TakeWork
  <2>4. QED
    BY <1>2, <2>1, <2>2, <2>3
<1>8. CASE CheckAfterSend
  <2>1. want' = want \/ want' = MergeWant(want, Want(used, KeyIsReady))
    BY <1>8 DEF CheckAfterSend
  <2>2. ASSUME want' = MergeWant(want, Want(used, KeyIsReady))
        PROVE  want' # None
    <3>1. used \in SUBSET Users /\ want \in {None} \cup Wants
      BY <1>8, Known DEF TypeOK, TaskInv, CheckAfterSend
    <3>2. KeyIsReady \in BOOLEAN
      BY DEF KeyIsReady
    <3>3. QED
      BY <2>2, <3>1, <3>2, MergeTyped
  <2>3. UNCHANGED <<call, ready, session>>
    BY <1>8 DEF CheckAfterSend
  <2>4. QED
    BY <1>2, <2>1, <2>2, <2>3
<1>9. CASE FindLine \/ UploadOwn
  <2>1. UNCHANGED <<call, ready, session, want>>
    BY <1>9 DEF FindLine, UploadOwn
  <2>2. QED
    BY <1>2, <2>1
<1>10. CASE DiscardFirst
  <2>1. session' = Discarded
    BY <1>10 DEF DiscardFirst
  <2>2. ~KeyIsReady'
    BY <2>1, SessionsAre DEF KeyIsReady
  <2>3. QED
    BY <2>2 DEF WaitInv
<1>11. CASE AskRotation \/ Share \/ SendKey
  <2>1. want' = want /\ want # None
    BY <1>11 DEF AskRotation, Share, SendKey, TaskInv
  <2>2. QED
    BY <1>3, <2>1
<1>12. CASE CheckReady
  <2>1. CASE SetReady(want.members)
    BY <2>1, WokenTyped DEF WaitInv
  <2>2. CASE UNCHANGED <<want, ready, call>>
    <3>1. session' = session
      BY <1>12 DEF CheckReady
    <3>2. QED
      BY <1>2, <2>2, <3>1
  <2>3. QED
    BY <1>12, <2>1, <2>2 DEF CheckReady
<1>13. ASSUME NEW c \in Calls, CallSteps(c)
       PROVE  WaitInv'
  <2>1. PICK x \in Askings : Moves(c, x) /\ call'[c] = x
    BY <1>13, CallKeepsTheRest
  <2>2. /\ UNCHANGED <<session, ready, want>>
        /\ \A d \in Calls : d # c => call'[d] = call[d]
    BY <1>13, CallKeepsTheRest
  <2>3. KeyIsReady' <=> KeyIsReady
    BY <2>2 DEF KeyIsReady
  <2>4. ASSUME NEW d \in Calls, call'[d].at = "wait", ~call'[d].woken,
               ready = call'[d].members, KeyIsReady
        PROVE  want # None
    <3>1. d # c
      BY <2>1, <2>4 DEF Moves
    <3>2. QED
      BY <2>2, <2>4, <3>1 DEF WaitInv, At
  <2>5. QED
    BY <2>2, <2>3, <2>4 DEF WaitInv, At
<1>14. QED
  BY <1>4, <1>5, <1>6, <1>7, <1>8, <1>9, <1>10, <1>11, <1>12, <1>13 DEF Next, Round

LEMMA FreshStep ==
  ASSUME Shapes, TypeOK, TaskInv, Next,
         session # None, ~session.gone, session' # None,
         session'.gone \/ session'.id # session.id
  PROVE  \/ session.age # "fresh" \/ session.period # rotation
         \/ (session.with \cup session.queued) \ want.members # {}
<1>1. CASE LeavesTheKey
  BY <1>1 DEF LeavesTheKey
<1>2. CASE Ages
  BY <1>2, AgesTyped
<1>3. CASE Discards
  BY <1>3 DEF Discards
<1>4. CASE SharesAnew
  BY <1>4, SessionsAre DEF SharesAnew
<1>5. CASE SendsOne
  BY <1>5, SendsOneIs
<1>6. ASSUME NEW c \in Calls, CallSteps(c)
      PROVE  FALSE
  BY <1>6, CallKeepsTheRest
<1>7. QED
  BY <1>1, <1>2, <1>3, <1>4, <1>5, <1>6, SessionSteps

----------------------------------------------------------------------------
LEMMA InitHolds ==
  ASSUME Shapes, Init
  PROVE  KeyShareInv
<1>1. TypeOK /\ TaskInv
  BY InitTyped
<1>2. ShapedInv /\ MessagesMeetTheRoom
  BY DEF Init, ShapedInv, MessagesMeetTheRoom
<1>3. CleanInv /\ WaitInv
  BY NoCallTyped DEF Init, CleanInv, WaitInv, At
<1>4. QED
  BY <1>1, <1>2, <1>3 DEF KeyShareInv

LEMMA StepHolds ==
  ASSUME Shapes, KeyShareInv, [Next]_vars
  PROVE  KeyShareInv'
<1>1. CASE Next
  <2>1. TypeOK' /\ TaskInv'
    <3>1. ASSUME NEW c \in Calls, CallSteps(c)
          PROVE  TypeOK' /\ TaskInv'
      BY <3>1, CallTyped DEF KeyShareInv
    <3>2. QED
      BY <1>1, <3>1, SurroundingsTyped, TaskTyped, PrepareTyped, AgesTyped
         DEF Next, Round, KeyShareInv
  <2>2. ShapedInv'
    BY <1>1, ShapedStep DEF KeyShareInv
  <2>3. CleanInv' /\ MessagesMeetTheRoom'
    BY <1>1, CleanStep DEF KeyShareInv
  <2>4. WaitInv'
    BY <1>1, WaitStep DEF KeyShareInv
  <2>5. QED
    BY <2>1, <2>2, <2>3, <2>4 DEF KeyShareInv
<1>2. CASE UNCHANGED vars
  <2>1. TypeOK' /\ TaskInv'
    BY <1>2 DEF vars, KeyShareInv, TypeOK, TaskInv
  <2>2. ShapedInv' /\ CleanInv' /\ MessagesMeetTheRoom'
    BY <1>2 DEF vars, KeyShareInv, ShapedInv, CleanInv, MessagesMeetTheRoom, At
  <2>3. WaitInv'
    BY <1>2 DEF vars, KeyShareInv, WaitInv, At, KeyIsReady
  <2>4. QED
    BY <2>1, <2>2, <2>3 DEF KeyShareInv
<1>3. QED
  BY <1>1, <1>2

LEMMA KeyShareIsSound ==
  ASSUME Shapes
  PROVE  Spec => []KeyShareInv
<1>1. Init => KeyShareInv
  BY InitHolds
<1>2. KeyShareInv /\ [Next]_vars => KeyShareInv'
  BY StepHolds
<1>3. QED
  BY <1>1, <1>2, PTL DEF Spec

\* A message that the server took, encrypted with a key that was handed out for its room
\* version and not touched since, opens for the members of that version and for nobody
\* else, however the room changes, the key ages, requests fail and the program stops in
\* between (encrypt_and_send, share_room_key, send_room_key).
THEOREM MessagesAreForTheRoom ==
  ASSUME Shapes
  PROVE  Spec => []MessagesMeetTheRoom
<1>1. KeyShareInv => MessagesMeetTheRoom
  BY DEF KeyShareInv
<1>2. QED
  BY <1>1, KeyShareIsSound, PTL

\* No wake-up is lost: the version is looked at after subscribing, and the end of a round
\* wakes everybody, so while the task rests with nothing to do nobody waits for the key
\* that is there (is_room_key_ready_within, RoomKeyReadiness).
THEOREM NoWaiterIsMissed ==
  ASSUME Shapes
  PROVE  Spec => []WaiterIsWoken
<1>1. KeyShareInv => WaiterIsWoken
  BY DEF KeyShareInv, WaitInv, WaiterIsWoken
<1>2. QED
  BY <1>1, KeyShareIsSound, PTL

\* The task never puts a good key aside: what discards or replaces a session (the wish of
\* check_after_send, the room's period, share_room_key) finds a reason in the state of that
\* very step, however old the wish is.
THEOREM FreshKeysAreKept ==
  ASSUME Shapes
  PROVE  Spec => FreshIsKept
<1>1. ASSUME KeyShareInv, [Next]_vars
      PROVE  (session # None /\ ~session.gone /\ session' # None /\
                (session'.gone \/ session'.id # session.id))
               => \/ session.age # "fresh"
                  \/ session.period # rotation
                  \/ (session.with \cup session.queued) \ want.members # {}
  <2>1. CASE Next
    BY <1>1, <2>1, FreshStep DEF KeyShareInv
  <2>2. CASE UNCHANGED vars
    BY <2>2 DEF vars
  <2>3. QED
    BY <1>1, <2>1, <2>2
<1>2. QED
  BY <1>1, KeyShareIsSound, PTL DEF Spec, FreshIsKept
=============================================================================
