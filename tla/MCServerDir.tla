----------------------------- MODULE MCServerDir -----------------------------
(***************************************************************************)
(* The directory of one server: who is logged in (Accounts), what the      *)
(* cache says of rooms (Rooms) and of events (Timeline), a file on its way *)
(* to the server, with its state file (Uploads), and an account's identity *)
(* and backup (KeyBackup).  As modelled the five share no state, so that   *)
(* their interleavings show nothing: `part` says whose steps a behaviour   *)
(* takes.                                                                  *)
(***************************************************************************)
EXTENDS Accounts, Rooms, Timeline, Uploads, KeyBackup, TLC

CONSTANTS alice, bob, capital, r1, r2, c1, c2

VARIABLE part

----------------------------------------------------------------------------
\* Two accounts, one of which may be typed in another spelling.

Spelling == [n \in Names |-> IF n = capital THEN alice ELSE n]

Bounds(logins, leavings, tasks, faults, crashes) ==
  [logins |-> logins, leaves |-> leavings, tasks |-> tasks, faults |-> faults, crashes |-> crashes]
NoLogins == Bounds(0, 0, 0, 0, 0)
LoginCases == {NoLogins, Bounds(2, 1, 1, 1, 0), Bounds(2, 2, 2, 0, 0), Bounds(2, 1, 1, 0, 1),
               Bounds(1, 1, 1, 2, 1)}

----------------------------------------------------------------------------
\* Bounds for Rooms.

Count(pairs) == [what \in Chances |->
                   IF \E pair \in pairs : pair[1] = what
                   THEN (CHOOSE pair \in pairs : pair[1] = what)[2] ELSE 0]
NoRounds == Count({})

\* One scenario per row: a round against pushes and actions, with pushes lost, with the
\* line dying, with the process and the disk failing; events and their watermark; what
\* is known of encryption.
RoomScenarios ==
  {NoRounds,
   Count({<<"changes", 1>>, <<"fetches", 1>>, <<"acts", 1>>}),
   Count({<<"changes", 2>>, <<"drops", 1>>, <<"fetches", 1>>}),
   Count({<<"changes", 2>>, <<"deaths", 1>>, <<"fetches", 1>>, <<"faults", 1>>}),
   Count({<<"changes", 2>>, <<"deaths", 1>>, <<"fetches", 2>>}),
   Count({<<"changes", 2>>, <<"crashes", 1>>, <<"fetches", 2>>}),
   Count({<<"events", 2>>, <<"recents", 2>>, <<"crashes", 1>>}),
   Count({<<"events", 3>>, <<"recents", 1>>, <<"faults", 1>>}),
   Count({<<"events", 1>>, <<"looks", 2>>, <<"acts", 1>>})}

----------------------------------------------------------------------------
\* Rooms of a few events for Timeline, each about one way to meet out of order.

Plain(class, of, by, ts) ==
    [kind |-> class, of |-> of, by |-> by, ts |-> ts, enc |-> FALSE, type |-> "text", seq |-> 0]
Secret(class, of, by, ts) == [Plain(class, of, by, ts) EXCEPT !.enc = TRUE]

Message == Plain("msg", 0, "ann", 1)
SecretMessage == Secret("msg", 0, "ann", 1)
Edit(ts) == Plain("edit", 1, "ann", ts)
SecretEdit(ts) == Secret("edit", 1, "ann", ts)
Redaction(of) == Plain("redact", of, "mod", 5)
Reaction == Plain("reaction", 1, "joe", 3)
Numbered(seq, by, ts) == [Plain("msg", 0, by, ts) EXCEPT !.seq = seq]

\* The events of a room, and no more.
Events(events) ==
    [e \in Ids |-> IF e \in DOMAIN events THEN events[e] ELSE Plain("unsent", 0, "ann", 0)]

Timelines == {
    <<Events(<<>>), {}, {}, {}>>,
    \* Two edits of three are redacted, and a reaction comes.
    <<Events(<<Message, Edit(4), Edit(3), Redaction(2), Redaction(3), Edit(2)>>), {alice}, {}, {}>>,
    <<Events(<<Message, Edit(4), Reaction, Redaction(3), Edit(5)>>), {alice}, {3}, {}>>,
    \* The only edit is redacted, then one with an older clock comes.
    <<Events(<<Message, Edit(4), Redaction(2), Edit(0)>>), {alice}, {2}, {}>>,
    \* Edits of the same millisecond, of another sender, of another kind.
    <<Events(<<Message, Edit(3), Edit(3), Plain("edit", 1, "joe", 4),
             [Edit(6) EXCEPT !.type = "state"]>>), {alice}, {}, {}>>,
    \* An encrypted room: texts come late, a plain edit is not valid.
    <<Events(<<SecretMessage, SecretEdit(2), Edit(4), Redaction(1)>>), {alice}, {}, {}>>,
    <<Events(<<SecretMessage, SecretEdit(2), SecretEdit(4), Redaction(3)>>), {alice}, {}, {}>>,
    \* Two accounts that were not given the same events; one hides.
    <<Events(<<Message, Edit(2), Redaction(2)>>), {alice, bob}, {2}, {alice}>>,
    \* Messages in the server's order, which is not the order of their clocks; one is her own.
    <<Events(<<Numbered(1, "ann", 7), Numbered(2, alice, 3), Numbered(3, "ann", 5),
             [Redaction(3) EXCEPT !.seq = 4]>>), {alice}, {1}, {}>>,
    \* A server without numbers.
    <<Events(<<Numbered(0, "ann", 7), Numbered(0, alice, 3), Numbered(0, "ann", 5)>>),
      {alice}, {}, {}>> }

----------------------------------------------------------------------------
\* Bounds for Uploads.

Happens(how, last, pairs) ==
  [kind |-> how, limit |-> last,
   left |-> [what \in UploadHappenings |->
               IF \E pair \in pairs : pair[1] = what
               THEN (CHOOSE pair \in pairs : pair[1] = what)[2] ELSE 0]]
NoUpload == Happens("whole", 0, {})

\* One scenario per row: commands for a file while its room is encrypted, while the server
\* loses what it had; PUTs of one body, cut by the server and taken up again, or two uploads;
\* streams that break off, or that the server ends; a whole file.
Ways ==
  {NoUpload,
   Happens("file", 0, {<<"runs", 2>>, <<"ends", 1>>, <<"encrypts", 1>>}),
   Happens("file", 0, {<<"runs", 2>>, <<"ends", 1>>, <<"forgets", 1>>}),
   Happens("file", 0, {<<"runs", 2>>, <<"ends", 1>>, <<"sweeps", 1>>}),
   Happens("put", 2, {<<"creates", 1>>, <<"runs", 4>>, <<"ends", 3>>, <<"forgets", 1>>,
                      <<"encrypts", 1>>}),
   Happens("put", 1, {<<"creates", 2>>, <<"runs", 3>>, <<"ends", 2>>, <<"sweeps", 1>>}),
   Happens("stream", 0, {<<"creates", 1>>, <<"runs", 3>>, <<"ends", 2>>, <<"forgets", 1>>}),
   Happens("stream", 2, {<<"creates", 1>>, <<"runs", 3>>, <<"ends", 2>>}),
   Happens("whole", 0, {<<"creates", 1>>, <<"runs", 3>>, <<"ends", 2>>, <<"encrypts", 1>>})}

----------------------------------------------------------------------------
\* Bounds for KeyBackup.

Times(pairs) == [what \in Kinds |->
                   IF \E pair \in pairs : pair[1] = what
                   THEN (CHOOSE pair \in pairs : pair[1] = what)[2] ELSE 0]
NoBackup == Times({})
TwoNames == <<"master", "user_signing">>

\* One scenario per row: two devices, one of which gets the key of a backup from the other
\* while another client replaces the version, or while lines and processes end; calls that
\* fail; a device that leaves and comes again; one whose user switches the backup.
BackupCases ==
  {NoBackup,
   Times({<<"logins", 2>>, <<"opens", 2>>, <<"keys", 1>>, <<"verifies", 1>>, <<"faults", 1>>,
          <<"versions", 1>>}),
   Times({<<"logins", 2>>, <<"opens", 2>>, <<"keys", 1>>, <<"verifies", 1>>, <<"stops", 1>>,
          <<"versions", 1>>}),
   Times({<<"logins", 2>>, <<"opens", 2>>, <<"calls", 1>>, <<"verifies", 1>>, <<"faults", 1>>}),
   Times({<<"logins", 2>>, <<"opens", 3>>, <<"calls", 1>>, <<"leaves", 1>>}),
   Times({<<"logins", 1>>, <<"opens", 2>>, <<"calls", 2>>, <<"keys", 1>>, <<"switches", 1>>,
          <<"stops", 1>>})}

----------------------------------------------------------------------------
ASSUME Spellings /\ UploadShapes /\ Shapes /\ RoomShapes /\ IdsAreOrdered

DirInit ==
  /\ part \in {"accounts", "rooms", "timeline", "uploads", "backup"}
  /\ AccountsInit /\ (rest = NoLogins) = (part # "accounts")
  /\ RoomsInit /\ (roomsLeft = NoRounds) = (part # "rooms")
  /\ TimelineInit /\ (readers = {}) = (part # "timeline")
  /\ UploadsInit /\ (kind = "whole" /\ more["runs"] = 0) = (part # "uploads")
  /\ Init /\ (left = NoBackup) = (part # "backup")
  /\ part # "backup" => setting = [d \in Homes |-> TRUE]

OfAccounts == part = "accounts" /\ UNCHANGED <<part, roomVars, eventVars, uploadVars, vars>>
OfRooms == part = "rooms" /\ UNCHANGED <<part, accountVars, eventVars, uploadVars, vars>>
OfTimeline == part = "timeline" /\ UNCHANGED <<part, accountVars, roomVars, uploadVars, vars>>
OfUploads == part = "uploads" /\ UNCHANGED <<part, accountVars, roomVars, eventVars, vars>>
OfBackup == part = "backup" /\ UNCHANGED <<part, accountVars, roomVars, eventVars, uploadVars>>

AccountsStep ==
  \/ OfAccounts /\ \E c \in Clients, n \in Names : StartLogin(c, n)
  \/ OfAccounts /\ \E c \in Clients : Granted(c)
  \/ OfAccounts /\ \E c \in Clients : GrantIsLost(c)
  \/ OfAccounts /\ \E c \in Clients : Denied(c)
  \/ OfAccounts /\ \E c \in Clients : Move(c)
  \/ OfAccounts /\ \E c \in Clients : Build(c)
  \/ OfAccounts /\ \E c \in Clients : Seal(c)
  \/ OfAccounts /\ \E c \in Clients : Point(c)
  \/ OfAccounts /\ \E c \in Clients : Revoke(c)
  \/ OfAccounts /\ \E c \in Clients, n \in Names, all, accepts \in BOOLEAN :
                      StartLeave(c, n, all, accepts)
  \/ OfAccounts /\ \E c \in Clients : ForgetRows(c)
  \/ OfAccounts /\ \E c \in Clients : TellServer(c)
  \/ OfAccounts /\ \E c \in Clients : NotTold(c)
  \/ OfAccounts /\ \E c \in Clients : StopTasks(c)
  \/ OfAccounts /\ \E c \in Clients : DeleteSession(c)
  \/ OfAccounts /\ \E c \in Clients : ForgetEngine(c)
  \/ OfAccounts /\ \E c \in Clients : DeleteStore(c)
  \/ OfAccounts /\ \E c \in Clients : CloseCache(c)
  \/ OfAccounts /\ \E c \in Clients : RemoveCache(c)
  \/ OfAccounts /\ \E c \in Clients : DropRecoveryKey(c)
  \/ OfAccounts /\ \E c \in Clients : MarkServer(c)
  \/ OfAccounts /\ \E c \in Clients : RemoveRest(c)
  \/ OfAccounts /\ \E c \in Clients : RemoveDir(c)
  \/ OfAccounts /\ \E c \in Clients : RenameServer(c)
  \/ OfAccounts /\ \E c \in Clients : SweepJunk(c)
  \/ OfAccounts /\ \E n \in Names : OpenEngine(n)
  \/ OfAccounts /\ \E n \in Names : Begin(n)
  \/ OfAccounts /\ \E n \in Names : TakeCache(n)
  \/ OfAccounts /\ \E n \in Names : WriteRows(n)
  \/ OfAccounts /\ \E n \in Names : SaveRecoveryKey(n)
  \/ OfAccounts /\ RemoveByHand
  \/ OfAccounts /\ ProgramStops

RoomsStep ==
  \/ OfRooms /\ \E r \in RoomIds, m \in Memberships : OthersChange(r, m)
  \/ OfRooms /\ PushIsLost
  \/ OfRooms /\ NewEvent
  \/ OfRooms /\ RoomsLineDies
  \/ OfRooms /\ Subscribe
  \/ OfRooms /\ TellOpened
  \/ OfRooms /\ TakeInvite
  \/ OfRooms /\ WriteInvite
  \/ OfRooms /\ TellInvite
  \/ OfRooms /\ TakeEvents
  \/ OfRooms /\ Commit
  \/ OfRooms /\ WriteFails
  \/ OfRooms /\ RoomsCrash
  \/ OfRooms /\ \E c \in Calls, r \in RoomIds, m \in Memberships : Act(c, r, m)
  \/ OfRooms /\ \E c \in Calls, r \in RoomIds : ForgetRoom(c, r)
  \/ OfRooms /\ \E c \in Calls, r \in RoomIds : Look(c, r)
  \/ OfRooms /\ \E c \in Calls : FetchInvites(c)
  \/ OfRooms /\ \E c \in Calls : FetchAnswered(c)
  \/ OfRooms /\ \E c \in Calls : CloseRound(c)
  \/ OfRooms /\ \E c \in Calls : List(c)
  \/ OfRooms /\ \E c \in Calls : Recent(c)
  \/ OfRooms /\ \E c \in Calls : AskWindow(c)
  \/ OfRooms /\ \E c \in Calls : NextWindow(c)
  \/ OfRooms /\ \E c \in Calls : MarkRecent(c)
  \/ OfRooms /\ \E c \in Calls : Record(c)
  \/ OfRooms /\ \E c \in Calls : BreaksOff(c)
  \/ OfRooms /\ \E c \in Calls : Return(c)

TimelineStep ==
  \/ OfTimeline /\ \E reader \in Readers, e \in Ids : Upsert(reader, e)
  \/ OfTimeline /\ \E reader \in Readers, e \in Ids : Hide(reader, e)
  \/ OfTimeline /\ \E reader \in Readers, e \in Ids : MarkRead(reader, e)
  \/ OfTimeline /\ \E reader \in Readers : ForgetAccount(reader)

UploadsStep ==
  \/ OfUploads /\ \E q \in late : Late(q)
  \/ OfUploads /\ \E u \in DOMAIN srv : Sweep(u)
  \/ OfUploads /\ \E u \in DOMAIN srv : Forget(u)
  \/ OfUploads /\ Encrypt
  \/ OfUploads /\ \E secret \in BOOLEAN : MediaCreate(secret)
  \/ OfUploads /\ \E r \in Callers, secret, posts \in BOOLEAN : UploadFile(r, secret, posts)
  \/ OfUploads /\ \E r \in Callers, u \in DOMAIN srv, len \in 1..2 : Put(r, u, len)
  \/ OfUploads /\ \E r \in Callers, u \in DOMAIN srv : Abort(r, u)
  \/ OfUploads /\ \E r \in Callers, u \in DOMAIN srv : SendAttachment(r, u)
  \/ OfUploads /\ \E r \in Callers : Created(r)
  \/ OfUploads /\ \E r \in Callers : WriteState(r)
  \/ OfUploads /\ \E r \in Callers : StatusAnswered(r)
  \/ OfUploads /\ \E r \in Callers : ChunkAnswered(r)
  \/ OfUploads /\ \E r \in Callers : SealAnswered(r)
  \/ OfUploads /\ \E r \in Callers : WholeAnswered(r)
  \/ OfUploads /\ \E r \in Callers : AbortAnswered(r)
  \/ OfUploads /\ \E r \in Callers : RemoveState(r)
  \/ OfUploads /\ \E r \in Callers : Posted(r)
  \/ OfUploads /\ \E r \in Callers : Ends(r)

BackupStep ==
  \/ OfBackup /\ \E d \in Homes, fresh \in BOOLEAN : OpenLine(d, fresh)
  \/ OfBackup /\ \E d \in Homes, fresh \in BOOLEAN : Receive(d, fresh)
  \/ OfBackup /\ \E d \in Homes, mine \in BOOLEAN : Restore(d, mine)
  \/ OfBackup /\ \E d \in Homes : QueryIdentity(d)
  \/ OfBackup /\ \E d \in Homes : UploadSigningKeys(d)
  \/ OfBackup /\ \E d \in Homes : UploadSignatures(d)
  \/ OfBackup /\ \E d \in Homes : FindLatest(d)
  \/ OfBackup /\ \E d \in Homes : CreateVersion(d)
  \/ OfBackup /\ \E d \in Homes : UploadKeys(d)
  \/ OfBackup /\ \E d \in Homes : Upload(d)
  \/ OfBackup /\ \E d \in Homes : AfterBatch(d)
  \/ OfBackup /\ \E d \in Homes : AdoptFromInbox(d)
  \/ OfBackup /\ \E d \in Homes : ClearInbox(d)
  \/ OfBackup /\ \E d \in Homes : CreateRecoveryKey(d)
  \/ OfBackup /\ \E d \in Homes : Describe(d)
  \/ OfBackup /\ \E d \in Homes : GetSecret(d)
  \/ OfBackup /\ \E d \in Homes : PutSecret(d)
  \/ OfBackup /\ \E d \in Homes : SetDefault(d)
  \/ OfBackup /\ \E d \in Homes : KeepRecoveryKey(d)
  \/ OfBackup /\ \E d \in Homes : FetchSecret(d)
  \/ OfBackup /\ \E d \in Homes : ImportSecrets(d)
  \/ OfBackup /\ \E d \in Homes : SignDevice(d)
  \/ OfBackup /\ \E d \in Homes : RestoreBackup(d)
  \/ OfBackup /\ \E d \in Homes : Login(d)
  \/ OfBackup /\ \E d \in Homes : LogOut(d)
  \/ OfBackup /\ \E d \in Homes : LogOutAcceptingLoss(d)
  \/ OfBackup /\ \E d \in Homes : LineDies(d)
  \/ OfBackup /\ \E d \in Homes : Crash(d)
  \/ OfBackup /\ \E d \in Homes : SwitchBackup(d)
  \/ OfBackup /\ \E d, e \in Homes : Verify(d, e)
  \/ OfBackup /\ ReplaceVersion

DirNext == AccountsStep \/ RoomsStep \/ TimelineStep \/ UploadsStep \/ BackupStep

DirSpec ==
  DirInit /\ [][DirNext]_<<part, accountVars, roomVars, eventVars, uploadVars, vars>>

SameCalls == Permutations(Calls)
=============================================================================
