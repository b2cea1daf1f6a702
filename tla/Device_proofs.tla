---------------------------- MODULE Device_proofs ----------------------------
(***************************************************************************)
(* What is proved of what a device has of its account: its keys and their  *)
(* backup (KeyBackup), and the rooms as its cache knows them (Rooms).  The *)
(* two share no state; each part stands by itself.                         *)
(***************************************************************************)
EXTENDS KeyBackup, Rooms, FiniteSetTheorems, SequenceTheorems, TLAPS

----------------------------------------------------------------------------
(***************************************************************************)
(* Proofs about KeyBackup.  Most steps are quiet: they neither write to    *)
(* secret storage nor clear an inbox, and for them one lemma (QuietStep)   *)
(* says that the invariant stays; what is left are the steps of the one    *)
(* that makes a recovery key (CreatorCall) and the two of the inbox.       *)
(***************************************************************************)

Names == Range(SecretNames)

Account ==
  [identity : Nat, signed : SUBSET Nat, version : Nat, made : Nat, filled : SUBSET Nat,
   described : SUBSET Nat, default : Nat, secrets : [Names -> SUBSET (Nat \X Nat)],
   devices : Nat]

CryptoStore ==
  [number : Nat, identity : Nat, key : Nat, version : Nat, on : BOOLEAN, pending : BOOLEAN,
   inbox : SUBSET Nat]

ForTheLine == {"query", "signing", "signatures"}
ForTheBackup == {"latest", "create", "upload"}
ForTheInbox == {"inbox", "clear"}
ToCreate == {"describe", "get", "set", "default"}
ToRestore == {"fetch", "import", "sign", "backup"}

Steps == {"idle", "keep"} \cup ForTheLine \cup ForTheBackup \cup ForTheInbox \cup ToCreate
         \cup ToRestore

Background == {"open", "upload", "import"}
Reasons == {"idle", "create", "restore"} \cup Background

Operation ==
  [at : Steps, why : Reasons, backup : BOOLEAN, fresh : BOOLEAN, given : BOOLEAN, id : Nat,
   value : Nat, todo : Seq(Names), got : SUBSET (Nat \cup (Nat \X Nat))]

\* What an operation is at, it is at for one reason.
Staged(o) ==
  /\ o.at = "idle" => o.why = "idle"
  /\ o.at \in ForTheLine => o.why = "open"
  /\ o.at \in ForTheBackup => o.why \in Background
  /\ o.at \in ForTheInbox => o.why = "import"
  /\ o.at \in ToCreate => o.why = "create"
  /\ o.at \in ToRestore => o.why = "restore"
  /\ o.at = "keep" => o.why \in {"create", "restore"}
  /\ o.at \in {"get", "set"} => o.todo # <<>>
  /\ o.at = "default" => o.todo = <<>>
  /\ o.at = "set" => o.got \subseteq Nat \X Nat
  /\ o.at = "fetch" => o.todo # <<>> /\ o.todo[Len(o.todo)] = BackupKey

Proper(o) == o \in Operation /\ Staged(o)

\* One that neither clears an inbox nor makes a recovery key.
Quiet(o) == Proper(o) /\ o.why # "create" /\ o.at # "clear"

BackupTyped ==
  /\ server \in Account /\ IsFiniteSet(server.described)
  /\ store \in [Homes -> CryptoStore]
  /\ kept \in [Homes -> Nat] /\ known \subseteq Nat
  /\ mail \in [Homes -> SUBSET Nat]
  /\ setting \in [Homes -> BOOLEAN]
  /\ op \in [Homes -> Operation] /\ \A d \in Homes : Proper(op[d])
  /\ left \in [Kinds -> Nat]

\* Keys and devices are numbered as they are made, and the key that a store has is that of
\* the version it uploads to.
Fits(m, made, devices) ==
  /\ m.key = m.version /\ m.key <= made /\ m.inbox \subseteq 0..made
  /\ m.number <= devices /\ m.identity <= devices

KeysAreMade ==
  /\ server.version <= server.made /\ server.identity <= server.devices
  /\ server.filled \subseteq {server.version}
  /\ \A d \in Homes : Fits(store[d], server.made, server.devices)
  /\ \A d \in Homes : mail[d] \subseteq 0..server.made

\* An inbox is cleared after its key is saved.
SavedFirst ==
  \A d \in Homes :
    op[d].at = "clear" /\ server.version \in store[d].inbox => store[d].key = server.version

\* As long as no two recovery keys were made at a time: what has been read under a name is
\* what is there, the names that are done have the private keys, and once there is a
\* default key nobody writes any more.
OneCreates ==
  ~overlap =>
    /\ \A d, e \in Creating : d = e
    /\ \A d \in Creating : op[d].value \in 1..server.devices
    /\ \A d \in Homes : op[d].at = "set" => op[d].got = server.secrets[Head(op[d].todo)]
    /\ \A d \in Homes : op[d].at \in {"get", "set", "default"} =>
         \A n \in Range(Private) :
           n \in Range(op[d].todo) \/ <<op[d].id, op[d].value>> \in server.secrets[n]
    /\ server.default # 0 =>
         /\ \A d \in Homes : op[d].at \notin ToCreate
         /\ \E i \in 1..server.devices :
              \A n \in Range(Private) : <<server.default, i>> \in server.secrets[n]

BackupInv == BackupTyped /\ KeysAreMade /\ SavedFirst /\ OneCreates

\* A store keeps the key that opens the server's version.
KeepsInboxKey ==
  \A d \in Homes :
    server.version \in store[d].inbox /\ store'[d].number # 0
      => server.version \in store'[d].inbox \/ server.version = store'[d].key

LEMMA NamesAre ==
  ASSUME Shapes
  PROVE  /\ Private \in Seq(Names) /\ SecretNames \in Seq(Names) /\ Private # <<>>
         /\ Range(Private) \subseteq Names /\ BackupKey \in Names
         /\ SecretNames # <<>> /\ SecretNames[Len(SecretNames)] = BackupKey
         /\ BackupKey \notin Range(Private)
<1>1. Private \in Seq(STRING) /\ Private # <<>> /\ BackupKey \notin Range(Private)
  BY DEF Shapes
<1>2. DOMAIN Private = 1..Len(Private) /\ Len(Private) \in Nat
  BY <1>1
<1>3. /\ SecretNames \in Seq(STRING \cup {BackupKey})
      /\ Len(SecretNames) = Len(Private) + 1
      /\ DOMAIN SecretNames = 1..(Len(Private) + 1)
      /\ SecretNames[Len(Private) + 1] = BackupKey
      /\ \A i \in 1..Len(Private) : SecretNames[i] = Private[i]
  BY <1>1 DEF SecretNames
<1>4. \A i \in DOMAIN SecretNames : SecretNames[i] \in Names
  BY DEF Names, Range
<1>5. BackupKey \in Names
  BY <1>2, <1>3, <1>4
<1>6. \A i \in 1..Len(Private) : Private[i] \in Names
  BY <1>2, <1>3, <1>4
<1>7. Private \in Seq(Names)
  BY <1>1, <1>2, <1>6
<1>8. SecretNames \in Seq(Names)
  BY <1>5, <1>7 DEF SecretNames
<1>9. Range(Private) \subseteq Names
  BY <1>2, <1>6 DEF Range
<1>10. QED
  BY <1>1, <1>2, <1>3, <1>5, <1>7, <1>8, <1>9

LEMMA IdleIsQuiet == Quiet(Idle)
BY DEF Quiet, Proper, Staged, Idle, Operation, Steps, Reasons, Background, ForTheLine,
       ForTheBackup, ForTheInbox, ToCreate, ToRestore

LEMMA InitBackup ==
  ASSUME Shapes, Init
  PROVE  BackupInv
<1>1. server \in Account /\ IsFiniteSet(server.described)
  BY FS_EmptySet DEF Init, Account, Names
<1>2. store \in [Homes -> CryptoStore] /\ \A d \in Homes : store[d] = NoStore
  BY DEF Init, CryptoStore, NoStore
<1>3. \A d \in Homes : op[d] = Idle
  BY DEF Init
<1>4. BackupTyped
  <2>1. Settings \subseteq BOOLEAN
    BY DEF Shapes
  <2>2. kept \in [Homes -> Nat] /\ known \subseteq Nat /\ mail \in [Homes -> SUBSET Nat]
        /\ setting \in [Homes -> BOOLEAN] /\ left \in [Kinds -> Nat]
    BY <2>1 DEF Init, Shapes
  <2>3. op \in [Homes -> Operation]
    BY IdleIsQuiet DEF Init, Quiet, Proper
  <2>4. QED
    BY <1>1, <1>2, <1>3, <2>2, <2>3, IdleIsQuiet DEF BackupTyped, Quiet
<1>5. KeysAreMade
  BY <1>2 DEF KeysAreMade, Fits, Init, NoStore
<1>6. SavedFirst
  BY <1>3 DEF SavedFirst, Idle
<1>7. OneCreates
  BY <1>3 DEF OneCreates, Idle, Creating, Init
<1>8. QED
  BY <1>4, <1>5, <1>6, <1>7 DEF BackupInv

\* A step after which what was done is as before, or over, or something else that neither
\* clears nor creates.
LEMMA QuietStep ==
  ASSUME BackupInv, BackupTyped', KeysAreMade',
         server'.secrets = server.secrets, server'.default = server.default,
         server'.devices >= server.devices,
         server'.version = server.version \/ server'.version > server.made,
         \A e \in Homes : op'[e] = op[e] \/ Quiet(op'[e]),
         \A e \in Homes : op[e].at = "clear" /\ op'[e] = op[e] =>
           store'[e].inbox = store[e].inbox /\ store'[e].key = store[e].key,
         overlap => overlap'
  PROVE  BackupInv'
<1>1. SavedFirst'
  <2> SUFFICES ASSUME NEW d \in Homes, op'[d].at = "clear", server'.version \in store'[d].inbox
               PROVE  store'[d].key = server'.version
    BY DEF SavedFirst
  <2>1. op'[d] = op[d] /\ store'[d].inbox = store[d].inbox /\ store'[d].key = store[d].key
    BY DEF Quiet
  <2>2. server'.version = server.version
    BY <2>1 DEF BackupInv, KeysAreMade, Fits, BackupTyped, Account
  <2>3. QED
    BY <2>1, <2>2 DEF BackupInv, SavedFirst
<1>2. OneCreates'
  <2> SUFFICES ASSUME ~overlap, ~overlap' PROVE OneCreates'
    BY DEF OneCreates
  <2>1. \A d \in Homes : op'[d].why = "create" => op'[d] = op[d]
    BY DEF Quiet
  <2>2. \A d \in Homes : op'[d].at \in ToCreate => op'[d] = op[d]
    BY DEF Quiet, Proper, Staged
  <2>3. \A d \in Homes : op'[d].at \in {"get", "set", "default"} => op'[d] = op[d]
    BY <2>2 DEF ToCreate
  <2>4. Creating' \subseteq Creating
    BY <2>1 DEF Creating
  <2>5. 1..server.devices \subseteq 1..server'.devices
    BY DEF BackupInv, BackupTyped, Account
  <2>6. /\ \A d, e \in Creating' : d = e
        /\ \A d \in Creating' : op'[d].value \in 1..server'.devices
    BY <2>1, <2>4, <2>5 DEF BackupInv, OneCreates, Creating
  <2>7. /\ \A d \in Homes : op'[d].at = "set" => op'[d].got = server'.secrets[Head(op'[d].todo)]
        /\ \A d \in Homes : op'[d].at \in {"get", "set", "default"} =>
             \A n \in Range(Private) :
               n \in Range(op'[d].todo) \/ <<op'[d].id, op'[d].value>> \in server'.secrets[n]
    BY <2>3 DEF BackupInv, OneCreates
  <2>8. server'.default # 0 =>
         /\ \A d \in Homes : op'[d].at \notin ToCreate
         /\ \E i \in 1..server'.devices :
              \A n \in Range(Private) : <<server'.default, i>> \in server'.secrets[n]
    BY <2>2, <2>5 DEF BackupInv, OneCreates
  <2>9. QED
    BY <2>6, <2>7, <2>8 DEF OneCreates, Creating
<1>3. QED
  BY <1>1, <1>2 DEF BackupInv

----------------------------------------------------------------------------
\* What an operation goes on with.

LEMMA GoesQuietlyOn ==
  ASSUME NEW o \in Operation, NEW why \in Background, NEW at \in {"latest", "upload", "inbox"},
         at = "inbox" => why = "import"
  PROVE  Quiet([o EXCEPT !.why = why, !.at = at])
BY DEF Quiet, Proper, Staged, Operation, Steps, Reasons, Background, ForTheLine,
       ForTheBackup, ForTheInbox, ToCreate, ToRestore

LEMMA AfterIsQuiet ==
  ASSUME NEW o, Proper(o), NEW m
  PROVE  /\ o.why \in Background => Quiet(AfterInbox(o, m)) /\ Quiet(AfterBackup(o, m))
         /\ o.why \in Background => Quiet(ToUpload(o, m))
         /\ o.why = "open" => Quiet(AfterIdentity(o, m))
         /\ Quiet(AfterImport(o, m))
<1>1. o \in Operation
  BY DEF Proper
<1>2. \A p \in Operation : \A at \in {"latest", "upload"} :
        p.why \in Background => Quiet([p EXCEPT !.at = at])
  <2> SUFFICES ASSUME NEW p \in Operation, NEW at \in {"latest", "upload"}, p.why \in Background
               PROVE  Quiet([p EXCEPT !.at = at])
    OBVIOUS
  <2>1. [p EXCEPT !.at = at] = [p EXCEPT !.why = p.why, !.at = at]
    BY DEF Operation
  <2>2. QED
    BY <2>1, GoesQuietlyOn
<1>3. \A p \in Operation : p.why \in Background => Quiet(AfterInbox(p, m))
  BY <1>2, IdleIsQuiet DEF AfterInbox
<1>4. Quiet(AfterImport(o, m))
  <2> DEFINE half == [o EXCEPT !.why = "import"]
  <2>1. half \in Operation /\ half.why = "import"
    BY <1>1 DEF Operation, Reasons, Background
  <2>2. [half EXCEPT !.at = "inbox"] = [o EXCEPT !.why = "import", !.at = "inbox"]
    BY <1>1 DEF Operation
  <2>3. Quiet([half EXCEPT !.at = "inbox"])
    BY <1>1, <2>2, GoesQuietlyOn DEF Background
  <2>4. Quiet(AfterInbox(half, m))
    BY <1>3, <2>1 DEF Background
  <2>5. QED
    BY <2>3, <2>4 DEF AfterImport
<1>5. Quiet(AfterBackup(o, m))
  BY <1>4, IdleIsQuiet DEF AfterBackup
<1>6. o.why \in Background => Quiet(ToUpload(o, m))
  BY <1>1, <1>2, <1>5 DEF ToUpload
<1>7. o.why = "open" => Quiet(AfterIdentity(o, m))
  BY <1>1, <1>2, <1>4 DEF AfterIdentity, Background
<1>8. QED
  BY <1>1, <1>3, <1>4, <1>5, <1>6, <1>7

----------------------------------------------------------------------------
\* Calls to the server.

LEMMA SpendIsTyped ==
  ASSUME BackupInv, NEW what \in Kinds, Spend(what)
  PROVE  left' \in [Kinds -> Nat]
<1>1. left \in [Kinds -> Nat]
  BY DEF BackupInv, BackupTyped
<1>2. left[what] - 1 \in Nat
  BY <1>1 DEF Spend
<1>3. QED
  BY <1>1, <1>2 DEF Spend

\* What a call makes of the account and of the store, when secret storage is not its
\* subject.
SameStorage(s) ==
  /\ s \in Account
  /\ s.described = server.described /\ s.secrets = server.secrets
  /\ s.default = server.default /\ s.devices = server.devices
  /\ s.made >= server.made /\ s.version <= s.made
  /\ s.version = server.version \/ s.version > server.made
  /\ s.identity <= s.devices /\ s.filled \subseteq {s.version}

SameInbox(d, m, s) ==
  m \in CryptoStore /\ m.inbox = store[d].inbox /\ Fits(m, s.made, s.devices)

LEMMA ServerIsSame ==
  ASSUME BackupInv, NEW d \in Homes
  PROVE  /\ SameStorage(server) /\ SameInbox(d, store[d], server)
         /\ Proper(op[d]) /\ op[d] \in Operation /\ server \in Account
         /\ store[d] \in CryptoStore
BY DEF BackupInv, BackupTyped, KeysAreMade, SameStorage, SameInbox, Account, Fits

LEMMA FitsLater ==
  ASSUME NEW m \in CryptoStore, NEW made \in Nat, NEW more \in Nat, NEW devices \in Nat,
         NEW others \in Nat, Fits(m, made, devices), made <= more, devices <= others
  PROVE  Fits(m, more, others)
<1>1. 0..made \subseteq 0..more
  OBVIOUS
<1>2. QED
  BY <1>1 DEF Fits, CryptoStore

LEMMA QuietChange ==
  ASSUME BackupInv, NEW d \in Homes, NEW s, NEW m, NEW o, SameStorage(s), SameInbox(d, m, s),
         Quiet(o), server' = s, store' = [store EXCEPT ![d] = m], op' = [op EXCEPT ![d] = o],
         left' \in [Kinds -> Nat],
         UNCHANGED <<kept, known, mail, setting>>, overlap => overlap'
  PROVE  BackupInv' /\ KeepsInboxKey
<1>1. /\ server \in Account /\ store \in [Homes -> CryptoStore] /\ op \in [Homes -> Operation]
      /\ \A e \in Homes : Proper(op[e])
  BY DEF BackupInv, BackupTyped
<1>2. o \in Operation /\ s \in Account /\ m \in CryptoStore
  BY DEF Quiet, Proper, SameStorage, SameInbox
<1>3. \A e \in Homes : op'[e] = IF e = d THEN o ELSE op[e]
  BY <1>1
<1>4. \A e \in Homes : store'[e] = IF e = d THEN m ELSE store[e]
  BY <1>1
<1>5. BackupTyped'
  <2>1. store' \in [Homes -> CryptoStore] /\ op' \in [Homes -> Operation]
    BY <1>1, <1>2
  <2>2. \A e \in Homes : Proper(op'[e])
    BY <1>1, <1>3 DEF Quiet
  <2>3. IsFiniteSet(server'.described)
    BY DEF SameStorage, BackupInv, BackupTyped
  <2>4. QED
    BY <1>2, <2>1, <2>2, <2>3 DEF BackupInv, BackupTyped
<1>6. KeysAreMade'
  <2>1. /\ server.made \in Nat /\ s.made \in Nat /\ server.made <= s.made
        /\ server.devices \in Nat /\ s.devices = server.devices
    BY <1>1, <1>2 DEF SameStorage, Account
  <2>2. \A e \in Homes : Fits(store[e], server.made, server.devices)
    BY DEF BackupInv, KeysAreMade
  <2>3. \A e \in Homes : Fits(store[e], s.made, s.devices)
    <3> TAKE e \in Homes
    <3>1. store[e] \in CryptoStore
      BY <1>1
    <3>2. QED
      BY <2>1, <2>2, <3>1, FitsLater
  <2>4. \A e \in Homes : Fits(store'[e], s.made, s.devices)
    BY <1>4, <2>3 DEF SameInbox
  <2>5. \A e \in Homes : mail'[e] \subseteq 0..s.made
    <3>1. 0..server.made \subseteq 0..s.made
      BY <2>1
    <3>2. mail' = mail /\ \A e \in Homes : mail[e] \subseteq 0..server.made
      BY DEF BackupInv, KeysAreMade
    <3>3. QED
      BY <3>1, <3>2
  <2>6. QED
    BY <2>4, <2>5 DEF KeysAreMade, SameStorage
<1>7. \A e \in Homes : store'[e].inbox = store[e].inbox
  BY <1>4 DEF SameInbox
<1>8. KeepsInboxKey
  BY <1>7 DEF KeepsInboxKey
<1>9. /\ server'.secrets = server.secrets /\ server'.default = server.default
      /\ server'.devices >= server.devices
      /\ server'.version = server.version \/ server'.version > server.made
  BY <1>1 DEF SameStorage, Account
<1>10. \A e \in Homes : op'[e] = op[e] \/ Quiet(op'[e])
  BY <1>3
<1>11. \A e \in Homes : op[e].at = "clear" /\ op'[e] = op[e] =>
         store'[e].inbox = store[e].inbox /\ store'[e].key = store[e].key
  BY <1>3, <1>4, <1>7 DEF Quiet
<1>12. BackupInv'
  BY <1>5, <1>6, <1>9, <1>10, <1>11, QuietStep
<1>13. QED
  BY <1>8, <1>12

LEMMA QuietCall ==
  ASSUME BackupInv, NEW d \in Homes, NEW s, NEW m, NEW then, NEW failed, SameStorage(s),
         SameInbox(d, m, s), Quiet(then), Quiet(failed), Call(d, s, m, then, failed),
         ElsewhereSame
  PROVE  BackupInv' /\ KeepsInboxKey
<1>1. left \in [Kinds -> Nat] /\ store \in [Homes -> CryptoStore]
  BY DEF BackupInv, BackupTyped
<1>2. CASE Answered(d, s, m, then)
  BY <1>1, <1>2, QuietChange DEF Answered, ElsewhereSame
<1>3. CASE Fails(d, s, failed)
  <2>1. left' \in [Kinds -> Nat]
    BY <1>3, SpendIsTyped DEF Fails, Kinds
  <2>2. /\ server' = server \/ server' = s
        /\ op' = [op EXCEPT ![d] = failed] /\ store' = [store EXCEPT ![d] = store[d]]
    BY <1>1, <1>3 DEF Fails
  <2>3. SameInbox(d, store[d], s)
    BY ServerIsSame, FitsLater DEF SameInbox, SameStorage, Account
  <2>4. QED
    BY <2>1, <2>2, <2>3, ServerIsSame, QuietChange DEF ElsewhereSame
<1>4. QED
  BY <1>2, <1>3 DEF Call

LEMMA QuietRefusal ==
  ASSUME BackupInv, NEW d \in Homes, NEW failed, Quiet(failed), Refused(d, failed), ElsewhereSame
  PROVE  BackupInv' /\ KeepsInboxKey
<1>1. left \in [Kinds -> Nat] /\ store \in [Homes -> CryptoStore]
  BY DEF BackupInv, BackupTyped
<1>2. /\ server' = server /\ left' = left /\ op' = [op EXCEPT ![d] = failed]
      /\ store' = [store EXCEPT ![d] = store[d]]
  BY <1>1 DEF Refused
<1>3. QED
  BY <1>1, <1>2, ServerIsSame, QuietChange DEF ElsewhereSame

----------------------------------------------------------------------------
\* The keys line and the backup.

LEMMA StepIsFor ==
  ASSUME BackupInv, NEW d \in Homes
  PROVE  /\ op[d].at \in ForTheLine => op[d].why = "open"
         /\ op[d].at \in ForTheBackup => op[d].why \in Background
         /\ op[d].at \in ForTheInbox => op[d].why = "import"
         /\ op[d].at \in ToRestore => op[d].why = "restore"
         /\ op[d].at \in ToCreate => op[d].why = "create"
BY ServerIsSame DEF Proper, Staged

LEMMA StaysQuiet ==
  ASSUME NEW o \in Operation, NEW at \in ForTheLine \cup ForTheBackup \cup ToRestore,
         at \in ForTheLine => o.why = "open",
         at \in ForTheBackup => o.why \in Background,
         at \in ToRestore => o.why = "restore" /\ at # "fetch"
  PROVE  Quiet([o EXCEPT !.at = at])
BY DEF Quiet, Proper, Staged, Operation, Steps, Reasons, Background, ForTheLine,
       ForTheBackup, ForTheInbox, ToCreate, ToRestore

LEMMA QueriedFits ==
  ASSUME BackupInv, NEW d \in Homes
  PROVE  SameInbox(d, Queried(store[d]), server)
BY ServerIsSame DEF Queried, SameInbox, Fits, CryptoStore, Account

LEMMA IdentityQuiet ==
  ASSUME BackupInv, NEW d \in Homes,
         QueryIdentity(d) \/ UploadSigningKeys(d) \/ UploadSignatures(d)
  PROVE  BackupInv' /\ KeepsInboxKey
<1>1. /\ op[d].why = "open" /\ Proper(op[d]) /\ op[d] \in Operation
      /\ \A m : Quiet(AfterIdentity(op[d], m))
  BY ServerIsSame, StepIsFor, AfterIsQuiet
     DEF QueryIdentity, UploadSigningKeys, UploadSignatures, At, ForTheLine
<1>2. \A at \in {"signing", "signatures"} : Quiet([op[d] EXCEPT !.at = at])
  BY <1>1, StaysQuiet DEF ForTheLine, ForTheBackup, ToRestore
<1>3. CASE QueryIdentity(d)
  <2> DEFINE m == Queried(store[d])
             made == [m EXCEPT !.identity = IF @ = 0 THEN m.number ELSE @]
             asked == IF server.identity = 0 THEN made ELSE m
             then == IF server.identity = 0 THEN [op[d] EXCEPT !.at = "signing"]
                     ELSE AfterIdentity(op[d], m)
             failed == AfterIdentity(op[d], store[d])
  <2>1. SameInbox(d, m, server)
    BY QueriedFits
  <2>2. SameInbox(d, asked, server)
    BY <2>1 DEF SameInbox, Fits, CryptoStore
  <2>3. Quiet(then) /\ Quiet(failed)
    BY <1>1, <1>2
  <2>4. Answered(d, server, asked, then) \/ Fails(d, server, failed)
    BY <1>3 DEF QueryIdentity
  <2>5. Call(d, server, asked, then, failed) /\ ElsewhereSame
    BY <1>3, <2>4 DEF QueryIdentity, Call
  <2>6. QED
    BY <2>2, <2>3, <2>5, ServerIsSame, QuietCall
<1>4. CASE UploadSigningKeys(d)
  <2> DEFINE m == store[d]
             s == [server EXCEPT !.identity = m.identity]
             then == [op[d] EXCEPT !.at = "signatures"]
             failed == AfterIdentity(op[d], m)
  <2>1. SameStorage(s) /\ SameInbox(d, m, s)
    BY ServerIsSame DEF SameStorage, SameInbox, Account, CryptoStore, Fits
  <2>2. Quiet(then) /\ Quiet(failed)
    BY <1>1, <1>2
  <2>3. Call(d, s, m, then, failed) \/ Refused(d, failed)
    BY <1>4 DEF UploadSigningKeys
  <2>4. ElsewhereSame
    BY <1>4 DEF UploadSigningKeys
  <2> HIDE DEF s, then, failed
  <2>5. QED
    BY <2>1, <2>2, <2>3, <2>4, QuietCall, QuietRefusal
<1>5. CASE UploadSignatures(d)
  <2> DEFINE m == store[d]
             s == [server EXCEPT !.signed = @ \cup {m.number}]
             then == AfterIdentity(op[d], m)
  <2>1. SameStorage(s) /\ SameInbox(d, m, s)
    BY ServerIsSame DEF SameStorage, SameInbox, Account, CryptoStore, Fits
  <2>2. Quiet(then)
    BY <1>1
  <2>3. Call(d, s, m, then, then) /\ ElsewhereSame
    BY <1>5 DEF UploadSignatures
  <2> HIDE DEF s, then
  <2>4. QED
    BY <2>1, <2>2, <2>3, QuietCall
<1>6. QED
  BY <1>3, <1>4, <1>5

LEMMA EnabledFits ==
  ASSUME NEW s, SameStorage(s), NEW d, NEW m, SameInbox(d, m, s), NEW key \in Nat,
         key <= s.made
  PROVE  SameInbox(d, Enabled(m, key, key), s)
BY DEF Enabled, SameInbox, Fits, CryptoStore

LEMMA BackupQuiet ==
  ASSUME BackupInv, NEW d \in Homes, FindLatest(d) \/ CreateVersion(d) \/ UploadKeys(d)
  PROVE  BackupInv' /\ KeepsInboxKey
<1> DEFINE m == store[d]
<1>1. /\ op[d].why \in Background /\ Proper(op[d]) /\ op[d] \in Operation
      /\ \A n : Quiet(AfterBackup(op[d], n)) /\ Quiet(ToUpload(op[d], n))
      /\ ElsewhereSame
  BY ServerIsSame, StepIsFor, AfterIsQuiet
     DEF FindLatest, CreateVersion, UploadKeys, At, ForTheBackup
<1>2. SameStorage(server) /\ SameInbox(d, m, server)
  BY ServerIsSame
<1>3. CASE FindLatest(d)
  <2> DEFINE lit == Enabled(m, m.key, server.version)
             failed == AfterBackup(op[d], m)
  <2>1. CASE Call(d, server, m, [op[d] EXCEPT !.at = "create"], failed)
    <3>1. Quiet([op[d] EXCEPT !.at = "create"])
      BY <1>1, StaysQuiet DEF ForTheLine, ForTheBackup, ToRestore
    <3>2. QED
      BY <1>1, <1>2, <2>1, <3>1, QuietCall
  <2>2. CASE Opens(m.key) /\ Call(d, server, lit, ToUpload(op[d], lit), failed)
    <3>1. m.key = server.version /\ m.key \in Nat /\ m.key <= server.made
      BY <1>2, <2>2 DEF Opens, SameInbox, CryptoStore, Fits
    <3>2. SameInbox(d, lit, server)
      BY <1>2, <3>1, EnabledFits
    <3>3. QED
      BY <1>1, <1>2, <2>2, <3>2, QuietCall
  <2>3. CASE Call(d, server, Disabled(m), failed, failed)
    <3>1. SameInbox(d, Disabled(m), server)
      BY <1>2 DEF SameInbox, Disabled, CryptoStore, Fits
    <3>2. QED
      BY <1>1, <1>2, <2>3, <3>1, QuietCall
  <2>4. QED
    BY <1>3, <2>1, <2>2, <2>3 DEF FindLatest
<1>4. CASE CreateVersion(d)
  <2> DEFINE version == server.made + 1
             s == [server EXCEPT !.made = version, !.version = version, !.filled = {}]
             lit == Enabled(m, version, version)
  <2>1. version \in Nat /\ server.made \in Nat /\ server.devices \in Nat
    BY <1>2 DEF SameStorage, Account
  <2>2. SameStorage(s) /\ s.made = version /\ s.devices = server.devices
    <3>1. s \in Account
      BY <1>2, <2>1 DEF SameStorage, Account
    <3>2. /\ s.described = server.described /\ s.secrets = server.secrets
          /\ s.default = server.default /\ s.devices = server.devices
          /\ s.made = version /\ s.version = version /\ s.filled = {}
          /\ s.identity = server.identity
      BY <1>2 DEF SameStorage, Account
    <3> HIDE DEF s
    <3>3. QED
      BY <1>2, <2>1, <3>1, <3>2 DEF SameStorage
  <2>3. SameInbox(d, m, s)
    BY <1>2, <2>1, <2>2, FitsLater DEF SameInbox
  <2>4. SameInbox(d, lit, s)
    <3> HIDE DEF s
    <3>1. QED
      BY <2>1, <2>2, <2>3, EnabledFits
  <2>5. Call(d, s, lit, ToUpload(op[d], lit), AfterBackup(op[d], m))
    BY <1>4 DEF CreateVersion
  <2> HIDE DEF s, lit
  <2>6. QED
    BY <1>1, <2>2, <2>4, <2>5, QuietCall
<1>5. CASE UploadKeys(d)
  <2> DEFINE done == [m EXCEPT !.pending = FALSE]
             s == [server EXCEPT !.filled = @ \cup {m.key}]
  <2>1. CASE server.version = m.version
    <3>1. m.key = server.version
      BY <1>2, <2>1 DEF SameInbox, Fits
    <3>2. SameStorage(s)
      BY <1>2, <3>1 DEF SameStorage, Account
    <3>3. SameInbox(d, done, s)
      BY <1>2 DEF SameStorage, SameInbox, Account, CryptoStore, Fits
    <3>4. Call(d, s, done, AfterBackup(op[d], done), AfterBackup(op[d], m))
      BY <1>5, <2>1 DEF UploadKeys
    <3> HIDE DEF s, done
    <3>5. QED
      BY <1>1, <3>2, <3>3, <3>4, QuietCall
  <2>2. CASE server.version # m.version
    BY <1>1, <1>5, <2>2, QuietRefusal DEF UploadKeys
  <2>3. QED
    BY <2>1, <2>2
<1>6. QED
  BY <1>3, <1>4, <1>5

----------------------------------------------------------------------------
\* Restoring from a recovery key.

LEMMA AfterSigningIsQuiet ==
  ASSUME NEW o \in Operation, o.why = "restore"
  PROVE  Quiet(AfterSigning(o)) /\ Quiet([o EXCEPT !.at = "keep"])
<1>1. Quiet([o EXCEPT !.at = "keep"])
  BY DEF Quiet, Proper, Staged, Operation, Steps, Reasons, Background, ForTheLine,
         ForTheBackup, ForTheInbox, ToCreate, ToRestore
<1>2. Quiet([o EXCEPT !.at = "backup"])
  BY StaysQuiet DEF ForTheLine, ForTheBackup, ToRestore
<1>3. QED
  BY <1>1, <1>2, IdleIsQuiet DEF AfterSigning

LEMMA TailKeepsLast ==
  ASSUME NEW S, NEW s \in Seq(S), s # <<>>
  PROVE  /\ Tail(s) \in Seq(S) /\ Head(s) \in S
         /\ Tail(s) # <<>> => Tail(s)[Len(Tail(s))] = s[Len(s)]
         /\ Tail(s) = <<>> => Head(s) = s[Len(s)]
<1> DEFINE t == Tail(s)
           n == Len(s)
           h == Head(s)
<1>1. /\ t \in Seq(S) /\ h \in S /\ h = s[1] /\ n \in Nat \ {0} /\ Len(t) = n - 1
      /\ \A i \in 1..(n - 1) : t[i] = s[i + 1]
  OBVIOUS
<1>empty. \A u \in Seq(S) : u = <<>> <=> Len(u) = 0
  OBVIOUS
<1> HIDE DEF t, n, h
<1>2. t = <<>> <=> Len(t) = 0
  BY <1>1, <1>empty
<1>3. t = <<>> => h = s[n]
  <2>1. ASSUME t = <<>> PROVE n = 1
    BY <1>1, <1>2, <2>1
  <2>2. QED
    BY <1>1, <2>1
<1>4. t # <<>> => t[Len(t)] = s[n]
  <2>1. ASSUME t # <<>>
        PROVE  n - 1 \in 1..(n - 1) /\ (n - 1) + 1 = n
    BY <1>1, <1>2, <2>1
  <2>2. QED
    BY <1>1, <2>1
<1>5. QED
  BY <1>1, <1>3, <1>4 DEF t, n, h

LEMMA FetchedIsQuiet ==
  ASSUME Shapes, BackupInv, NEW d \in Homes, FetchSecret(d)
  PROVE  BackupInv' /\ KeepsInboxKey
<1> DEFINE o == op[d]
           name == Head(o.todo)
           values == {p[2] : p \in {q \in server.secrets[name] : q[1] = o.id}}
           private == name # BackupKey
           value == IF private \/ values = {} THEN 0 ELSE CHOOSE v \in values : TRUE
           got == IF private THEN o.got \cup values ELSE o.got
           more == [o EXCEPT !.todo = Tail(@), !.got = got, !.value = value]
           then == IF private /\ values = {} THEN Idle
                   ELSE IF private THEN more ELSE [more EXCEPT !.at = "import"]
<1>1. /\ o.at = "fetch" /\ o.why = "restore" /\ o \in Operation
      /\ o.todo # <<>> /\ o.todo[Len(o.todo)] = BackupKey /\ o.todo \in Seq(Names)
  BY ServerIsSame DEF FetchSecret, At, Proper, Staged, ToRestore, Operation
<1>2. values \subseteq Nat
  <2>1. name \in Names
    BY <1>1, TailKeepsLast
  <2>2. server.secrets[name] \subseteq Nat \X Nat
    BY <2>1, ServerIsSame DEF Account
  <2>3. QED
    BY <2>2
<1>3. value \in Nat
  BY <1>2
<1>4. got \subseteq Nat \cup (Nat \X Nat)
  BY <1>1, <1>2 DEF Operation
<1>5. Tail(o.todo) \in Seq(Names)
  BY <1>1, TailKeepsLast
<1> HIDE DEF value, got, values
<1>6. more \in Operation /\ more.at = "fetch" /\ more.why = "restore" /\ more.todo = Tail(o.todo)
  BY <1>1, <1>3, <1>4, <1>5 DEF Operation
<1>7. private => more.todo # <<>> /\ more.todo[Len(more.todo)] = BackupKey
  BY <1>1, <1>6, TailKeepsLast
<1> HIDE DEF more
<1>8. private => Quiet(more)
  BY <1>6, <1>7
     DEF Quiet, Proper, Staged, ForTheLine, ForTheBackup, ForTheInbox, ToCreate, ToRestore
<1>9. Quiet([more EXCEPT !.at = "import"])
  BY <1>6, StaysQuiet DEF ForTheLine, ForTheBackup, ToRestore
<1>10. Quiet(then)
  BY <1>8, <1>9, IdleIsQuiet
<1>11. Call(d, server, store[d], then, Idle) /\ ElsewhereSame
  BY DEF FetchSecret, then, more, got, value, values
<1> HIDE DEF then
<1>12. QED
  BY <1>10, <1>11, ServerIsSame, IdleIsQuiet, QuietCall

LEMMA RestoredIsQuiet ==
  ASSUME BackupInv, NEW d \in Homes, ImportSecrets(d) \/ SignDevice(d) \/ RestoreBackup(d)
  PROVE  BackupInv' /\ KeepsInboxKey
<1> DEFINE o == op[d]
<1>1. /\ o.why = "restore" /\ o \in Operation
      /\ Quiet(AfterSigning(o)) /\ Quiet([o EXCEPT !.at = "keep"]) /\ Quiet(Idle)
      /\ ElsewhereSame
  BY ServerIsSame, StepIsFor, AfterSigningIsQuiet, IdleIsQuiet
     DEF ImportSecrets, SignDevice, RestoreBackup, At, ToRestore
<1>2. CASE ImportSecrets(d)
  <2> DEFINE m == Queried(store[d])
             theirs == o.got = {server.identity}
             imported == IF theirs THEN [m EXCEPT !.identity = server.identity] ELSE m
             then == IF ~theirs THEN Idle
                     ELSE IF m.number \in server.signed THEN AfterSigning(o)
                     ELSE [o EXCEPT !.at = "sign"]
  <2>1. SameInbox(d, m, server)
    BY QueriedFits
  <2>2. server.identity \in Nat /\ server.identity <= server.devices
    BY ServerIsSame DEF SameStorage, Account
  <2>3. SameInbox(d, imported, server)
    BY <2>1, <2>2 DEF SameInbox, Fits, CryptoStore
  <2>4. Quiet([o EXCEPT !.at = "sign"])
    BY <1>1, StaysQuiet DEF ForTheLine, ForTheBackup, ToRestore
  <2>5. Quiet(then)
    BY <1>1, <2>4
  <2>6. Call(d, server, imported, then, Idle)
    BY <1>2 DEF ImportSecrets
  <2> HIDE DEF imported, then
  <2>7. QED
    BY <1>1, <2>3, <2>5, <2>6, ServerIsSame, QuietCall
<1>3. CASE SignDevice(d)
  <2> DEFINE s == [server EXCEPT !.signed = @ \cup {store[d].number}]
  <2>1. SameStorage(s) /\ SameInbox(d, store[d], s)
    BY ServerIsSame DEF SameStorage, SameInbox, Account, CryptoStore, Fits
  <2>2. Call(d, s, store[d], AfterSigning(o), Idle)
    BY <1>3 DEF SignDevice
  <2> HIDE DEF s
  <2>3. QED
    BY <1>1, <2>1, <2>2, QuietCall
<1>4. CASE RestoreBackup(d)
  <2> DEFINE m == IF o.value = server.version THEN Enabled(store[d], o.value, o.value)
                  ELSE store[d]
             then == IF o.given THEN [o EXCEPT !.at = "keep"] ELSE Idle
  <2>1. SameInbox(d, m, server)
    <3>1. server.version \in Nat /\ server.version <= server.made
      BY ServerIsSame DEF SameStorage, Account
    <3>2. QED
      BY <3>1, ServerIsSame, EnabledFits
  <2>2. Quiet(then)
    BY <1>1
  <2>3. Call(d, server, m, then, then)
    BY <1>4 DEF RestoreBackup
  <2> HIDE DEF m, then
  <2>4. QED
    BY <1>1, <2>1, <2>2, <2>3, ServerIsSame, QuietCall
<1>5. QED
  BY <1>2, <1>3, <1>4

----------------------------------------------------------------------------
\* What is no call.

LEMMA BeginsQuietly ==
  ASSUME NEW backup \in BOOLEAN, NEW fresh \in BOOLEAN
  PROVE  /\ Quiet([Starts("open", "query") EXCEPT !.backup = backup, !.fresh = fresh])
         /\ Quiet([Starts("upload", "latest") EXCEPT !.backup = backup])
         /\ Proper([Starts("import", "inbox") EXCEPT !.backup = backup, !.fresh = fresh])
<1>1. Idle \in Operation /\ Idle.todo = <<>> /\ Idle.got = {}
  BY IdleIsQuiet DEF Quiet, Proper, Idle
<1>2. \A why \in Background, at \in {"query", "latest", "inbox"} :
        LET o == [Starts(why, at) EXCEPT !.backup = backup, !.fresh = fresh]
            p == [Starts(why, at) EXCEPT !.backup = backup]
        IN /\ o \in Operation /\ o.at = at /\ o.why = why
           /\ p \in Operation /\ p.at = at /\ p.why = why
  <2> TAKE why \in Background, at \in {"query", "latest", "inbox"}
  <2>1. why \in Reasons /\ at \in Steps
    BY DEF Reasons, Steps, ForTheLine, ForTheBackup, ForTheInbox
  <2>2. Starts(why, at) \in Operation /\ Starts(why, at).at = at /\ Starts(why, at).why = why
    BY <1>1, <2>1 DEF Starts, Operation
  <2>3. QED
    BY <2>2 DEF Operation
<1>3. \A o \in Operation :
        /\ o.at = "query" /\ o.why = "open" => Quiet(o)
        /\ o.at = "latest" /\ o.why = "upload" => Quiet(o)
        /\ o.at = "inbox" /\ o.why = "import" => Quiet(o)
  BY DEF Quiet, Proper, Staged, Background, ForTheLine, ForTheBackup, ForTheInbox, ToCreate,
         ToRestore
<1>4. QED
  BY <1>2, <1>3 DEF Background, Quiet

LEMMA RestoreBegins ==
  ASSUME Shapes, NEW id \in Nat, NEW given \in BOOLEAN
  PROVE  Quiet([Starts("restore", "fetch") EXCEPT !.id = id, !.given = given,
                                                  !.todo = SecretNames])
<1>1. SecretNames \in Seq(Names) /\ SecretNames # <<>> /\ SecretNames[Len(SecretNames)] = BackupKey
  BY NamesAre
<1>2. QED
  BY <1>1
     DEF Starts, Idle, Quiet, Proper, Staged, Operation, Steps, Reasons, Background, ForTheLine,
         ForTheBackup, ForTheInbox, ToCreate, ToRestore

LEMMA CallsBegin ==
  ASSUME Shapes, BackupInv, NEW d \in Homes,
         Upload(d) \/ AfterBatch(d) \/ LineDies(d) \/ Crash(d)
           \/ \E given \in BOOLEAN : Restore(d, given)
  PROVE  BackupInv' /\ KeepsInboxKey
<1>1. /\ setting[d] \in BOOLEAN /\ left \in [Kinds -> Nat] /\ store \in [Homes -> CryptoStore]
      /\ kept[d] \in Nat /\ known \subseteq Nat
  BY DEF BackupInv, BackupTyped
<1>2. ASSUME NEW o, Quiet(o), op' = [op EXCEPT ![d] = o], left' \in [Kinds -> Nat],
             UNCHANGED <<server, store, kept, known, mail, setting, overlap>>
      PROVE  BackupInv' /\ KeepsInboxKey
  <2>1. server' = server /\ store' = [store EXCEPT ![d] = store[d]]
    BY <1>1, <1>2
  <2>2. QED
    BY <1>2, <2>1, ServerIsSame, QuietChange
<1>3. CASE Upload(d)
  <2> DEFINE o == [Starts("upload", "latest") EXCEPT !.backup = TRUE]
  <2>1. Quiet(o)
    BY BeginsQuietly
  <2>2. left' \in [Kinds -> Nat]
    BY <1>3, SpendIsTyped DEF Upload, Kinds
  <2>3. op' = [op EXCEPT ![d] = o]
    BY <1>3 DEF Upload
  <2>4. UNCHANGED <<server, store, kept, known, mail, setting, overlap>>
    BY <1>3 DEF Upload, ElsewhereSame
  <2> HIDE DEF o
  <2>5. QED
    BY <1>2, <2>1, <2>2, <2>3, <2>4
<1>4. CASE AfterBatch(d)
  <2> DEFINE o == [Starts("import", "inbox") EXCEPT !.backup = setting[d],
                                                    !.fresh = batch[d] = "new"]
             then == IF line[d] THEN AfterImport(o, store[d]) ELSE Idle
  <2>1. Quiet(then)
    BY <1>1, BeginsQuietly, AfterIsQuiet, IdleIsQuiet
  <2>2. op' = [op EXCEPT ![d] = then]
    BY <1>4 DEF AfterBatch
  <2>3. UNCHANGED <<server, store, kept, known, mail, setting, overlap, left>>
    BY <1>4 DEF AfterBatch
  <2> HIDE DEF then
  <2>4. QED
    BY <1>1, <1>2, <2>1, <2>2, <2>3
<1>5. CASE LineDies(d)
  <2>1. left' \in [Kinds -> Nat]
    BY <1>5, SpendIsTyped DEF LineDies, Kinds
  <2>2. QED
    BY <1>2, <1>5, <2>1, IdleIsQuiet DEF LineDies
<1>6. CASE Crash(d)
  <2> DEFINE m == [store[d] EXCEPT !.on = store[d].key # 0]
  <2>1. left' \in [Kinds -> Nat]
    BY <1>6, SpendIsTyped DEF Crash, Kinds
  <2>2. SameInbox(d, m, server)
    BY ServerIsSame DEF SameInbox, CryptoStore, Fits
  <2>3. server' = server /\ store' = [store EXCEPT ![d] = m] /\ op' = [op EXCEPT ![d] = Idle]
    BY <1>1, <1>6 DEF Crash
  <2>4. UNCHANGED <<kept, known, mail, setting, overlap>>
    BY <1>6 DEF Crash
  <2> HIDE DEF m
  <2>5. QED
    BY <2>1, <2>2, <2>3, <2>4, ServerIsSame, IdleIsQuiet, QuietChange
<1>7. ASSUME NEW given \in BOOLEAN, Restore(d, given) PROVE BackupInv' /\ KeepsInboxKey
  <2>1. left' \in [Kinds -> Nat]
    BY <1>7, SpendIsTyped DEF Restore, Kinds
  <2>2. PICK id \in IF given THEN known ELSE {kept[d]} \ {0} :
          op' = [op EXCEPT ![d] =
                   IF server.default = id
                   THEN [Starts("restore", "fetch") EXCEPT !.id = id, !.given = given,
                                                           !.todo = SecretNames]
                   ELSE Idle]
    BY <1>7 DEF Restore
  <2>3. id \in Nat
    BY <1>1
  <2>4. \E o : Quiet(o) /\ op' = [op EXCEPT ![d] = o]
    BY <2>2, <2>3, RestoreBegins, IdleIsQuiet
  <2>5. UNCHANGED <<server, store, kept, known, mail, setting, overlap>>
    BY <1>7 DEF Restore, ElsewhereSame
  <2>6. QED
    BY <1>2, <2>1, <2>4, <2>5
<1>8. QED
  BY <1>3, <1>4, <1>5, <1>6, <1>7

\* What waited for a device comes into its inbox, when nothing of it is being cleared.
LEMMA MailArrives ==
  ASSUME Shapes, BackupInv, NEW d \in Homes, NEW fresh \in BOOLEAN,
         OpenLine(d, fresh) \/ Receive(d, fresh)
  PROVE  BackupInv' /\ KeepsInboxKey
<1> DEFINE m == [store[d] EXCEPT !.inbox = @ \cup mail[d], !.pending = @ \/ fresh]
<1>1. /\ store \in [Homes -> CryptoStore] /\ op \in [Homes -> Operation]
      /\ mail \in [Homes -> SUBSET Nat] /\ setting \in [Homes -> BOOLEAN]
      /\ left \in [Kinds -> Nat] /\ \A e \in Homes : Proper(op[e])
  BY DEF BackupInv, BackupTyped
<1>2. /\ store' = [store EXCEPT ![d] = m] /\ mail' = [mail EXCEPT ![d] = {}]
      /\ UNCHANGED <<server, kept, known, setting, overlap>>
  BY <1>1 DEF OpenLine, Receive
<1>3. m \in CryptoStore /\ m.inbox = store[d].inbox \cup mail[d] /\ m.key = store[d].key
  <2>1. store[d] \in CryptoStore /\ mail[d] \subseteq Nat
    BY <1>1
  <2>2. (store[d].pending \/ fresh) \in BOOLEAN
    OBVIOUS
  <2>3. QED
    BY <2>1, <2>2 DEF CryptoStore
<1>4. Fits(m, server.made, server.devices)
  <2>1. Fits(store[d], server.made, server.devices) /\ mail[d] \subseteq 0..server.made
    BY DEF BackupInv, KeysAreMade
  <2>2. m.version = store[d].version /\ m.number = store[d].number /\ m.identity = store[d].identity
    BY <1>1 DEF CryptoStore
  <2>3. QED
    BY <1>3, <2>1, <2>2 DEF Fits
<1>5. /\ op[d].at # "clear" /\ left' \in [Kinds -> Nat]
      /\ \E o : (Quiet(o) /\ op' = [op EXCEPT ![d] = o]) \/ op' = op
  <2>1. CASE OpenLine(d, fresh)
    <3> DEFINE o == [Starts("open", "query") EXCEPT !.backup = setting[d], !.fresh = fresh]
    <3>1. Quiet(o)
      BY <1>1, BeginsQuietly
    <3>2. left' \in [Kinds -> Nat]
      BY <2>1, SpendIsTyped DEF OpenLine, Kinds
    <3>3. op' = [op EXCEPT ![d] = o] /\ op[d].at = "idle"
      BY <2>1 DEF OpenLine, Idle
    <3> HIDE DEF o
    <3>4. QED
      BY <3>1, <3>2, <3>3
  <2>2. CASE Receive(d, fresh)
    <3>1. left' \in [Kinds -> Nat]
      BY <1>1, <2>2, SpendIsTyped DEF Receive, Kinds
    <3>2. op' = op /\ op[d].at # "clear"
      BY <2>2, StepIsFor DEF Receive, ForTheInbox
    <3>3. QED
      BY <3>1, <3>2
  <2>3. QED
    BY <2>1, <2>2
<1> HIDE DEF m
<1>6. \A e \in Homes : store'[e] = IF e = d THEN m ELSE store[e]
  BY <1>1, <1>2
<1>7. BackupTyped'
  <2>1. store' \in [Homes -> CryptoStore] /\ mail' \in [Homes -> SUBSET Nat]
    BY <1>1, <1>2, <1>3
  <2>2. op' \in [Homes -> Operation] /\ \A e \in Homes : Proper(op'[e])
    BY <1>1, <1>5 DEF Quiet, Proper
  <2>3. QED
    BY <1>2, <1>5, <2>1, <2>2 DEF BackupInv, BackupTyped
<1>8. KeysAreMade'
  <2>1. \A e \in Homes : Fits(store'[e], server'.made, server'.devices)
    BY <1>2, <1>4, <1>6 DEF BackupInv, KeysAreMade
  <2>2. \A e \in Homes : mail'[e] \subseteq 0..server'.made
    BY <1>1, <1>2 DEF BackupInv, KeysAreMade
  <2>3. QED
    BY <1>2, <2>1, <2>2 DEF BackupInv, KeysAreMade
<1>9. \A e \in Homes : op'[e] = op[e] \/ Quiet(op'[e])
  BY <1>1, <1>5
<1>10. server.devices \in Nat
  BY ServerIsSame DEF Account
<1>11. BackupInv'
  BY <1>2, <1>5, <1>6, <1>7, <1>8, <1>9, <1>10, QuietStep
<1>12. KeepsInboxKey
  BY <1>3, <1>6 DEF KeepsInboxKey
<1>13. QED
  BY <1>11, <1>12

\* Neither an inbox nor what the server keeps is touched.
LEMMA ReplacedIsQuiet ==
  ASSUME BackupInv, ReplaceVersion
  PROVE  BackupInv' /\ KeepsInboxKey
<1>1. /\ store \in [Homes -> CryptoStore] /\ op \in [Homes -> Operation] /\ server \in Account
      /\ mail \in [Homes -> SUBSET Nat] /\ setting \in [Homes -> BOOLEAN]
      /\ kept \in [Homes -> Nat] /\ known \subseteq Nat /\ IsFiniteSet(server.described)
      /\ left \in [Kinds -> Nat] /\ \A e \in Homes : Proper(op[e]) /\ op[e] \in Operation
  BY DEF BackupInv, BackupTyped
<1>2. /\ server.version <= server.made /\ server.identity <= server.devices
      /\ server.filled \subseteq {server.version}
      /\ \A e \in Homes : Fits(store[e], server.made, server.devices)
      /\ \A e \in Homes : mail[e] \subseteq 0..server.made
      /\ server.made \in Nat /\ server.devices \in Nat
  BY <1>1 DEF BackupInv, KeysAreMade, Account
<1>3. /\ server' = [server EXCEPT !.made = @ + 1, !.version = server.made + 1, !.filled = {}]
      /\ UNCHANGED <<store, kept, known, mail, setting, op, overlap>>
  BY DEF ReplaceVersion
<1>4. left' \in [Kinds -> Nat]
  BY SpendIsTyped DEF ReplaceVersion, Kinds
<1>5. /\ server' \in Account /\ server'.devices = server.devices
      /\ server'.made = server.made + 1 /\ server'.version = server.made + 1
      /\ server'.filled = {} /\ server'.identity = server.identity
      /\ server'.secrets = server.secrets /\ server'.default = server.default
      /\ server'.described = server.described
  <2> DEFINE version == server.made + 1
  <2>1. server' = [server EXCEPT !.made = version, !.version = version, !.filled = {}]
    BY <1>3
  <2>2. version \in Nat
    BY <1>2
  <2> HIDE DEF version
  <2>3. server' \in Account
    BY <1>1, <2>1, <2>2 DEF Account
  <2>4. QED
    BY <1>1, <2>1, <2>3 DEF Account, version
<1>6. BackupTyped'
  BY <1>1, <1>3, <1>4, <1>5 DEF BackupTyped
<1>7. KeysAreMade'
  <2>1. 0..server.made \subseteq 0..server'.made
    BY <1>2, <1>5
  <2>2. \A e \in Homes : Fits(store[e], server'.made, server'.devices)
    <3> TAKE e \in Homes
    <3>1. store[e] \in CryptoStore /\ Fits(store[e], server.made, server.devices)
      BY <1>1, <1>2
    <3>2. server'.made \in Nat /\ server.made <= server'.made
      BY <1>2, <1>5
    <3>3. QED
      BY <1>2, <1>5, <3>1, <3>2, FitsLater
  <2>3. QED
    BY <1>2, <1>3, <1>5, <2>1, <2>2 DEF KeysAreMade
<1>8. BackupInv'
  BY <1>2, <1>3, <1>5, <1>6, <1>7, QuietStep
<1>9. QED
  BY <1>3, <1>8 DEF KeepsInboxKey

LEMMA OthersAreQuiet ==
  ASSUME Shapes, BackupInv, NEW d \in Homes,
         \/ KeepRecoveryKey(d) \/ SwitchBackup(d) \/ Login(d) \/ Leave(d)
         \/ \E e \in Homes : Verify(e, d)
  PROVE  BackupInv' /\ KeepsInboxKey
<1>1. /\ store \in [Homes -> CryptoStore] /\ op \in [Homes -> Operation] /\ server \in Account
      /\ mail \in [Homes -> SUBSET Nat] /\ setting \in [Homes -> BOOLEAN]
      /\ kept \in [Homes -> Nat] /\ known \subseteq Nat /\ IsFiniteSet(server.described)
      /\ left \in [Kinds -> Nat] /\ \A e \in Homes : Proper(op[e]) /\ op[e] \in Operation
  BY DEF BackupInv, BackupTyped
<1>2. /\ server.version <= server.made /\ server.identity <= server.devices
      /\ server.filled \subseteq {server.version}
      /\ \A e \in Homes : Fits(store[e], server.made, server.devices)
      /\ \A e \in Homes : mail[e] \subseteq 0..server.made
      /\ server.made \in Nat /\ server.devices \in Nat
  BY <1>1 DEF BackupInv, KeysAreMade, Account
<1>3. CASE KeepRecoveryKey(d)
  <2>1. BackupTyped'
    BY <1>1, <1>3, IdleIsQuiet DEF KeepRecoveryKey, BackupTyped, Quiet, Proper, Operation
  <2>2. KeysAreMade'
    BY <1>2, <1>3 DEF KeepRecoveryKey, KeysAreMade
  <2>3. \A e \in Homes : op'[e] = op[e] \/ Quiet(op'[e])
    BY <1>1, <1>3, IdleIsQuiet DEF KeepRecoveryKey
  <2>4. UNCHANGED <<server, store, overlap>>
    BY <1>3 DEF KeepRecoveryKey
  <2>5. BackupInv'
    BY <1>2, <2>1, <2>2, <2>3, <2>4, QuietStep
  <2>6. QED
    BY <2>4, <2>5 DEF KeepsInboxKey
<1>4. CASE SwitchBackup(d)
  <2>1. BackupTyped'
    <3>1. left' \in [Kinds -> Nat]
      BY <1>4, SpendIsTyped DEF SwitchBackup, Kinds
    <3>2. QED
      BY <1>1, <1>4, <3>1 DEF SwitchBackup, BackupTyped
  <2>2. KeysAreMade'
    BY <1>2, <1>4 DEF SwitchBackup, KeysAreMade
  <2>3. UNCHANGED <<server, store, op, overlap>>
    BY <1>4 DEF SwitchBackup
  <2>4. BackupInv'
    BY <1>2, <2>1, <2>2, <2>3, QuietStep
  <2>5. QED
    BY <2>3, <2>4 DEF KeepsInboxKey
<1>5. CASE Login(d)
  <2>1. /\ server' = [server EXCEPT !.devices = @ + 1]
        /\ store' = [store EXCEPT ![d].number = server.devices + 1]
        /\ UNCHANGED <<kept, known, mail, setting, op, overlap>>
    BY <1>5 DEF Login
  <2>2. left' \in [Kinds -> Nat]
    BY <1>5, SpendIsTyped DEF Login, Kinds
  <2>3. /\ server' \in Account /\ server'.devices = server.devices + 1
        /\ server'.made = server.made /\ server'.version = server.version
        /\ server'.filled = server.filled /\ server'.identity = server.identity
        /\ server'.secrets = server.secrets /\ server'.default = server.default
        /\ server'.described = server.described
    BY <1>1, <1>2, <2>1 DEF Account
  <2>4. /\ store' \in [Homes -> CryptoStore]
        /\ \A e \in Homes : /\ store'[e].inbox = store[e].inbox /\ store'[e].key = store[e].key
                            /\ store'[e].version = store[e].version
                            /\ store'[e].identity = store[e].identity
                            /\ store'[e].number \in {store[e].number, server.devices + 1}
    <3>1. server.devices + 1 \in Nat
      BY <1>1 DEF Account
    <3>2. [store[d] EXCEPT !.number = server.devices + 1] \in CryptoStore
      BY <1>1, <3>1 DEF CryptoStore
    <3>3. store' \in [Homes -> CryptoStore]
      BY <1>1, <2>1, <3>2
    <3>4. QED
      BY <1>1, <2>1, <3>3 DEF CryptoStore
  <2>5. BackupTyped'
    BY <1>1, <2>1, <2>2, <2>3, <2>4 DEF BackupTyped
  <2>6. KeysAreMade'
    BY <1>1, <1>2, <2>1, <2>3, <2>4 DEF KeysAreMade, Fits, CryptoStore, Account
  <2>7. BackupInv'
    BY <1>2, <2>1, <2>3, <2>4, <2>5, <2>6, QuietStep
  <2>8. QED
    BY <2>3, <2>4, <2>7 DEF KeepsInboxKey
<1>6. CASE Leave(d)
  <2>1. /\ UNCHANGED <<server, kept, known, setting, op, overlap>> /\ op[d] = Idle
        /\ store' = [store EXCEPT ![d] = NoStore] /\ mail' = [mail EXCEPT ![d] = {}]
    BY <1>6 DEF Leave
  <2>2. left' \in [Kinds -> Nat]
    BY <1>6, SpendIsTyped DEF Leave, Kinds
  <2>3. NoStore \in CryptoStore /\ Fits(NoStore, server.made, server.devices) /\ NoStore.number = 0
    BY <1>2 DEF NoStore, CryptoStore, Fits
  <2>4. BackupTyped'
    BY <1>1, <2>1, <2>2, <2>3 DEF BackupTyped
  <2>5. KeysAreMade'
    BY <1>1, <1>2, <2>1, <2>3 DEF KeysAreMade
  <2>6. \A e \in Homes : e # d => store'[e] = store[e]
    BY <1>1, <2>1
  <2>7. op[d].at # "clear" /\ store'[d].number = 0
    BY <1>1, <2>1, <2>3 DEF Idle
  <2>8. BackupInv'
    BY <1>2, <2>1, <2>4, <2>5, <2>6, <2>7, QuietStep
  <2>9. QED
    BY <2>1, <2>6, <2>7, <2>8 DEF KeepsInboxKey
<1>7. ASSUME NEW e \in Homes, Verify(e, d) PROVE BackupInv' /\ KeepsInboxKey
  <2>1. /\ server' = [server EXCEPT !.signed = @ \cup {store[d].number}]
        /\ store' = [store EXCEPT ![d].identity = server.identity]
        /\ mail' = [mail EXCEPT ![d] = @ \cup ({store[e].key} \ {0})]
        /\ UNCHANGED <<kept, known, setting, op, overlap>>
    BY <1>7 DEF Verify
  <2>2. left' \in [Kinds -> Nat]
    BY <1>7, SpendIsTyped DEF Verify, Kinds
  <2>3. /\ server' \in Account /\ server'.devices = server.devices
        /\ server'.made = server.made /\ server'.version = server.version
        /\ server'.filled = server.filled /\ server'.identity = server.identity
        /\ server'.secrets = server.secrets /\ server'.default = server.default
        /\ server'.described = server.described
    <3>1. store[d].number \in Nat
      BY <1>1 DEF CryptoStore
    <3>2. QED
      BY <1>1, <2>1, <3>1 DEF Account
  <2>4. /\ store' \in [Homes -> CryptoStore]
        /\ \A f \in Homes : /\ store'[f].inbox = store[f].inbox /\ store'[f].key = store[f].key
                            /\ store'[f].version = store[f].version
                            /\ store'[f].number = store[f].number
                            /\ store'[f].identity \in {store[f].identity, server.identity}
    <3>1. server.identity \in Nat
      BY <1>1 DEF Account
    <3>2. [store[d] EXCEPT !.identity = server.identity] \in CryptoStore
      BY <1>1, <3>1 DEF CryptoStore
    <3>3. store' \in [Homes -> CryptoStore]
      BY <1>1, <2>1, <3>2
    <3>4. QED
      BY <1>1, <2>1, <3>3 DEF CryptoStore
  <2>5. store[e].key \in 0..server.made
    BY <1>1, <1>2 DEF CryptoStore, Fits
  <2>6. /\ mail' \in [Homes -> SUBSET Nat]
        /\ \A f \in Homes : mail'[f] \subseteq 0..server.made
    BY <1>1, <1>2, <2>1, <2>5
  <2>7. BackupTyped'
    BY <1>1, <2>1, <2>2, <2>3, <2>4, <2>6 DEF BackupTyped
  <2>8. KeysAreMade'
    <3>1. \A f \in Homes : Fits(store'[f], server.made, server.devices)
      <4> TAKE f \in Homes
      <4>1. Fits(store[f], server.made, server.devices)
        BY <1>2
      <4>2. store'[f].identity <= server.devices
        BY <1>2, <2>4, <4>1 DEF Fits
      <4>3. QED
        BY <2>4, <4>1, <4>2 DEF Fits
    <3>2. QED
      BY <1>2, <2>3, <2>6, <3>1 DEF KeysAreMade
  <2>9. BackupInv'
    BY <1>2, <2>1, <2>3, <2>4, <2>7, <2>8, QuietStep
  <2>10. QED
    BY <2>3, <2>4, <2>9 DEF KeepsInboxKey
<1>8. QED
  BY <1>3, <1>4, <1>5, <1>6, <1>7

----------------------------------------------------------------------------
\* The inbox: the key is saved, and then it is cleared.

LEMMA AdoptedIsSaved ==
  ASSUME BackupInv, NEW d \in Homes, AdoptFromInbox(d)
  PROVE  BackupInv' /\ KeepsInboxKey
<1> DEFINE o == op[d]
           m == store[d]
           found == IF server.version \in m.inbox
                      THEN Enabled(m, server.version, server.version) ELSE m
           then == IF server.version = 0 THEN AfterInbox(o, m) ELSE [o EXCEPT !.at = "clear"]
           over == AfterInbox(o, m)
<1>1. o.why = "import" /\ o \in Operation /\ Proper(o) /\ Quiet(over) /\ ElsewhereSame
  BY ServerIsSame, StepIsFor, AfterIsQuiet DEF AdoptFromInbox, At, ForTheInbox, Background
<1>2. SameInbox(d, found, server)
  <2>1. server.version \in Nat /\ server.version <= server.made
    BY ServerIsSame DEF SameStorage, Account
  <2>2. QED
    BY <2>1, ServerIsSame, EnabledFits
<1>3. Call(d, server, found, then, over)
  BY DEF AdoptFromInbox
<1>4. CASE Call(d, server, found, over, over)
  BY <1>1, <1>2, <1>4, ServerIsSame, QuietCall
<1>5. CASE Answered(d, server, found, [o EXCEPT !.at = "clear"])
  <2> DEFINE c == [o EXCEPT !.at = "clear"]
  <2>1. Proper(c) /\ c.at = "clear" /\ c.why = "import" /\ c \in Operation
    BY <1>1 DEF Proper, Staged, Operation, Steps, ForTheLine, ForTheBackup, ForTheInbox, ToCreate,
                ToRestore
  <2>2. found.inbox = m.inbox /\ (server.version \in m.inbox => found.key = server.version)
    BY <1>2, ServerIsSame DEF Enabled, SameInbox, CryptoStore
  <2>3. /\ op' = [op EXCEPT ![d] = c] /\ store' = [store EXCEPT ![d] = found]
        /\ server' = server /\ UNCHANGED <<kept, known, mail, setting, overlap, left>>
    BY <1>1, <1>5 DEF Answered, ElsewhereSame
  <2> HIDE DEF c, found
  <2>4. /\ store \in [Homes -> CryptoStore] /\ op \in [Homes -> Operation]
        /\ \A e \in Homes : Proper(op[e])
    BY DEF BackupInv, BackupTyped
  <2>5. /\ \A e \in Homes : op'[e] = IF e = d THEN c ELSE op[e]
        /\ \A e \in Homes : store'[e] = IF e = d THEN found ELSE store[e]
    BY <2>3, <2>4
  <2>6. BackupTyped'
    BY <1>2, <2>1, <2>3, <2>4, <2>5 DEF BackupInv, BackupTyped, SameInbox
  <2>7. KeysAreMade'
    BY <1>2, <2>3, <2>5 DEF BackupInv, KeysAreMade, SameInbox
  <2>8. SavedFirst'
    BY <2>2, <2>3, <2>5 DEF BackupInv, SavedFirst
  <2>9. OneCreates'
    <3>1. \A e \in Homes : op'[e].why = "create" => op'[e] = op[e]
      BY <2>1, <2>5
    <3>2. \A e \in Homes : op'[e].at \in ToCreate => op'[e] = op[e]
      BY <2>1, <2>5 DEF ToCreate
    <3>3. Creating' \subseteq Creating
      BY <3>1 DEF Creating
    <3>4. \A e \in Homes : op'[e].at \in {"get", "set", "default"} => op'[e] = op[e]
      BY <3>2 DEF ToCreate
    <3> SUFFICES ASSUME ~overlap PROVE OneCreates'
      BY <2>3 DEF OneCreates
    <3>5. QED
      BY <2>3, <3>1, <3>2, <3>3, <3>4 DEF BackupInv, OneCreates, Creating
  <2>10. KeepsInboxKey
    BY <2>2, <2>3, <2>5 DEF KeepsInboxKey
  <2>11. QED
    BY <2>6, <2>7, <2>8, <2>9, <2>10 DEF BackupInv
<1>6. QED
  BY <1>3, <1>4, <1>5 DEF Call

LEMMA ClearedIsSaved ==
  ASSUME BackupInv, NEW d \in Homes, ClearInbox(d)
  PROVE  BackupInv' /\ KeepsInboxKey
<1> DEFINE m == [store[d] EXCEPT !.inbox = {}]
           then == AfterInbox(op[d], m)
<1>1. /\ op[d].at = "clear" /\ server' = server /\ store' = [store EXCEPT ![d] = m]
      /\ op' = [op EXCEPT ![d] = then]
      /\ UNCHANGED <<kept, known, mail, setting, overlap, left>>
  BY DEF ClearInbox, At, ElsewhereSame
<1>2. Quiet(then)
  BY <1>1, ServerIsSame, StepIsFor, AfterIsQuiet DEF ForTheInbox, Background
<1>3. /\ m \in CryptoStore /\ m.inbox = {} /\ m.key = store[d].key
      /\ Fits(m, server.made, server.devices)
  BY ServerIsSame DEF SameInbox, CryptoStore, Fits
<1> HIDE DEF m, then
<1>4. /\ store \in [Homes -> CryptoStore] /\ op \in [Homes -> Operation]
      /\ \A e \in Homes : Proper(op[e])
  BY DEF BackupInv, BackupTyped
<1>5. /\ \A e \in Homes : op'[e] = IF e = d THEN then ELSE op[e]
      /\ \A e \in Homes : store'[e] = IF e = d THEN m ELSE store[e]
  BY <1>1, <1>4
<1>6. BackupTyped'
  BY <1>1, <1>2, <1>3, <1>4, <1>5 DEF BackupInv, BackupTyped, Quiet, Proper
<1>7. KeysAreMade'
  BY <1>1, <1>3, <1>5 DEF BackupInv, KeysAreMade
<1>8. server.devices \in Nat
  BY ServerIsSame DEF Account
<1>9. BackupInv'
  BY <1>1, <1>2, <1>5, <1>6, <1>7, <1>8, QuietStep DEF Quiet
<1>10. KeepsInboxKey
  BY <1>1, <1>3, <1>5 DEF KeepsInboxKey, BackupInv, SavedFirst
<1>11. QED
  BY <1>9, <1>10

----------------------------------------------------------------------------
\* Making a recovery key.

SameButStorage(s) ==
  /\ s \in Account /\ IsFiniteSet(s.described)
  /\ s.made = server.made /\ s.version = server.version /\ s.filled = server.filled
  /\ s.identity = server.identity /\ s.devices = server.devices

\* A default key has the private keys of one identity.
DefaultOpens(s) ==
  s.default # 0 =>
    \E i \in 1..s.devices : \A n \in Range(Private) : <<s.default, i>> \in s.secrets[n]

\* What is written next adds to what is there.
WritesOn(o, s) ==
  /\ o.at = "set" => o.got = s.secrets[Head(o.todo)]
  /\ o.at \in {"get", "set", "default"} =>
       \A n \in Range(Private) : n \in Range(o.todo) \/ <<o.id, o.value>> \in s.secrets[n]
  /\ s.default # 0 => o.at \notin ToCreate

LEMMA LoneCreator ==
  ASSUME BackupInv, ~overlap, NEW d \in Homes, op[d].at \in ToCreate
  PROVE  /\ server.default = 0 /\ op[d].value \in 1..server.devices
         /\ WritesOn(op[d], server)
         /\ \A e \in Homes : e # d => op[e].why # "create" /\ op[e].at \notin ToCreate
<1>1. op[d].why = "create"
  BY StepIsFor
<1>2. d \in Creating
  BY <1>1 DEF Creating
<1>3. \A e \in Homes : e # d => op[e].why # "create"
  BY <1>2 DEF BackupInv, OneCreates, Creating
<1>4. \A e \in Homes : op[e].at \in ToCreate => op[e].why = "create"
  BY StepIsFor
<1>5. server.default = 0
  BY DEF BackupInv, OneCreates
<1>6. op[d].value \in 1..server.devices
  BY <1>2 DEF BackupInv, OneCreates
<1>7. WritesOn(op[d], server)
  BY <1>5 DEF BackupInv, OneCreates, WritesOn
<1>8. QED
  BY <1>3, <1>4, <1>5, <1>6, <1>7

LEMMA CreatorCall ==
  ASSUME BackupInv, NEW d \in Homes, op[d].at \in ToCreate, NEW s, NEW then,
         Call(d, s, store[d], then, Idle), ElsewhereSame, SameButStorage(s),
         Proper(then), then.why = "create", then.value = op[d].value,
         ~overlap => DefaultOpens(s) /\ WritesOn(then, s)
  PROVE  BackupInv' /\ KeepsInboxKey
<1>1. /\ store \in [Homes -> CryptoStore] /\ op \in [Homes -> Operation] /\ server \in Account
      /\ left \in [Kinds -> Nat] /\ \A e \in Homes : Proper(op[e])
  BY DEF BackupInv, BackupTyped
<1>2. /\ store' = store /\ left' \in [Kinds -> Nat]
      /\ UNCHANGED <<kept, known, mail, setting, overlap>>
      /\ \/ server' = s /\ op' = [op EXCEPT ![d] = then]
         \/ server' \in {server, s} /\ op' = [op EXCEPT ![d] = Idle]
  <2>1. CASE Answered(d, s, store[d], then)
    BY <1>1, <2>1 DEF Answered, ElsewhereSame
  <2>2. CASE Fails(d, s, Idle)
    <3>1. left' \in [Kinds -> Nat]
      BY <2>2, SpendIsTyped DEF Fails, Kinds
    <3>2. QED
      BY <2>2, <3>1 DEF Fails, ElsewhereSame
  <2>3. QED
    BY <2>1, <2>2 DEF Call
<1>3. SameButStorage(server)
  BY <1>1 DEF SameButStorage, BackupInv, BackupTyped
<1>4. SameButStorage(server') /\ Proper(op'[d]) /\ op'[d].at # "clear"
  <2>1. CASE server' = s /\ op' = [op EXCEPT ![d] = then]
    <3>1. op'[d] = then
      BY <1>1, <2>1
    <3>2. QED
      BY <2>1, <3>1 DEF Proper, Staged, SameButStorage, ForTheInbox
  <2>2. CASE server' \in {server, s} /\ op' = [op EXCEPT ![d] = Idle]
    <3>1. op'[d] = Idle /\ Idle.at # "clear"
      BY <1>1, <2>2 DEF Idle
    <3>2. server' = server \/ server' = s
      BY <2>2
    <3>3. QED
      BY <1>3, <3>1, <3>2, IdleIsQuiet DEF Quiet, SameButStorage
  <2>3. QED
    BY <1>2, <2>1, <2>2
<1>5. \A e \in Homes : e # d => op'[e] = op[e]
  BY <1>1, <1>2
<1>6. BackupTyped'
  <2>1. op' \in [Homes -> Operation]
    BY <1>1, <1>2, IdleIsQuiet DEF Quiet, Proper
  <2>2. \A e \in Homes : Proper(op'[e])
    BY <1>1, <1>4, <1>5
  <2>3. QED
    BY <1>2, <1>4, <2>1, <2>2 DEF SameButStorage, BackupInv, BackupTyped
<1>7. KeysAreMade'
  BY <1>2, <1>4 DEF SameButStorage, BackupInv, KeysAreMade
<1>8. SavedFirst'
  BY <1>2, <1>4, <1>5 DEF SameButStorage, BackupInv, SavedFirst
<1>9. KeepsInboxKey
  BY <1>2 DEF KeepsInboxKey
<1>10. OneCreates'
  <2> SUFFICES ASSUME ~overlap PROVE OneCreates'
    BY <1>2 DEF OneCreates
  <2>1. \A e \in Homes : e # d => op'[e].why # "create" /\ op'[e].at \notin ToCreate
    BY <1>5, LoneCreator
  <2>2. DefaultOpens(server') /\ (op'[d] = Idle \/ (op'[d] = then /\ WritesOn(op'[d], server')))
    <3>1. DefaultOpens(server)
      BY LoneCreator DEF DefaultOpens
    <3>2. CASE server' = s /\ op' = [op EXCEPT ![d] = then]
      <4>1. op'[d] = then
        BY <1>1, <3>2
      <4>2. QED
        BY <3>2, <4>1
    <3>3. CASE server' \in {server, s} /\ op' = [op EXCEPT ![d] = Idle]
      <4>1. op'[d] = Idle
        BY <1>1, <3>3
      <4>2. CASE server' = server
        BY <3>1, <4>1, <4>2 DEF DefaultOpens
      <4>3. CASE server' = s
        BY <4>1, <4>3 DEF DefaultOpens
      <4>4. QED
        BY <3>3, <4>2, <4>3
    <3>4. QED
      BY <1>2, <3>2, <3>3
  <2>3. Idle.why = "idle" /\ Idle.at = "idle"
    BY DEF Idle
  <2>4. \A e \in Creating' : e = d /\ op'[e].value \in 1..server'.devices
    <3>1. server'.devices = server.devices
      BY <1>4 DEF SameButStorage
    <3>2. QED
      BY <2>1, <2>2, <2>3, <3>1, LoneCreator DEF Creating
  <2>5. \A e \in Homes : op'[e].at \in ToCreate => e = d /\ WritesOn(op'[d], server')
    BY <2>1, <2>2, <2>3 DEF ToCreate
  <2>6. \A e \in Homes : /\ op'[e].at = "set" => op'[e].got = server'.secrets[Head(op'[e].todo)]
                         /\ op'[e].at \in {"get", "set", "default"} =>
                              \A n \in Range(Private) :
                                n \in Range(op'[e].todo)
                                  \/ <<op'[e].id, op'[e].value>> \in server'.secrets[n]
    BY <2>5 DEF WritesOn, ToCreate
  <2>7. server'.default # 0 => \A e \in Homes : op'[e].at \notin ToCreate
    BY <2>5 DEF WritesOn
  <2>8. QED
    BY <2>2, <2>4, <2>6, <2>7 DEF OneCreates, DefaultOpens
<1>11. QED
  BY <1>6, <1>7, <1>8, <1>9, <1>10 DEF BackupInv

LEMMA DescribedStays ==
  ASSUME Shapes, BackupInv, NEW d \in Homes, Describe(d)
  PROVE  BackupInv' /\ KeepsInboxKey
<1> DEFINE o == op[d]
           s == [server EXCEPT !.described = @ \cup {o.id}]
           then == [o EXCEPT !.at = "get", !.todo = Private]
<1>1. /\ o.at = "describe" /\ o.why = "create" /\ o \in Operation /\ o.at \in ToCreate
      /\ server \in Account /\ IsFiniteSet(server.described)
  BY ServerIsSame, StepIsFor DEF Describe, At, ToCreate, BackupInv, BackupTyped
<1>2. SameButStorage(s) /\ s.default = server.default /\ s.secrets = server.secrets
  <2>1. o.id \in Nat
    BY <1>1 DEF Operation
  <2>2. IsFiniteSet(server.described \cup {o.id})
    BY <1>1, FS_AddElement
  <2>3. QED
    BY <1>1, <2>1, <2>2 DEF SameButStorage, Account
<1>3. /\ then \in Operation /\ then.at = "get" /\ then.why = "create" /\ then.value = o.value
      /\ then.todo = Private
  BY <1>1, NamesAre DEF Operation, Steps, ToCreate
<1>4. Proper(then)
  BY <1>3, NamesAre DEF Proper, Staged, ForTheLine, ForTheBackup, ForTheInbox, ToCreate, ToRestore
<1>5. ~overlap => DefaultOpens(s) /\ WritesOn(then, s)
  BY <1>1, <1>2, <1>3, LoneCreator DEF DefaultOpens, WritesOn
<1>6. Call(d, s, store[d], then, Idle) /\ ElsewhereSame
  BY DEF Describe
<1> HIDE DEF s, then
<1>7. QED
  BY <1>1, <1>2, <1>3, <1>4, <1>5, <1>6, CreatorCall

LEMMA GotIsThere ==
  ASSUME Shapes, BackupInv, NEW d \in Homes, GetSecret(d)
  PROVE  BackupInv' /\ KeepsInboxKey
<1> DEFINE o == op[d]
           then == [o EXCEPT !.at = "set", !.got = server.secrets[Head(o.todo)]]
<1>1. /\ o.at = "get" /\ o.why = "create" /\ o \in Operation /\ o.at \in ToCreate
      /\ o.todo # <<>> /\ o.todo \in Seq(Names)
      /\ server \in Account /\ IsFiniteSet(server.described)
  BY ServerIsSame, StepIsFor DEF GetSecret, At, ToCreate, BackupInv, BackupTyped, Proper, Staged,
                                 Operation
<1>2. SameButStorage(server)
  BY <1>1 DEF SameButStorage
<1>3. server.secrets[Head(o.todo)] \subseteq Nat \X Nat
  BY <1>1, TailKeepsLast DEF Account
<1>4. /\ then \in Operation /\ then.at = "set" /\ then.why = "create" /\ then.value = o.value
      /\ then.todo = o.todo /\ then.id = o.id /\ then.got = server.secrets[Head(o.todo)]
  BY <1>1, <1>3 DEF Operation, Steps, ToCreate
<1>5. Proper(then)
  BY <1>1, <1>3, <1>4
     DEF Proper, Staged, ForTheLine, ForTheBackup, ForTheInbox, ToCreate, ToRestore
<1>6. ~overlap => DefaultOpens(server) /\ WritesOn(then, server)
  BY <1>1, <1>4, LoneCreator DEF DefaultOpens, WritesOn
<1>7. Call(d, server, store[d], then, Idle) /\ ElsewhereSame
  BY DEF GetSecret
<1> HIDE DEF then
<1>8. QED
  BY <1>1, <1>2, <1>4, <1>5, <1>6, <1>7, CreatorCall

LEMMA DefaultIsWhole ==
  ASSUME Shapes, BackupInv, NEW d \in Homes, SetDefault(d)
  PROVE  BackupInv' /\ KeepsInboxKey
<1> DEFINE o == op[d]
           s == [server EXCEPT !.default = o.id]
           then == [o EXCEPT !.at = "keep"]
<1>1. /\ o.at = "default" /\ o.why = "create" /\ o \in Operation /\ o.at \in ToCreate
      /\ o.todo = <<>> /\ o.id \in Nat
      /\ server \in Account /\ IsFiniteSet(server.described)
  BY ServerIsSame, StepIsFor DEF SetDefault, At, ToCreate, BackupInv, BackupTyped, Proper, Staged,
                                 Operation
<1>2. SameButStorage(s) /\ s.default = o.id /\ s.secrets = server.secrets
  BY <1>1 DEF SameButStorage, Account
<1>3. then \in Operation /\ then.at = "keep" /\ then.why = "create" /\ then.value = o.value
  BY <1>1 DEF Operation, Steps, ToCreate
<1>4. Proper(then)
  BY <1>3 DEF Proper, Staged, ForTheLine, ForTheBackup, ForTheInbox, ToCreate, ToRestore
<1>5. ASSUME ~overlap PROVE DefaultOpens(s) /\ WritesOn(then, s)
  <2>1. Range(o.todo) = {}
    BY <1>1 DEF Range
  <2>2. \A n \in Range(Private) : <<o.id, o.value>> \in server.secrets[n]
    BY <1>1, <1>5, <2>1, LoneCreator DEF WritesOn
  <2>3. o.value \in 1..s.devices
    BY <1>1, <1>2, <1>5, LoneCreator DEF SameButStorage
  <2>4. QED
    BY <1>2, <1>3, <2>2, <2>3 DEF DefaultOpens, WritesOn, ToCreate
<1>6. Call(d, s, store[d], then, Idle) /\ ElsewhereSame
  BY DEF SetDefault
<1> HIDE DEF s, then
<1>7. QED
  BY <1>1, <1>2, <1>3, <1>4, <1>5, <1>6, CreatorCall

LEMMA TailRange ==
  ASSUME NEW S, NEW s \in Seq(S), s # <<>>
  PROVE  /\ Range(s) \subseteq {Head(s)} \cup Range(Tail(s))
         /\ Len(s) = 1 => Range(s) \subseteq {Head(s)}
<1>1. /\ DOMAIN s = 1..Len(s) /\ Len(s) \in Nat \ {0} /\ Head(s) = s[1]
      /\ DOMAIN Tail(s) = 1..(Len(s) - 1)
      /\ \A i \in 1..(Len(s) - 1) : Tail(s)[i] = s[i + 1]
  OBVIOUS
<1>2. ASSUME NEW i \in DOMAIN s PROVE s[i] = Head(s) \/ s[i] \in Range(Tail(s))
  <2>1. CASE i = 1
    BY <1>1, <2>1
  <2>2. CASE i # 1
    <3>1. i - 1 \in 1..(Len(s) - 1) /\ (i - 1) + 1 = i
      BY <1>1, <2>2
    <3>2. Tail(s)[i - 1] = s[i]
      BY <1>1, <3>1
    <3>3. QED
      BY <1>1, <3>1, <3>2 DEF Range
  <2>3. QED
    BY <2>1, <2>2
<1>3. QED
  BY <1>1, <1>2 DEF Range

LEMMA PutAdds ==
  ASSUME Shapes, BackupInv, NEW d \in Homes, PutSecret(d)
  PROVE  BackupInv' /\ KeepsInboxKey
<1> DEFINE o == op[d]
           name == Head(o.todo)
           value == IF name = BackupKey THEN store[d].key ELSE o.value
           content == {p \in o.got : p[1] # o.id} \cup {<<o.id, value>>}
           more == IF Len(o.todo) = 1 /\ name # BackupKey /\ store[d].key # 0
                     THEN <<BackupKey>> ELSE Tail(o.todo)
           at == IF more = <<>> THEN "default" ELSE "get"
           s == [server EXCEPT !.secrets[name] = content]
           then == [o EXCEPT !.at = at, !.todo = more, !.got = {}]
<1>1. /\ o.at = "set" /\ o.why = "create" /\ o \in Operation /\ o.at \in ToCreate
      /\ o.todo # <<>> /\ o.todo \in Seq(Names) /\ o.got \subseteq Nat \X Nat
      /\ o.id \in Nat /\ o.value \in Nat
      /\ server \in Account /\ IsFiniteSet(server.described) /\ store[d].key \in Nat
  BY ServerIsSame, StepIsFor DEF PutSecret, At, ToCreate, BackupInv, BackupTyped, Proper, Staged,
                                 Operation, CryptoStore
<1>2. name \in Names /\ Tail(o.todo) \in Seq(Names)
  BY <1>1, TailKeepsLast
<1>3. content \subseteq Nat \X Nat
  <2>1. value \in Nat
    BY <1>1
  <2>2. QED
    BY <1>1, <2>1
<1>4. more \in Seq(Names)
  BY <1>2, NamesAre
<1>5. \A n \in Range(Private) : n \in Range(o.todo) => n = name \/ n \in Range(more)
  <2> SUFFICES ASSUME NEW n \in Range(o.todo), n # name PROVE n \in Range(more)
    OBVIOUS
  <2>1. Len(o.todo) # 1 /\ n \in Range(Tail(o.todo))
    BY <1>1, TailRange
  <2>2. QED
    BY <2>1
<1>6. name \in Range(Private) => <<o.id, o.value>> \in content
  BY NamesAre
<1> HIDE DEF content, more, name
<1>7. /\ SameButStorage(s) /\ s.default = server.default
      /\ s.secrets = [server.secrets EXCEPT ![name] = content]
  BY <1>1, <1>2, <1>3 DEF SameButStorage, Account
<1>8. /\ then \in Operation /\ then.at = at /\ then.why = "create" /\ then.value = o.value
      /\ then.id = o.id /\ then.todo = more
  BY <1>1, <1>4 DEF Operation, Steps, ToCreate
<1>9. Proper(then)
  BY <1>8 DEF Proper, Staged, ForTheLine, ForTheBackup, ForTheInbox, ToCreate, ToRestore
<1>10. ASSUME ~overlap PROVE DefaultOpens(s) /\ WritesOn(then, s)
  <2>1. s.default = 0
    BY <1>1, <1>7, <1>10, LoneCreator
  <2>2. ASSUME NEW n \in Range(Private)
        PROVE  n \in Range(more) \/ <<o.id, o.value>> \in s.secrets[n]
    <3>1. n \in Names /\ server.secrets \in [Names -> SUBSET (Nat \X Nat)]
      BY <1>1, NamesAre DEF Account
    <3>2. n \in Range(o.todo) \/ <<o.id, o.value>> \in server.secrets[n]
      BY <1>1, <1>10, LoneCreator DEF WritesOn
    <3>3. CASE n = name
      BY <1>2, <1>6, <1>7, <3>1, <3>3
    <3>4. CASE n # name
      BY <1>5, <1>7, <3>1, <3>2, <3>4
    <3>5. QED
      BY <3>3, <3>4
  <2>3. QED
    BY <1>8, <2>1, <2>2 DEF DefaultOpens, WritesOn
<1>11. Call(d, s, store[d], then, Idle) /\ ElsewhereSame
  BY DEF PutSecret, content, more, name
<1> HIDE DEF s, then
<1>12. QED
  BY <1>1, <1>7, <1>8, <1>9, <1>10, <1>11, CreatorCall

LEMMA NewIdIsNew ==
  ASSUME IsFiniteSet(Homes), BackupInv
  PROVE  NewId \in Nat
<1> DEFINE ids == {op[d].id : d \in Homes}
           taken == server.described \cup ids
           n == Cardinality(taken) + 1
<1>1. IsFiniteSet(server.described)
  BY DEF BackupInv, BackupTyped
<1>2. IsFiniteSet(ids)
  <2> DEFINE idOf == [d \in Homes |-> op[d].id]
  <2>1. idOf \in Surjection(Homes, ids)
    BY DEF Surjection
  <2>2. QED
    BY <2>1, FS_Surjection
<1>3. IsFiniteSet(taken) /\ Cardinality(taken) \in Nat
  BY <1>1, <1>2, FS_Union, FS_CardinalityType
<1> HIDE DEF taken
<1>4. Cardinality(1..n) = n
  BY <1>3, FS_Interval
<1>5. ~(1..n \subseteq taken)
  <2> SUFFICES ASSUME 1..n \subseteq taken PROVE FALSE
    OBVIOUS
  <2>1. Cardinality(1..n) <= Cardinality(taken)
    BY <1>3, FS_Subset
  <2>2. QED
    BY <1>3, <1>4, <2>1
<1>6. \E id \in 1..n : id \notin taken
  BY <1>5
<1>7. NewId = CHOOSE id \in 1..n : id \notin taken
  BY DEF NewId, taken
<1>8. NewId \in 1..n
  BY <1>6, <1>7
<1>9. QED
  BY <1>3, <1>8

LEMMA CreatorBegins ==
  ASSUME IsFiniteSet(Homes), BackupInv, NEW d \in Homes, CreateRecoveryKey(d)
  PROVE  BackupInv' /\ KeepsInboxKey
<1> DEFINE o == [Starts("create", "describe") EXCEPT !.id = NewId, !.value = store[d].identity]
           refused == server.default # 0 \/ store[d].identity = 0
<1>1. /\ op' = [op EXCEPT ![d] = IF refused THEN Idle ELSE o]
      /\ overlap' = (overlap \/ (~refused /\ Creating # {}))
      /\ UNCHANGED <<server, store, kept, known, mail, setting>>
  BY DEF CreateRecoveryKey
<1>2. /\ store \in [Homes -> CryptoStore] /\ op \in [Homes -> Operation] /\ server \in Account
      /\ \A e \in Homes : Proper(op[e])
  BY DEF BackupInv, BackupTyped
<1>3. left' \in [Kinds -> Nat]
  BY SpendIsTyped DEF CreateRecoveryKey, Kinds
<1>4. CASE refused
  <2>1. /\ op' = [op EXCEPT ![d] = Idle] /\ (overlap => overlap') /\ server' = server
        /\ store' = [store EXCEPT ![d] = store[d]]
    BY <1>1, <1>2, <1>4
  <2>2. QED
    BY <1>1, <1>3, <2>1, ServerIsSame, IdleIsQuiet, QuietChange
<1>5. CASE ~refused
  <2>1. op' = [op EXCEPT ![d] = o]
    BY <1>1, <1>5
  <2>2. store[d].identity \in 1..server.devices
    BY <1>5, ServerIsSame DEF SameInbox, Fits, CryptoStore, Account
  <2>3. o \in Operation /\ o.at = "describe" /\ o.why = "create" /\ o.value = store[d].identity
    <3>1. Idle \in Operation /\ NewId \in Nat /\ store[d].identity \in Nat
      BY <2>2, IdleIsQuiet, NewIdIsNew DEF Quiet, Proper
    <3>2. QED
      BY <3>1 DEF Starts, Operation, Steps, Reasons, ToCreate
  <2> HIDE DEF o
  <2>4. Proper(o)
    BY <2>3 DEF Proper, Staged, ForTheLine, ForTheBackup, ForTheInbox, ToCreate, ToRestore
  <2>5. \A e \in Homes : op'[e] = IF e = d THEN o ELSE op[e]
    BY <1>2, <2>1
  <2>6. BackupTyped'
    BY <1>1, <1>2, <1>3, <2>1, <2>3, <2>4, <2>5 DEF BackupInv, BackupTyped
  <2>7. KeysAreMade' /\ KeepsInboxKey
    BY <1>1 DEF BackupInv, KeysAreMade, KeepsInboxKey
  <2>8. SavedFirst'
    BY <1>1, <2>3, <2>5 DEF BackupInv, SavedFirst
  <2>9. OneCreates'
    <3> SUFFICES ASSUME ~overlap' PROVE OneCreates'
      BY DEF OneCreates
    <3>1. ~overlap /\ Creating = {}
      BY <1>1, <1>5
    <3>2. \A e \in Homes : e # d => op'[e].why # "create" /\ op'[e].at \notin ToCreate
      BY <2>5, <3>1, StepIsFor DEF Creating
    <3>3. \A e \in Creating' : e = d /\ op'[e].value \in 1..server'.devices
      BY <1>1, <2>2, <2>3, <2>5, <3>2 DEF Creating
    <3>4. \A e \in Homes : op'[e].at \notin {"get", "set", "default"}
      BY <2>3, <2>5, <3>2 DEF ToCreate
    <3>5. server'.default = 0
      BY <1>1, <1>5
    <3>6. QED
      BY <3>3, <3>4, <3>5 DEF OneCreates
  <2>10. QED
    BY <2>6, <2>7, <2>8, <2>9 DEF BackupInv
<1>6. QED
  BY <1>4, <1>5

----------------------------------------------------------------------------

LEMMA NextBackup ==
  ASSUME Shapes, IsFiniteSet(Homes), BackupInv, [Next]_vars
  PROVE  BackupInv' /\ KeepsInboxKey
<1>1. ASSUME NEW d \in Homes, NEW fresh \in BOOLEAN, OpenLine(d, fresh) \/ Receive(d, fresh)
      PROVE  BackupInv' /\ KeepsInboxKey
  BY <1>1, MailArrives
<1>2. ASSUME NEW d \in Homes,
             QueryIdentity(d) \/ UploadSigningKeys(d) \/ UploadSignatures(d)
      PROVE  BackupInv' /\ KeepsInboxKey
  BY <1>2, IdentityQuiet
<1>3. ASSUME NEW d \in Homes,
             FindLatest(d) \/ CreateVersion(d) \/ UploadKeys(d) \/ Upload(d)
      PROVE  BackupInv' /\ KeepsInboxKey
  BY <1>3, BackupQuiet, CallsBegin
<1>4. ASSUME NEW d \in Homes, AfterBatch(d) \/ AdoptFromInbox(d) \/ ClearInbox(d)
      PROVE  BackupInv' /\ KeepsInboxKey
  BY <1>4, CallsBegin, AdoptedIsSaved, ClearedIsSaved
<1>5. ASSUME NEW d \in Homes,
             CreateRecoveryKey(d) \/ Describe(d) \/ GetSecret(d) \/ PutSecret(d)
      PROVE  BackupInv' /\ KeepsInboxKey
  BY <1>5, CreatorBegins, DescribedStays, GotIsThere, PutAdds
<1>6. ASSUME NEW d \in Homes, SetDefault(d) \/ KeepRecoveryKey(d)
      PROVE  BackupInv' /\ KeepsInboxKey
  BY <1>6, DefaultIsWhole, OthersAreQuiet
<1>7. ASSUME NEW d \in Homes, NEW given \in BOOLEAN, Restore(d, given)
      PROVE  BackupInv' /\ KeepsInboxKey
  BY <1>7, CallsBegin
<1>8. ASSUME NEW d \in Homes,
             FetchSecret(d) \/ ImportSecrets(d) \/ SignDevice(d) \/ RestoreBackup(d)
      PROVE  BackupInv' /\ KeepsInboxKey
  BY <1>8, FetchedIsQuiet, RestoredIsQuiet
<1>9. ASSUME NEW d \in Homes, Login(d) \/ LogOut(d) \/ LogOutAcceptingLoss(d)
      PROVE  BackupInv' /\ KeepsInboxKey
  BY <1>9, OthersAreQuiet DEF LogOut, LogOutAcceptingLoss
<1>10. ASSUME NEW d \in Homes, LineDies(d) \/ Crash(d) \/ SwitchBackup(d)
       PROVE  BackupInv' /\ KeepsInboxKey
  BY <1>10, CallsBegin, OthersAreQuiet
<1>11. ASSUME NEW d \in Homes, NEW e \in Homes, Verify(d, e)
       PROVE  BackupInv' /\ KeepsInboxKey
  BY <1>11, OthersAreQuiet
<1>12. CASE ReplaceVersion \/ UNCHANGED vars
  <2>1. CASE UNCHANGED vars
    BY <2>1 DEF vars, BackupInv, BackupTyped, KeysAreMade, SavedFirst, OneCreates, Creating,
                KeepsInboxKey
  <2>2. CASE ReplaceVersion
    BY <2>2, ReplacedIsQuiet
  <2>3. QED
    BY <1>12, <2>1, <2>2
<1>13. QED
  BY <1>1, <1>2, <1>3, <1>4, <1>5, <1>6, <1>7, <1>8, <1>9, <1>10, <1>11, <1>12 DEF Next

----------------------------------------------------------------------------
\* What the server keeps of the account opens with one key, however many installations use
\* it and in whatever order their calls are done, fail or lose their answers.
THEOREM StorageOpens ==
  ASSUME Shapes, IsFiniteSet(Homes)
  PROVE  Spec => []WhatIsKeptOpens
<1>1. Init => BackupInv
  BY InitBackup
<1>2. BackupInv /\ [Next]_vars => BackupInv'
  BY NextBackup
<1>3. BackupInv => WhatIsKeptOpens
  BY DEF BackupInv, OneCreates, KeysAreMade, WhatIsKeptOpens
<1>4. QED
  BY <1>1, <1>2, <1>3, PTL DEF Spec

\* A backup key that another device sent is not lost between the inbox and the store.
THEOREM InboxKeysAreSafe ==
  ASSUME Shapes, IsFiniteSet(Homes)
  PROVE  Spec => InboxKeyIsKept
<1>1. Init => BackupInv
  BY InitBackup
<1>2. BackupInv /\ [Next]_vars => BackupInv' /\ [KeepsInboxKey]_vars
  BY NextBackup
<1>3. QED
  BY <1>1, <1>2, PTL DEF Spec, InboxKeyIsKept, KeepsInboxKey

----------------------------------------------------------------------------
(***************************************************************************)
(* Proofs about Rooms.  First the types: what a job, a call and the task   *)
(* can be, and that who waits for a write is who posted it (Theirs), which *)
(* is why the end of a write finds its caller as it left it.               *)
(***************************************************************************)

Owners == Calls \cup {Task, Absent}
Pushes == [room : RoomIds, m : Memberships, is : Nat, gap : BOOLEAN]
PushJobs == [do : {"push"}, by : {Task, Absent}, room : RoomIds, m : Memberships]
EventJobs == [do : {"events"}, by : Owners, events : SUBSET Nat]
RoundJobs == [do : {"round"}, by : Calls, snap : [RoomIds -> Nat], at : Nat]
MemberJobs == [do : {"member"}, by : Calls, room : RoomIds, m : {"join", "leave"}, is : Nat]
ForgetJobs == [do : {"forget"}, by : Calls, room : RoomIds, is : Nat]
JoinedJobs == [do : {"joined"}, by : Calls, rooms : SUBSET RoomIds, ages : [RoomIds -> Nat]]
LookJobs == [do : {"look"}, by : Calls, room : RoomIds, is : Nat, seen : {"yes", "no"}]
MarkJobs == [do : {"mark"}, by : Calls, at : Nat]
AnswerJobs == MemberJobs \cup ForgetJobs \cup JoinedJobs \cup LookJobs
Jobs == PushJobs \cup EventJobs \cup RoundJobs \cup AnswerJobs \cup MarkJobs

PlainCalls == [pc : {"idle", "fetching", "round", "noround", "wait", "stored", "failed"}]
AnsweredCalls == [pc : {"answered"}, job : AnswerJobs]
FetchedCalls == [pc : {"fetched"}, job : RoundJobs]
PullCalls == [pc : {"window", "wait", "stored", "failed", "pulled"},
              base : Nat, before : Nat, top : Nat]
CallStates == PlainCalls \cup AnsweredCalls \cup FetchedCalls \cup PullCalls

PushTasks == [pc : {"marked", "wait", "stored", "failed"}, push : Pushes, gap : BOOLEAN]
Tasks == [pc : {"idle", "wait"}] \cup PushTasks

Newest(t) == t \in RoomIds /\ \A r \in RoomIds : members[r].is <= members[t].is

Types ==
  /\ roomsLeft \in [Chances -> Nat]
  /\ members \in [RoomIds -> [m : Memberships, is : Nat]] /\ head \in Nat /\ sealAt \in Nat
  /\ on \in BOOLEAN /\ told \in BOOLEAN /\ srvGap \in BOOLEAN /\ lost \in BOOLEAN
  /\ wire \in Seq(Pushes) /\ feed \in Seq(Nat)
  /\ task \in Tasks /\ callers \in Int /\ touched \in [RoomIds -> Nat]
  /\ queue \in Seq(Jobs)
  /\ mem \in [RoomIds -> Memberships \cup {Absent}]
  /\ looks \in [RoomIds -> {"yes", "no", "unknown", Absent}]
  /\ stored \subseteq Nat /\ watermark \in Nat
  /\ call \in [Calls -> CallStates]
  /\ owes \in BOOLEAN /\ stale \subseteq RoomIds /\ spilt \subseteq RoomIds
  /\ asOf \in Nat
  /\ \E t \in RoomIds : Newest(t)

LEMMA CallKinds ==
  ASSUME NEW x \in CallStates
  PROVE  /\ "base" \in DOMAIN x <=> x \in PullCalls
         /\ "job" \in DOMAIN x <=> x \in AnsweredCalls \cup FetchedCalls
         /\ x.pc \in {"idle", "fetching", "round", "noround"} => x \in PlainCalls
         /\ x.pc = "answered" => x \in AnsweredCalls
         /\ x.pc = "fetched" => x \in FetchedCalls
         /\ x.pc \in {"window", "pulled"} => x \in PullCalls
         /\ x.pc \in {"wait", "stored", "failed"} => x \in PlainCalls \cup PullCalls
         /\ x \in PullCalls => x.base \in Nat /\ x.before \in Nat /\ x.top \in Nat
         /\ x \in AnsweredCalls => x.job \in AnswerJobs
         /\ x \in FetchedCalls => x.job \in RoundJobs
  BY DEF CallStates, PlainCalls, AnsweredCalls, FetchedCalls, PullCalls

LEMMA TaskKinds ==
  ASSUME NEW x \in Tasks
  PROVE  /\ "push" \in DOMAIN x <=> x \in PushTasks
         /\ "gap" \in DOMAIN x <=> x \in PushTasks
         /\ x.pc = "idle" <=> x = Resting
         /\ x.pc \in {"marked", "stored", "failed"} => x \in PushTasks
         /\ x \in PushTasks => x.push \in Pushes /\ x.gap \in BOOLEAN /\ x.pc # "idle"
         /\ x \notin PushTasks => x = [pc |-> x.pc] /\ x.pc \in {"idle", "wait"}
  BY DEF Tasks, PushTasks, Resting

LEMMA PushesAre ==
  ASSUME NEW x \in Pushes
  PROVE  x.room \in RoomIds /\ x.m \in Memberships /\ x.is \in Nat /\ x.gap \in BOOLEAN
  BY DEF Pushes

LEMMA JobKinds ==
  ASSUME NEW x \in Jobs
  PROVE  /\ x.by \in Owners
         /\ x.do \in {"push", "events", "round", "member", "forget", "joined", "look", "mark"}
         /\ x.do = "push" => x.by \in {Task, Absent} /\ x.room \in RoomIds /\ x.m \in Memberships
         /\ x.do = "events" => x.events \in SUBSET Nat
         /\ x.do \notin {"push", "events"} => x.by \in Calls
         /\ x.do = "round" => x.snap \in [RoomIds -> Nat] /\ x.at \in Nat
         /\ x.do \in {"member", "forget", "look"} => x.room \in RoomIds /\ x.is \in Nat
         /\ x.do = "member" => x.m \in {"join", "leave"}
         /\ x.do = "joined" => x.rooms \subseteq RoomIds /\ x.ages \in [RoomIds -> Nat]
         /\ x.do = "look" => x.seen \in {"yes", "no"}
         /\ x.do = "mark" => x.at \in Nat
  BY DEF Jobs, PushJobs, EventJobs, RoundJobs, AnswerJobs, MemberJobs, ForgetJobs, JoinedJobs,
         LookJobs, MarkJobs, Owners

LEMMA RoundsAre ==
  ASSUME NEW x \in Jobs, x.do = "round" PROVE x \in RoundJobs
  BY DEF Jobs, PushJobs, EventJobs, RoundJobs, AnswerJobs, MemberJobs, ForgetJobs, JoinedJobs,
         LookJobs, MarkJobs

LEMMA Disowned ==
  ASSUME NEW x \in Jobs, x.by = Task, RoomShapes
  PROVE  /\ [x EXCEPT !.by = Absent] \in Jobs
         /\ x.do \in {"push", "events"}
         /\ [x EXCEPT !.by = Absent].by = Absent
         /\ [x EXCEPT !.by = Absent].do = x.do
         /\ x.do = "push" => /\ [x EXCEPT !.by = Absent].room = x.room
                             /\ [x EXCEPT !.by = Absent].m = x.m
         /\ x.do = "events" => [x EXCEPT !.by = Absent].events = x.events
  BY DEF Jobs, PushJobs, EventJobs, RoundJobs, AnswerJobs, MemberJobs, ForgetJobs, JoinedJobs,
         LookJobs, MarkJobs, Owners, RoomShapes

LEMMA EndedPull ==
  ASSUME NEW x \in PullCalls, NEW res \in {"stored", "failed"}
  PROVE  /\ [x EXCEPT !.pc = res] \in PullCalls
         /\ [x EXCEPT !.pc = res].pc = res
         /\ [x EXCEPT !.pc = res].base = x.base
         /\ [x EXCEPT !.pc = res].before = x.before
         /\ [x EXCEPT !.pc = res].top = x.top
  BY DEF PullCalls

LEMMA EndedPlain ==
  ASSUME NEW x \in PlainCalls, NEW res \in {"stored", "failed", "round", "noround"}
  PROVE  /\ [x EXCEPT !.pc = res] \in PlainCalls
         /\ [x EXCEPT !.pc = res] = [pc |-> res]
<1>1. x = [pc |-> x.pc]
  BY DEF PlainCalls
<1>2. [x EXCEPT !.pc = res] = [pc |-> res]
  BY <1>1
<1> QED
  BY <1>2 DEF PlainCalls

LEMMA MaxOfTwo ==
  ASSUME NEW a \in Int, NEW b \in Int
  PROVE  Max({a, b}) = IF a >= b THEN a ELSE b
<1>1. Max({a, b}) \in {a, b} /\ \A y \in {a, b} : Max({a, b}) >= y
  BY DEF Max
<1> QED BY <1>1

LEMMA MinOfTwo ==
  ASSUME NEW a \in Int, NEW b \in Int
  PROVE  Min({a, b}) = IF a <= b THEN a ELSE b
<1>1. Min({a, b}) \in {a, b} /\ \A y \in {a, b} : Min({a, b}) <= y
  BY DEF Min
<1> QED BY <1>1

LEMMA EndsOfInterval ==
  ASSUME NEW a \in Int, NEW b \in Int, a <= b
  PROVE  Max(a .. b) = b /\ Min(a .. b) = a
<1>1. /\ Max(a .. b) \in a .. b /\ \A y \in a .. b : Max(a .. b) >= y
      /\ Min(a .. b) \in a .. b /\ \A y \in a .. b : Min(a .. b) <= y
  <2>1. \E x \in a .. b : \A y \in a .. b : x >= y
    <3>1. b \in a .. b /\ \A y \in a .. b : b >= y
      OBVIOUS
    <3> QED BY <3>1
  <2>2. \E x \in a .. b : \A y \in a .. b : x <= y
    <3>1. a \in a .. b /\ \A y \in a .. b : a <= y
      OBVIOUS
    <3> QED BY <3>1
  <2> QED BY <2>1, <2>2 DEF Max, Min
<1> QED BY <1>1

LEMMA ClockIs ==
  ASSUME Types
  PROVE  Clock \in Nat /\ \A r \in RoomIds : members[r].is <= Clock
<1>1. PICK t : Newest(t)
  BY DEF Types
<1>2. DEFINE S == {members[r].is : r \in RoomIds}
<1>3. members[t].is \in S /\ \A y \in S : members[t].is >= y
  BY <1>1 DEF Newest, Types
<1>4. Max(S) \in S /\ \A y \in S : Max(S) >= y
  BY <1>3 DEF Max
<1> QED
  BY <1>4 DEF Clock, Types

\* A job is its caller's: who posted it waits for it.
Theirs ==
  /\ \A c \in Calls : call[c] \in AnsweredCalls \cup FetchedCalls => call[c].job.by = c
  /\ \A i \in DOMAIN queue : queue[i].by \in Calls =>
       /\ call[queue[i].by].pc = "wait"
       /\ call[queue[i].by] \in PullCalls <=> queue[i].do = "events"
  /\ \A i, j \in DOMAIN queue : queue[i].by = queue[j].by /\ queue[i].by # Absent => i = j
  /\ \A i \in DOMAIN queue : queue[i].by = Task =>
       /\ task.pc = "wait"
       /\ task \in PushTasks <=> queue[i].do = "push"
       /\ queue[i].do = "push" => queue[i].room = task.push.room /\ queue[i].m = task.push.m

TypeInv == Types /\ Theirs

LEMMA JobPosted ==
  ASSUME queue \in Seq(Jobs), NEW job \in Jobs, Post(job)
  PROVE  /\ queue' \in Seq(Jobs)
         /\ DOMAIN queue = 1 .. Len(queue) /\ DOMAIN queue' = 1 .. Len(queue) + 1
         /\ Len(queue) \in Nat
         /\ \A i \in DOMAIN queue : queue'[i] = queue[i] /\ queue[i] \in Jobs
         /\ queue'[Len(queue) + 1] = job
  BY DEF Post

LEMMA Gone ==
  ASSUME queue \in Seq(Jobs), queue # <<>>, queue' = Tail(queue)
  PROVE  /\ queue' \in Seq(Jobs)
         /\ Len(queue) \in Nat \ {0}
         /\ DOMAIN queue = 1 .. Len(queue) /\ DOMAIN queue' = 1 .. Len(queue) - 1
         /\ 1 \in DOMAIN queue /\ Head(queue) = queue[1] /\ queue[1] \in Jobs
         /\ \A i \in DOMAIN queue' : queue'[i] = queue[i + 1] /\ i + 1 \in DOMAIN queue
         /\ \A i \in DOMAIN queue : i # 1 => i - 1 \in DOMAIN queue'
         /\ \A i \in DOMAIN queue : queue[i] \in Jobs
  BY HeadTailProperties

LEMMA Orphaned ==
  ASSUME queue \in Seq(Jobs), Subscribe, RoomShapes
  PROVE  /\ queue' \in Seq(Jobs)
         /\ DOMAIN queue' = DOMAIN queue /\ DOMAIN queue = 1 .. Len(queue) /\ Len(queue) \in Nat
         /\ \A i \in DOMAIN queue :
              /\ queue[i] \in Jobs
              /\ queue[i].by # Task => queue'[i] = queue[i]
              /\ queue[i].by = Task => queue'[i].by = Absent
              /\ queue'[i].do = queue[i].do
              /\ queue[i].do = "push" => queue'[i].room = queue[i].room /\ queue'[i].m = queue[i].m
              /\ queue[i].do = "events" => queue'[i].events = queue[i].events
<1>1. DOMAIN queue = 1 .. Len(queue) /\ Len(queue) \in Nat
      /\ \A i \in DOMAIN queue : queue[i] \in Jobs
  OBVIOUS
<1>2. queue' = [i \in DOMAIN queue |-> IF queue[i].by = Task THEN [queue[i] EXCEPT !.by = Absent]
                                       ELSE queue[i]]
  BY DEF Subscribe
<1>3. \A i \in DOMAIN queue : IF queue[i].by = Task THEN queue'[i] = [queue[i] EXCEPT !.by = Absent]
                              ELSE queue'[i] = queue[i]
  BY <1>2
<1>4. \A i \in DOMAIN queue : queue'[i] \in Jobs
  BY <1>1, <1>3, Disowned
<1>5. queue' \in Seq(Jobs)
  <2>1. DOMAIN queue' = 1 .. Len(queue)
    BY <1>1, <1>2
  <2>2. queue' = [i \in 1 .. Len(queue) |-> queue'[i]]
    BY <1>1, <1>2
  <2>3. queue' \in [1 .. Len(queue) -> Jobs]
    BY <1>1, <1>4, <2>1, <2>2
  <2> QED BY <1>1, <2>3
<1> QED
  BY <1>1, <1>2, <1>3, <1>5, Disowned

\* A call that does not wait for a write goes on and writes nothing.
LEMMA CallMoves ==
  ASSUME Theirs, Types, NEW c \in Calls, call[c].pc # "wait", NEW x \in CallStates, GoesOn(c, x),
         x \in AnsweredCalls \cup FetchedCalls => x.job.by = c, queue' = queue, task' = task
  PROVE  Theirs' /\ call' \in [Calls -> CallStates]
<1>1. call' = [call EXCEPT ![c] = x] /\ call \in [Calls -> CallStates]
  BY DEF GoesOn, Types
<1>2. call'[c] = x /\ \A d \in Calls : d # c => call'[d] = call[d]
  BY <1>1
<1>3. \A i \in DOMAIN queue : queue[i].by # c
  BY DEF Theirs
<1>4. \A i \in DOMAIN queue : queue[i].by \in Calls => call'[queue[i].by] = call[queue[i].by]
  BY <1>2, <1>3
<1> QED
  BY <1>1, <1>2, <1>4 DEF Theirs

\* A call that does not wait posts a job and waits for it.
LEMMA CallPosts ==
  ASSUME Theirs, Types, RoomShapes, NEW c \in Calls, call[c].pc # "wait",
         NEW x \in PlainCalls \cup PullCalls,
         GoesOn(c, x), x.pc = "wait", NEW job \in Jobs, job.by = c, Post(job),
         x \in PullCalls <=> job.do = "events", task' = task
  PROVE  Theirs' /\ call' \in [Calls -> CallStates] /\ queue' \in Seq(Jobs)
<1>0. x \in CallStates /\ x \notin AnsweredCalls \cup FetchedCalls
  BY DEF CallStates, AnsweredCalls, FetchedCalls
<1>1. call' = [call EXCEPT ![c] = x] /\ call \in [Calls -> CallStates] /\ queue \in Seq(Jobs)
  BY DEF GoesOn, Types
<1>2. call'[c] = x /\ \A d \in Calls : d # c => call'[d] = call[d]
  BY <1>1
<1>3. \A i \in DOMAIN queue : queue[i].by # c
  BY DEF Theirs
<1>4. \A i \in DOMAIN queue : queue[i].by \in Calls => call'[queue[i].by] = call[queue[i].by]
  BY <1>2, <1>3
<1>5. c # Task
  BY DEF RoomShapes
<1>6. DOMAIN queue' = DOMAIN queue \cup {Len(queue) + 1} /\ Len(queue) + 1 \notin DOMAIN queue
  <2>1. DOMAIN queue = 1 .. Len(queue) /\ DOMAIN queue' = 1 .. Len(queue) + 1 /\ Len(queue) \in Nat
    BY <1>1, JobPosted
  <2> QED
    BY <2>1
<1>7. /\ queue'[Len(queue) + 1] = job
      /\ \A i \in DOMAIN queue : queue'[i] = queue[i]
  BY <1>1, JobPosted
<1>8. \A d \in Calls : call'[d] \in AnsweredCalls \cup FetchedCalls => call'[d].job.by = d
  BY <1>0, <1>2 DEF Theirs
<1>9. \A i \in DOMAIN queue' : queue'[i].by \in Calls =>
       /\ call'[queue'[i].by].pc = "wait"
       /\ call'[queue'[i].by] \in PullCalls <=> queue'[i].do = "events"
  BY <1>2, <1>4, <1>6, <1>7 DEF Theirs
<1>10. \A i, j \in DOMAIN queue' : queue'[i].by = queue'[j].by /\ queue'[i].by # Absent => i = j
  BY <1>3, <1>6, <1>7 DEF Theirs
<1>11. \A i \in DOMAIN queue' : queue'[i].by = Task =>
       /\ task.pc = "wait"
       /\ task \in PushTasks <=> queue'[i].do = "push"
       /\ queue'[i].do = "push" => queue'[i].room = task.push.room /\ queue'[i].m = task.push.m
  BY <1>5, <1>6, <1>7 DEF Theirs
<1>12. queue' \in Seq(Jobs)
  BY <1>1, JobPosted
<1>13. Theirs'
  BY <1>8, <1>9, <1>10, <1>11 DEF Theirs
<1> QED
  BY <1>0, <1>1, <1>12, <1>13

\* The task posts a job and waits for it.
LEMMA TaskPosts ==
  ASSUME Theirs, Types, RoomShapes, task.pc # "wait", NEW job \in Jobs, job.by = Task, Post(job),
         task'.pc = "wait", task' \in PushTasks <=> job.do = "push",
         job.do = "push" => job.room = task'.push.room /\ job.m = task'.push.m, call' = call
  PROVE  Theirs' /\ queue' \in Seq(Jobs)
<1>1. queue \in Seq(Jobs)
  BY DEF Types
<1>2. \A i \in DOMAIN queue : queue[i].by # Task
  BY DEF Theirs
<1>3. Task \notin Calls
  BY DEF RoomShapes
<1>6. DOMAIN queue' = DOMAIN queue \cup {Len(queue) + 1} /\ Len(queue) + 1 \notin DOMAIN queue
  <2>1. DOMAIN queue = 1 .. Len(queue) /\ DOMAIN queue' = 1 .. Len(queue) + 1 /\ Len(queue) \in Nat
    BY <1>1, JobPosted
  <2> QED
    BY <2>1
<1>7. /\ queue'[Len(queue) + 1] = job
      /\ \A i \in DOMAIN queue : queue'[i] = queue[i]
  BY <1>1, JobPosted
<1>9. \A i \in DOMAIN queue' : queue'[i].by \in Calls =>
       /\ call[queue'[i].by].pc = "wait"
       /\ call[queue'[i].by] \in PullCalls <=> queue'[i].do = "events"
  BY <1>3, <1>6, <1>7 DEF Theirs
<1>10. \A i, j \in DOMAIN queue' : queue'[i].by = queue'[j].by /\ queue'[i].by # Absent => i = j
  BY <1>2, <1>6, <1>7 DEF Theirs
<1>11. \A i \in DOMAIN queue' : queue'[i].by = Task =>
       /\ task'.pc = "wait"
       /\ task' \in PushTasks <=> queue'[i].do = "push"
       /\ queue'[i].do = "push" => queue'[i].room = task'.push.room /\ queue'[i].m = task'.push.m
  BY <1>2, <1>6, <1>7
<1>12. queue' \in Seq(Jobs)
  BY <1>1, JobPosted
<1>13. Theirs'
  BY <1>9, <1>10, <1>11 DEF Theirs
<1> QED
  BY <1>12, <1>13

\* The task does not wait for a write, and no job is its own.
LEMMA TaskMoves ==
  ASSUME Theirs, Types, task.pc # "wait", call' = call, queue' = queue
  PROVE  Theirs'
<1>1. \A i \in DOMAIN queue : queue[i].by # Task
  BY DEF Theirs
<1> QED
  BY <1>1 DEF Theirs

LEMMA PushTaskEnds ==
  ASSUME NEW x \in PushTasks, NEW res \in {"stored", "failed"}
  PROVE  /\ [x EXCEPT !.pc = res] \in PushTasks /\ [x EXCEPT !.pc = res].pc = res
         /\ [x EXCEPT !.pc = res].push = x.push /\ [x EXCEPT !.pc = res].gap = x.gap
  BY DEF PushTasks

\* What the writer's answer does to who waits for it.
LEMMA Reported ==
  ASSUME TypeInv, RoomShapes, queue # <<>>, queue' = Tail(queue),
         NEW res \in {"stored", "failed"}, Report(res)
  PROVE  /\ Job \in Jobs /\ Job = queue[1]
         /\ call' \in [Calls -> CallStates] /\ task' \in Tasks
         /\ \A c \in Calls : Job.by # c => call'[c] = call[c]
         /\ \A c \in Calls : Job.by = c =>
              /\ call[c].pc = "wait"
              /\ Job.do = "events" =>
                   /\ call[c] \in PullCalls /\ call'[c] \in PullCalls /\ call'[c].pc = res
                   /\ call'[c].base = call[c].base /\ call'[c].before = call[c].before
                   /\ call'[c].top = call[c].top
              /\ Job.do # "events" => /\ call'[c] = [pc |-> EndsAs(c, res)]
                                      /\ call'[c] \in PlainCalls
         /\ Job.by # Task => task' = task
         /\ Job.by = Task /\ Job.do = "push" =>
              /\ task \in PushTasks /\ task' \in PushTasks /\ task.pc = "wait" /\ task'.pc = res
              /\ task'.push = task.push /\ task'.gap = task.gap
         /\ Job.by = Task /\ Job.do # "push" => task' = Resting /\ task \notin PushTasks
<1>1. Job = queue[1] /\ 1 \in DOMAIN queue /\ Job \in Jobs
  BY Gone DEF TypeInv, Types, Job
<1>2. call \in [Calls -> CallStates] /\ task \in Tasks
  BY DEF TypeInv, Types
<1>3. Job.by \in Calls => /\ call[Job.by].pc = "wait"
                          /\ call[Job.by] \in PullCalls <=> Job.do = "events"
  BY <1>1 DEF TypeInv, Theirs
<1>4. Job.by = Task => /\ task.pc = "wait"
                       /\ task \in PushTasks <=> Job.do = "push"
  BY <1>1 DEF TypeInv, Theirs
<1>5. Task \notin Calls /\ EndsAs(Job.by, res) \in {"stored", "failed", "round", "noround"}
  BY DEF RoomShapes, EndsAs
<1>6. Job.do = "events" => EndsAs(Job.by, res) = res
  BY DEF EndsAs
<1>7. Job.by \notin Calls => call' = call
  BY DEF Report
<1>8. Job.by \in Calls => call' = [call EXCEPT ![Job.by].pc = EndsAs(Job.by, res)]
  BY DEF Report
<1>9. CASE Job.by \in Calls
  <2>1. DEFINE x == call[Job.by]
               y == [x EXCEPT !.pc = EndsAs(Job.by, res)]
  <2>2. call' = [call EXCEPT ![Job.by] = y] /\ x \in CallStates
    BY <1>2, <1>8, <1>9
  <2>3. Job.do = "events" => /\ y \in PullCalls /\ y.pc = res /\ y.base = x.base
                             /\ y.before = x.before /\ y.top = x.top /\ x \in PullCalls
    <3>1. HAVE Job.do = "events"
    <3>2. x \in PullCalls /\ y = [x EXCEPT !.pc = res]
      BY <1>3, <1>6, <1>9, <3>1
    <3> HIDE DEF x, y
    <3> QED BY <3>2, EndedPull
  <2>4. Job.do # "events" => y \in PlainCalls /\ y = [pc |-> EndsAs(Job.by, res)]
    <3>1. HAVE Job.do # "events"
    <3>2. x \in PlainCalls
      BY <1>3, <1>9, <2>2, <3>1, CallKinds
    <3>3. DEFINE e == EndsAs(Job.by, res)
    <3>4. e \in {"stored", "failed", "round", "noround"} /\ y = [x EXCEPT !.pc = e]
      BY <1>5
    <3> HIDE DEF x, e, y
    <3>5. y = [pc |-> e] /\ y \in PlainCalls
      BY <3>2, <3>4, EndedPlain
    <3> QED BY <3>5 DEF e
  <2>5. y \in CallStates
    BY <2>3, <2>4 DEF CallStates
  <2>6. call'[Job.by] = y /\ \A c \in Calls : Job.by # c => call'[c] = call[c]
    BY <1>2, <1>9, <2>2
  <2>7. call' \in [Calls -> CallStates]
    BY <1>2, <2>2, <2>5
  <2>8. task' = task /\ Job.by # Task
    BY <1>5, <1>9 DEF Report
  <2> HIDE DEF y
  <2> QED
    BY <1>1, <1>2, <1>3, <1>9, <2>3, <2>4, <2>6, <2>7, <2>8
<1>10. CASE Job.by \notin Calls
  <2>1. CASE Job.by = Task /\ Job.do = "push"
    <3>1. task' = [task EXCEPT !.pc = res]
      BY <2>1 DEF Report
    <3>2. task \in PushTasks
      BY <1>4, <2>1
    <3>3. /\ task' \in PushTasks /\ task'.pc = res
          /\ task'.push = task.push /\ task'.gap = task.gap
      BY <3>1, <3>2, PushTaskEnds
    <3>4. task' \in Tasks
      BY <3>3 DEF Tasks
    <3> QED BY <1>1, <1>2, <1>4, <1>7, <1>10, <2>1, <3>2, <3>3, <3>4
  <2>2. CASE Job.by = Task /\ Job.do # "push"
    <3>1. task' = Resting /\ Resting \in Tasks
      BY <2>2 DEF Report, Resting, Tasks
    <3> QED BY <1>1, <1>2, <1>4, <1>7, <1>10, <2>2, <3>1
  <2>3. CASE Job.by # Task
    <3>1. task' = task
      BY <2>3 DEF Report
    <3> QED BY <1>1, <1>2, <1>7, <1>10, <2>3, <3>1
  <2> QED BY <2>1, <2>2, <2>3
<1> QED
  BY <1>9, <1>10

LEMMA ReportKeepsTheirs ==
  ASSUME TypeInv, RoomShapes, queue # <<>>, queue' = Tail(queue),
         NEW res \in {"stored", "failed"}, Report(res)
  PROVE  Theirs' /\ queue' \in Seq(Jobs)
<1>1. queue \in Seq(Jobs) /\ queue' \in Seq(Jobs)
  BY Gone DEF TypeInv, Types
<1>2. /\ \A i \in DOMAIN queue' : /\ queue'[i] = queue[i + 1] /\ i + 1 \in DOMAIN queue
                                  /\ i \in Int /\ i + 1 # 1
      /\ 1 \in DOMAIN queue
  BY <1>1, Gone
<1>3. /\ Job \in Jobs /\ Job = queue[1] /\ task' \in Tasks
      /\ \A c \in Calls : Job.by # c => call'[c] = call[c]
      /\ \A c \in Calls : Job.by = c =>
              call'[c] \in PullCalls \/ call'[c] \in PlainCalls
      /\ Job.by # Task => task' = task
  BY Reported
<1>4. \A i \in DOMAIN queue' : queue'[i].by # Absent => queue'[i].by # Job.by
  BY <1>2, <1>3 DEF TypeInv, Theirs
<1>5. \A c \in Calls : call'[c] \in AnsweredCalls \cup FetchedCalls => call'[c].job.by = c
  <2>1. \A x \in PullCalls \cup PlainCalls : x \notin AnsweredCalls \cup FetchedCalls
    BY DEF PullCalls, PlainCalls, AnsweredCalls, FetchedCalls
  <2> QED BY <1>3, <2>1 DEF TypeInv, Theirs
<1>6. Absent \notin Calls \cup {Task}
  BY DEF RoomShapes
<1>7. \A i \in DOMAIN queue' : queue'[i].by \in Calls =>
       /\ call'[queue'[i].by].pc = "wait"
       /\ call'[queue'[i].by] \in PullCalls <=> queue'[i].do = "events"
  <2>1. TAKE i \in DOMAIN queue'
  <2>2. HAVE queue'[i].by \in Calls
  <2>3. call'[queue'[i].by] = call[queue[i + 1].by] /\ queue'[i] = queue[i + 1]
    BY <1>2, <1>3, <1>4, <1>6, <2>2
  <2> QED BY <1>2, <2>2, <2>3 DEF TypeInv, Theirs
<1>8. \A i, j \in DOMAIN queue' : queue'[i].by = queue'[j].by /\ queue'[i].by # Absent => i = j
  <2>1. TAKE i, j \in DOMAIN queue'
  <2>2. HAVE queue'[i].by = queue'[j].by /\ queue'[i].by # Absent
  <2>3. i + 1 = j + 1
    BY <1>2, <2>2 DEF TypeInv, Theirs
  <2> QED BY <1>2, <2>3
<1>9. \A i \in DOMAIN queue' : queue'[i].by = Task =>
       /\ task'.pc = "wait"
       /\ task' \in PushTasks <=> queue'[i].do = "push"
       /\ queue'[i].do = "push" => queue'[i].room = task'.push.room /\ queue'[i].m = task'.push.m
  <2>1. TAKE i \in DOMAIN queue'
  <2>2. HAVE queue'[i].by = Task
  <2>3. task' = task
    BY <1>3, <1>4, <1>6, <2>2
  <2> QED BY <1>2, <2>2, <2>3 DEF TypeInv, Theirs
<1> QED
  BY <1>1, <1>5, <1>7, <1>8, <1>9 DEF Theirs

\* Each operation keeps the types.

LEMMA TypesInit == RoomsInit /\ RoomShapes => TypeInv
<1> SUFFICES ASSUME RoomsInit, RoomShapes PROVE TypeInv
  OBVIOUS
<1>1. /\ queue = <<>> /\ task = Resting /\ \A c \in Calls : call[c] = Resting
      /\ call \in [Calls -> {Resting}]
  BY DEF RoomsInit
<1>2. Resting \in PlainCalls /\ Resting \in Tasks /\ Resting \notin AnsweredCalls \cup FetchedCalls
  BY DEF Resting, PlainCalls, Tasks, AnsweredCalls, FetchedCalls
<1>3. Theirs
  <2>1. DOMAIN queue = {}
    BY <1>1
  <2> QED BY <1>1, <1>2, <2>1 DEF Theirs
<1>4. \E t \in RoomIds : Newest(t)
  BY DEF RoomsInit, RoomShapes, Newest
<1>5. queue \in Seq(Jobs) /\ wire \in Seq(Pushes) /\ feed \in Seq(Nat)
  BY DEF RoomsInit
<1>6. call \in [Calls -> CallStates]
  BY <1>1, <1>2 DEF CallStates
<1>7. members \in [RoomIds -> [m : Memberships, is : Nat]]
  <2>1. [m |-> "leave", is |-> 0] \in [m : Memberships, is : Nat]
    BY DEF Memberships
  <2> QED BY <2>1 DEF RoomsInit
<1>8. /\ mem \in [RoomIds -> Memberships \cup {Absent}] /\ touched \in [RoomIds -> Nat]
      /\ looks \in [RoomIds -> {"yes", "no", "unknown", Absent}]
  BY DEF RoomsInit, Untouched
<1>9. roomsLeft \in [Chances -> Nat]
  BY DEF RoomsInit, RoomShapes
<1>10. /\ on \in BOOLEAN /\ told \in BOOLEAN /\ srvGap \in BOOLEAN /\ lost \in BOOLEAN
       /\ owes \in BOOLEAN
  BY DEF RoomsInit
<1>11. /\ head \in Nat /\ sealAt \in Nat /\ callers \in Int /\ asOf \in Nat /\ watermark \in Nat
       /\ stored \subseteq Nat /\ stale \subseteq RoomIds /\ spilt \subseteq RoomIds
  BY DEF RoomsInit
<1> QED
  BY <1>1, <1>2, <1>3, <1>4, <1>5, <1>6, <1>7, <1>8, <1>9, <1>10, <1>11 DEF TypeInv, Types

\* A membership changes: what is pushed is the newest there is.
LEMMA BecomesTyped ==
  ASSUME Types, NEW r \in RoomIds, NEW m \in Memberships, Becomes(r, m)
  PROVE  /\ members' \in [RoomIds -> [m : Memberships, is : Nat]]
         /\ \E t \in RoomIds : Newest(t)'
         /\ wire' \in Seq(Pushes) /\ srvGap' \in BOOLEAN
         /\ members'[r] = [m |-> m, is |-> Clock + 1]
         /\ \A s \in RoomIds : s # r => members'[s] = members[s]
<1>1. Clock \in Nat /\ \A s \in RoomIds : members[s].is <= Clock
  BY ClockIs
<1>2. /\ members' = [members EXCEPT ![r] = [m |-> m, is |-> Clock + 1]]
      /\ members \in [RoomIds -> [m : Memberships, is : Nat]]
  BY DEF Becomes, Types
<1>3. /\ members'[r] = [m |-> m, is |-> Clock + 1]
      /\ \A s \in RoomIds : s # r => members'[s] = members[s]
  BY <1>2
<1>4. members' \in [RoomIds -> [m : Memberships, is : Nat]]
  BY <1>1, <1>2
<1>5. \A s \in RoomIds : members'[s].is <= members'[r].is
  BY <1>1, <1>2, <1>3
<1>6. wire' \in Seq(Pushes) /\ srvGap' \in BOOLEAN
  <2>1. [room |-> r, m |-> m, is |-> Clock + 1, gap |-> srvGap] \in Pushes
    BY <1>1 DEF Types, Pushes
  <2>2. \/ /\ wire' = Append(wire, [room |-> r, m |-> m, is |-> Clock + 1, gap |-> srvGap])
           /\ srvGap' = FALSE
        \/ wire' = wire /\ srvGap' = srvGap
    BY DEF Becomes
  <2>3. wire \in Seq(Pushes) /\ srvGap \in BOOLEAN
    BY DEF Types
  <2>4. Append(wire, [room |-> r, m |-> m, is |-> Clock + 1, gap |-> srvGap]) \in Seq(Pushes)
    BY <2>1, <2>3
  <2> QED BY <2>2, <2>3, <2>4
<1> QED BY <1>3, <1>4, <1>5, <1>6 DEF Newest

LEMMA SameNewest ==
  ASSUME members' = members, \E t \in RoomIds : Newest(t)
  PROVE  \E t \in RoomIds : Newest(t)'
BY DEF Newest

LEMMA FewerLeft ==
  ASSUME roomsLeft \in [Chances -> Nat], NEW what \in Chances, StillMay(what)
  PROVE  roomsLeft' \in [Chances -> Nat]
BY DEF StillMay

LEMMA TouchTyped ==
  ASSUME touched \in [RoomIds -> Nat], NEW r \in RoomIds, NEW is \in Nat, Touch(r, is)
  PROVE  /\ touched' \in [RoomIds -> Nat]
         /\ callers # 0 => touched'[r] >= is /\ touched'[r] >= touched[r]
         /\ callers = 0 => touched' = touched
         /\ \A s \in RoomIds : s # r => touched'[s] = touched[s]
<1>1. Max({touched[r], is}) = IF touched[r] >= is THEN touched[r] ELSE is
  BY MaxOfTwo
<1>2. touched' = IF callers = 0 THEN touched ELSE [touched EXCEPT ![r] = Max({touched[r], is})]
  BY DEF Touch
<1> QED BY <1>1, <1>2

LEMMA OthersChangeTyped ==
  ASSUME TypeInv, RoomShapes, NEW r \in RoomIds, NEW m \in Memberships, OthersChange(r, m)
  PROVE  TypeInv'
<1>1. Becomes(r, m) /\ StillMay("changes")
  BY DEF OthersChange
<1>2. /\ members' \in [RoomIds -> [m : Memberships, is : Nat]]
      /\ \E t \in RoomIds : Newest(t)' /\ wire' \in Seq(Pushes) /\ srvGap' \in BOOLEAN
  BY <1>1, BecomesTyped DEF TypeInv
<1>3. roomsLeft' \in [Chances -> Nat]
  BY <1>1, FewerLeft DEF TypeInv, Types, Chances
<1> QED
  BY <1>2, <1>3 DEF TypeInv, Types, Theirs, OthersChange, cacheDb, roomGhosts

LEMMA PushIsLostTyped == ASSUME TypeInv, RoomShapes, PushIsLost PROVE TypeInv'
<1>1. wire' \in Seq(Pushes)
  <2>1. wire \in Seq(Pushes) /\ wire # <<>> /\ wire' = Front(wire)
    BY DEF TypeInv, Types, PushIsLost
  <2>2. Front(wire) = [i \in 1 .. Len(wire) - 1 |-> wire[i]]
    BY <2>1 DEF Front
  <2>3. Len(wire) \in Nat \ {0} /\ \A i \in 1 .. Len(wire) - 1 : wire[i] \in Pushes
    BY <2>1
  <2> QED BY <2>1, <2>2, <2>3
<1>2. roomsLeft' \in [Chances -> Nat]
  BY FewerLeft DEF PushIsLost, TypeInv, Types, Chances
<1>3. spilt' \subseteq RoomIds
  BY DEF PushIsLost, TypeInv, Types
<1>4. \E t \in RoomIds : Newest(t)'
  BY SameNewest DEF PushIsLost, TypeInv, Types, roomServer
<1> QED
  BY <1>1, <1>2, <1>3, <1>4 DEF TypeInv, Types, Theirs, PushIsLost, cacheDb, roomServer

LEMMA NewEventTyped == ASSUME TypeInv, RoomShapes, NewEvent PROVE TypeInv'
<1>2. roomsLeft' \in [Chances -> Nat]
  BY FewerLeft DEF NewEvent, TypeInv, Types, Chances
<1>3. head' \in Nat /\ sealAt' \in Nat /\ feed' \in Seq(Nat)
  BY DEF NewEvent, TypeInv, Types
<1>4. \E t \in RoomIds : Newest(t)'
  BY SameNewest DEF NewEvent, TypeInv, Types
<1> QED
  BY <1>2, <1>3, <1>4 DEF TypeInv, Types, Theirs, NewEvent, cacheDb, roomGhosts

LEMMA RoomsLineDiesTyped == ASSUME TypeInv, RoomShapes, RoomsLineDies PROVE TypeInv'
<1>2. roomsLeft' \in [Chances -> Nat]
  BY FewerLeft DEF RoomsLineDies, TypeInv, Types, Chances
<1>4. \E t \in RoomIds : Newest(t)'
  BY SameNewest DEF RoomsLineDies, TypeInv, Types, roomServer
<1>5. wire' \in Seq(Pushes) /\ feed' \in Seq(Nat)
  BY DEF RoomsLineDies
<1>6. Theirs'
  BY DEF TypeInv, Theirs, RoomsLineDies
<1> QED
  BY <1>2, <1>4, <1>5, <1>6 DEF TypeInv, Types, RoomsLineDies, cacheDb, roomGhosts, roomServer

LEMMA SubscribeTyped == ASSUME TypeInv, RoomShapes, Subscribe PROVE TypeInv'
<1>1. /\ queue' \in Seq(Jobs) /\ DOMAIN queue' = DOMAIN queue
      /\ \A i \in DOMAIN queue :
              /\ queue[i].by # Task => queue'[i] = queue[i]
              /\ queue[i].by = Task => queue'[i].by = Absent
              /\ queue'[i].do = queue[i].do
  BY Orphaned DEF TypeInv, Types
<1>2. Absent \notin Calls \cup {Task} /\ Task \notin Calls
  BY DEF RoomShapes
<1>3. call' = call
  BY DEF Subscribe
<1>4. \A i \in DOMAIN queue' : queue'[i].by = Absent \/ (queue'[i] = queue[i] /\ queue[i].by # Task)
  BY <1>1
<1>5. Theirs'
  BY <1>1, <1>2, <1>3, <1>4 DEF TypeInv, Theirs
<1>6. \E t \in RoomIds : Newest(t)'
  BY SameNewest DEF Subscribe, TypeInv, Types, roomServer
<1>7. Resting \in Tasks
  BY DEF Resting, Tasks
<1> QED
  BY <1>1, <1>5, <1>6, <1>7
     DEF TypeInv, Types, Subscribe, cacheDb, roomGhosts, roomServer

LEMMA TellOpenedTyped == ASSUME TypeInv, RoomShapes, TellOpened PROVE TypeInv'
<1>6. \E t \in RoomIds : Newest(t)'
  BY SameNewest DEF TellOpened, TypeInv, Types, roomServer
<1> QED
  BY <1>6 DEF TypeInv, Types, Theirs, TellOpened, cacheDb, roomGhosts, roomServer

LEMMA TakeInviteTyped ==
  ASSUME TypeInv, RoomShapes, TakeInvite
  PROVE  /\ TypeInv' /\ task' \in PushTasks /\ Head(wire) \in Pushes
<1>1. wire \in Seq(Pushes) /\ wire # <<>>
  BY DEF TypeInv, Types, TakeInvite
<1>2. Head(wire) \in Pushes /\ wire' \in Seq(Pushes)
  BY <1>1 DEF TakeInvite
<1>3. Head(wire).room \in RoomIds /\ Head(wire).is \in Nat /\ Head(wire).gap \in BOOLEAN
  BY <1>2, PushesAre
<1>4. task' \in PushTasks
  BY <1>2, <1>3 DEF TakeInvite, TypeInv, Types, PushTasks
<1>5. touched' \in [RoomIds -> Nat]
  BY <1>3, TouchTyped DEF TakeInvite, MarkEarly, TypeInv, Types
<1>6. \E t \in RoomIds : Newest(t)'
  BY SameNewest DEF TakeInvite, TypeInv, Types, roomServer
<1>7. Theirs'
  BY TaskMoves DEF TakeInvite, TypeInv
<1> QED
  BY <1>2, <1>4, <1>5, <1>6, <1>7
     DEF TypeInv, Types, TakeInvite, cacheDb, roomGhosts, roomServer, Tasks

LEMMA WriteInviteTyped ==
  ASSUME TypeInv, RoomShapes, WriteInvite
  PROVE  /\ TypeInv' /\ task \in PushTasks /\ task' \in PushTasks
         /\ task'.pc = "wait" /\ task'.push = task.push /\ task'.gap = task.gap
<1>1. task \in PushTasks
  BY TaskKinds DEF TypeInv, Types, WriteInvite
<1>2. /\ task' \in PushTasks /\ task'.pc = "wait"
      /\ task'.push = task.push /\ task'.gap = task.gap
  BY <1>1 DEF WriteInvite, PushTasks
<1>3. DEFINE job == [do |-> "push", by |-> Task, room |-> task.push.room, m |-> task.push.m]
<1>4. job \in Jobs /\ job.by = Task /\ job.do = "push" /\ job.room = task.push.room
      /\ job.m = task.push.m
  BY <1>1, PushesAre DEF PushTasks, Jobs, PushJobs
<1>5. Post(job) /\ task.pc # "wait" /\ call' = call
  BY DEF WriteInvite
<1> HIDE DEF job
<1>6. Theirs' /\ queue' \in Seq(Jobs)
  BY <1>2, <1>4, <1>5, TaskPosts DEF TypeInv
<1>7. \E t \in RoomIds : Newest(t)'
  BY SameNewest DEF WriteInvite, TypeInv, Types, roomServer
<1> QED
  BY <1>1, <1>2, <1>6, <1>7
     DEF TypeInv, Types, WriteInvite, cacheDb, roomGhosts, roomServer, roomsLine, Tasks

LEMMA TellInviteTyped == ASSUME TypeInv, RoomShapes, TellInvite PROVE TypeInv'
<1>1. task \in PushTasks
  BY TaskKinds DEF TypeInv, Types, TellInvite
<1>2. task.push.room \in RoomIds /\ task.gap \in BOOLEAN
  BY <1>1, PushesAre DEF PushTasks
<1>3. Clock \in Nat
  BY ClockIs DEF TypeInv
<1>6. \E t \in RoomIds : Newest(t)'
  BY SameNewest DEF TellInvite, TypeInv, Types, roomServer
<1>7. Theirs'
  BY TaskMoves DEF TellInvite, TypeInv
<1>8. Resting \in Tasks
  BY DEF Resting, Tasks
<1> QED
  BY <1>2, <1>3, <1>6, <1>7, <1>8
     DEF TypeInv, Types, TellInvite, cacheDb, roomGhosts, roomServer, roomsLine

LEMMA TakeEventsTyped == ASSUME TypeInv, RoomShapes, TakeEvents PROVE TypeInv'
<1>1. feed \in Seq(Nat) /\ feed # <<>>
  BY DEF TypeInv, Types, TakeEvents
<1>2. Head(feed) \in Nat /\ feed' \in Seq(Nat)
  BY <1>1 DEF TakeEvents
<1>3. DEFINE job == [do |-> "events", by |-> Task, events |-> {Head(feed)}]
<1>4. job \in Jobs /\ job.by = Task /\ job.do = "events"
  BY <1>2 DEF Jobs, EventJobs, Owners
<1>5. /\ Post(job) /\ task.pc # "wait" /\ task' = [pc |-> "wait"] /\ call' = call
      /\ [pc |-> "wait"] \in Tasks \ PushTasks
  BY DEF TakeEvents, Tasks, PushTasks
<1>6. task'.pc = "wait" /\ task' \notin PushTasks
  BY <1>5
<1> HIDE DEF job
<1>7. Theirs' /\ queue' \in Seq(Jobs)
  BY <1>4, <1>5, <1>6, TaskPosts DEF TypeInv
<1>8. \E t \in RoomIds : Newest(t)'
  BY SameNewest DEF TakeEvents, TypeInv, Types, roomServer
<1> QED
  BY <1>2, <1>5, <1>7, <1>8
     DEF TypeInv, Types, TakeEvents, cacheDb, roomGhosts, roomServer

\* What a call can be next.

LEMMA RestingIsPlain == Resting \in PlainCalls /\ Resting \in CallStates /\ Resting.pc = "idle"
                        /\ Resting \notin AnsweredCalls \cup FetchedCalls \cup PullCalls
BY DEF Resting, PlainCalls, CallStates, AnsweredCalls, FetchedCalls, PullCalls

LEMMA PlainOnes ==
  ASSUME NEW p \in {"idle", "fetching", "round", "noround", "wait", "stored", "failed"}
  PROVE  /\ [pc |-> p] \in PlainCalls /\ [pc |-> p] \in CallStates /\ [pc |-> p].pc = p
         /\ [pc |-> p] \notin AnsweredCalls \cup FetchedCalls \cup PullCalls
BY DEF PlainCalls, CallStates, AnsweredCalls, FetchedCalls, PullCalls

LEMMA PullOnes ==
  ASSUME NEW p \in {"window", "wait", "stored", "failed", "pulled"}, NEW a \in Nat, NEW b \in Nat,
         NEW t \in Nat
  PROVE  LET x == [pc |-> p, base |-> a, before |-> b, top |-> t] IN
         /\ x \in PullCalls /\ x \in CallStates
         /\ x.pc = p /\ x.base = a /\ x.before = b /\ x.top = t
         /\ x \notin AnsweredCalls \cup FetchedCalls \cup PlainCalls
BY DEF PlainCalls, CallStates, AnsweredCalls, FetchedCalls, PullCalls

LEMMA AnsweredOnes ==
  ASSUME NEW job \in AnswerJobs
  PROVE  LET x == [pc |-> "answered", job |-> job] IN
         /\ x \in AnsweredCalls /\ x \in CallStates /\ x.pc = "answered" /\ x.job = job
         /\ x \notin PlainCalls \cup FetchedCalls \cup PullCalls
BY DEF PlainCalls, CallStates, AnsweredCalls, FetchedCalls, PullCalls

LEMMA FetchedOnes ==
  ASSUME NEW job \in RoundJobs
  PROVE  LET x == [pc |-> "fetched", job |-> job] IN
         /\ x \in FetchedCalls /\ x \in CallStates /\ x.pc = "fetched" /\ x.job = job
         /\ x \notin PlainCalls \cup AnsweredCalls \cup PullCalls
BY DEF PlainCalls, CallStates, AnsweredCalls, FetchedCalls, PullCalls

LEMMA PullGoesOn ==
  ASSUME NEW x \in PullCalls, NEW p \in {"window", "pulled"}
  PROVE  /\ [x EXCEPT !.pc = p] \in PullCalls /\ [x EXCEPT !.pc = p] \in CallStates
         /\ [x EXCEPT !.pc = p].pc = p /\ [x EXCEPT !.pc = p].base = x.base
         /\ [x EXCEPT !.pc = p].before = x.before /\ [x EXCEPT !.pc = p].top = x.top
         /\ [x EXCEPT !.pc = p] \notin AnsweredCalls \cup FetchedCalls
BY DEF PlainCalls, CallStates, AnsweredCalls, FetchedCalls, PullCalls

\* What a call gets to record.
LEMMA CallAnswers ==
  ASSUME NEW c \in Calls, NEW r \in RoomIds, NEW m \in {"join", "leave"}, NEW is \in Nat,
         NEW seen \in {"yes", "no"}, NEW rooms \in SUBSET RoomIds, NEW ages \in [RoomIds -> Nat],
         NEW snap \in [RoomIds -> Nat]
  PROVE  /\ [do |-> "member", by |-> c, room |-> r, m |-> m, is |-> is] \in AnswerJobs
         /\ [do |-> "forget", by |-> c, room |-> r, is |-> is] \in AnswerJobs
         /\ [do |-> "joined", by |-> c, rooms |-> rooms, ages |-> ages] \in AnswerJobs
         /\ [do |-> "look", by |-> c, room |-> r, is |-> is, seen |-> seen] \in AnswerJobs
         /\ [do |-> "round", by |-> c, snap |-> snap, at |-> is] \in RoundJobs
         /\ [do |-> "mark", by |-> c, at |-> is] \in Jobs
BY DEF AnswerJobs, MemberJobs, ForgetJobs, JoinedJobs, LookJobs, RoundJobs, MarkJobs, Jobs

LEMMA AnswersAreJobs ==
  /\ \A x \in AnswerJobs \cup RoundJobs : x \in Jobs /\ x.do \notin {"events", "push"}
  /\ \A x \in AnswerJobs : x.do # "round"
  /\ \A x \in RoundJobs : x.do = "round"
BY DEF AnswerJobs, MemberJobs, ForgetJobs, JoinedJobs, LookJobs, RoundJobs, Jobs

LEMMA FetchInvitesTyped ==
  ASSUME TypeInv, RoomShapes, NEW c \in Calls, FetchInvites(c)
  PROVE  TypeInv'
<1>1. call[c].pc # "wait" /\ queue' = queue /\ task' = task
  BY RestingIsPlain DEF FetchInvites, AsksFor
<1>2. /\ [pc |-> "fetching"] \in CallStates \ (AnsweredCalls \cup FetchedCalls)
      /\ GoesOn(c, [pc |-> "fetching"])
  BY PlainOnes DEF FetchInvites
<1>3. Theirs' /\ call' \in [Calls -> CallStates]
  BY <1>1, <1>2, CallMoves DEF TypeInv
<1>5. roomsLeft' \in [Chances -> Nat]
  BY FewerLeft DEF FetchInvites, AsksFor, TypeInv, Types, Chances
<1>4. \E t \in RoomIds : Newest(t)'
  BY SameNewest DEF FetchInvites, TypeInv, Types, roomServer
<1>6. callers' \in Int
  <2>1. callers \in Int
    BY DEF TypeInv, Types
  <2>2. callers' = callers + 1
    BY DEF FetchInvites
  <2> QED BY <2>1, <2>2
<1>7. owes' \in BOOLEAN
  BY DEF FetchInvites
<1> QED
  BY <1>6, <1>7, <1>1, <1>2, <1>3, <1>4, <1>5
     DEF FetchInvites, TypeInv, Types, cacheDb, roomGhosts, roomServer, roomsLine

LEMMA FetchAnsweredTyped ==
  ASSUME TypeInv, RoomShapes, NEW c \in Calls, FetchAnswered(c)
  PROVE  TypeInv'
<1>1. call[c].pc # "wait" /\ queue' = queue /\ task' = task
  BY RestingIsPlain DEF FetchAnswered, AsksFor
<1>2. PICK x \in FetchedCalls : x \in CallStates /\ x.job.by = c /\ GoesOn(c, x)
  <2>1. Clock \in Nat /\ Counts \in [RoomIds -> Nat]
    BY ClockIs DEF TypeInv, Types, Counts
  <2>2. DEFINE job == [do |-> "round", by |-> c, snap |-> Counts, at |-> Clock]
  <2>3. job \in RoundJobs /\ job.by = c
    BY <2>1 DEF RoundJobs
  <2>4. GoesOn(c, [pc |-> "fetched", job |-> job])
    BY DEF FetchAnswered
  <2> HIDE DEF job
  <2> QED
    BY <2>3, <2>4, FetchedOnes
<1>3. Theirs' /\ call' \in [Calls -> CallStates]
  BY <1>1, <1>2, CallMoves DEF TypeInv
<1>4. \E t \in RoomIds : Newest(t)'
  BY SameNewest DEF FetchAnswered, TypeInv, Types, roomServer
<1> QED
  BY <1>1, <1>2, <1>3, <1>4
     DEF FetchAnswered, TypeInv, Types, cacheDb, roomGhosts, roomServer, roomsLine

LEMMA CloseRoundTyped ==
  ASSUME TypeInv, RoomShapes, NEW c \in Calls, CloseRound(c)
  PROVE  TypeInv'
<1>1. call[c].pc # "wait" /\ queue' = queue /\ task' = task
  BY RestingIsPlain DEF CloseRound, AsksFor
<1>2. Resting \in CallStates \ (AnsweredCalls \cup FetchedCalls) /\ GoesOn(c, Resting)
  BY RestingIsPlain DEF CloseRound
<1>3. Theirs' /\ call' \in [Calls -> CallStates]
  BY <1>1, <1>2, CallMoves DEF TypeInv
<1>4. \E t \in RoomIds : Newest(t)'
  BY SameNewest DEF CloseRound, TypeInv, Types, roomServer
<1>6. touched' \in [RoomIds -> Nat] /\ callers' \in Int /\ owes' \in BOOLEAN
  BY DEF CloseRound, Untouched, TypeInv, Types
<1> QED
  BY <1>1, <1>2, <1>3, <1>4, <1>6
     DEF CloseRound, TypeInv, Types, cacheDb, roomGhosts, roomServer, roomsLine

LEMMA ForgetRoomTyped ==
  ASSUME TypeInv, RoomShapes, NEW c \in Calls, NEW r \in RoomIds, ForgetRoom(c, r)
  PROVE  TypeInv'
<1>1. call[c].pc # "wait" /\ queue' = queue /\ task' = task
  BY RestingIsPlain DEF ForgetRoom, AsksFor
<1>2. PICK x \in AnsweredCalls : x \in CallStates /\ x.job.by = c /\ GoesOn(c, x)
  <2>1. DEFINE job == [do |-> "forget", by |-> c, room |-> r, is |-> members[r].is]
  <2>2. job \in AnswerJobs /\ job.by = c
    BY DEF TypeInv, Types, AnswerJobs, ForgetJobs
  <2>3. GoesOn(c, [pc |-> "answered", job |-> job])
    BY DEF ForgetRoom, AnsweredWith
  <2> HIDE DEF job
  <2> QED
    BY <2>2, <2>3, AnsweredOnes
<1>3. Theirs' /\ call' \in [Calls -> CallStates]
  BY <1>1, <1>2, CallMoves DEF TypeInv
<1>5. roomsLeft' \in [Chances -> Nat]
  BY FewerLeft DEF ForgetRoom, AsksFor, TypeInv, Types, Chances
<1>4. \E t \in RoomIds : Newest(t)'
  BY SameNewest DEF ForgetRoom, TypeInv, Types, roomServer
<1> QED
  BY <1>1, <1>2, <1>3, <1>4, <1>5
     DEF ForgetRoom, TypeInv, Types, cacheDb, roomGhosts, roomServer, roomsLine

LEMMA ListTyped ==
  ASSUME TypeInv, RoomShapes, NEW c \in Calls, List(c)
  PROVE  TypeInv'
<1>1. call[c].pc # "wait" /\ queue' = queue /\ task' = task
  BY RestingIsPlain DEF List, AsksFor
<1>2. PICK x \in AnsweredCalls : x \in CallStates /\ x.job.by = c /\ GoesOn(c, x)
  <2>1. DEFINE job == [do |-> "joined", by |-> c,
                       rooms |-> {r \in RoomIds : members[r].m = "join"},
                       ages |-> [r \in RoomIds |-> members[r].is]]
  <2>2. job \in AnswerJobs /\ job.by = c
    BY DEF TypeInv, Types, AnswerJobs, JoinedJobs
  <2>3. GoesOn(c, [pc |-> "answered", job |-> job])
    BY DEF List, AnsweredWith
  <2> HIDE DEF job
  <2> QED
    BY <2>2, <2>3, AnsweredOnes
<1>3. Theirs' /\ call' \in [Calls -> CallStates]
  BY <1>1, <1>2, CallMoves DEF TypeInv
<1>5. roomsLeft' \in [Chances -> Nat]
  BY FewerLeft DEF List, AsksFor, TypeInv, Types, Chances
<1>4. \E t \in RoomIds : Newest(t)'
  BY SameNewest DEF List, TypeInv, Types, roomServer
<1> QED
  BY <1>1, <1>2, <1>3, <1>4, <1>5
     DEF List, TypeInv, Types, cacheDb, roomGhosts, roomServer, roomsLine

LEMMA LookTyped ==
  ASSUME TypeInv, RoomShapes, NEW c \in Calls, NEW r \in RoomIds, Look(c, r)
  PROVE  TypeInv'
<1>1. call[c].pc # "wait" /\ queue' = queue /\ task' = task
  BY RestingIsPlain DEF Look, AsksFor
<1>2. PICK x \in AnsweredCalls : x \in CallStates /\ x.job.by = c /\ GoesOn(c, x)
  <2>1. DEFINE job == [do |-> "look", by |-> c, room |-> r, is |-> members[r].is,
                       seen |-> IF r = Talk /\ sealAt # 0 THEN "yes" ELSE "no"]
  <2>2. job \in AnswerJobs /\ job.by = c
    BY DEF TypeInv, Types, AnswerJobs, LookJobs
  <2>3. GoesOn(c, [pc |-> "answered", job |-> job])
    BY DEF Look, AnsweredWith
  <2> HIDE DEF job
  <2> QED
    BY <2>2, <2>3, AnsweredOnes
<1>3. Theirs' /\ call' \in [Calls -> CallStates]
  BY <1>1, <1>2, CallMoves DEF TypeInv
<1>5. roomsLeft' \in [Chances -> Nat]
  BY FewerLeft DEF Look, AsksFor, TypeInv, Types, Chances
<1>4. \E t \in RoomIds : Newest(t)'
  BY SameNewest DEF Look, TypeInv, Types, roomServer
<1> QED
  BY <1>1, <1>2, <1>3, <1>4, <1>5
     DEF Look, TypeInv, Types, cacheDb, roomGhosts, roomServer, roomsLine

LEMMA RecentTyped ==
  ASSUME TypeInv, RoomShapes, NEW c \in Calls, Recent(c)
  PROVE  TypeInv'
<1>1. call[c].pc # "wait" /\ queue' = queue /\ task' = task
  BY RestingIsPlain DEF Recent, AsksFor
<1>2. PICK x \in PullCalls : x \in CallStates \ (AnsweredCalls \cup FetchedCalls) /\ GoesOn(c, x)
  <2>1. PICK base \in {watermark, 0} :
          GoesOn(c, [pc |-> "window", base |-> base, before |-> head + 1, top |-> 0])
    BY DEF Recent
  <2>2. base \in Nat /\ head + 1 \in Nat
    BY DEF TypeInv, Types
  <2> QED
    BY <2>1, <2>2, PullOnes
<1>3. Theirs' /\ call' \in [Calls -> CallStates]
  BY <1>1, <1>2, CallMoves DEF TypeInv
<1>5. roomsLeft' \in [Chances -> Nat]
  BY FewerLeft DEF Recent, AsksFor, TypeInv, Types, Chances
<1>4. \E t \in RoomIds : Newest(t)'
  BY SameNewest DEF Recent, TypeInv, Types, roomServer
<1> QED
  BY <1>1, <1>2, <1>3, <1>4, <1>5
     DEF Recent, TypeInv, Types, cacheDb, roomGhosts, roomServer, roomsLine

LEMMA NextWindowTyped ==
  ASSUME TypeInv, RoomShapes, NEW c \in Calls, NextWindow(c)
  PROVE  TypeInv'
<1>1. call[c].pc # "wait" /\ queue' = queue /\ task' = task
  BY RestingIsPlain DEF NextWindow, AsksFor
<1>2. PICK x \in PullCalls : x \in CallStates \ (AnsweredCalls \cup FetchedCalls) /\ GoesOn(c, x)
  <2>1. call[c] \in PullCalls
    BY CallKinds DEF NextWindow, TypeInv, Types
  <2>2. PICK p \in {"window", "pulled"} : GoesOn(c, [call[c] EXCEPT !.pc = p])
    BY DEF NextWindow
  <2> QED
    BY <2>1, <2>2, PullGoesOn
<1>3. Theirs' /\ call' \in [Calls -> CallStates]
  BY <1>1, <1>2, CallMoves DEF TypeInv
<1>4. \E t \in RoomIds : Newest(t)'
  BY SameNewest DEF NextWindow, TypeInv, Types, roomServer
<1> QED
  BY <1>1, <1>2, <1>3, <1>4
     DEF NextWindow, TypeInv, Types, cacheDb, roomGhosts, roomServer, roomsLine

LEMMA BreaksOffTyped ==
  ASSUME TypeInv, RoomShapes, NEW c \in Calls, BreaksOff(c)
  PROVE  TypeInv'
<1>1. call[c].pc # "wait" /\ queue' = queue /\ task' = task
  BY RestingIsPlain DEF BreaksOff, AsksFor
<1>2. PICK x \in PlainCalls : x \in CallStates \ (AnsweredCalls \cup FetchedCalls) /\ GoesOn(c, x)
  BY RestingIsPlain, PlainOnes DEF BreaksOff
<1>3. Theirs' /\ call' \in [Calls -> CallStates]
  BY <1>1, <1>2, CallMoves DEF TypeInv
<1>5. roomsLeft' \in [Chances -> Nat]
  BY FewerLeft DEF BreaksOff, AsksFor, TypeInv, Types, Chances
<1>4. \E t \in RoomIds : Newest(t)'
  BY SameNewest DEF BreaksOff, TypeInv, Types, roomServer
<1> QED
  BY <1>1, <1>2, <1>3, <1>4, <1>5
     DEF BreaksOff, TypeInv, Types, cacheDb, roomGhosts, roomServer, roomsLine

LEMMA ReturnTyped ==
  ASSUME TypeInv, RoomShapes, NEW c \in Calls, Return(c)
  PROVE  TypeInv'
<1>1. call[c].pc # "wait" /\ queue' = queue /\ task' = task
  BY RestingIsPlain DEF Return, AsksFor
<1>2. Resting \in CallStates \ (AnsweredCalls \cup FetchedCalls) /\ GoesOn(c, Resting)
  BY RestingIsPlain DEF Return
<1>3. Theirs' /\ call' \in [Calls -> CallStates]
  BY <1>1, <1>2, CallMoves DEF TypeInv
<1>4. \E t \in RoomIds : Newest(t)'
  BY SameNewest DEF Return, TypeInv, Types, roomServer
<1> QED
  BY <1>1, <1>2, <1>3, <1>4 DEF Return, TypeInv, Types, cacheDb, roomGhosts, roomServer, roomsLine

LEMMA WindowIs ==
  ASSUME head \in Nat, RoomShapes, NEW base \in Nat, NEW before \in Nat, before <= head + 1
  PROVE  /\ NewestEvents(base, before) \subseteq 1 .. head
         /\ NewestEvents(base, before) = {} => before <= base + 1
         /\ NewestEvents(base, before) # {} =>
              \E lo \in Nat : /\ NewestEvents(base, before) = lo .. before - 1
                              /\ base < lo /\ lo < before
                              /\ Min(NewestEvents(base, before)) = lo
                              /\ Max(NewestEvents(base, before)) = before - 1
<1>1. Min({before, head + 1}) = before
  BY MinOfTwo
<1>2. Window \in Nat \ {0} /\ before - 1 - Window \in Int
  BY DEF RoomShapes
<1>3. Max({base, before - 1 - Window})
        = IF base >= before - 1 - Window THEN base ELSE before - 1 - Window
  BY <1>2, MaxOfTwo
<1>4. DEFINE lo == Max({base, before - 1 - Window}) + 1
<1>5. NewestEvents(base, before) = lo .. before - 1
  BY <1>1 DEF NewestEvents
<1>6. lo \in Nat /\ base < lo /\ (lo = base + 1 \/ lo < before)
  BY <1>2, <1>3
<1> HIDE DEF lo
<1>7. lo .. before - 1 \subseteq 1 .. head
  BY <1>6
<1>8. lo .. before - 1 = {} => before <= base + 1
  BY <1>6
<1>9. ASSUME lo .. before - 1 # {}
      PROVE  lo < before /\ Min(lo .. before - 1) = lo /\ Max(lo .. before - 1) = before - 1
  <2>1. lo <= before - 1
    BY <1>6, <1>9
  <2> QED BY <1>6, <2>1, EndsOfInterval
<1> QED
  BY <1>5, <1>6, <1>7, <1>8, <1>9

LEMMA ActTyped ==
  ASSUME TypeInv, RoomShapes, NEW c \in Calls, NEW r \in RoomIds, NEW m \in Memberships,
         Act(c, r, m)
  PROVE  /\ TypeInv' /\ m \in {"join", "leave"}
         /\ call'[c] = [pc |-> "answered",
                        job |-> [do |-> "member", by |-> c, room |-> r, m |-> m, is |-> Clock + 1]]
<1>1. call[c].pc # "wait" /\ queue' = queue /\ task' = task /\ Becomes(r, m)
      /\ m \in {"join", "leave"}
  BY RestingIsPlain DEF Act, AsksFor
<1>2. /\ members' \in [RoomIds -> [m : Memberships, is : Nat]]
      /\ \E t \in RoomIds : Newest(t)' /\ wire' \in Seq(Pushes) /\ srvGap' \in BOOLEAN
      /\ members'[r] = [m |-> m, is |-> Clock + 1]
  BY <1>1, BecomesTyped DEF TypeInv
<1>3. DEFINE job == [do |-> "member", by |-> c, room |-> r, m |-> m, is |-> Clock + 1]
             x == [pc |-> "answered", job |-> job]
<1>4. job \in AnswerJobs /\ job.by = c
  BY <1>1, ClockIs DEF TypeInv, AnswerJobs, MemberJobs
<1>5. GoesOn(c, x)
  BY <1>2 DEF Act, AnsweredWith
<1> HIDE DEF job
<1>6. x \in CallStates /\ x.job.by = c
  BY <1>4, AnsweredOnes
<1> HIDE DEF x
<1>7. Theirs' /\ call' \in [Calls -> CallStates]
  BY <1>1, <1>5, <1>6, CallMoves DEF TypeInv
<1>8. roomsLeft' \in [Chances -> Nat]
  BY FewerLeft DEF Act, AsksFor, TypeInv, Types, Chances
<1>9. call'[c] = x
  BY <1>5 DEF GoesOn, TypeInv, Types
<1> QED
  BY <1>1, <1>2, <1>7, <1>8, <1>9 DEF job, x, Act, TypeInv, Types, cacheDb, roomGhosts

\* A call posts what it has to write; the rest stays as it was.
LEMMA PostingTyped ==
  ASSUME TypeInv, RoomShapes, NEW c \in Calls, call[c].pc # "wait",
         NEW x \in PlainCalls \cup PullCalls, x.pc = "wait", GoesOn(c, x),
         NEW job \in Jobs, job.by = c, Post(job), x \in PullCalls <=> job.do = "events",
         UNCHANGED <<roomServer, roomsLine, task, callers, touched, cacheDb, owes, roomGhosts,
                     roomsLeft>>
  PROVE  TypeInv'
<1>1. task' = task
  OBVIOUS
<1>2. Theirs' /\ call' \in [Calls -> CallStates] /\ queue' \in Seq(Jobs)
  BY <1>1, CallPosts DEF TypeInv
<1>3. \E t \in RoomIds : Newest(t)'
  BY SameNewest DEF TypeInv, Types, roomServer
<1> QED
  BY <1>2, <1>3 DEF TypeInv, Types, cacheDb, roomGhosts, roomServer, roomsLine

\* A call goes on, and nothing else happens.
LEMMA MovingTyped ==
  ASSUME TypeInv, RoomShapes, NEW c \in Calls, call[c].pc # "wait",
         NEW x \in PlainCalls \cup PullCalls, GoesOn(c, x), queue' = queue,
         UNCHANGED <<roomServer, roomsLine, task, callers, touched, cacheDb, owes, roomGhosts,
                     roomsLeft>>
  PROVE  TypeInv'
<1>1. task' = task /\ x \in CallStates \ (AnsweredCalls \cup FetchedCalls)
  BY DEF CallStates, PlainCalls, PullCalls, AnsweredCalls, FetchedCalls
<1>2. Theirs' /\ call' \in [Calls -> CallStates]
  BY <1>1, CallMoves DEF TypeInv
<1>3. \E t \in RoomIds : Newest(t)'
  BY SameNewest DEF TypeInv, Types, roomServer
<1> QED
  BY <1>2, <1>3 DEF TypeInv, Types, cacheDb, roomGhosts, roomServer, roomsLine

\* The next window of a pull: all that is new in it is posted.
LEMMA AskWindowSteps ==
  ASSUME TypeInv, RoomShapes, NEW c \in Calls, AskWindow(c), call[c].before <= head + 1
  PROVE  /\ TypeInv' /\ call[c] \in PullCalls
         /\ \/ /\ queue' = queue /\ GoesOn(c, [call[c] EXCEPT !.pc = "pulled"])
               /\ call[c].before <= call[c].base + 1
            \/ \E lo \in Nat :
               LET job == [do |-> "events", by |-> c, events |-> lo .. call[c].before - 1] IN
                 /\ call[c].base < lo /\ lo < call[c].before
                 /\ Post(job) /\ job \in Jobs
                 /\ GoesOn(c, [pc |-> "wait", base |-> call[c].base, before |-> lo,
                               top |-> IF call[c].top = 0 THEN call[c].before - 1 ELSE call[c].top])
<1>0. call[c] \in CallStates /\ head \in Nat
  BY DEF TypeInv, Types
<1>1. call[c] \in PullCalls /\ call[c].base \in Nat /\ call[c].before \in Nat /\ call[c].top \in Nat
  BY <1>0, CallKinds DEF AskWindow
<1>2. DEFINE got == NewestEvents(call[c].base, call[c].before)
<1>3. /\ got \subseteq 1 .. head /\ (got = {} => call[c].before <= call[c].base + 1)
      /\ got # {} => \E lo \in Nat : /\ got = lo .. call[c].before - 1
                                     /\ call[c].base < lo /\ lo < call[c].before
                                     /\ Min(got) = lo /\ Max(got) = call[c].before - 1
  BY <1>0, <1>1, WindowIs
<1>4. /\ call[c].pc # "wait"
      /\ UNCHANGED <<roomServer, roomsLine, task, callers, touched, cacheDb, owes, roomGhosts,
                     roomsLeft>>
  BY DEF AskWindow
<1>5. CASE got = {}
  <2>1. GoesOn(c, [call[c] EXCEPT !.pc = "pulled"]) /\ queue' = queue
    BY <1>5 DEF AskWindow
  <2>2. [call[c] EXCEPT !.pc = "pulled"] \in PlainCalls \cup PullCalls
    BY <1>1, PullGoesOn
  <2>3. TypeInv'
    BY <1>4, <2>1, <2>2, MovingTyped
  <2> QED BY <1>1, <1>3, <1>5, <2>1, <2>3
<1>6. CASE got # {}
  <2>1. PICK lo \in Nat : /\ got = lo .. call[c].before - 1
                          /\ call[c].base < lo /\ lo < call[c].before
                          /\ Min(got) = lo /\ Max(got) = call[c].before - 1
    BY <1>3, <1>6
  <2>2. DEFINE job == [do |-> "events", by |-> c, events |-> lo .. call[c].before - 1]
               top == IF call[c].top = 0 THEN call[c].before - 1 ELSE call[c].top
               x == [pc |-> "wait", base |-> call[c].base, before |-> lo, top |-> top]
  <2>3. Post(job) /\ GoesOn(c, x)
    BY <1>6, <2>1 DEF AskWindow
  <2>4. job \in Jobs /\ job.by = c /\ job.do = "events"
    BY DEF Jobs, EventJobs, Owners
  <2>5. top \in Nat
    BY <1>1, <2>1
  <2> HIDE DEF top
  <2>6. x \in PlainCalls \cup PullCalls /\ x \in PullCalls /\ x.pc = "wait"
    BY <1>1, <2>5, PullOnes
  <2>7. TypeInv'
    <3> HIDE DEF job, x
    <3> QED BY <1>4, <2>3, <2>4, <2>6, PostingTyped
  <2> QED BY <1>1, <2>1, <2>3, <2>4, <2>7 DEF top
<1> HIDE DEF got
<1> QED BY <1>5, <1>6

LEMMA MarkRecentSteps ==
  ASSUME TypeInv, RoomShapes, NEW c \in Calls, MarkRecent(c)
  PROVE  /\ TypeInv' /\ call[c] \in PullCalls
         /\ \/ queue' = queue /\ GoesOn(c, Resting)
            \/ LET job == [do |-> "mark", by |-> c, at |-> call[c].top] IN
                 Post(job) /\ job \in Jobs /\ GoesOn(c, [pc |-> "wait"])
<1>0. call[c] \in CallStates
  BY DEF TypeInv, Types
<1>1. call[c] \in PullCalls /\ call[c].top \in Nat /\ call[c].pc # "wait"
  BY <1>0, CallKinds DEF MarkRecent
<1>4. UNCHANGED <<roomServer, roomsLine, task, callers, touched, cacheDb, owes, roomGhosts,
                     roomsLeft>>
  BY DEF MarkRecent
<1>5. CASE call[c].top = 0
  <2>1. GoesOn(c, Resting) /\ queue' = queue
    BY <1>5 DEF MarkRecent
  <2>2. Resting \in PlainCalls \cup PullCalls
    BY RestingIsPlain
  <2> QED BY <1>1, <1>4, <2>1, <2>2, MovingTyped
<1>6. CASE call[c].top # 0
  <2>1. DEFINE job == [do |-> "mark", by |-> c, at |-> call[c].top]
               x == [pc |-> "wait"]
  <2>2. Post(job) /\ GoesOn(c, x)
    BY <1>6 DEF MarkRecent
  <2>3. job \in Jobs /\ job.by = c /\ job.do # "events"
    BY <1>1 DEF Jobs, MarkJobs
  <2>4. x \in PlainCalls \cup PullCalls /\ x \notin PullCalls /\ x.pc = "wait"
    BY PlainOnes
  <2>5. TypeInv'
    <3> HIDE DEF job, x
    <3> QED BY <1>1, <1>4, <2>2, <2>3, <2>4, PostingTyped
  <2> QED BY <1>1, <2>2, <2>3, <2>5
<1> QED BY <1>5, <1>6

LEMMA RecordSteps ==
  ASSUME TypeInv, RoomShapes, NEW c \in Calls, Record(c)
  PROVE  /\ TypeInv' /\ call[c] \in AnsweredCalls \cup FetchedCalls
         /\ call[c].job \in AnswerJobs \cup RoundJobs /\ call[c].job \in Jobs
         /\ call[c].job.do \notin {"push", "events"}
         /\ call[c].job.do = "round" <=> call[c].pc = "fetched"
         /\ call[c].job.by = c /\ Post(call[c].job) /\ GoesOn(c, [pc |-> "wait"])
<1>0. call[c] \in CallStates
  BY DEF TypeInv, Types
<1>1. /\ call[c] \in AnsweredCalls \cup FetchedCalls /\ call[c].pc # "wait"
      /\ call[c].job \in AnswerJobs \cup RoundJobs
      /\ call[c].pc = "fetched" => call[c].job \in RoundJobs
      /\ call[c].pc # "fetched" => call[c].job \in AnswerJobs
  BY <1>0, CallKinds DEF Record
<1>2. call[c].job.by = c
  BY <1>1 DEF TypeInv, Theirs
<1>3. /\ call[c].job \in Jobs /\ call[c].job.do \notin {"push", "events"}
      /\ call[c].job.do = "round" <=> call[c].pc = "fetched"
  BY <1>1, AnswersAreJobs
<1>4. Post(call[c].job) /\ GoesOn(c, [pc |-> "wait"])
  BY DEF Record
<1>5. [pc |-> "wait"] \in PlainCalls /\ [pc |-> "wait"] \notin PullCalls
  BY PlainOnes
<1>6. UNCHANGED <<roomServer, roomsLine, task, callers, touched, cacheDb, owes, roomGhosts,
                     roomsLeft>>
  BY DEF Record
<1>7. TypeInv'
  BY <1>1, <1>2, <1>3, <1>4, <1>5, <1>6, PostingTyped
<1> QED BY <1>1, <1>2, <1>3, <1>4, <1>7

LEMMA RoomsCrashTyped == ASSUME TypeInv, RoomShapes, RoomsCrash PROVE TypeInv'
<1>1. /\ queue' = <<>> /\ task' = Resting /\ \A c \in Calls : call'[c] = Resting
      /\ call' \in [Calls -> {Resting}]
  BY DEF RoomsCrash
<1>2. Resting \in PlainCalls /\ Resting \in Tasks /\ Resting \notin AnsweredCalls \cup FetchedCalls
  BY DEF Resting, PlainCalls, Tasks, AnsweredCalls, FetchedCalls
<1>3. Theirs'
  <2>1. DOMAIN queue' = {}
    BY <1>1
  <2> QED BY <1>1, <1>2, <2>1 DEF Theirs
<1>4. \E t \in RoomIds : Newest(t)'
  BY SameNewest DEF RoomsCrash, TypeInv, Types, roomServer
<1>5. queue' \in Seq(Jobs) /\ wire' \in Seq(Pushes) /\ feed' \in Seq(Nat)
  BY DEF RoomsCrash
<1>6. call' \in [Calls -> CallStates]
  BY <1>1, <1>2 DEF CallStates
<1>7. touched' \in [RoomIds -> Nat] /\ callers' \in Int
  BY DEF RoomsCrash, Untouched
<1>8. /\ on' \in BOOLEAN /\ told' \in BOOLEAN /\ lost' \in BOOLEAN /\ owes' \in BOOLEAN
  BY DEF RoomsCrash
<1>9. roomsLeft' \in [Chances -> Nat]
  BY FewerLeft DEF RoomsCrash, TypeInv, Types, Chances
<1> QED
  BY <1>1, <1>2, <1>3, <1>4, <1>5, <1>6, <1>7, <1>8, <1>9
     DEF TypeInv, Types, RoomsCrash, roomServer, cacheDb, roomGhosts

LEMMA AppliedTyped ==
  ASSUME TypeInv, RoomShapes, queue # <<>>,
         ApplyPush \/ ApplyRound \/ ApplyMember \/ ApplyJoined
         \/ ApplyLook \/ ApplyForget \/ ApplyEvents \/ ApplyMark
  PROVE  /\ mem' \in [RoomIds -> Memberships \cup {Absent}]
         /\ looks' \in [RoomIds -> {"yes", "no", "unknown", Absent}]
         /\ stored' \subseteq Nat /\ watermark' \in Nat
         /\ stale' \subseteq RoomIds /\ spilt' \subseteq RoomIds /\ asOf' \in Nat
<1>1. Job \in Jobs
  BY Gone DEF TypeInv, Types, Job
<1>2. /\ mem \in [RoomIds -> Memberships \cup {Absent}]
      /\ looks \in [RoomIds -> {"yes", "no", "unknown", Absent}]
      /\ stored \subseteq Nat /\ watermark \in Nat
      /\ stale \subseteq RoomIds /\ spilt \subseteq RoomIds /\ asOf \in Nat /\ Talk \in RoomIds
  BY DEF TypeInv, Types, RoomShapes
<1>3. \A r \in RoomIds : Row(r) \in {"yes", "no", "unknown", Absent}
  BY <1>2 DEF Row
<1>4. CASE ApplyPush
  BY <1>1, <1>2, <1>3, <1>4, JobKinds DEF ApplyPush
<1>5. CASE ApplyRound
  <2>1. Job.at \in Nat
    BY <1>1, <1>5, JobKinds DEF ApplyRound
  <2>2. asOf' \in Nat
    BY <1>2, <1>5, <2>1, MaxOfTwo DEF ApplyRound
  <2>3. stale' \subseteq RoomIds
    BY <1>2, <1>5 DEF ApplyRound
  <2>4. /\ mem' \in [RoomIds -> Memberships \cup {Absent}]
        /\ looks' \in [RoomIds -> {"yes", "no", "unknown", Absent}]
    BY <1>2, <1>3, <1>5 DEF ApplyRound, Memberships
  <2> QED BY <1>2, <1>5, <2>2, <2>3, <2>4 DEF ApplyRound
<1>6. CASE ApplyMember
  <2>1. Job.room \in RoomIds /\ Job.m \in Memberships
    BY <1>1, <1>6, JobKinds DEF ApplyMember, Memberships
  <2> QED BY <1>2, <1>3, <1>6, <2>1 DEF ApplyMember, Aged
<1>7. CASE ApplyJoined
  <2>1. /\ mem' \in [RoomIds -> Memberships \cup {Absent}]
        /\ looks' \in [RoomIds -> {"yes", "no", "unknown", Absent}]
    BY <1>2, <1>3, <1>7 DEF ApplyJoined, Memberships
  <2> QED BY <1>2, <1>7, <2>1 DEF ApplyJoined
<1>8. CASE ApplyLook
  <2>1. Job.room \in RoomIds /\ Job.seen \in {"yes", "no"}
    BY <1>1, <1>8, JobKinds DEF ApplyLook
  <2>2. Rise(looks[Job.room], Job.seen) \in {"yes", "no", "unknown", Absent}
    BY <1>2, <2>1 DEF Rise
  <2> QED BY <1>2, <1>8, <2>1, <2>2 DEF ApplyLook, roomGhosts, Memberships
<1>9. CASE ApplyForget
  <2>1. Job.room \in RoomIds
    BY <1>1, <1>9, JobKinds DEF ApplyForget
  <2> QED BY <1>2, <1>9, <2>1 DEF ApplyForget, Aged
<1>10. CASE ApplyEvents
  <2>1. Job.events \subseteq Nat
    BY <1>1, <1>10, JobKinds DEF ApplyEvents
  <2> QED BY <1>2, <1>3, <1>10, <2>1 DEF ApplyEvents, roomGhosts
<1>11. CASE ApplyMark
  <2>1. Job.at \in Nat
    BY <1>1, <1>11, JobKinds DEF ApplyMark
  <2> QED BY <1>2, <1>11, <2>1 DEF ApplyMark, roomGhosts
<1> QED
  BY <1>4, <1>5, <1>6, <1>7, <1>8, <1>9, <1>10, <1>11

LEMMA CommitTyped == ASSUME TypeInv, RoomShapes, Commit PROVE TypeInv'
<1>1. queue # <<>> /\ queue' = Tail(queue) /\ Report("stored")
  BY DEF Commit
<1>2. call' \in [Calls -> CallStates] /\ task' \in Tasks
  BY <1>1, Reported
<1>3. Theirs' /\ queue' \in Seq(Jobs)
  BY <1>1, ReportKeepsTheirs
<1>4. /\ mem' \in [RoomIds -> Memberships \cup {Absent}]
      /\ looks' \in [RoomIds -> {"yes", "no", "unknown", Absent}]
      /\ stored' \subseteq Nat /\ watermark' \in Nat
      /\ stale' \subseteq RoomIds /\ spilt' \subseteq RoomIds /\ asOf' \in Nat
  BY AppliedTyped DEF Commit
<1>5. \E t \in RoomIds : Newest(t)'
  BY SameNewest DEF Commit, TypeInv, Types, roomServer
<1> QED
  BY <1>2, <1>3, <1>4, <1>5 DEF Commit, TypeInv, Types, roomServer, roomsLine

LEMMA WriteFailsTyped == ASSUME TypeInv, RoomShapes, WriteFails PROVE TypeInv'
<1>1. queue # <<>> /\ queue' = Tail(queue) /\ Report("failed")
  BY DEF WriteFails
<1>2. call' \in [Calls -> CallStates] /\ task' \in Tasks
  BY <1>1, Reported
<1>3. Theirs' /\ queue' \in Seq(Jobs)
  BY <1>1, ReportKeepsTheirs
<1>5. \E t \in RoomIds : Newest(t)'
  BY SameNewest DEF WriteFails, TypeInv, Types, roomServer
<1>6. roomsLeft' \in [Chances -> Nat]
  BY FewerLeft DEF WriteFails, TypeInv, Types, Chances
<1> QED
  BY <1>2, <1>3, <1>5, <1>6
     DEF WriteFails, TypeInv, Types, roomServer, roomsLine, cacheDb, roomGhosts

----------------------------------------------------------------------------
(***************************************************************************)
(* The claims of the cache.  A mark follows the events it speaks of in the *)
(* queue of one writer (CoverInv); a pull has what is below its base and   *)
(* what its windows gave (PullIsCovered).                                  *)
(***************************************************************************)

\* What the cache has, or lacks on purpose.
Good == stored \cup waived

\* Nothing is known of events the room does not have.
Known ==
  /\ sealAt <= head /\ stored \subseteq 1 .. head
  /\ \A i \in DOMAIN feed : feed[i] \in 1 .. head
  /\ \A i \in DOMAIN queue : queue[i].do = "events" => queue[i].events \subseteq 1 .. head
  /\ \A c \in Calls : call[c] \in PullCalls => call[c].before <= head + 1

\* A pull has what is below its base and what its windows gave so far.
PullIsCovered(c) == call[c] \in PullCalls =>
  /\ 1 .. call[c].base \subseteq Good
  /\ call[c].pc \in {"window", "stored"} => call[c].before .. call[c].top \subseteq Good
  /\ call[c].pc = "pulled" => 1 .. call[c].top \subseteq Good
  /\ call[c].pc = "wait" => \A i \in DOMAIN queue : queue[i].by = c =>
       call[c].before .. call[c].top \subseteq Good \cup queue[i].events

CoverInv ==
  /\ Known
  /\ 1 .. watermark \subseteq Good
  /\ \A i \in DOMAIN queue : queue[i].do = "mark" => 1 .. queue[i].at \subseteq Good
  /\ \A c \in Calls : PullIsCovered(c)
  /\ (\E e \in stored : Shows(e)) => looks[Talk] = "yes"

LEMMA CoverInit == RoomsInit /\ RoomShapes => CoverInv
<1> SUFFICES ASSUME RoomsInit, RoomShapes PROVE CoverInv
  OBVIOUS
<1>1. /\ DOMAIN queue = {} /\ DOMAIN feed = {} /\ stored = {} /\ watermark = 0
      /\ head = 0 /\ sealAt = 0
  BY DEF RoomsInit
<1>2. \A c \in Calls : call[c] \notin PullCalls
  BY RestingIsPlain DEF RoomsInit
<1> QED BY <1>1, <1>2 DEF CoverInv, Known, PullIsCovered

\* Nothing that counts for the events changes, but perhaps what the line had is lost.
LEMMA CoverStays ==
  ASSUME CoverInv, UNCHANGED <<head, sealAt, queue, looks, stored, watermark, waived, call>>,
         feed' = feed \/ feed' = <<>>
  PROVE  CoverInv'
<1>1. \A c \in Calls : PullIsCovered(c)'
  BY DEF CoverInv, PullIsCovered, Good
<1>2. \A i \in DOMAIN feed' : feed'[i] \in 1 .. head
  <2>1. CASE feed' = feed
    BY <2>1 DEF CoverInv, Known
  <2>2. CASE feed' = <<>>
    BY <2>2
  <2> QED BY <2>1, <2>2
<1>3. Known'
  BY <1>2 DEF CoverInv, Known
<1> QED
  BY <1>1, <1>3 DEF CoverInv, Good, Shows

\* A call goes on and writes nothing.
LEMMA CoverMoves ==
  ASSUME CoverInv, TypeInv, UNCHANGED <<head, sealAt, feed, queue, looks, stored, watermark>>,
         NEW c \in Calls, NEW x, GoesOn(c, x), waived \subseteq waived',
         x \in PullCalls =>
           /\ x.pc # "wait" /\ x.before <= head + 1 /\ 1 .. x.base \subseteq Good'
           /\ x.pc \in {"window", "stored"} => x.before .. x.top \subseteq Good'
           /\ x.pc = "pulled" => 1 .. x.top \subseteq Good'
  PROVE  CoverInv'
<1>1. call'[c] = x /\ \A d \in Calls : d # c => call'[d] = call[d]
  BY DEF GoesOn, TypeInv, Types
<1>2. Good \subseteq Good'
  BY DEF Good
<1>3. ASSUME NEW d \in Calls PROVE PullIsCovered(d)'
  <2>1. CASE d = c
    BY <1>1, <2>1 DEF PullIsCovered
  <2>2. CASE d # c
    <3>1. PullIsCovered(d) /\ call'[d] = call[d]
      BY <1>1, <2>2 DEF CoverInv
    <3> QED BY <1>2, <3>1 DEF PullIsCovered
  <2> QED BY <2>1, <2>2
<1>4. \A d \in Calls : call'[d] \in PullCalls => call'[d].before <= head + 1
  BY <1>1 DEF CoverInv, Known
<1>5. Known'
  BY <1>4 DEF CoverInv, Known
<1> QED
  BY <1>2, <1>3, <1>5 DEF CoverInv, Shows

LEMMA CoverPlainMove ==
  ASSUME CoverInv, TypeInv, UNCHANGED <<head, sealAt, feed, queue, looks, stored, watermark>>,
         NEW c \in Calls, NEW x, GoesOn(c, x), waived' = waived, x \notin PullCalls
  PROVE  CoverInv'
BY CoverMoves

\* A job is posted.
LEMMA CoverPosts ==
  ASSUME CoverInv, TypeInv, UNCHANGED <<head, sealAt, looks, stored, watermark, waived>>,
         \A i \in DOMAIN feed' : feed'[i] \in 1 .. head,
         NEW job \in Jobs, Post(job), \A d \in Calls : d # job.by => call'[d] = call[d],
         job.do = "mark" => 1 .. job.at \subseteq Good,
         job.do = "events" => job.events \subseteq 1 .. head,
         job.by \in Calls =>
           /\ call[job.by].pc # "wait"
           /\ call'[job.by] \in PullCalls =>
                LET x == call'[job.by] IN
                /\ x.pc = "wait" /\ x.before <= head + 1 /\ 1 .. x.base \subseteq Good
                /\ x.before .. x.top \subseteq Good \cup job.events
  PROVE  CoverInv'
<1>1. queue \in Seq(Jobs)
  BY DEF TypeInv, Types
<1>2. /\ DOMAIN queue = 1 .. Len(queue) /\ DOMAIN queue' = 1 .. Len(queue) + 1 /\ Len(queue) \in Nat
      /\ \A i \in DOMAIN queue : queue'[i] = queue[i]
      /\ queue'[Len(queue) + 1] = job
  BY <1>1, JobPosted
<1>3. DEFINE last == Len(queue) + 1
<1>4. DOMAIN queue' = DOMAIN queue \cup {last} /\ queue'[last] = job
  BY <1>2
<1> HIDE DEF last
<1>5. Good' = Good
  BY DEF Good
<1>6. ASSUME NEW d \in Calls PROVE PullIsCovered(d)'
  <2>1. CASE d = job.by
    <3>1. \A i \in DOMAIN queue : queue[i].by # d
      BY <2>1 DEF TypeInv, Theirs
    <3>2. \A i \in DOMAIN queue' : queue'[i].by = d => queue'[i] = job
      BY <1>2, <1>4, <3>1
    <3>3. call'[d] \in PullCalls =>
            /\ call'[d].pc = "wait" /\ call'[d].before <= head + 1
            /\ 1 .. call'[d].base \subseteq Good
            /\ call'[d].before .. call'[d].top \subseteq Good \cup job.events
      BY <2>1
    <3> QED BY <1>5, <3>2, <3>3 DEF PullIsCovered
  <2>2. CASE d # job.by
    <3>1. PullIsCovered(d) /\ call'[d] = call[d]
      BY <2>2 DEF CoverInv
    <3>2. \A i \in DOMAIN queue' : queue'[i].by = d => i \in DOMAIN queue /\ queue'[i] = queue[i]
      BY <1>2, <1>4, <2>2
    <3> QED BY <1>5, <3>1, <3>2 DEF PullIsCovered
  <2> QED BY <2>1, <2>2
<1>7. \A d \in Calls : call'[d] \in PullCalls => call'[d].before <= head + 1
  BY DEF CoverInv, Known
<1>8. \A i \in DOMAIN queue' : /\ queue'[i].do = "events" => queue'[i].events \subseteq 1 .. head
                               /\ queue'[i].do = "mark" => 1 .. queue'[i].at \subseteq Good
  BY <1>2, <1>4 DEF CoverInv, Known
<1>9. Known'
  BY <1>7, <1>8 DEF CoverInv, Known
<1> QED
  BY <1>5, <1>6, <1>8, <1>9 DEF CoverInv, Shows

LEMMA CoverNewEvent == ASSUME CoverInv, TypeInv, NewEvent PROVE CoverInv'
<1>1. /\ head \in Nat /\ head' = head + 1
         /\ (sealAt' = sealAt \/ (sealAt = 0 /\ sealAt' = head + 1))
      /\ sealAt \in Nat /\ UNCHANGED <<queue, looks, stored, watermark, waived, call>>
      /\ feed \in Seq(Nat) /\ (feed' = feed \/ feed' = Append(feed, head + 1))
  <2>1. sealAt' = sealAt \/ (sealAt = 0 /\ sealAt' = head + 1)
    BY DEF NewEvent
  <2> QED BY <2>1 DEF NewEvent, TypeInv, Types, cacheDb, roomGhosts
<1>2. 1 .. head \subseteq 1 .. head'
  BY <1>1
<1>3. \A i \in DOMAIN feed' : feed'[i] \in 1 .. head'
  <2>1. \A i \in DOMAIN feed : feed[i] \in 1 .. head'
    BY <1>2 DEF CoverInv, Known
  <2>2. CASE feed' = Append(feed, head + 1)
    BY <1>1, <2>1, <2>2
  <2> QED BY <1>1, <2>1, <2>2
<1>4. \A c \in Calls : PullIsCovered(c)'
  BY <1>1 DEF CoverInv, PullIsCovered, Good
<1>5. \A c \in Calls : call[c] \in PullCalls => call[c].before \in Nat
  BY CallKinds DEF TypeInv, Types
<1>6. Known'
  <2>1. \A c \in Calls : call'[c] \in PullCalls => call'[c].before <= head' + 1
    BY <1>1, <1>5 DEF CoverInv, Known
  <2>2. sealAt' <= head'
    BY <1>1 DEF CoverInv, Known
  <2>3. /\ stored' \subseteq 1 .. head'
        /\ \A i \in DOMAIN queue' : queue'[i].do = "events" => queue'[i].events \subseteq 1 .. head'
    BY <1>1, <1>2 DEF CoverInv, Known
  <2> QED BY <1>3, <2>1, <2>2, <2>3 DEF Known
<1>7. ASSUME NEW e \in stored, Shows(e)' PROVE Shows(e)
  <2>1. e \in 1 .. head
    BY <1>7 DEF CoverInv, Known
  <2> QED BY <1>1, <1>7, <2>1 DEF Shows
<1> QED
  BY <1>1, <1>4, <1>6, <1>7 DEF CoverInv, Good

LEMMA CoverSubscribe == ASSUME CoverInv, TypeInv, RoomShapes, Subscribe PROVE CoverInv'
<1>1. /\ DOMAIN queue' = DOMAIN queue
      /\ \A i \in DOMAIN queue : /\ queue[i].by # Task => queue'[i] = queue[i]
                                 /\ queue[i].by = Task => queue'[i].by = Absent
                                 /\ queue'[i].do = queue[i].do
                                 /\ queue[i].do = "events" => queue'[i].events = queue[i].events
                                 /\ queue[i] \in Jobs
  BY Orphaned DEF TypeInv, Types
<1>2. Absent \notin Calls /\ Task \notin Calls
  BY DEF RoomShapes
<1>3. UNCHANGED <<head, sealAt, feed, looks, stored, watermark, waived, call>>
  BY DEF Subscribe, cacheDb, roomGhosts, roomServer
<1>4. \A c \in Calls : \A i \in DOMAIN queue : queue'[i].by = c => queue'[i] = queue[i]
  BY <1>1, <1>2
<1>5. \A c \in Calls : PullIsCovered(c)'
  BY <1>1, <1>3, <1>4 DEF CoverInv, PullIsCovered, Good
<1>6. \A i \in DOMAIN queue : queue[i].do = "mark" => queue'[i] = queue[i]
  BY <1>1, <1>2, JobKinds
<1>7. Known'
  BY <1>1, <1>3 DEF CoverInv, Known
<1> QED
  BY <1>1, <1>3, <1>5, <1>6, <1>7 DEF CoverInv, Good, Shows

LEMMA CoverWriteInvite == ASSUME CoverInv, TypeInv, RoomShapes, WriteInvite PROVE CoverInv'
<1>1. DEFINE job == [do |-> "push", by |-> Task, room |-> task.push.room, m |-> task.push.m]
<1>2. job \in Jobs /\ job.by = Task /\ job.do = "push" /\ Post(job)
  BY WriteInviteTyped, PushesAre DEF WriteInvite, PushTasks, Jobs, PushJobs
<1>3. Task \notin Calls
  BY DEF RoomShapes
<1>4. UNCHANGED <<head, sealAt, looks, stored, watermark, waived, call, feed>>
  BY DEF WriteInvite, cacheDb, roomGhosts, roomServer, roomsLine
<1>5. \A i \in DOMAIN feed' : feed'[i] \in 1 .. head
  BY <1>4 DEF CoverInv, Known
<1> HIDE DEF job
<1> QED BY <1>2, <1>3, <1>4, <1>5, CoverPosts

LEMMA CoverTakeEvents == ASSUME CoverInv, TypeInv, RoomShapes, TakeEvents PROVE CoverInv'
<1>1. feed \in Seq(Nat) /\ feed # <<>> /\ feed' = Tail(feed)
  BY DEF TypeInv, Types, TakeEvents
<1>2. /\ 1 \in DOMAIN feed /\ Head(feed) = feed[1] /\ Head(feed) \in Nat
      /\ \A i \in DOMAIN feed' : feed'[i] = feed[i + 1] /\ i + 1 \in DOMAIN feed
  BY <1>1, HeadTailProperties
<1>3. \A i \in DOMAIN feed' : feed'[i] \in 1 .. head
  BY <1>2 DEF CoverInv, Known
<1>4. DEFINE job == [do |-> "events", by |-> Task, events |-> {Head(feed)}]
<1>5. job \in Jobs /\ job.by = Task /\ job.do = "events" /\ Post(job) /\ job.events = {Head(feed)}
  BY <1>2 DEF TakeEvents, Jobs, EventJobs, Owners
<1>6. Task \notin Calls
  BY DEF RoomShapes
<1>7. UNCHANGED <<head, sealAt, looks, stored, watermark, waived, call>>
  BY DEF TakeEvents, cacheDb, roomGhosts, roomServer
<1>8. Head(feed) \in 1 .. head
  BY <1>2 DEF CoverInv, Known
<1> HIDE DEF job
<1> QED BY <1>3, <1>5, <1>6, <1>7, <1>8, CoverPosts

LEMMA CoverRecent ==
  ASSUME CoverInv, TypeInv, RoomShapes, NEW c \in Calls, Recent(c)
  PROVE  CoverInv'
<1>1. PICK base \in {watermark, 0} :
        GoesOn(c, [pc |-> "window", base |-> base, before |-> head + 1, top |-> 0])
  BY DEF Recent
<1>2. DEFINE x == [pc |-> "window", base |-> base, before |-> head + 1, top |-> 0]
<1>3. base \in Nat /\ head \in Nat /\ head + 1 \in Nat
  BY DEF TypeInv, Types
<1>4. /\ x.pc = "window" /\ x.base = base /\ x.before = head + 1 /\ x.top = 0
      /\ GoesOn(c, x)
  BY <1>1
<1>5. UNCHANGED <<head, sealAt, feed, queue, looks, stored, watermark, waived>>
  BY DEF Recent, cacheDb, roomGhosts, roomServer, roomsLine
<1>6. 1 .. base \subseteq Good' /\ Good' = Good
  BY <1>5 DEF CoverInv, Good
<1>7. x.before .. x.top = {}
  BY <1>3, <1>4
<1> HIDE DEF x
<1> QED BY <1>3, <1>4, <1>5, <1>6, <1>7, CoverMoves

LEMMA CoverNextWindow ==
  ASSUME CoverInv, TypeInv, RoomShapes, NEW c \in Calls, NextWindow(c) PROVE CoverInv'
<1>1. call[c] \in PullCalls /\ call[c].pc = "stored" /\ PullIsCovered(c)
      /\ call[c].before <= head + 1
  BY CallKinds DEF NextWindow, TypeInv, Types, CoverInv, Known
<1>2. call[c].base \in Nat /\ call[c].before \in Nat /\ call[c].top \in Nat
  BY <1>1, CallKinds DEF TypeInv, Types
<1>3. UNCHANGED <<head, sealAt, feed, queue, looks, stored, watermark>>
  BY DEF NextWindow, cacheDb, roomServer, roomsLine
<1>4. 1 .. call[c].base \subseteq Good /\ call[c].before .. call[c].top \subseteq Good
  BY <1>1 DEF PullIsCovered
<1>5. CASE GoesOn(c, [call[c] EXCEPT !.pc = "window"]) /\ waived' = waived
  <2>1. DEFINE x == [call[c] EXCEPT !.pc = "window"]
  <2>2. x.pc = "window" /\ x.base = call[c].base /\ x.before = call[c].before /\ x.top = call[c].top
    BY <1>1, PullGoesOn
  <2>3. Good' = Good
    BY <1>3, <1>5 DEF Good
  <2> HIDE DEF x
  <2>4. GoesOn(c, x)
    BY <1>5 DEF x
  <2> QED BY <1>1, <1>3, <1>4, <1>5, <2>2, <2>3, <2>4, CoverMoves
<1>6. CASE /\ GoesOn(c, [call[c] EXCEPT !.pc = "pulled"])
           /\ waived' = waived \cup ((call[c].base + 1) .. (call[c].before - 1))
  <2>1. DEFINE x == [call[c] EXCEPT !.pc = "pulled"]
  <2>2. x.pc = "pulled" /\ x.base = call[c].base /\ x.before = call[c].before /\ x.top = call[c].top
    BY <1>1, PullGoesOn
  <2>3. Good \subseteq Good' /\ (call[c].base + 1) .. (call[c].before - 1) \subseteq Good'
    BY <1>3, <1>6 DEF Good
  <2>4. 1 .. call[c].top \subseteq Good'
    <3>1. SUFFICES ASSUME NEW e \in 1 .. call[c].top PROVE e \in Good'
      OBVIOUS
    <3>2. \/ e \in 1 .. call[c].base \/ e \in (call[c].base + 1) .. (call[c].before - 1)
          \/ e \in call[c].before .. call[c].top
      BY <1>2
    <3> QED BY <1>4, <2>3, <3>2
  <2> HIDE DEF x
  <2>5. GoesOn(c, x)
    BY <1>6 DEF x
  <2> QED BY <1>1, <1>3, <1>4, <1>6, <2>2, <2>3, <2>4, <2>5, CoverMoves
<1> QED BY <1>5, <1>6 DEF NextWindow

LEMMA CoverAskWindow ==
  ASSUME CoverInv, TypeInv, RoomShapes, NEW c \in Calls, AskWindow(c) PROVE CoverInv'
<1>1. call[c] \in PullCalls /\ call[c].pc = "window" /\ PullIsCovered(c)
      /\ call[c].before <= head + 1
  BY CallKinds DEF AskWindow, TypeInv, Types, CoverInv, Known
<1>2. /\ call[c].base \in Nat /\ call[c].before \in Nat /\ call[c].top \in Nat /\ head \in Nat
      /\ call \in [Calls -> CallStates]
  BY <1>1, CallKinds DEF TypeInv, Types
<1>3. UNCHANGED <<head, sealAt, feed, looks, stored, watermark, waived>>
  BY DEF AskWindow, cacheDb, roomServer, roomsLine, roomGhosts
<1>4. 1 .. call[c].base \subseteq Good /\ call[c].before .. call[c].top \subseteq Good
  BY <1>1 DEF PullIsCovered
<1>5. CASE /\ queue' = queue /\ GoesOn(c, [call[c] EXCEPT !.pc = "pulled"])
           /\ call[c].before <= call[c].base + 1
  <2>1. DEFINE x == [call[c] EXCEPT !.pc = "pulled"]
  <2>2. x.pc = "pulled" /\ x.base = call[c].base /\ x.before = call[c].before /\ x.top = call[c].top
    BY <1>1, PullGoesOn
  <2>3. Good = Good'
    BY <1>3 DEF Good
  <2>4. 1 .. call[c].top \subseteq Good'
    <3>1. SUFFICES ASSUME NEW e \in 1 .. call[c].top PROVE e \in Good'
      OBVIOUS
    <3>2. e \in 1 .. call[c].base \/ e \in call[c].before .. call[c].top
      BY <1>2, <1>5
    <3> QED BY <1>4, <2>3, <3>2
  <2> HIDE DEF x
  <2>5. GoesOn(c, x)
    BY <1>5 DEF x
  <2> QED BY <1>1, <1>3, <1>4, <1>5, <2>2, <2>3, <2>4, <2>5, CoverMoves
<1>6. ASSUME NEW lo \in Nat, NEW job \in Jobs,
             job = [do |-> "events", by |-> c, events |-> lo .. call[c].before - 1],
             call[c].base < lo, lo < call[c].before, Post(job),
             GoesOn(c, [pc |-> "wait", base |-> call[c].base, before |-> lo,
                        top |-> IF call[c].top = 0 THEN call[c].before - 1 ELSE call[c].top])
      PROVE  CoverInv'
  <2>1. DEFINE top == IF call[c].top = 0 THEN call[c].before - 1 ELSE call[c].top
               x == [pc |-> "wait", base |-> call[c].base, before |-> lo, top |-> top]
  <2>2. x.pc = "wait" /\ x.base = call[c].base /\ x.before = lo /\ x.top = top
    OBVIOUS
  <2>3. GoesOn(c, x)
    BY <1>6
  <2>4. lo .. top \subseteq Good \cup (lo .. call[c].before - 1)
    <3>1. SUFFICES ASSUME NEW e \in lo .. top PROVE e \in Good \cup (lo .. call[c].before - 1)
      OBVIOUS
    <3>2. e \in lo .. call[c].before - 1 \/ e \in call[c].before .. call[c].top
      BY <1>2, <1>6
    <3> QED BY <1>4, <3>2
  <2>5. job.by = c /\ job.do = "events" /\ job.events = lo .. call[c].before - 1
    BY <1>6
  <2>6. job.events \subseteq 1 .. head
    BY <1>1, <1>2, <1>6, <2>5
  <2>7. lo <= head + 1
    BY <1>1, <1>2, <1>6
  <2> HIDE DEF x, top
  <2>8. call'[c] = x /\ \A d \in Calls : d # c => call'[d] = call[d]
    BY <1>2, <2>3 DEF GoesOn
  <2>9. \A i \in DOMAIN feed' : feed'[i] \in 1 .. head
    BY <1>3 DEF CoverInv, Known
  <2> QED BY <1>1, <1>3, <1>4, <1>6, <2>2, <2>4, <2>5, <2>6, <2>7, <2>8, <2>9, CoverPosts
<1>7. \/ /\ queue' = queue /\ GoesOn(c, [call[c] EXCEPT !.pc = "pulled"])
         /\ call[c].before <= call[c].base + 1
      \/ \E lo \in Nat :
           LET job == [do |-> "events", by |-> c, events |-> lo .. call[c].before - 1] IN
           /\ call[c].base < lo /\ lo < call[c].before
           /\ Post(job) /\ job \in Jobs
           /\ GoesOn(c, [pc |-> "wait", base |-> call[c].base, before |-> lo,
                         top |-> IF call[c].top = 0 THEN call[c].before - 1 ELSE call[c].top])
  BY <1>1, AskWindowSteps
<1> QED BY <1>5, <1>6, <1>7

LEMMA CoverMarkRecent ==
  ASSUME CoverInv, TypeInv, RoomShapes, NEW c \in Calls, MarkRecent(c) PROVE CoverInv'
<1>1. /\ call[c] \in PullCalls
      /\ \/ queue' = queue /\ GoesOn(c, Resting)
         \/ LET job == [do |-> "mark", by |-> c, at |-> call[c].top] IN
              Post(job) /\ job \in Jobs /\ GoesOn(c, [pc |-> "wait"])
  BY MarkRecentSteps
<1>2. UNCHANGED <<head, sealAt, feed, looks, stored, watermark, waived>>
  BY DEF MarkRecent, cacheDb, roomServer, roomsLine, roomGhosts
<1>3. call[c].pc = "pulled" /\ PullIsCovered(c) /\ call \in [Calls -> CallStates]
  BY DEF MarkRecent, CoverInv, TypeInv, Types
<1>4. CASE queue' = queue /\ GoesOn(c, Resting)
  BY <1>2, <1>4, CoverPlainMove, RestingIsPlain
<1>5. CASE LET job == [do |-> "mark", by |-> c, at |-> call[c].top] IN
             Post(job) /\ job \in Jobs /\ GoesOn(c, [pc |-> "wait"])
  <2>1. DEFINE job == [do |-> "mark", by |-> c, at |-> call[c].top]
  <2>2. job \in Jobs /\ job.by = c /\ job.do = "mark" /\ job.at = call[c].top /\ Post(job)
    BY <1>5
  <2>3. call'[c] = [pc |-> "wait"] /\ \A d \in Calls : d # c => call'[d] = call[d]
    BY <1>3, <1>5 DEF GoesOn
  <2>4. call'[c] \notin PullCalls
    BY <2>3, PlainOnes
  <2>5. 1 .. call[c].top \subseteq Good
    BY <1>1, <1>3 DEF PullIsCovered
  <2>6. \A i \in DOMAIN feed' : feed'[i] \in 1 .. head
    BY <1>2 DEF CoverInv, Known
  <2> HIDE DEF job
  <2> QED BY <1>2, <1>3, <2>2, <2>3, <2>4, <2>5, <2>6, CoverPosts
<1> QED BY <1>1, <1>4, <1>5

LEMMA CoverRecord ==
  ASSUME CoverInv, TypeInv, RoomShapes, NEW c \in Calls, Record(c)
  PROVE  CoverInv'
<1>1. /\ call[c].job \in Jobs /\ call[c].job \in AnswerJobs \cup RoundJobs
      /\ call[c].job.by = c /\ Post(call[c].job) /\ GoesOn(c, [pc |-> "wait"])
      /\ call[c].job.do \notin {"push", "events"}
  BY RecordSteps
<1>2. call[c].job.do # "mark"
  BY <1>1 DEF AnswerJobs, MemberJobs, ForgetJobs, JoinedJobs, LookJobs, RoundJobs
<1>3. UNCHANGED <<head, sealAt, feed, looks, stored, watermark, waived>>
  BY DEF Record, cacheDb, roomServer, roomsLine, roomGhosts
<1>4. call'[c] = [pc |-> "wait"] /\ \A d \in Calls : d # c => call'[d] = call[d]
  BY <1>1 DEF GoesOn, TypeInv, Types
<1>5. call'[c] \notin PullCalls /\ call[c].pc # "wait"
  BY <1>4, PlainOnes DEF Record
<1>6. \A i \in DOMAIN feed' : feed'[i] \in 1 .. head
  BY <1>3 DEF CoverInv, Known
<1> QED BY <1>1, <1>2, <1>3, <1>4, <1>5, <1>6, CoverPosts

LEMMA CoverCrash == ASSUME CoverInv, TypeInv, RoomShapes, RoomsCrash PROVE CoverInv'
<1>1. /\ DOMAIN queue' = {} /\ DOMAIN feed' = {}
      /\ UNCHANGED <<head, sealAt, looks, stored, watermark, waived>>
      /\ call' = [c \in Calls |-> Resting]
  BY DEF RoomsCrash, cacheDb, roomServer, roomGhosts
<1>2. \A c \in Calls : call'[c] \notin PullCalls
  BY <1>1, RestingIsPlain
<1>3. Known'
  BY <1>1, <1>2 DEF Known, CoverInv
<1> QED BY <1>1, <1>2, <1>3 DEF CoverInv, PullIsCovered, Good, Shows

\* What is written covers what is claimed after it.
LEMMA CoverDb ==
  ASSUME CoverInv, TypeInv, RoomShapes, queue # <<>>, head' = head, sealAt' = sealAt,
         ApplyPush \/ ApplyRound \/ ApplyMember \/ ApplyJoined
         \/ ApplyLook \/ ApplyForget \/ ApplyEvents \/ ApplyMark
  PROVE  /\ Good \subseteq Good' /\ stored' \subseteq 1 .. head
         /\ Job.do = "events" => Job.events \subseteq Good'
         /\ 1 .. watermark' \subseteq Good'
         /\ (\E e \in stored' : Shows(e)') => looks'[Talk] = "yes"
<1>1. Job \in Jobs /\ Job = queue[1] /\ 1 \in DOMAIN queue
  BY Gone DEF TypeInv, Types, Job
<1>2. /\ stored \subseteq 1 .. head /\ 1 .. watermark \subseteq Good
      /\ (\E e \in stored : Shows(e)) => looks[Talk] = "yes"
      /\ Job.do = "mark" => 1 .. Job.at \subseteq Good
      /\ Job.do = "events" => Job.events \subseteq 1 .. head
  BY <1>1 DEF CoverInv, Known
<1>3. Talk \in RoomIds /\ Absent # "yes"
  BY DEF RoomShapes
<1>4. looks \in [RoomIds -> {"yes", "no", "unknown", Absent}]
  BY DEF TypeInv, Types
<1>5. \A r \in RoomIds : looks[r] = "yes" => Row(r) = "yes"
  BY <1>3 DEF Row
<1>6. \A e : Shows(e)' <=> Shows(e)
  BY DEF Shows
<1>7. CASE ApplyPush
  <2>1. stored' = stored /\ waived' = waived /\ watermark' = watermark /\ Job.do = "push"
    BY <1>7 DEF ApplyPush
  <2>2. looks[Talk] = "yes" => looks'[Talk] = "yes"
    BY <1>3, <1>4, <1>5, <1>7 DEF ApplyPush
  <2> QED BY <1>2, <1>6, <2>1, <2>2 DEF Good
<1>8. CASE ApplyRound
  <2>1. stored' = stored /\ waived' = waived /\ watermark' = watermark /\ Job.do = "round"
    BY <1>8 DEF ApplyRound
  <2>2. looks[Talk] = "yes" => looks'[Talk] = "yes"
    BY <1>3, <1>4, <1>5, <1>8 DEF ApplyRound
  <2> QED BY <1>2, <1>6, <2>1, <2>2 DEF Good
<1>9. CASE ApplyMember
  <2>1. stored' = stored /\ waived' = waived /\ watermark' = watermark /\ Job.do = "member"
    BY <1>9 DEF ApplyMember
  <2>2. looks[Talk] = "yes" => looks'[Talk] = "yes"
    BY <1>3, <1>4, <1>5, <1>9 DEF ApplyMember
  <2> QED BY <1>2, <1>6, <2>1, <2>2 DEF Good
<1>10. CASE ApplyJoined
  <2>1. stored' = stored /\ waived' = waived /\ watermark' = watermark /\ Job.do = "joined"
    BY <1>10 DEF ApplyJoined
  <2>2. looks[Talk] = "yes" => looks'[Talk] = "yes"
    BY <1>3, <1>4, <1>5, <1>10 DEF ApplyJoined
  <2> QED BY <1>2, <1>6, <2>1, <2>2 DEF Good
<1>11. CASE ApplyLook
  <2>1. stored' = stored /\ waived' = waived /\ watermark' = watermark /\ Job.do = "look"
    BY <1>11 DEF ApplyLook, roomGhosts
  <2>2. looks[Talk] = "yes" => looks'[Talk] = "yes"
    BY <1>3, <1>4, <1>11 DEF ApplyLook, Rise
  <2> QED BY <1>2, <1>6, <2>1, <2>2 DEF Good
<1>12. CASE ApplyForget
  <2>1. watermark' = watermark /\ Job.do = "forget" /\ looks' = [looks EXCEPT ![Job.room] = Absent]
    BY <1>12 DEF ApplyForget
  <2>2. CASE Job.room = Talk
    <3>1. stored' = {} /\ waived' = waived \cup stored
      BY <1>12, <2>2 DEF ApplyForget
    <3> QED BY <1>2, <2>1, <3>1 DEF Good
  <2>3. CASE Job.room # Talk
    <3>1. stored' = stored /\ waived' = waived
      BY <1>12, <2>3 DEF ApplyForget
    <3>2. looks'[Talk] = looks[Talk]
      BY <1>3, <1>4, <2>1, <2>3
    <3> QED BY <1>2, <1>6, <2>1, <3>1, <3>2 DEF Good
  <2> QED BY <2>2, <2>3
<1>13. CASE ApplyEvents
  <2>1. /\ stored' = stored \cup Job.events /\ waived' = waived /\ watermark' = watermark
        /\ Job.do = "events"
        /\ looks' = [looks EXCEPT ![Talk] =
                        IF \E e \in Job.events : Shows(e) THEN "yes" ELSE Row(Talk)]
    BY <1>13 DEF ApplyEvents, roomGhosts
  <2>2. (\E e \in stored' : Shows(e)) => looks'[Talk] = "yes"
    BY <1>2, <1>3, <1>4, <1>5, <2>1
  <2> QED BY <1>2, <1>6, <2>1, <2>2 DEF Good
<1>14. CASE ApplyMark
  <2>1. /\ stored' = stored /\ waived' = waived /\ watermark' = Job.at /\ looks' = looks
        /\ Job.do = "mark"
    BY <1>14 DEF ApplyMark, roomGhosts
  <2> QED BY <1>2, <1>6, <2>1 DEF Good
<1> QED
  BY <1>7, <1>8, <1>9, <1>10, <1>11, <1>12, <1>13, <1>14

\* The writer is done with a job, and the rest of its queue stands.
LEMMA CoverReported ==
  ASSUME CoverInv, TypeInv, RoomShapes, queue # <<>>, queue' = Tail(queue),
         NEW res \in {"stored", "failed"}, Report(res), UNCHANGED <<head, sealAt, feed>>,
         Good \subseteq Good', stored' \subseteq 1 .. head,
         res = "stored" /\ Job.do = "events" => Job.events \subseteq Good',
         1 .. watermark' \subseteq Good',
         (\E e \in stored' : Shows(e)') => looks'[Talk] = "yes"
  PROVE  CoverInv'
<1>1. /\ 1 \in DOMAIN queue /\ Job = queue[1]
      /\ \A i \in DOMAIN queue' : queue'[i] = queue[i + 1] /\ i + 1 \in DOMAIN queue
      /\ \A i \in DOMAIN queue' : i + 1 # 1
  BY Gone DEF TypeInv, Types, Job
<1>2. /\ \A c \in Calls : Job.by # c => call'[c] = call[c]
      /\ \A c \in Calls : Job.by = c =>
           /\ call[c].pc = "wait"
           /\ Job.do = "events" =>
                /\ call[c] \in PullCalls /\ call'[c] \in PullCalls /\ call'[c].pc = res
                /\ call'[c].base = call[c].base /\ call'[c].before = call[c].before
                /\ call'[c].top = call[c].top
           /\ Job.do # "events" => call'[c] \in PlainCalls
  BY Reported
<1>3. \A x \in PlainCalls : x \notin PullCalls
  <2>1. SUFFICES ASSUME NEW x \in PlainCalls PROVE x \notin PullCalls
    OBVIOUS
  <2>2. DOMAIN x = {"pc"}
    BY DEF PlainCalls
  <2>3. \A y \in PullCalls : "base" \in DOMAIN y
    BY DEF PullCalls
  <2> QED BY <2>2, <2>3
<1>4. ASSUME NEW c \in Calls
      PROVE  PullIsCovered(c)' /\ (call'[c] \in PullCalls => call'[c].before <= head + 1)
  <2>0. PullIsCovered(c) /\ (call[c] \in PullCalls => call[c].before <= head + 1)
    BY DEF CoverInv, Known
  <2>1. CASE Job.by # c
    <3>1. call'[c] = call[c]
      BY <1>2, <2>1
    <3>2. \A i \in DOMAIN queue' : queue'[i] = queue[i + 1] /\ i + 1 \in DOMAIN queue
      BY <1>1
    <3> QED BY <2>0, <3>1, <3>2 DEF PullIsCovered
  <2>2. CASE Job.by = c /\ Job.do # "events"
    BY <1>2, <1>3, <2>2 DEF PullIsCovered
  <2>3. CASE Job.by = c /\ Job.do = "events"
    <3>1. /\ call[c] \in PullCalls /\ call[c].pc = "wait" /\ call'[c].pc = res
          /\ call'[c].base = call[c].base /\ call'[c].before = call[c].before
          /\ call'[c].top = call[c].top
      BY <1>2, <2>3
    <3>2. /\ 1 .. call[c].base \subseteq Good
          /\ call[c].before .. call[c].top \subseteq Good \cup Job.events
      BY <1>1, <2>0, <2>3, <3>1 DEF PullIsCovered
    <3> QED BY <2>0, <2>3, <3>1, <3>2 DEF PullIsCovered
  <2> QED BY <2>1, <2>2, <2>3
<1>5. \A i \in DOMAIN queue' : /\ queue'[i].do = "events" => queue'[i].events \subseteq 1 .. head
                               /\ queue'[i].do = "mark" => 1 .. queue'[i].at \subseteq Good'
  BY <1>1 DEF CoverInv, Known
<1>6. Known'
  BY <1>4, <1>5 DEF CoverInv, Known
<1> QED BY <1>4, <1>5, <1>6 DEF CoverInv

LEMMA CoverCommit == ASSUME CoverInv, TypeInv, RoomShapes, Commit PROVE CoverInv'
<1>1. /\ queue # <<>> /\ queue' = Tail(queue) /\ Report("stored") /\ UNCHANGED <<head, sealAt,
                                                                                 feed>>
      /\ ApplyPush \/ ApplyRound \/ ApplyMember \/ ApplyJoined
         \/ ApplyLook \/ ApplyForget \/ ApplyEvents \/ ApplyMark
  BY DEF Commit, roomServer, roomsLine
<1>2. /\ Good \subseteq Good' /\ stored' \subseteq 1 .. head
      /\ Job.do = "events" => Job.events \subseteq Good'
      /\ 1 .. watermark' \subseteq Good'
      /\ (\E e \in stored' : Shows(e)') => looks'[Talk] = "yes"
  BY <1>1, CoverDb
<1> QED BY <1>1, <1>2, CoverReported

LEMMA CoverWriteFails == ASSUME CoverInv, TypeInv, RoomShapes, WriteFails PROVE CoverInv'
<1>1. /\ queue # <<>> /\ queue' = Tail(queue) /\ Report("failed")
      /\ UNCHANGED <<head, sealAt, feed, looks, stored, watermark, waived>>
  BY DEF WriteFails, roomServer, roomsLine, cacheDb, roomGhosts
<1>2. /\ Good' = Good /\ stored' \subseteq 1 .. head /\ 1 .. watermark' \subseteq Good'
      /\ (\E e \in stored' : Shows(e)') => looks'[Talk] = "yes"
  BY <1>1 DEF Good, CoverInv, Known, Shows
<1> QED BY <1>1, <1>2, CoverReported

LEMMA TypeStep == TypeInv /\ CoverInv /\ RoomShapes /\ [RoomsNext]_roomVars => TypeInv'
<1> SUFFICES ASSUME TypeInv, CoverInv, RoomShapes, [RoomsNext]_roomVars PROVE TypeInv'
  OBVIOUS
<1>1. ASSUME NEW r \in RoomIds, NEW m \in Memberships, OthersChange(r, m) PROVE TypeInv'
  BY <1>1, OthersChangeTyped
<1>2. CASE PushIsLost
  BY <1>2, PushIsLostTyped
<1>3. CASE NewEvent
  BY <1>3, NewEventTyped
<1>4. CASE RoomsLineDies
  BY <1>4, RoomsLineDiesTyped
<1>5. CASE Subscribe
  BY <1>5, SubscribeTyped
<1>6. CASE TellOpened
  BY <1>6, TellOpenedTyped
<1>7. CASE TakeInvite
  BY <1>7, TakeInviteTyped
<1>8. CASE WriteInvite
  BY <1>8, WriteInviteTyped
<1>9. CASE TellInvite
  BY <1>9, TellInviteTyped
<1>10. CASE TakeEvents
  BY <1>10, TakeEventsTyped
<1>11. ASSUME NEW c \in Calls, NEW r \in RoomIds, NEW m \in Memberships, Act(c, r, m) PROVE TypeInv'
  BY <1>11, ActTyped
<1>12. ASSUME NEW c \in Calls, NEW r \in RoomIds, ForgetRoom(c, r) \/ Look(c, r) PROVE TypeInv'
  BY <1>12, ForgetRoomTyped, LookTyped
<1>13. ASSUME NEW c \in Calls, AskWindow(c) PROVE TypeInv'
  <2>1. call[c] \in PullCalls
    BY <1>13, CallKinds DEF AskWindow, TypeInv, Types
  <2>2. call[c].before <= head + 1
    BY <2>1 DEF CoverInv, Known
  <2> QED BY <1>13, <2>2, AskWindowSteps
<1>14. ASSUME NEW c \in Calls, MarkRecent(c) \/ Record(c) PROVE TypeInv'
  BY <1>14, MarkRecentSteps, RecordSteps
<1>15. ASSUME NEW c \in Calls, FetchInvites(c) \/ FetchAnswered(c) \/ CloseRound(c) \/ List(c)
                               \/ Recent(c) \/ NextWindow(c) \/ BreaksOff(c) \/ Return(c)
       PROVE TypeInv'
  BY <1>15, FetchInvitesTyped, FetchAnsweredTyped, CloseRoundTyped, ListTyped, RecentTyped,
     NextWindowTyped, BreaksOffTyped, ReturnTyped
<1>16. CASE Commit
  BY <1>16, CommitTyped
<1>17. CASE WriteFails
  BY <1>17, WriteFailsTyped
<1>18. CASE RoomsCrash
  BY <1>18, RoomsCrashTyped
<1>19. CASE UNCHANGED roomVars
  <2>1. \E t \in RoomIds : Newest(t)'
    BY <1>19, SameNewest DEF roomVars, roomServer, TypeInv, Types
  <2> QED
    BY <1>19, <2>1
       DEF roomVars, roomServer, roomsLine, cacheDb, roomGhosts, TypeInv, Types, Theirs
<1> QED
  BY <1>1, <1>2, <1>3, <1>4, <1>5, <1>6, <1>7, <1>8, <1>9, <1>10, <1>11, <1>12, <1>13, <1>14,
     <1>15, <1>16, <1>17, <1>18, <1>19 DEF RoomsNext

LEMMA CoverStep == TypeInv /\ CoverInv /\ RoomShapes /\ [RoomsNext]_roomVars => CoverInv'
<1> SUFFICES ASSUME TypeInv, CoverInv, RoomShapes, [RoomsNext]_roomVars PROVE CoverInv'
  OBVIOUS
<1> USE DEF roomServer, roomsLine, cacheDb, roomGhosts
<1>1. ASSUME NEW r \in RoomIds, NEW m \in Memberships, OthersChange(r, m) PROVE CoverInv'
  BY <1>1, CoverStays DEF OthersChange
<1>2. CASE PushIsLost
  BY <1>2, CoverStays DEF PushIsLost
<1>3. CASE NewEvent
  BY <1>3, CoverNewEvent
<1>4. CASE RoomsLineDies
  BY <1>4, CoverStays DEF RoomsLineDies
<1>5. CASE Subscribe
  BY <1>5, CoverSubscribe
<1>6. CASE TellOpened
  BY <1>6, CoverStays DEF TellOpened
<1>7. CASE TakeInvite
  BY <1>7, CoverStays DEF TakeInvite
<1>8. CASE WriteInvite
  BY <1>8, CoverWriteInvite
<1>9. CASE TellInvite
  BY <1>9, CoverStays DEF TellInvite
<1>10. CASE TakeEvents
  BY <1>10, CoverTakeEvents
<1>11. ASSUME NEW c \in Calls, NEW r \in RoomIds, NEW m \in Memberships, Act(c, r, m)
       PROVE  CoverInv'
  <2>1. PICK x \in AnsweredCalls \cup PlainCalls \cup FetchedCalls : GoesOn(c, x)
        /\ x \notin PullCalls
    <3>1. Clock \in Nat /\ m \in {"join", "leave"}
      BY <1>11, ActTyped, ClockIs DEF TypeInv
    <3>2. DEFINE job == [do |-> "member", by |-> c, room |-> r, m |-> m, is |-> members'[r].is]
    <3>3. members'[r] = [m |-> m, is |-> Clock + 1]
      BY <1>11, BecomesTyped DEF Act, TypeInv
    <3>4. job \in AnswerJobs
      BY <3>1, <3>3 DEF AnswerJobs, MemberJobs
    <3>5. GoesOn(c, [pc |-> "answered", job |-> job])
      BY <1>11 DEF Act, AnsweredWith
    <3> HIDE DEF job
    <3> QED BY <3>4, <3>5, AnsweredOnes
  <2>2. UNCHANGED <<head, sealAt, feed, queue, looks, stored, watermark, waived>>
    BY <1>11 DEF Act
  <2> QED BY <2>1, <2>2, CoverPlainMove
<1>12. ASSUME NEW c \in Calls, NEW x, GoesOn(c, x), x \notin PullCalls,
              UNCHANGED <<head, sealAt, feed, queue, looks, stored, watermark, waived>>
       PROVE CoverInv'
  BY <1>12, CoverPlainMove
<1>13. ASSUME NEW c \in Calls, NEW r \in RoomIds, ForgetRoom(c, r) PROVE CoverInv'
  <2>1. DEFINE job == [do |-> "forget", by |-> c, room |-> r, is |-> members[r].is]
  <2>2. job \in AnswerJobs
    BY DEF TypeInv, Types, AnswerJobs, ForgetJobs
  <2>3. GoesOn(c, [pc |-> "answered", job |-> job])
    BY <1>13 DEF ForgetRoom, AnsweredWith
  <2>4. UNCHANGED <<head, sealAt, feed, queue, looks, stored, watermark, waived>>
    BY <1>13 DEF ForgetRoom
  <2> HIDE DEF job
  <2> QED BY <1>12, <2>2, <2>3, <2>4, AnsweredOnes
<1>14. ASSUME NEW c \in Calls, NEW r \in RoomIds, Look(c, r) PROVE CoverInv'
  <2>1. DEFINE job == [do |-> "look", by |-> c, room |-> r, is |-> members[r].is,
                       seen |-> IF r = Talk /\ sealAt # 0 THEN "yes" ELSE "no"]
  <2>2. job \in AnswerJobs
    BY DEF TypeInv, Types, AnswerJobs, LookJobs
  <2>3. GoesOn(c, [pc |-> "answered", job |-> job])
    BY <1>14 DEF Look, AnsweredWith
  <2>4. UNCHANGED <<head, sealAt, feed, queue, looks, stored, watermark, waived>>
    BY <1>14 DEF Look
  <2> HIDE DEF job
  <2> QED BY <1>12, <2>2, <2>3, <2>4, AnsweredOnes
<1>15. ASSUME NEW c \in Calls, List(c) PROVE CoverInv'
  <2>1. DEFINE job == [do |-> "joined", by |-> c,
                       rooms |-> {r \in RoomIds : members[r].m = "join"},
                       ages |-> [r \in RoomIds |-> members[r].is]]
  <2>2. job \in AnswerJobs
    BY DEF TypeInv, Types, AnswerJobs, JoinedJobs
  <2>3. GoesOn(c, [pc |-> "answered", job |-> job])
    BY <1>15 DEF List, AnsweredWith
  <2>4. UNCHANGED <<head, sealAt, feed, queue, looks, stored, watermark, waived>>
    BY <1>15 DEF List
  <2> HIDE DEF job
  <2> QED BY <1>12, <2>2, <2>3, <2>4, AnsweredOnes
<1>16. ASSUME NEW c \in Calls, FetchAnswered(c) PROVE CoverInv'
  <2>1. DEFINE job == [do |-> "round", by |-> c, snap |-> Counts, at |-> Clock]
  <2>2. Clock \in Nat /\ Counts \in [RoomIds -> Nat]
    BY ClockIs DEF TypeInv, Types, Counts
  <2>3. job \in RoundJobs
    BY <2>2 DEF RoundJobs
  <2>4. GoesOn(c, [pc |-> "fetched", job |-> job])
    BY <1>16 DEF FetchAnswered
  <2>5. UNCHANGED <<head, sealAt, feed, queue, looks, stored, watermark, waived>>
    BY <1>16 DEF FetchAnswered
  <2> HIDE DEF job
  <2> QED BY <1>12, <2>3, <2>4, <2>5, FetchedOnes
<1>17. ASSUME NEW c \in Calls, FetchInvites(c) PROVE CoverInv'
  BY <1>12, <1>17, PlainOnes DEF FetchInvites
<1>18. ASSUME NEW c \in Calls, CloseRound(c) \/ Return(c) PROVE CoverInv'
  BY <1>12, <1>18, RestingIsPlain DEF CloseRound, Return
<1>19. ASSUME NEW c \in Calls, BreaksOff(c) PROVE CoverInv'
  <2>1. PICK x \in PlainCalls : GoesOn(c, x) /\ x \notin PullCalls
    BY <1>19, RestingIsPlain, PlainOnes DEF BreaksOff
  <2> QED BY <1>12, <1>19, <2>1 DEF BreaksOff
<1>20. ASSUME NEW c \in Calls,
              Recent(c) \/ AskWindow(c) \/ NextWindow(c) \/ MarkRecent(c) \/ Record(c)
       PROVE CoverInv'
  BY <1>20, CoverRecent, CoverAskWindow, CoverNextWindow, CoverMarkRecent, CoverRecord
<1>21. CASE Commit
  BY <1>21, CoverCommit
<1>22. CASE WriteFails
  BY <1>22, CoverWriteFails
<1>23. CASE RoomsCrash
  BY <1>23, CoverCrash
<1>24. CASE UNCHANGED roomVars
  BY <1>24, CoverStays DEF roomVars
<1> QED
  BY <1>1, <1>2, <1>3, <1>4, <1>5, <1>6, <1>7, <1>8, <1>9, <1>10, <1>11, <1>13, <1>14,
     <1>15, <1>16, <1>17, <1>18, <1>19, <1>20, <1>21, <1>22, <1>23, <1>24 DEF RoomsNext

\* Rooms keeps its types, and a job its owner: who waits for a write of the cache's
\* one writer is who posted it, whatever fails, dies or is posted in between.
THEOREM RoomTypes == ASSUME RoomShapes PROVE RoomsSpec => []TypeInv
<1>1. RoomsInit => TypeInv /\ CoverInv
  BY TypesInit, CoverInit
<1>2. TypeInv /\ CoverInv /\ [RoomsNext]_roomVars => (TypeInv /\ CoverInv)'
  BY TypeStep, CoverStep
<1> QED
  BY <1>1, <1>2, PTL DEF RoomsSpec

\* What the cache claims, its events bear out, with any number of rooms and of calls:
\* up to the watermark, which pull_recent writes last, all events are there but for
\* those left out on purpose; and no stored event shows a room to be encrypted that
\* the cache holds for one that is not.  A window, a mark, a look and a forget may be
\* queued in any order and fail or be lost in a crash.
THEOREM WhatIsClaimedIsThere == ASSUME RoomShapes PROVE RoomsSpec => []ClaimsAreCovered
<1>1. RoomsInit => TypeInv /\ CoverInv
  BY TypesInit, CoverInit
<1>2. TypeInv /\ CoverInv /\ [RoomsNext]_roomVars => (TypeInv /\ CoverInv)'
  BY TypeStep, CoverStep
<1>3. CoverInv => ClaimsAreCovered
  BY DEF CoverInv, Good, ClaimsAreCovered
<1> QED
  BY <1>1, <1>2, <1>3, PTL DEF RoomsSpec

----------------------------------------------------------------------------
(***************************************************************************)
(* The invites settle.  A round that is open is counted (RoundInv), the    *)
(* push the task waits for is the last in the queue (PushOrder), an answer *)
(* is dated by what the server had when it gave it (AgeInv), and a push    *)
(* that is still under way does not outlive a newer snapshot unnoticed     *)
(* (WireInv).  With these, whenever a room is not as the server has it,    *)
(* something is under way that will set it right (SettleInv): a push, a    *)
(* round, or a reason for the UI to ask for one (Debt).                    *)
(***************************************************************************)

RoundPcs == {"fetching", "fetched", "round", "noround"}
InRound(c) == \/ call[c].pc \in RoundPcs
              \/ \E i \in DOMAIN queue : queue[i].by = c /\ queue[i].do = "round"

OpenRounds == {c \in Calls : InRound(c)}

\* No round is open that is not counted, and no push is remembered without one.
RoundInv ==
  /\ callers \in Nat /\ IsFiniteSet(OpenRounds) /\ Cardinality(OpenRounds) <= callers
  /\ callers = 0 => touched = Untouched

\* The push the task waits for is the last one in the queue.
PushOrder ==
  /\ ~on => wire = <<>>
  /\ \A i, j \in DOMAIN queue : /\ queue[i].do = "push" /\ queue[j].do = "push"
                                /\ queue[i].by = Task
                                => j <= i
  /\ task.pc \in {"stored", "failed"} => \A i \in DOMAIN queue : queue[i].do # "push"

LEMMA RoundStays ==
  ASSUME RoundInv, \A c \in Calls : InRound(c)' => InRound(c), callers' = callers,
         callers = 0 => touched' = touched
  PROVE  RoundInv'
<1>1. OpenRounds' \subseteq OpenRounds
  BY DEF OpenRounds
<1>2. IsFiniteSet(OpenRounds) /\ callers \in Nat /\ Cardinality(OpenRounds) <= callers
  BY DEF RoundInv
<1>3. /\ IsFiniteSet(OpenRounds') /\ Cardinality(OpenRounds') <= Cardinality(OpenRounds)
      /\ Cardinality(OpenRounds') \in Nat /\ Cardinality(OpenRounds) \in Nat
  BY <1>1, <1>2, FS_Subset, FS_CardinalityType
<1>4. Cardinality(OpenRounds') <= callers'
  BY <1>2, <1>3
<1> QED BY <1>2, <1>3, <1>4 DEF RoundInv, Untouched

\* Who is in a round is counted; whoever is alone in one is so.
LEMMA RoundsOf ==
  ASSUME RoundInv
  PROVE  /\ \A c \in Calls : InRound(c) => callers # 0
         /\ callers = 1 => \A c, d \in Calls : InRound(c) /\ InRound(d) => c = d
<1>1. IsFiniteSet(OpenRounds) /\ callers \in Nat /\ Cardinality(OpenRounds) <= callers
  BY DEF RoundInv
<1>2. ASSUME NEW c \in Calls, InRound(c)
      PROVE  /\ IsFiniteSet(OpenRounds \ {c})
             /\ Cardinality(OpenRounds \ {c}) = Cardinality(OpenRounds) - 1
             /\ Cardinality(OpenRounds) \in Nat /\ Cardinality(OpenRounds \ {c}) \in Nat
  <2>1. c \in OpenRounds
    BY <1>2 DEF OpenRounds
  <2> QED BY <1>1, <2>1, FS_RemoveElement, FS_CardinalityType
<1>3. ASSUME NEW c \in Calls, InRound(c) PROVE callers # 0
  <2>1. /\ Cardinality(OpenRounds \ {c}) = Cardinality(OpenRounds) - 1
        /\ Cardinality(OpenRounds) \in Nat /\ Cardinality(OpenRounds \ {c}) \in Nat
    BY <1>2, <1>3, Zenon
  <2>2. callers \in Nat /\ Cardinality(OpenRounds) <= callers
    BY <1>1
  <2> QED BY <2>1, <2>2
<1>4. ASSUME callers = 1, NEW c \in Calls, NEW d \in Calls, InRound(c), InRound(d) PROVE c = d
  <2>1. Cardinality(OpenRounds \ {c}) = 0
    BY <1>1, <1>2, <1>4
  <2>2. OpenRounds \ {c} = {}
    BY <1>2, <1>4, <2>1, FS_EmptySet
  <2> QED BY <1>4, <2>2 DEF OpenRounds
<1> QED BY <1>3, <1>4

LEMMA RoundOfMove ==
  ASSUME TypeInv, NEW c \in Calls, NEW x, GoesOn(c, x),
         x.pc \in RoundPcs => call[c].pc \in RoundPcs,
         queue' = queue
  PROVE  \A d \in Calls : InRound(d)' => InRound(d)
<1>1. call'[c] = x /\ \A d \in Calls : d # c => call'[d] = call[d]
  BY DEF GoesOn, TypeInv, Types
<1> QED BY <1>1 DEF InRound

LEMMA RoundOfPost ==
  ASSUME TypeInv, NEW job \in Jobs, Post(job),
         job.do = "round" => job.by \in Calls /\ call[job.by].pc \in RoundPcs,
         \A d \in Calls : d # job.by => call'[d] = call[d],
         job.by \in Calls => call'[job.by].pc = "wait"
  PROVE  \A d \in Calls : InRound(d)' => InRound(d)
<1>1. queue \in Seq(Jobs)
  BY DEF TypeInv, Types
<1>2. /\ DOMAIN queue = 1 .. Len(queue) /\ DOMAIN queue' = 1 .. Len(queue) + 1 /\ Len(queue) \in Nat
      /\ \A i \in DOMAIN queue : queue'[i] = queue[i]
      /\ queue'[Len(queue) + 1] = job
  BY <1>1, JobPosted
<1>3. \A i \in DOMAIN queue' : i \in DOMAIN queue \/ queue'[i] = job
  BY <1>2
<1>4. "wait" \notin RoundPcs
  BY DEF RoundPcs
<1>5. TAKE d \in Calls
<1>6. HAVE InRound(d)'
<1>7. CASE call'[d].pc \in RoundPcs
  BY <1>4, <1>7 DEF InRound
<1>8. CASE \E i \in DOMAIN queue' : queue'[i].by = d /\ queue'[i].do = "round"
  BY <1>2, <1>3, <1>8 DEF InRound
<1> QED BY <1>6, <1>7, <1>8 DEF InRound

LEMMA RoundOfReport ==
  ASSUME TypeInv, RoomShapes, queue # <<>>, queue' = Tail(queue),
         NEW res \in {"stored", "failed"}, Report(res)
  PROVE  \A d \in Calls : InRound(d)' => InRound(d)
<1>1. /\ 1 \in DOMAIN queue /\ Job = queue[1]
      /\ \A i \in DOMAIN queue' : queue'[i] = queue[i + 1] /\ i + 1 \in DOMAIN queue
  BY Gone DEF TypeInv, Types, Job
<1>2. /\ \A c \in Calls : Job.by # c => call'[c] = call[c]
      /\ \A c \in Calls : Job.by = c =>
           /\ Job.do = "events" => call'[c].pc = res
           /\ Job.do # "events" => call'[c] = [pc |-> EndsAs(c, res)]
  BY Reported
<1>3. TAKE d \in Calls
<1>4. HAVE InRound(d)'
<1>5. CASE \E i \in DOMAIN queue' : queue'[i].by = d /\ queue'[i].do = "round"
  BY <1>1, <1>5 DEF InRound
<1>6. CASE call'[d].pc \in RoundPcs
  <2>1. CASE Job.by # d
    BY <1>2, <1>6, <2>1 DEF InRound
  <2>2. CASE Job.by = d
    <3>1. Job.do = "round"
      BY <1>2, <1>6, <2>2 DEF RoundPcs, EndsAs
    <3> QED BY <1>1, <2>2, <3>1 DEF InRound
  <2> QED BY <2>1, <2>2
<1> QED BY <1>4, <1>5, <1>6 DEF InRound

LEMMA RoundStep ==
  TypeInv /\ CoverInv /\ RoundInv /\ RoomShapes /\ [RoomsNext]_roomVars => RoundInv'
<1> SUFFICES ASSUME TypeInv, CoverInv, RoundInv, RoomShapes, [RoomsNext]_roomVars
             PROVE  RoundInv'
  OBVIOUS
<1> USE DEF roomServer, roomsLine, cacheDb, roomGhosts
<1>0. /\ Resting.pc \notin RoundPcs /\ "wait" \notin RoundPcs
      /\ \A c \in Calls : call[c].pc \in RoundPcs => InRound(c)
  BY DEF Resting, RoundPcs, InRound
<1>1. ASSUME NEW c \in Calls, NEW x, GoesOn(c, x), x.pc \in RoundPcs => call[c].pc \in RoundPcs,
             queue' = queue, callers' = callers, touched' = touched
      PROVE  RoundInv'
  BY <1>1, RoundOfMove, RoundStays
<1>2. ASSUME UNCHANGED <<call, queue, callers, touched>> PROVE RoundInv'
  BY <1>2, RoundStays DEF InRound
<1>3. ASSUME NEW r \in RoomIds, NEW m \in Memberships, OthersChange(r, m) PROVE RoundInv'
  BY <1>2, <1>3 DEF OthersChange
<1>4. CASE PushIsLost \/ NewEvent \/ RoomsLineDies \/ TellOpened \/ TellInvite
  BY <1>2, <1>4 DEF PushIsLost, NewEvent, RoomsLineDies, TellOpened, TellInvite
<1>5. CASE Subscribe
  <2>1. /\ DOMAIN queue' = DOMAIN queue /\ call' = call /\ callers' = callers /\ touched' = touched
        /\ \A i \in DOMAIN queue : /\ queue[i].by # Task => queue'[i] = queue[i]
                                   /\ queue[i].by = Task => queue'[i].by = Absent
    BY <1>5, Orphaned DEF Subscribe, TypeInv, Types
  <2>2. Absent \notin Calls
    BY DEF RoomShapes
  <2>3. \A c \in Calls : InRound(c)' => InRound(c)
    BY <2>1, <2>2 DEF InRound
  <2> QED BY <2>1, <2>3, RoundStays
<1>6. CASE TakeInvite
  <2>1. UNCHANGED <<call, queue, callers>>
    BY <1>6 DEF TakeInvite
  <2>2. callers = 0 => touched' = touched
    BY <1>6 DEF TakeInvite, MarkEarly, Touch
  <2>3. \A c \in Calls : InRound(c)' => InRound(c)
    BY <2>1 DEF InRound
  <2> QED BY <2>1, <2>2, <2>3, RoundStays
<1>7. CASE WriteInvite
  <2>1. DEFINE job == [do |-> "push", by |-> Task, room |-> task.push.room, m |-> task.push.m]
  <2>2. job \in Jobs /\ job.by = Task /\ job.do = "push" /\ Post(job)
    BY <1>7, WriteInviteTyped, PushesAre DEF WriteInvite, PushTasks, Jobs, PushJobs
  <2>3. Task \notin Calls /\ call' = call /\ callers' = callers /\ touched' = touched
    BY <1>7 DEF RoomShapes, WriteInvite
  <2> HIDE DEF job
  <2> QED BY <2>2, <2>3, RoundOfPost, RoundStays
<1>8. CASE TakeEvents
  <2>1. DEFINE job == [do |-> "events", by |-> Task, events |-> {Head(feed)}]
  <2>2. job \in Jobs /\ job.by = Task /\ job.do = "events" /\ Post(job)
    BY <1>8 DEF TakeEvents, Jobs, EventJobs, Owners, TypeInv, Types
  <2>3. Task \notin Calls /\ call' = call /\ callers' = callers /\ touched' = touched
    BY <1>8 DEF RoomShapes, TakeEvents
  <2> HIDE DEF job
  <2> QED BY <2>2, <2>3, RoundOfPost, RoundStays
<1>9. ASSUME NEW c \in Calls, NEW job, GoesOn(c, [pc |-> "answered", job |-> job]),
             queue' = queue, callers' = callers, touched' = touched
      PROVE  RoundInv'
  <2>1. [pc |-> "answered", job |-> job].pc \notin RoundPcs
    BY DEF RoundPcs
  <2> QED BY <1>1, <1>9, <2>1
<1>10. ASSUME NEW c \in Calls, NEW r \in RoomIds, NEW m \in Memberships, Act(c, r, m)
       PROVE  RoundInv'
  BY <1>9, <1>10 DEF Act, AnsweredWith
<1>11. ASSUME NEW c \in Calls, NEW r \in RoomIds, ForgetRoom(c, r) \/ Look(c, r) PROVE RoundInv'
  BY <1>9, <1>11 DEF ForgetRoom, Look, AnsweredWith
<1>25. ASSUME NEW c \in Calls, List(c) PROVE RoundInv'
  BY <1>9, <1>25 DEF List, AnsweredWith
<1>12. ASSUME NEW c \in Calls, FetchInvites(c) PROVE RoundInv'
  <2>1. /\ callers' = callers + 1 /\ queue' = queue /\ GoesOn(c, [pc |-> "fetching"])
        /\ touched' = touched
    BY <1>12 DEF FetchInvites
  <2>2. \A d \in Calls : d # c => call'[d] = call[d]
    BY <2>1 DEF GoesOn, TypeInv, Types
  <2>3. OpenRounds' \subseteq OpenRounds \cup {c}
    BY <2>1, <2>2 DEF OpenRounds, InRound
  <2>4. IsFiniteSet(OpenRounds) /\ callers \in Nat /\ Cardinality(OpenRounds) <= callers
    BY DEF RoundInv
  <2>5. /\ IsFiniteSet(OpenRounds \cup {c}) /\ Cardinality(OpenRounds) \in Nat
        /\ Cardinality(OpenRounds \cup {c})
              \in {Cardinality(OpenRounds), Cardinality(OpenRounds) + 1}
    BY <2>4, FS_AddElement, FS_CardinalityType
  <2>6. /\ IsFiniteSet(OpenRounds') /\ Cardinality(OpenRounds') \in Nat
        /\ Cardinality(OpenRounds') <= Cardinality(OpenRounds \cup {c})
    BY <2>3, <2>5, FS_Subset, FS_CardinalityType
  <2>7. Cardinality(OpenRounds') <= callers' /\ callers' \in Nat /\ callers' # 0
    BY <2>1, <2>4, <2>5, <2>6
  <2> QED BY <2>6, <2>7 DEF RoundInv
<1>13. ASSUME NEW c \in Calls, FetchAnswered(c) PROVE RoundInv'
  BY <1>1, <1>13 DEF FetchAnswered, RoundPcs
<1>14. ASSUME NEW c \in Calls, CloseRound(c) PROVE RoundInv'
  <2>1. /\ GoesOn(c, Resting) /\ queue' = queue /\ InRound(c) /\ callers' = callers - 1
        /\ touched' = IF callers = 1 THEN Untouched ELSE touched
    BY <1>0, <1>14 DEF CloseRound, RoundPcs
  <2>2. \A d \in Calls : InRound(d)' => InRound(d)
    BY <1>0, <2>1, RoundOfMove
  <2>3. call'[c] = Resting
    BY <2>1 DEF GoesOn, TypeInv, Types
  <2>4. ~InRound(c)'
    <3>1. \A i \in DOMAIN queue : queue[i].by = c => call[c].pc = "wait"
      BY DEF TypeInv, Theirs
    <3>2. call[c].pc # "wait"
      BY <1>14 DEF CloseRound
    <3> QED BY <1>0, <2>1, <2>3, <3>1, <3>2 DEF InRound
  <2>5. OpenRounds' \subseteq OpenRounds \ {c} /\ c \in OpenRounds
    BY <2>1, <2>2, <2>4 DEF OpenRounds
  <2>6. IsFiniteSet(OpenRounds) /\ callers \in Nat /\ Cardinality(OpenRounds) <= callers
    BY DEF RoundInv
  <2>7. /\ IsFiniteSet(OpenRounds \ {c}) /\ Cardinality(OpenRounds) \in Nat
        /\ Cardinality(OpenRounds \ {c}) = Cardinality(OpenRounds) - 1
        /\ Cardinality(OpenRounds \ {c}) \in Nat
    BY <2>5, <2>6, FS_RemoveElement, FS_CardinalityType
  <2>8. /\ IsFiniteSet(OpenRounds') /\ Cardinality(OpenRounds') \in Nat
        /\ Cardinality(OpenRounds') <= Cardinality(OpenRounds \ {c})
    BY <2>5, <2>7, FS_Subset, FS_CardinalityType
  <2>9. Cardinality(OpenRounds') <= callers' /\ callers' \in Nat
    BY <2>1, <2>6, <2>7, <2>8
  <2>10. callers' = 0 => touched' = Untouched
    BY <2>1, <2>6
  <2> QED BY <2>8, <2>9, <2>10 DEF RoundInv, Untouched
<1>15. ASSUME NEW c \in Calls, Recent(c) PROVE RoundInv'
  <2>1. PICK base \in {watermark, 0} :
          GoesOn(c, [pc |-> "window", base |-> base, before |-> head + 1, top |-> 0])
    BY <1>15 DEF Recent
  <2>2. [pc |-> "window", base |-> base, before |-> head + 1, top |-> 0].pc \notin RoundPcs
    BY DEF RoundPcs
  <2> QED BY <1>1, <1>15, <2>1, <2>2 DEF Recent
<1>16. ASSUME NEW c \in Calls, NextWindow(c) PROVE RoundInv'
  <2>1. PICK p \in {"window", "pulled"} : GoesOn(c, [call[c] EXCEPT !.pc = p])
    BY <1>16 DEF NextWindow
  <2>2. call[c] \in PullCalls
    BY <1>16, CallKinds DEF NextWindow, TypeInv, Types
  <2>3. [call[c] EXCEPT !.pc = p].pc \notin RoundPcs
    BY <2>2, PullGoesOn DEF RoundPcs
  <2> QED BY <1>1, <1>16, <2>1, <2>3 DEF NextWindow
<1>17. ASSUME NEW c \in Calls, AskWindow(c) PROVE RoundInv'
  <2>1. call[c] \in PullCalls
    BY <1>17, CallKinds DEF AskWindow, TypeInv, Types
  <2>2. call[c].before <= head + 1
    BY <2>1 DEF CoverInv, Known
  <2>3. callers' = callers /\ touched' = touched
    BY <1>17 DEF AskWindow
  <2>4. CASE queue' = queue /\ GoesOn(c, [call[c] EXCEPT !.pc = "pulled"])
    <3>1. [call[c] EXCEPT !.pc = "pulled"].pc \notin RoundPcs
      BY <2>1, PullGoesOn DEF RoundPcs
    <3> QED BY <1>1, <2>3, <2>4, <3>1
  <2>5. ASSUME NEW lo, NEW job \in Jobs,
               job = [do |-> "events", by |-> c, events |-> lo .. call[c].before - 1],
               Post(job),
               GoesOn(c, [pc |-> "wait", base |-> call[c].base, before |-> lo,
                          top |-> IF call[c].top = 0 THEN call[c].before - 1 ELSE call[c].top])
        PROVE RoundInv'
    <3>1. job.do = "events" /\ job.by = c
      BY <2>5
    <3>2. call'[c].pc = "wait" /\ \A d \in Calls : d # c => call'[d] = call[d]
      BY <2>5 DEF GoesOn, TypeInv, Types
    <3>3. \A d \in Calls : InRound(d)' => InRound(d)
      BY <2>5, <3>1, <3>2, RoundOfPost
    <3> QED BY <2>3, <3>3, RoundStays
  <2> QED BY <1>17, <2>2, <2>4, <2>5, AskWindowSteps
<1>18. ASSUME NEW c \in Calls, MarkRecent(c) PROVE RoundInv'
  <2>1. callers' = callers /\ touched' = touched
    BY <1>18 DEF MarkRecent
  <2>2. CASE queue' = queue /\ GoesOn(c, Resting)
    BY <1>0, <1>1, <2>1, <2>2
  <2>3. ASSUME NEW job \in Jobs, job = [do |-> "mark", by |-> c, at |-> call[c].top], Post(job),
               GoesOn(c, [pc |-> "wait"])
        PROVE RoundInv'
    <3>1. job.do = "mark" /\ job.by = c
      BY <2>3
    <3>2. call'[c].pc = "wait" /\ \A d \in Calls : d # c => call'[d] = call[d]
      BY <2>3 DEF GoesOn, TypeInv, Types
    <3>3. \A d \in Calls : InRound(d)' => InRound(d)
      BY <2>3, <3>1, <3>2, RoundOfPost
    <3> QED BY <2>1, <3>3, RoundStays
  <2> QED BY <1>18, <2>2, <2>3, MarkRecentSteps
<1>19. ASSUME NEW c \in Calls, Record(c) PROVE RoundInv'
  <2>1. callers' = callers /\ touched' = touched
    BY <1>19 DEF Record
  <2>2. /\ call[c].job \in Jobs /\ call[c].job.by = c /\ Post(call[c].job)
        /\ GoesOn(c, [pc |-> "wait"]) /\ (call[c].job.do = "round" => call[c].pc \in RoundPcs)
    BY <1>19, RecordSteps DEF RoundPcs
  <2>3. call'[c].pc = "wait" /\ \A d \in Calls : d # c => call'[d] = call[d]
    BY <2>2 DEF GoesOn, TypeInv, Types
  <2>4. \A d \in Calls : InRound(d)' => InRound(d)
    <3> DEFINE job == call[c].job
    <3>1. /\ job \in Jobs /\ job.by = c /\ Post(job)
             /\ (job.do = "round" => call[c].pc \in RoundPcs)
      BY <2>2
    <3> HIDE DEF job
    <3> QED BY <2>3, <3>1, RoundOfPost
  <2> QED BY <2>1, <2>4, RoundStays
<1>20. ASSUME NEW c \in Calls, BreaksOff(c) PROVE RoundInv'
  <2>1. CASE call[c].pc \in {"fetching", "fetched"} /\ GoesOn(c, [pc |-> "noround"])
    BY <1>1, <1>20, <2>1 DEF BreaksOff, RoundPcs
  <2>2. CASE GoesOn(c, Resting)
    BY <1>0, <1>1, <1>20, <2>2 DEF BreaksOff
  <2> QED BY <1>20, <2>1, <2>2 DEF BreaksOff
<1>21. ASSUME NEW c \in Calls, Return(c) PROVE RoundInv'
  BY <1>0, <1>1, <1>21 DEF Return
<1>22. CASE Commit \/ WriteFails
  <2>1. PICK res \in {"stored", "failed"} : queue # <<>> /\ queue' = Tail(queue) /\ Report(res)
    BY <1>22 DEF Commit, WriteFails
  <2>2. callers' = callers /\ touched' = touched
    BY <1>22 DEF Commit, WriteFails
  <2>3. \A d \in Calls : InRound(d)' => InRound(d)
    BY <2>1, RoundOfReport
  <2> QED BY <2>2, <2>3, RoundStays
<1>23. CASE RoomsCrash
  <2>1. DOMAIN queue' = {} /\ callers' = 0 /\ touched' = Untouched
        /\ \A c \in Calls : call'[c] = Resting
    BY <1>23 DEF RoomsCrash
  <2>2. \A c \in Calls : ~InRound(c)'
    BY <1>0, <2>1 DEF InRound
  <2>3. OpenRounds' = {}
    BY <2>2 DEF OpenRounds
  <2> QED BY <2>1, <2>3, FS_EmptySet DEF RoundInv, Untouched
<1>24. CASE UNCHANGED roomVars
  BY <1>2, <1>24 DEF roomVars
<1> QED
  BY <1>3, <1>4, <1>5, <1>6, <1>7, <1>8, <1>10, <1>11, <1>12, <1>13, <1>14,
     <1>15, <1>16, <1>17, <1>18, <1>19, <1>20, <1>21, <1>22, <1>23, <1>24, <1>25 DEF RoomsNext

LEMMA RoundInit == RoomsInit => RoundInv
<1> SUFFICES ASSUME RoomsInit PROVE RoundInv
  OBVIOUS
<1>1. DOMAIN queue = {} /\ callers = 0 /\ touched = Untouched /\ \A c \in Calls : call[c] = Resting
  BY DEF RoomsInit
<1>2. \A c \in Calls : ~InRound(c)
  BY <1>1 DEF InRound, Resting, RoundPcs
<1>3. OpenRounds = {}
  BY <1>2 DEF OpenRounds
<1> QED BY <1>1, <1>3, FS_EmptySet DEF RoundInv

LEMMA OrderInit == RoomsInit => PushOrder
BY DEF RoomsInit, PushOrder, Resting

LEMMA OrderStays ==
  ASSUME PushOrder, queue' = queue, (~on)' => (~on /\ wire' = wire) \/ wire' = <<>>,
         task'.pc \in {"stored", "failed"} => task.pc \in {"stored", "failed"}
  PROVE  PushOrder'
BY DEF PushOrder

LEMMA OrderOfPost ==
  ASSUME PushOrder, TypeInv, NEW job \in Jobs, Post(job), job.do # "push", on' = on,
         wire' = wire \/ on,
         task'.pc \in {"stored", "failed"} => task.pc \in {"stored", "failed"}
  PROVE  PushOrder'
<1>1. queue \in Seq(Jobs)
  BY DEF TypeInv, Types
<1>2. /\ DOMAIN queue = 1 .. Len(queue) /\ DOMAIN queue' = 1 .. Len(queue) + 1 /\ Len(queue) \in Nat
      /\ \A i \in DOMAIN queue : queue'[i] = queue[i]
      /\ queue'[Len(queue) + 1] = job
  BY <1>1, JobPosted
<1>3. \A i \in DOMAIN queue' : queue'[i].do = "push" => i \in DOMAIN queue /\ queue'[i] = queue[i]
  BY <1>2
<1>4. \A i, j \in DOMAIN queue' : /\ queue'[i].do = "push" /\ queue'[j].do = "push"
                                  /\ queue'[i].by = Task
                                  => j <= i
  BY <1>3 DEF PushOrder
<1>5. task'.pc \in {"stored", "failed"} => \A i \in DOMAIN queue' : queue'[i].do # "push"
  BY <1>3 DEF PushOrder
<1>6. ~on' => wire' = <<>>
  BY DEF PushOrder
<1> QED BY <1>4, <1>5, <1>6 DEF PushOrder

LEMMA OrderWriteInvite == ASSUME PushOrder, TypeInv, RoomShapes, WriteInvite PROVE PushOrder'
<1>1. queue \in Seq(Jobs)
  BY DEF TypeInv, Types
<1>2. DEFINE job == [do |-> "push", by |-> Task, room |-> task.push.room, m |-> task.push.m]
<1>3. job \in Jobs /\ Post(job)
  BY WriteInviteTyped, PushesAre DEF WriteInvite, PushTasks, Jobs, PushJobs
<1> HIDE DEF job
<1>4. /\ DOMAIN queue = 1 .. Len(queue) /\ DOMAIN queue' = 1 .. Len(queue) + 1 /\ Len(queue) \in Nat
      /\ \A i \in DOMAIN queue : queue'[i] = queue[i]
  BY <1>1, <1>3, JobPosted
<1>5. \A i \in DOMAIN queue : queue[i].by # Task
  BY DEF TypeInv, Theirs, WriteInvite
<1>6. \A i \in DOMAIN queue' : queue'[i].by = Task => i = Len(queue) + 1
  BY <1>4, <1>5
<1>7. \A i, j \in DOMAIN queue' : /\ queue'[i].do = "push" /\ queue'[j].do = "push"
                                  /\ queue'[i].by = Task
                                  => j <= i
  BY <1>4, <1>6
<1>8. on' = on /\ wire' = wire /\ task'.pc = "wait"
  BY WriteInviteTyped DEF WriteInvite, roomsLine
<1> QED BY <1>7, <1>8 DEF PushOrder

LEMMA OrderReport ==
  ASSUME PushOrder, TypeInv, RoomShapes, queue # <<>>, queue' = Tail(queue),
         NEW res \in {"stored", "failed"}, Report(res), on' = on, wire' = wire
  PROVE  PushOrder'
<1>1. /\ 1 \in DOMAIN queue /\ Job = queue[1]
      /\ \A i \in DOMAIN queue' : queue'[i] = queue[i + 1] /\ i + 1 \in DOMAIN queue
      /\ \A i \in DOMAIN queue' : i \in Nat /\ i # 0
  BY Gone DEF TypeInv, Types, Job
<1>2. \A i, j \in DOMAIN queue' : /\ queue'[i].do = "push" /\ queue'[j].do = "push"
                                  /\ queue'[i].by = Task
                                  => j <= i
  <2>1. TAKE i, j \in DOMAIN queue'
  <2>2. HAVE queue'[i].do = "push" /\ queue'[j].do = "push" /\ queue'[i].by = Task
  <2>3. j + 1 <= i + 1
    BY <1>1, <2>2 DEF PushOrder
  <2> QED BY <1>1, <2>3
<1>3. ASSUME task'.pc \in {"stored", "failed"}, NEW i \in DOMAIN queue', queue'[i].do = "push"
      PROVE  FALSE
  <2>1. queue[i + 1].do = "push" /\ i + 1 \in DOMAIN queue /\ i + 1 > 1
    BY <1>1, <1>3
  <2>2. CASE Job.by # Task
    BY <1>3, <2>1, <2>2, Reported DEF PushOrder
  <2>3. CASE Job.by = Task /\ Job.do = "push"
    BY <1>1, <2>1, <2>3 DEF PushOrder
  <2>4. CASE Job.by = Task /\ Job.do # "push"
    <3>1. task' = Resting
      BY <2>4, Reported
    <3> QED BY <1>3, <3>1 DEF Resting
  <2> QED BY <2>2, <2>3, <2>4
<1> QED BY <1>2, <1>3 DEF PushOrder

LEMMA OrderStep ==
  TypeInv /\ CoverInv /\ PushOrder /\ RoomShapes /\ [RoomsNext]_roomVars => PushOrder'
<1> SUFFICES ASSUME TypeInv, CoverInv, PushOrder, RoomShapes, [RoomsNext]_roomVars
             PROVE  PushOrder'
  OBVIOUS
<1> USE DEF roomServer, roomsLine, cacheDb, roomGhosts
<1>1. ASSUME UNCHANGED <<queue, on, wire, task>> PROVE PushOrder'
  BY <1>1, OrderStays
<1>2. ASSUME NEW r \in RoomIds, NEW m \in Memberships, Becomes(r, m), UNCHANGED <<queue, on, task>>
      PROVE  PushOrder'
  <2>1. on \/ wire' = wire
    BY <1>2 DEF Becomes
  <2> QED BY <1>2, <2>1, OrderStays
<1>3. ASSUME NEW r \in RoomIds, NEW m \in Memberships, OthersChange(r, m) PROVE PushOrder'
  BY <1>2, <1>3 DEF OthersChange
<1>4. CASE PushIsLost
  <2>1. on
    BY <1>4 DEF PushIsLost, PushOrder
  <2> QED BY <1>4, <2>1, OrderStays DEF PushIsLost
<1>5. CASE NewEvent \/ TellOpened
  BY <1>1, <1>5 DEF NewEvent, TellOpened
<1>6. CASE RoomsLineDies
  BY <1>6, OrderStays DEF RoomsLineDies
<1>7. CASE Subscribe
  <2>1. /\ DOMAIN queue' = DOMAIN queue /\ task' = Resting /\ on'
        /\ \A i \in DOMAIN queue : /\ queue[i].by # Task => queue'[i] = queue[i]
                                   /\ queue[i].by = Task => queue'[i].by = Absent
    BY <1>7, Orphaned DEF Subscribe, TypeInv, Types
  <2>2. Absent # Task /\ Resting.pc = "idle"
    BY DEF RoomShapes, Resting
  <2>3. \A i \in DOMAIN queue' : queue'[i].by # Task
    BY <2>1, <2>2
  <2> QED BY <2>1, <2>2, <2>3 DEF PushOrder
<1>8. CASE TakeInvite
  <2>1. on /\ queue' = queue /\ task'.pc = "marked" /\ on' = on
    BY <1>8 DEF TakeInvite
  <2> QED BY <2>1, OrderStays
<1>9. CASE WriteInvite
  BY <1>9, OrderWriteInvite
<1>10. CASE TellInvite
  BY <1>10, OrderStays DEF TellInvite, Resting
<1>11. CASE TakeEvents
  <2>1. DEFINE job == [do |-> "events", by |-> Task, events |-> {Head(feed)}]
  <2>2. job \in Jobs /\ job.do = "events" /\ Post(job)
    BY <1>11 DEF TakeEvents, Jobs, EventJobs, Owners, TypeInv, Types
  <2>3. on' = on /\ wire' = wire /\ task'.pc = "wait"
    BY <1>11 DEF TakeEvents
  <2> HIDE DEF job
  <2> QED BY <2>2, <2>3, OrderOfPost
<1>12. ASSUME NEW c \in Calls, NEW r \in RoomIds, NEW m \in Memberships, Act(c, r, m)
       PROVE  PushOrder'
  BY <1>2, <1>12 DEF Act
<1>13. ASSUME NEW c \in Calls, NEW r \in RoomIds, ForgetRoom(c, r) \/ Look(c, r) PROVE PushOrder'
  BY <1>1, <1>13 DEF ForgetRoom, Look
<1>14. ASSUME NEW c \in Calls, \/ FetchInvites(c) \/ FetchAnswered(c) \/ CloseRound(c) \/ List(c)
                               \/ Recent(c) \/ NextWindow(c) \/ BreaksOff(c) \/ Return(c)
       PROVE  PushOrder'
  BY <1>1, <1>14
     DEF FetchInvites, FetchAnswered, CloseRound, List, Recent, NextWindow, BreaksOff, Return
<1>15. ASSUME NEW job \in Jobs, Post(job), job.do # "push", UNCHANGED <<on, wire, task>>
       PROVE  PushOrder'
  BY <1>15, OrderOfPost
<1>16. ASSUME NEW c \in Calls, AskWindow(c) PROVE PushOrder'
  <2>1. call[c] \in PullCalls
    BY <1>16, CallKinds DEF AskWindow, TypeInv, Types
  <2>2. call[c].before <= head + 1
    BY <2>1 DEF CoverInv, Known
  <2>3. UNCHANGED <<on, wire, task>>
    BY <1>16 DEF AskWindow
  <2>4. ASSUME NEW lo, NEW job \in Jobs,
               job = [do |-> "events", by |-> c, events |-> lo .. call[c].before - 1],
               Post(job)
        PROVE PushOrder'
    <3>1. job.do # "push"
      BY <2>4
    <3> QED BY <1>15, <2>3, <2>4, <3>1
  <2> QED BY <1>1, <1>16, <2>2, <2>3, <2>4, AskWindowSteps
<1>17. ASSUME NEW c \in Calls, MarkRecent(c) PROVE PushOrder'
  <2>1. UNCHANGED <<on, wire, task>>
    BY <1>17 DEF MarkRecent
  <2>2. ASSUME NEW job \in Jobs, job = [do |-> "mark", by |-> c, at |-> call[c].top], Post(job)
        PROVE PushOrder'
    <3>1. job.do # "push"
      BY <2>2
    <3> QED BY <1>15, <2>1, <2>2, <3>1
  <2> QED BY <1>1, <1>17, <2>1, <2>2, MarkRecentSteps
<1>18. ASSUME NEW c \in Calls, Record(c) PROVE PushOrder'
  <2>1. UNCHANGED <<on, wire, task>>
    BY <1>18 DEF Record
  <2>2. call[c].job \in Jobs /\ Post(call[c].job) /\ call[c].job.do # "push"
    BY <1>18, RecordSteps
  <2> QED BY <1>15, <2>1, <2>2
<1>19. CASE Commit \/ WriteFails
  <2>1. PICK res \in {"stored", "failed"} : queue # <<>> /\ queue' = Tail(queue) /\ Report(res)
    BY <1>19 DEF Commit, WriteFails
  <2>2. on' = on /\ wire' = wire
    BY <1>19 DEF Commit, WriteFails
  <2> QED BY <2>1, <2>2, OrderReport
<1>20. CASE RoomsCrash
  BY <1>20 DEF RoomsCrash, PushOrder, Resting
<1>21. CASE UNCHANGED roomVars
  BY <1>1, <1>21 DEF roomVars
<1> QED
  BY <1>3, <1>4, <1>5, <1>6, <1>7, <1>8, <1>9, <1>10, <1>11, <1>12, <1>13, <1>14,
     <1>16, <1>17, <1>18, <1>19, <1>20, <1>21 DEF RoomsNext

Shown(r, snap) == (snap[r] # 0) <=> (members[r].m = "invite")

\* What a job says was so when the server answered: what did not change since still is.
Dated(j) ==
  /\ j.do = "round" => /\ j.at <= Clock
                       /\ \A r \in RoomIds : /\ j.snap[r] <= j.at
                                             /\ members[r].is <= j.at => Shown(r, j.snap)
  /\ j.do = "member" => /\ j.is <= members[j.room].is
                        /\ j.is = members[j.room].is => j.m = members[j.room].m
  /\ j.do = "forget" => /\ j.is <= members[j.room].is
                        /\ j.is = members[j.room].is => members[j.room].m = "leave"
  /\ j.do = "joined" => \A r \in RoomIds :
       /\ j.ages[r] <= members[r].is
       /\ j.ages[r] = members[r].is => (r \in j.rooms <=> members[r].m = "join")

AgeInv ==
  /\ asOf <= Clock
  /\ \A r \in RoomIds : members[r].m = "invite" => members[r].is # 0
  /\ \A i \in DOMAIN queue : Dated(queue[i])
  /\ \A c \in Calls : call[c] \in AnsweredCalls \cup FetchedCalls => Dated(call[c].job)

LEMMA ClockIsThen ==
  ASSUME Types'
  PROVE  Clock' \in Nat /\ \A r \in RoomIds : members'[r].is <= Clock'
<1>1. PICK t : Newest(t)'
  BY DEF Types
<1>2. DEFINE S == {members'[r].is : r \in RoomIds}
<1>3. members'[t].is \in S /\ \A y \in S : members'[t].is >= y
  BY <1>1 DEF Newest, Types
<1>4. Max(S) \in S /\ \A y \in S : Max(S) >= y
  BY <1>3 DEF Max
<1> QED
  BY <1>4 DEF Clock, Types

LEMMA AgeInit == RoomsInit /\ RoomShapes => AgeInv
<1> SUFFICES ASSUME RoomsInit, RoomShapes PROVE AgeInv
  OBVIOUS
<1>1. Clock \in Nat
  BY TypesInit, ClockIs DEF TypeInv
<1>2. \A c \in Calls : call[c] \notin AnsweredCalls \cup FetchedCalls
  BY RestingIsPlain DEF RoomsInit
<1> QED BY <1>1, <1>2 DEF RoomsInit, AgeInv

LEMMA DatedStays ==
  ASSUME members' = members
  PROVE  Clock' = Clock /\ \A j : Dated(j)' <=> Dated(j)
<1>1. Clock' = Clock
  BY DEF Clock
<1> QED BY <1>1 DEF Dated, Shown

\* Nothing of the server's changes, and no call posts or gets anything.
LEMMA AgeStays ==
  ASSUME AgeInv, members' = members, asOf' <= Clock,
         \A i \in DOMAIN queue' : Dated(queue'[i]),
         \A c \in Calls : call'[c] \in AnsweredCalls \cup FetchedCalls => Dated(call'[c].job)
  PROVE  AgeInv'
BY DatedStays DEF AgeInv

LEMMA AgeOfMove ==
  ASSUME AgeInv, TypeInv, members' = members, asOf' = asOf, queue' = queue, NEW c \in Calls, NEW x,
         GoesOn(c, x), x \in AnsweredCalls \cup FetchedCalls => Dated(x.job)
  PROVE  AgeInv'
<1>1. call'[c] = x /\ \A d \in Calls : d # c => call'[d] = call[d]
  BY DEF GoesOn, TypeInv, Types
<1>2. \A d \in Calls : call'[d] \in AnsweredCalls \cup FetchedCalls => Dated(call'[d].job)
  BY <1>1 DEF AgeInv
<1> QED BY <1>2, AgeStays DEF AgeInv

LEMMA AgeOfPost ==
  ASSUME AgeInv, TypeInv, members' = members, asOf' = asOf, NEW job \in Jobs, Post(job), Dated(job),
         \A c \in Calls : call'[c] = call[c] \/ call'[c] \in PlainCalls \cup PullCalls
  PROVE  AgeInv'
<1>1. queue \in Seq(Jobs)
  BY DEF TypeInv, Types
<1>2. \A i \in DOMAIN queue' : (i \in DOMAIN queue /\ queue'[i] = queue[i]) \/ queue'[i] = job
  BY <1>1, JobPosted
<1>3. \A x \in PlainCalls \cup PullCalls : x \notin AnsweredCalls \cup FetchedCalls
  BY DEF PlainCalls, PullCalls, AnsweredCalls, FetchedCalls
<1>4. \A c \in Calls : call'[c] \in AnsweredCalls \cup FetchedCalls => Dated(call'[c].job)
  BY <1>3 DEF AgeInv
<1>5. \A i \in DOMAIN queue' : Dated(queue'[i])
  BY <1>2 DEF AgeInv
<1> QED BY <1>4, <1>5, AgeStays DEF AgeInv

LEMMA AgeOfReport ==
  ASSUME AgeInv, TypeInv, RoomShapes, members' = members, asOf' <= Clock, queue # <<>>,
         queue' = Tail(queue),
         NEW res \in {"stored", "failed"}, Report(res)
  PROVE  AgeInv'
<1>1. \A i \in DOMAIN queue' : queue'[i] = queue[i + 1] /\ i + 1 \in DOMAIN queue
  BY Gone DEF TypeInv, Types
<1>2. \A i \in DOMAIN queue' : Dated(queue'[i])
  BY <1>1 DEF AgeInv
<1>3. \A x \in PlainCalls \cup PullCalls : x \notin AnsweredCalls \cup FetchedCalls
  BY DEF PlainCalls, PullCalls, AnsweredCalls, FetchedCalls
<1>4. \A c \in Calls : call'[c] = call[c] \/ call'[c] \in PlainCalls \cup PullCalls
  BY Reported
<1>5. \A c \in Calls : call'[c] \in AnsweredCalls \cup FetchedCalls => Dated(call'[c].job)
  BY <1>3, <1>4 DEF AgeInv
<1> QED BY <1>2, <1>5, AgeStays

\* What changes now is newer than all that was said before.
LEMMA DatedBecomes ==
  ASSUME Types, Types', NEW r \in RoomIds, NEW m \in Memberships, Becomes(r, m), NEW j \in Jobs,
         Dated(j)
  PROVE  Dated(j)'
<1>1. /\ Clock \in Nat /\ Clock' \in Nat /\ members'[r] = [m |-> m, is |-> Clock + 1]
      /\ \A s \in RoomIds : s # r => members'[s] = members[s]
      /\ \A s \in RoomIds :
           members[s].is <= Clock /\ members'[s].is <= Clock' /\ members[s].is \in Nat
  <2>1. members \in [RoomIds -> [m : Memberships, is : Nat]]
    BY DEF Types
  <2> QED BY <2>1, ClockIs, ClockIsThen, BecomesTyped
<1>2. Clock < Clock'
  BY <1>1
<1>3. CASE j.do = "round"
  <2>1. j.at \in Nat /\ j.at <= Clock /\ j.snap \in [RoomIds -> Nat]
    BY <1>3, JobKinds DEF Dated
  <2>2. \A s \in RoomIds : /\ j.snap[s] <= j.at
                           /\ members'[s].is <= j.at => Shown(s, j.snap)'
    BY <1>1, <1>3, <2>1 DEF Dated, Shown
  <2> QED BY <1>1, <1>2, <1>3, <2>1, <2>2 DEF Dated
<1>4. CASE j.do \in {"member", "forget"}
  <2>1. j.room \in RoomIds /\ j.is \in Nat /\ j.is <= members[j.room].is
    BY <1>4, JobKinds DEF Dated
  <2>2. CASE j.room = r
    BY <1>1, <1>4, <2>1, <2>2 DEF Dated
  <2>3. CASE j.room # r
    BY <1>1, <1>4, <2>1, <2>3 DEF Dated
  <2> QED BY <2>2, <2>3
<1>5. CASE j.do = "joined"
  <2>1. j.ages \in [RoomIds -> Nat]
    BY <1>5, JobKinds
  <2>2. ASSUME NEW s \in RoomIds
        PROVE  /\ j.ages[s] <= members'[s].is
               /\ j.ages[s] = members'[s].is => (s \in j.rooms <=> members'[s].m = "join")
    BY <1>1, <1>5, <2>1 DEF Dated
  <2> QED BY <1>5, <2>2 DEF Dated
<1>6. CASE j.do \notin {"round", "member", "forget", "joined"}
  BY <1>6 DEF Dated
<1> QED BY <1>3, <1>4, <1>5, <1>6

LEMMA AgeBecomes ==
  ASSUME AgeInv, TypeInv, TypeInv', NEW r \in RoomIds, NEW m \in Memberships, Becomes(r, m),
         queue' = queue, asOf' = asOf,
         \A c \in Calls : call'[c] = call[c] \/ (call'[c] \in AnsweredCalls /\ Dated(call[c].job)')
  PROVE  AgeInv'
<1>1. /\ Clock \in Nat /\ Clock' \in Nat /\ members'[r] = [m |-> m, is |-> Clock + 1]
      /\ \A s \in RoomIds : s # r => members'[s] = members[s]
      /\ \A s \in RoomIds : members'[s].is <= Clock'
  BY ClockIs, ClockIsThen, BecomesTyped DEF TypeInv
<1>2. Clock < Clock' /\ asOf \in Nat
  <2>1. members'[r].is = Clock + 1 /\ members'[r].is <= Clock'
    BY <1>1
  <2> QED BY <1>1, <2>1 DEF TypeInv, Types
<1>3. asOf' <= Clock'
  BY <1>1, <1>2 DEF AgeInv
<1>4. \A s \in RoomIds : members'[s].m = "invite" => members'[s].is # 0
  BY <1>1 DEF AgeInv
<1>5. \A j \in Jobs : Dated(j) => Dated(j)'
  BY DatedBecomes DEF TypeInv
<1>6. ASSUME NEW i \in DOMAIN queue' PROVE Dated(queue[i])'
  <2>0. i \in DOMAIN queue /\ queue \in Seq(Jobs) /\ queue'[i] = queue[i]
    BY DEF TypeInv, Types
  <2>1. queue'[i] \in Jobs /\ Dated(queue'[i])
    BY <2>0 DEF AgeInv
  <2> QED BY <1>5, <2>1
<1>7. \A c \in Calls : call[c] \in AnsweredCalls \cup FetchedCalls => call[c].job \in Jobs
  <2>1. \A x \in AnsweredCalls \cup FetchedCalls : x.job \in AnswerJobs \cup RoundJobs
    BY DEF AnsweredCalls, FetchedCalls
  <2> QED BY <2>1, AnswersAreJobs
<1>8. ASSUME NEW c \in Calls, call'[c] \in AnsweredCalls \cup FetchedCalls PROVE Dated(call[c].job)'
  <2>1. CASE call'[c] = call[c]
    <3>1. call'[c].job \in Jobs /\ Dated(call'[c].job)
      BY <1>7, <1>8, <2>1 DEF AgeInv
    <3> QED BY <1>5, <3>1
  <2> QED BY <2>1
<1> QED BY <1>3, <1>4, <1>6, <1>8 DEF AgeInv

LEMMA AgeStep ==
  TypeInv /\ TypeInv' /\ CoverInv /\ AgeInv /\ RoomShapes /\ [RoomsNext]_roomVars => AgeInv'
<1> SUFFICES ASSUME TypeInv, TypeInv', CoverInv, AgeInv, RoomShapes, [RoomsNext]_roomVars
             PROVE  AgeInv'
  OBVIOUS
<1> USE DEF roomServer, roomsLine, cacheDb, roomGhosts
<1>0. /\ Clock \in Nat /\ asOf \in Nat
         /\ \A r \in RoomIds : members[r].is \in Nat /\ members[r].is <= Clock
      /\ members \in [RoomIds -> [m : Memberships, is : Nat]]
  <2>1. members \in [RoomIds -> [m : Memberships, is : Nat]] /\ asOf \in Nat
    BY DEF TypeInv, Types
  <2> QED BY <2>1, ClockIs DEF TypeInv
<1>1. ASSUME UNCHANGED <<members, asOf, queue, call>> PROVE AgeInv'
  BY <1>1, AgeStays DEF AgeInv
<1>2. ASSUME NEW c \in Calls, NEW x \in PlainCalls \cup PullCalls, GoesOn(c, x),
             UNCHANGED <<members, asOf, queue>>
      PROVE  AgeInv'
  <2>1. x \notin AnsweredCalls \cup FetchedCalls
    BY DEF PlainCalls, PullCalls, AnsweredCalls, FetchedCalls
  <2> QED BY <1>2, <2>1, AgeOfMove
<1>3. ASSUME NEW c \in Calls, NEW job \in AnswerJobs, GoesOn(c, [pc |-> "answered", job |-> job]),
             Dated(job), UNCHANGED <<members, asOf, queue>>
      PROVE  AgeInv'
  <2>1. [pc |-> "answered", job |-> job].job = job
    OBVIOUS
  <2> QED BY <1>3, <2>1, AgeOfMove
<1>4. ASSUME NEW r \in RoomIds, NEW m \in Memberships, OthersChange(r, m) PROVE AgeInv'
  BY <1>4, AgeBecomes DEF OthersChange
<1>5. CASE PushIsLost \/ NewEvent \/ RoomsLineDies \/ TellOpened \/ TakeInvite
  BY <1>1, <1>5 DEF PushIsLost, NewEvent, RoomsLineDies, TellOpened, TakeInvite
<1>6. CASE Subscribe
  <2>1. /\ DOMAIN queue' = DOMAIN queue /\ call' = call /\ members' = members /\ asOf' = asOf
        /\ \A i \in DOMAIN queue : /\ queue[i].by # Task => queue'[i] = queue[i]
                                   /\ queue[i].by = Task => queue'[i].by = Absent
                                   /\ queue'[i].do = queue[i].do /\ queue[i] \in Jobs
    BY <1>6, Orphaned DEF Subscribe, TypeInv, Types
  <2>2. Task \notin Calls
    BY DEF RoomShapes
  <2>3. ASSUME NEW i \in DOMAIN queue' PROVE Dated(queue'[i])
    <3>1. CASE queue[i].by = Task
      <4>1. queue[i].do \in {"push", "events"}
        BY <2>1, <2>2, <3>1, JobKinds
      <4> QED BY <2>1, <4>1 DEF Dated
    <3>2. CASE queue[i].by # Task
      BY <2>1, <3>2 DEF AgeInv
    <3> QED BY <3>1, <3>2
  <2> QED BY <2>1, <2>3, AgeStays DEF AgeInv
<1>7. CASE WriteInvite
  <2>1. DEFINE job == [do |-> "push", by |-> Task, room |-> task.push.room, m |-> task.push.m]
  <2>2. job \in Jobs /\ job.do = "push" /\ Post(job)
    BY <1>7, WriteInviteTyped, PushesAre DEF WriteInvite, PushTasks, Jobs, PushJobs
  <2>3. UNCHANGED <<members, asOf, call>>
    BY <1>7 DEF WriteInvite
  <2> HIDE DEF job
  <2>4. Dated(job)
    BY <2>2 DEF Dated
  <2> QED BY <2>2, <2>3, <2>4, AgeOfPost
<1>8. CASE TellInvite
  <2>1. UNCHANGED <<members, queue, call>> /\ (asOf' = asOf \/ asOf' = Clock)
    BY <1>8 DEF TellInvite
  <2>2. asOf' <= Clock
    BY <1>0, <2>1 DEF AgeInv
  <2> QED BY <2>1, <2>2, AgeStays DEF AgeInv
<1>9. CASE TakeEvents
  <2>1. DEFINE job == [do |-> "events", by |-> Task, events |-> {Head(feed)}]
  <2>2. job \in Jobs /\ job.do = "events" /\ Post(job)
    BY <1>9 DEF TakeEvents, Jobs, EventJobs, Owners, TypeInv, Types
  <2>3. UNCHANGED <<members, asOf, call>>
    BY <1>9 DEF TakeEvents
  <2> HIDE DEF job
  <2>4. Dated(job)
    BY <2>2 DEF Dated
  <2> QED BY <2>2, <2>3, <2>4, AgeOfPost
<1>10. ASSUME NEW c \in Calls, NEW r \in RoomIds, NEW m \in Memberships, Act(c, r, m) PROVE AgeInv'
  <2>1. DEFINE job == [do |-> "member", by |-> c, room |-> r, m |-> m, is |-> Clock + 1]
  <2>2. Becomes(r, m) /\ queue' = queue /\ asOf' = asOf
    BY <1>10 DEF Act
  <2>3. GoesOn(c, [pc |-> "answered", job |-> job]) /\ members'[r] = [m |-> m, is |-> Clock + 1]
    <3>1. members'[r] = [m |-> m, is |-> Clock + 1]
      BY <2>2, BecomesTyped DEF TypeInv
    <3> QED BY <1>10, <3>1 DEF Act, AnsweredWith
  <2>4. job \in AnswerJobs
    <3>1. m \in {"join", "leave"}
      BY <1>10 DEF Act
    <3>2. Clock + 1 \in Nat
      BY <1>0
    <3> HIDE DEF job
    <3>3. job = [do |-> "member", by |-> c, room |-> r, m |-> m, is |-> Clock + 1]
      BY DEF job
    <3> QED BY <1>10, <3>1, <3>2, <3>3 DEF AnswerJobs, MemberJobs
  <2>5. call' = [call EXCEPT ![c] = [pc |-> "answered", job |-> job]]
        /\ call \in [Calls -> CallStates]
    BY <2>3 DEF GoesOn, TypeInv, Types
  <2>6. call'[c] = [pc |-> "answered", job |-> job] /\ \A d \in Calls : d # c => call'[d] = call[d]
    BY <2>5
  <2>7. call'[c].job = job /\ call'[c] \in AnsweredCalls
    <3> HIDE DEF job
    <3> QED BY <2>4, <2>6, AnsweredOnes
  <2>8. job.do = "member" /\ job.room = r /\ job.is = Clock + 1 /\ job.m = m
    OBVIOUS
  <2> HIDE DEF job
  <2>9. Dated(call[c].job)'
    BY <1>0, <2>3, <2>7, <2>8 DEF Dated
  <2> QED BY <2>2, <2>6, <2>7, <2>9, AgeBecomes
<1>11. ASSUME NEW c \in Calls, NEW r \in RoomIds, ForgetRoom(c, r) PROVE AgeInv'
  <2>1. DEFINE job == [do |-> "forget", by |-> c, room |-> r, is |-> members[r].is]
  <2>2. job \in AnswerJobs /\ job.do = "forget" /\ job.room = r /\ job.is = members[r].is
    BY <1>0 DEF AnswerJobs, ForgetJobs
  <2>3. GoesOn(c, [pc |-> "answered", job |-> job]) /\ UNCHANGED <<members, asOf, queue>>
    BY <1>11 DEF ForgetRoom, AnsweredWith
  <2> HIDE DEF job
  <2>4. Dated(job)
    BY <1>0, <1>11, <2>2 DEF Dated, ForgetRoom
  <2> QED BY <1>3, <2>2, <2>3, <2>4
<1>12. ASSUME NEW c \in Calls, NEW r \in RoomIds, Look(c, r) PROVE AgeInv'
  <2>1. DEFINE job == [do |-> "look", by |-> c, room |-> r, is |-> members[r].is,
                       seen |-> IF r = Talk /\ sealAt # 0 THEN "yes" ELSE "no"]
  <2>2. job \in AnswerJobs /\ job.do = "look"
    BY <1>0 DEF AnswerJobs, LookJobs
  <2>3. GoesOn(c, [pc |-> "answered", job |-> job]) /\ UNCHANGED <<members, asOf, queue>>
    BY <1>12 DEF Look, AnsweredWith
  <2> HIDE DEF job
  <2>4. Dated(job)
    BY <2>2 DEF Dated
  <2> QED BY <1>3, <2>2, <2>3, <2>4
<1>13. ASSUME NEW c \in Calls, List(c) PROVE AgeInv'
  <2>1. DEFINE job == [do |-> "joined", by |-> c,
                       rooms |-> {r \in RoomIds : members[r].m = "join"},
                       ages |-> [r \in RoomIds |-> members[r].is]]
  <2>2. /\ job \in AnswerJobs /\ job.do = "joined"
        /\ \A r \in RoomIds :
             job.ages[r] = members[r].is /\ (r \in job.rooms <=> members[r].m = "join")
    BY <1>0 DEF AnswerJobs, JoinedJobs
  <2>3. GoesOn(c, [pc |-> "answered", job |-> job]) /\ UNCHANGED <<members, asOf, queue>>
    BY <1>13 DEF List, AnsweredWith
  <2> HIDE DEF job
  <2>4. Dated(job)
    BY <1>0, <2>2 DEF Dated
  <2> QED BY <1>3, <2>2, <2>3, <2>4
<1>14. ASSUME NEW c \in Calls, FetchAnswered(c) PROVE AgeInv'
  <2>1. DEFINE job == [do |-> "round", by |-> c, snap |-> Counts, at |-> Clock]
               x == [pc |-> "fetched", job |-> job]
  <2>2. job.do = "round" /\ job.snap = Counts /\ job.at = Clock /\ x.job = job
    OBVIOUS
  <2>3. GoesOn(c, x) /\ UNCHANGED <<members, asOf, queue>>
    BY <1>14 DEF FetchAnswered
  <2> HIDE DEF job, x
  <2>4. \A r \in RoomIds : Counts[r] <= Clock /\ Shown(r, Counts)
    BY <1>0 DEF Counts, Shown, AgeInv
  <2>5. Dated(job)
    BY <1>0, <2>2, <2>4 DEF Dated
  <2> QED BY <2>2, <2>3, <2>5, AgeOfMove
<1>15. ASSUME NEW c \in Calls, FetchInvites(c) \/ CloseRound(c) \/ BreaksOff(c) \/ Return(c)
       PROVE  AgeInv'
  <2>1. PICK x \in PlainCalls : GoesOn(c, x)
    BY <1>15, RestingIsPlain, PlainOnes DEF FetchInvites, CloseRound, BreaksOff, Return
  <2>2. UNCHANGED <<members, asOf, queue>>
    BY <1>15 DEF FetchInvites, CloseRound, BreaksOff, Return
  <2> QED BY <1>2, <2>1, <2>2
<1>16. ASSUME NEW c \in Calls, Recent(c) PROVE AgeInv'
  <2>1. PICK base \in {watermark, 0} :
          GoesOn(c, [pc |-> "window", base |-> base, before |-> head + 1, top |-> 0])
    BY <1>16 DEF Recent
  <2>2. base \in Nat /\ head + 1 \in Nat
    BY DEF TypeInv, Types
  <2>3. [pc |-> "window", base |-> base, before |-> head + 1, top |-> 0] \in PullCalls
    BY <2>2, PullOnes
  <2> QED BY <1>2, <1>16, <2>1, <2>3 DEF Recent
<1>17. ASSUME NEW c \in Calls, NextWindow(c) PROVE AgeInv'
  <2>1. PICK p \in {"window", "pulled"} : GoesOn(c, [call[c] EXCEPT !.pc = p])
    BY <1>17 DEF NextWindow
  <2>2. call[c] \in PullCalls
    BY <1>17, CallKinds DEF NextWindow, TypeInv, Types
  <2>3. [call[c] EXCEPT !.pc = p] \in PullCalls
    BY <2>2, PullGoesOn
  <2> QED BY <1>2, <1>17, <2>1, <2>3 DEF NextWindow
<1>18. ASSUME NEW c \in Calls, NEW x \in PlainCalls \cup PullCalls, GoesOn(c, x), NEW job \in Jobs,
              Post(job), Dated(job),
              UNCHANGED <<members, asOf>>
       PROVE  AgeInv'
  <2>1. \A d \in Calls : call'[d] = call[d] \/ call'[d] \in PlainCalls \cup PullCalls
    BY <1>18 DEF GoesOn, TypeInv, Types
  <2> QED BY <1>18, <2>1, AgeOfPost
<1>19. ASSUME NEW c \in Calls, AskWindow(c) PROVE AgeInv'
  <2>1. /\ call[c] \in PullCalls /\ call[c].base \in Nat /\ call[c].before \in Nat
        /\ call[c].top \in Nat
    BY <1>19, CallKinds DEF AskWindow, TypeInv, Types
  <2>2. call[c].before <= head + 1
    BY <2>1 DEF CoverInv, Known
  <2>3. UNCHANGED <<members, asOf>>
    BY <1>19 DEF AskWindow
  <2>4. CASE queue' = queue /\ GoesOn(c, [call[c] EXCEPT !.pc = "pulled"])
    <3>1. [call[c] EXCEPT !.pc = "pulled"] \in PullCalls
      BY <2>1, PullGoesOn
    <3> QED BY <1>2, <2>3, <2>4, <3>1
  <2>5. ASSUME NEW lo \in Nat, NEW job \in Jobs,
               job = [do |-> "events", by |-> c, events |-> lo .. call[c].before - 1],
               lo < call[c].before, Post(job),
               GoesOn(c, [pc |-> "wait", base |-> call[c].base, before |-> lo,
                          top |-> IF call[c].top = 0 THEN call[c].before - 1 ELSE call[c].top])
        PROVE AgeInv'
    <3>1. DEFINE top == IF call[c].top = 0 THEN call[c].before - 1 ELSE call[c].top
    <3>2. top \in Nat
      BY <2>1, <2>5
    <3>3. [pc |-> "wait", base |-> call[c].base, before |-> lo, top |-> top] \in PullCalls
      <4> HIDE DEF top
      <4> QED BY <2>1, <3>2, PullOnes
    <3>4. job.do = "events"
      BY <2>5
    <3>5. Dated(job)
      BY <3>4 DEF Dated
    <3> QED BY <1>18, <2>3, <2>5, <3>3, <3>5
  <2> QED BY <1>19, <2>2, <2>4, <2>5, AskWindowSteps
<1>20. ASSUME NEW c \in Calls, MarkRecent(c) PROVE AgeInv'
  <2>1. UNCHANGED <<members, asOf>>
    BY <1>20 DEF MarkRecent
  <2>2. CASE queue' = queue /\ GoesOn(c, Resting)
    BY <1>2, <2>1, <2>2, RestingIsPlain
  <2>3. ASSUME NEW job \in Jobs, job = [do |-> "mark", by |-> c, at |-> call[c].top], Post(job),
               GoesOn(c, [pc |-> "wait"])
        PROVE AgeInv'
    <3>1. job.do = "mark"
      BY <2>3
    <3>2. Dated(job)
      BY <3>1 DEF Dated
    <3> QED BY <1>18, <2>1, <2>3, <3>2, PlainOnes
  <2> QED BY <1>20, <2>2, <2>3, MarkRecentSteps
<1>21. ASSUME NEW c \in Calls, Record(c) PROVE AgeInv'
  <2>1. UNCHANGED <<members, asOf>>
    BY <1>21 DEF Record
  <2>2. /\ call[c].job \in Jobs /\ Post(call[c].job) /\ GoesOn(c, [pc |-> "wait"])
        /\ call[c] \in AnsweredCalls \cup FetchedCalls
    BY <1>21, RecordSteps
  <2>3. Dated(call[c].job)
    BY <2>2 DEF AgeInv
  <2> QED BY <1>18, <2>1, <2>2, <2>3, PlainOnes
<1>22. CASE Commit
  <2>1. queue # <<>> /\ queue' = Tail(queue) /\ Report("stored") /\ members' = members
    BY <1>22 DEF Commit
  <2>2. asOf' <= Clock
    <3>1. 1 \in DOMAIN queue /\ Job = queue[1] /\ Job \in Jobs
      BY <2>1, Gone DEF TypeInv, Types, Job
    <3>2. CASE ApplyRound
      <4>1. Job.at \in Nat /\ Job.at <= Clock
        BY <3>1, <3>2, JobKinds DEF AgeInv, Dated, ApplyRound
      <4>2. asOf' = Max({asOf, Job.at})
        BY <3>2 DEF ApplyRound
      <4>3. asOf <= Clock
        BY DEF AgeInv
      <4>4. asOf' \in {asOf, Job.at}
        BY <1>0, <4>1, <4>2, MaxOfTwo
      <4> QED BY <1>0, <4>1, <4>3, <4>4
    <3>3. CASE asOf' = asOf
      BY <3>3 DEF AgeInv
    <3> QED
      BY <1>22, <3>2, <3>3
         DEF Commit, ApplyPush, ApplyMember, ApplyJoined, ApplyLook, ApplyForget, ApplyEvents,
             ApplyMark
  <2> QED BY <2>1, <2>2, AgeOfReport
<1>23. CASE WriteFails
  BY <1>23, AgeOfReport DEF WriteFails, AgeInv
<1>24. CASE RoomsCrash
  <2>1. /\ DOMAIN queue' = {} /\ UNCHANGED <<members, asOf>> /\ \A c \in Calls : call'[c] = Resting
    BY <1>24 DEF RoomsCrash
  <2> QED BY <2>1, RestingIsPlain, AgeStays DEF AgeInv
<1>25. CASE UNCHANGED roomVars
  BY <1>1, <1>25 DEF roomVars
<1> QED
  BY <1>4, <1>5, <1>6, <1>7, <1>8, <1>9, <1>10, <1>11, <1>12, <1>13, <1>14, <1>15,
     <1>16, <1>17, <1>19, <1>20, <1>21, <1>22, <1>23, <1>24, <1>25 DEF RoomsNext

\* What sets a room right.

\* A membership that is an invite where the server's is one, and only there.
Agree(r, m) == (m = "invite") <=> (members[r].m = "invite")

IsPush(i, r) == queue[i].do = "push" /\ queue[i].room = r
RoundAt(r, i) == queue[i].do = "round" /\ touched[r] = 0 /\ Shown(r, queue[i].snap)
\* Something behind place q in the queue will set the room right.
Later(r, q) == \E i \in DOMAIN queue : i > q /\ (IsPush(i, r) \/ RoundAt(r, i))

InWire(r) == \E i \in DOMAIN wire : wire[i].room = r
Marked(r) == task.pc = "marked" /\ task.push.room = r
TaskGap == task \in PushTasks /\ task.gap
GapAhead == srvGap \/ lost \/ (\E i \in DOMAIN wire : wire[i].gap) \/ TaskGap
\* A round is due: the UI owes one, or will be told something that makes it owe one.
Debt == ~on \/ ~told \/ owes \/ GapAhead \/ (\E c \in Calls : call[c].pc = "noround")
\* A round is on its way that will set the room right.
Coming(r) == /\ touched[r] = 0
             /\ \E c \in Calls : \/ call[c].pc = "fetching"
                                 \/ call[c].pc = "fetched" /\ Shown(r, call[c].job.snap)
Soon(r) == Marked(r) \/ InWire(r) \/ Debt \/ Coming(r)

WireOk(r) == \A i \in DOMAIN wire : wire[i].room = r =>
  \/ Agree(r, wire[i].m)
  \/ srvGap
  \/ \E j \in DOMAIN wire : j > i /\ wire[j].room = r
  \/ \E j \in DOMAIN wire : j >= i /\ wire[j].gap
MarkedOk(r) == Marked(r) => Agree(r, task.push.m) \/ InWire(r) \/ ~on \/ GapAhead
QueueOk(r) == \A q \in DOMAIN queue : IsPush(q, r) =>
  \/ Agree(r, queue[q].m) /\ queue[q].by = Task
  \/ Later(r, q)
  \/ Soon(r)
TaskFailed(r) == task.pc = "failed" /\ task.push.room = r
MemOk(r) == Agree(r, mem[r]) \/ r \in stale \/ Later(r, 0) \/ Soon(r) \/ TaskFailed(r)
Settles(r) == WireOk(r) /\ MarkedOk(r) /\ QueueOk(r) /\ MemOk(r)

\* A snapshot tells of the room what is so, or something newer will be said.
Pushed(r, since) == \E i \in DOMAIN wire : wire[i].room = r /\ wire[i].is > since
\* A newer round will say it.
Outdone(r, since) ==
  /\ touched[r] = 0 /\ ~InWire(r)
  /\ \/ \E c \in Calls : \/ call[c].pc = "fetching"
                         \/ /\ call[c].pc = "fetched" /\ Shown(r, call[c].job.snap)
                            /\ call[c].job.at > since
     \/ \E i \in DOMAIN queue : RoundAt(r, i) /\ queue[i].at > since
SnapOk(r, snap, since) ==
  \/ since < asOf \/ Shown(r, snap) \/ touched[r] > since \/ Pushed(r, since) \/ Debt
  \/ Outdone(r, since)
SnapsOk(r) ==
  /\ \A c \in Calls : call[c].pc = "fetched" => SnapOk(r, call[c].job.snap, call[c].job.at)
  /\ \A i \in DOMAIN queue : queue[i].do = "round" => SnapOk(r, queue[i].snap, queue[i].at)

SettleInv == \A r \in RoomIds \ spilt : Settles(r) /\ SnapsOk(r)

\* A push that is under way while a snapshot is: what made the snapshot wrong is behind
\* the push, or was dropped there.
Under(j) == \/ \E c \in Calls : call[c].pc = "fetched" /\ j = call[c].job
            \/ \E i \in DOMAIN queue : queue[i].do = "round" /\ j = queue[i]
Behind(r, snap, since) == \A i \in DOMAIN wire : wire[i].room = r =>
  \/ Shown(r, snap) \/ srvGap \/ since < asOf
  \/ \E j \in DOMAIN wire : j >= i /\ (wire[j].gap \/ (wire[j].room = r /\ wire[j].is > since))
WireInv == \A r \in RoomIds \ spilt, j \in RoundJobs : Under(j) => Behind(r, j.snap, j.at)

LEMMA DebtSettles ==
  ASSUME NEW r \in RoomIds, Debt', WireOk(r)', MarkedOk(r)'
  PROVE  Settles(r)' /\ SnapsOk(r)'
BY DEF Settles, QueueOk, MemOk, SnapsOk, SnapOk, Soon

LEMMA DebtStays ==
  ASSUME ~on => ~on', ~told => ~told' \/ owes', owes => owes', GapAhead => GapAhead' \/ owes',
         \A c \in Calls : call[c].pc = "noround" => call'[c].pc = "noround" \/ owes'
  PROVE  Debt => Debt'
BY DEF Debt

LEMMA GapStays ==
  ASSUME srvGap => srvGap', lost => lost', wire' = wire, TaskGap => TaskGap'
  PROVE  GapAhead => GapAhead'
BY DEF GapAhead

LEMMA ComingStays ==
  ASSUME NEW r \in RoomIds, touched' = touched,
         members'[r].m = "invite" <=> members[r].m = "invite",
         \A c \in Calls : call[c].pc \in {"fetching", "fetched"} => call'[c] = call[c]
  PROVE  Coming(r) => Coming(r)'
BY DEF Coming, Shown

LEMMA WireStays ==
  ASSUME NEW r \in RoomIds, WireOk(r), members'[r].m = "invite" <=> members[r].m = "invite",
         wire' = wire,
         srvGap => srvGap'
  PROVE  WireOk(r)'
BY DEF WireOk, Agree

LEMMA MarkedStays ==
  ASSUME NEW r \in RoomIds, MarkedOk(r), members'[r].m = "invite" <=> members[r].m = "invite",
         Marked(r)' => Marked(r) /\ task'.push = task.push,
         InWire(r) => InWire(r)', ~on => ~on', GapAhead => GapAhead'
  PROVE  MarkedOk(r)'
BY DEF MarkedOk, Agree

\* The queue gets nothing of a push or of a round, and loses nothing.
QueueGrows ==
  /\ \A q \in DOMAIN queue : q \in DOMAIN queue' /\ queue'[q] = queue[q]
  /\ \A q \in DOMAIN queue' : queue'[q].do \in {"push", "round"} => q \in DOMAIN queue

LEMMA LaterStays ==
  ASSUME NEW r \in RoomIds, NEW q, Later(r, q), touched' = touched,
         members'[r].m = "invite" <=> members[r].m = "invite",
         \A i \in DOMAIN queue : i \in DOMAIN queue' /\ queue'[i] = queue[i]
  PROVE  Later(r, q)'
BY DEF Later, IsPush, RoundAt, Shown

LEMMA QueueStays ==
  ASSUME NEW r \in RoomIds, QueueOk(r), QueueGrows, touched' = touched,
         members'[r].m = "invite" <=> members[r].m = "invite", Soon(r) => Soon(r)'
  PROVE  QueueOk(r)'
<1> SUFFICES ASSUME NEW q \in DOMAIN queue', IsPush(q, r)'
             PROVE  (Agree(r, queue[q].m) /\ queue[q].by = Task)' \/ Later(r, q)' \/ Soon(r)'
  BY DEF QueueOk
<1>1. q \in DOMAIN queue /\ queue'[q] = queue[q]
  BY DEF QueueGrows, IsPush
<1>2. (Agree(r, queue[q].m) /\ queue[q].by = Task) \/ Later(r, q) \/ Soon(r)
  BY <1>1 DEF QueueOk, IsPush
<1>3. Later(r, q) => Later(r, q)'
  BY LaterStays DEF QueueGrows
<1>4. Agree(r, queue[q].m) => Agree(r, queue[q].m)'
  BY <1>1 DEF Agree
<1> QED BY <1>1, <1>2, <1>3, <1>4

LEMMA MemStays ==
  ASSUME NEW r \in RoomIds, MemOk(r), members'[r].m = "invite" <=> members[r].m = "invite",
         mem'[r] = "invite" <=> mem[r] = "invite", r \in stale => r \in stale',
         Later(r, 0) => Later(r, 0)' \/ Soon(r)', Soon(r) => Soon(r)' \/ Later(r, 0)',
         TaskFailed(r) => TaskFailed(r)' \/ r \in stale'
  PROVE  MemOk(r)'
BY DEF MemOk, Agree

LEMMA SnapStays ==
  ASSUME NEW r \in RoomIds, NEW snap, NEW since, SnapOk(r, snap, since), asOf' = asOf,
         members'[r].m = "invite" <=> members[r].m = "invite", touched' = touched,
         Pushed(r, since) => Pushed(r, since)', Debt => Debt',
         Outdone(r, since) => Outdone(r, since)'
  PROVE  SnapOk(r, snap, since)'
BY DEF SnapOk, Shown

LEMMA OutdoneStays ==
  ASSUME NEW r \in RoomIds, touched' = touched, InWire(r)' => InWire(r),
         members'[r].m = "invite" <=> members[r].m = "invite",
         \A i \in DOMAIN queue : i \in DOMAIN queue' /\ queue'[i] = queue[i],
         \A c \in Calls : call[c].pc \in {"fetching", "fetched"} => call'[c] = call[c]
  PROVE  \A since : Outdone(r, since) => Outdone(r, since)'
<1> TAKE since
<1> HAVE Outdone(r, since)
<1>1. \A snap : Shown(r, snap)' <=> Shown(r, snap)
  BY DEF Shown
<1>2. touched'[r] = 0 /\ ~InWire(r)'
  BY DEF Outdone
<1>3. ASSUME NEW c \in Calls,
             \/ call[c].pc = "fetching"
             \/ call[c].pc = "fetched" /\ Shown(r, call[c].job.snap) /\ call[c].job.at > since
      PROVE  Outdone(r, since)'
  <2>1. call'[c] = call[c]
    BY <1>3
  <2> QED BY <1>1, <1>2, <1>3, <2>1 DEF Outdone
<1>4. ASSUME NEW i \in DOMAIN queue, RoundAt(r, i), queue[i].at > since
      PROVE  Outdone(r, since)'
  <2>1. i \in DOMAIN queue' /\ queue'[i] = queue[i] /\ RoundAt(r, i)'
    BY <1>1, <1>4 DEF RoundAt
  <2> QED BY <1>2, <1>4, <2>1 DEF Outdone
<1> QED BY <1>3, <1>4 DEF Outdone

LEMMA SnapsStay ==
  ASSUME NEW r \in RoomIds, SnapsOk(r), asOf' = asOf,
         members'[r].m = "invite" <=> members[r].m = "invite", touched' = touched,
         \A since : Pushed(r, since) => Pushed(r, since)', Debt => Debt',
         InWire(r)' => InWire(r), QueueGrows,
         \A c \in Calls : call[c].pc \in {"fetching", "fetched"} => call'[c] = call[c],
         \A c \in Calls : call'[c].pc = "fetched" => call'[c] = call[c]
  PROVE  SnapsOk(r)'
<1>0. \A since : Outdone(r, since) => Outdone(r, since)'
  BY OutdoneStays DEF QueueGrows
<1>1. ASSUME NEW c \in Calls, call'[c].pc = "fetched"
      PROVE  SnapOk(r, call[c].job.snap, call[c].job.at)'
  <2>1. call'[c] = call[c] /\ SnapOk(r, call[c].job.snap, call[c].job.at)
    BY <1>1 DEF SnapsOk
  <2>2. ASSUME NEW snap, NEW since, SnapOk(r, snap, since) PROVE SnapOk(r, snap, since)'
    BY <1>0, <2>2, SnapStays
  <2> QED BY <2>1, <2>2
<1>2. ASSUME NEW i \in DOMAIN queue', queue'[i].do = "round"
      PROVE  SnapOk(r, queue[i].snap, queue[i].at)'
  <2>1. i \in DOMAIN queue /\ queue'[i] = queue[i] /\ SnapOk(r, queue[i].snap, queue[i].at)
    BY <1>2 DEF SnapsOk, QueueGrows
  <2>2. ASSUME NEW snap, NEW since, SnapOk(r, snap, since) PROVE SnapOk(r, snap, since)'
    BY <1>0, <2>2, SnapStays
  <2> QED BY <2>1, <2>2
<1> QED BY <1>1, <1>2 DEF SnapsOk

\* One lemma for each operation that the room of an invite can notice.

TaskStays == \/ task' = task
             \/ task.pc = "idle" /\ task' = [pc |-> "wait"]

LEMMA TaskSame ==
  ASSUME Types, TaskStays, NEW r \in RoomIds
  PROVE  /\ TaskGap => TaskGap'
         /\ Marked(r)' => Marked(r) /\ task'.push = task.push
         /\ Marked(r) => Marked(r)'
         /\ TaskFailed(r) => TaskFailed(r)'
<1>1. CASE task' = task
  BY <1>1 DEF TaskGap, Marked, TaskFailed
<1>2. CASE task.pc = "idle" /\ task' = [pc |-> "wait"]
  <2>1. task \notin PushTasks
    BY <1>2, TaskKinds DEF Types
  <2>2. task'.pc = "wait"
    BY <1>2
  <2> QED BY <1>2, <2>1, <2>2 DEF TaskGap, Marked, TaskFailed
<1> QED BY <1>1, <1>2 DEF TaskStays

LEMMA Grows ==
  ASSUME Types, queue' = queue \/ \E job \in Jobs : Post(job) /\ job.do \notin {"push", "round"}
  PROVE  QueueGrows
<1>1. CASE queue' = queue
  BY <1>1 DEF QueueGrows
<1>2. ASSUME NEW job \in Jobs, Post(job), job.do \notin {"push", "round"} PROVE QueueGrows
  <2>1. queue \in Seq(Jobs)
    BY DEF Types
  <2>2. /\ DOMAIN queue = 1 .. Len(queue) /\ DOMAIN queue' = 1 .. Len(queue) + 1
        /\ Len(queue) \in Nat
        /\ \A i \in DOMAIN queue : queue'[i] = queue[i]
        /\ queue'[Len(queue) + 1] = job
    BY <1>2, <2>1, JobPosted
  <2>3. \A i \in DOMAIN queue' : i \in DOMAIN queue \/ queue'[i] = job
    BY <2>2
  <2>4. \A i \in DOMAIN queue : i \in DOMAIN queue'
    BY <2>2
  <2> QED BY <1>2, <2>2, <2>3, <2>4 DEF QueueGrows
<1> QED BY <1>1, <1>2

LEMMA SettleStays ==
  ASSUME TypeInv, NEW r \in RoomIds, Settles(r), SnapsOk(r),
         members'[r].m = "invite" <=> members[r].m = "invite",
         UNCHANGED <<wire, on, srvGap, lost, touched, mem, stale, asOf>>, TaskStays,
         owes => owes', ~told => ~told' \/ owes',
         queue' = queue \/ \E job \in Jobs : Post(job) /\ job.do \notin {"push", "round"},
         \A c \in Calls : call[c].pc \in {"fetching", "fetched", "noround"} => call'[c] = call[c],
         \A c \in Calls : call'[c].pc = "fetched" => call'[c] = call[c]
  PROVE  Settles(r)' /\ SnapsOk(r)'
<1>1. QueueGrows
  BY Grows DEF TypeInv
<1>2. /\ TaskGap => TaskGap'
      /\ Marked(r)' => Marked(r) /\ task'.push = task.push
      /\ Marked(r) => Marked(r)'
      /\ TaskFailed(r) => TaskFailed(r)'
  BY TaskSame DEF TypeInv
<1>3. GapAhead => GapAhead'
  BY <1>2, GapStays
<1>4. Debt => Debt'
  BY <1>3, DebtStays
<1>5. InWire(r) <=> InWire(r)'
  BY DEF InWire
<1>6. \A since : Pushed(r, since) => Pushed(r, since)'
  BY DEF Pushed
<1>7. Coming(r) => Coming(r)'
  BY ComingStays
<1>8. Soon(r) => Soon(r)'
  BY <1>2, <1>4, <1>5, <1>7 DEF Soon
<1>9. Later(r, 0) => Later(r, 0)'
  BY <1>1, LaterStays DEF QueueGrows
<1>10. WireOk(r)'
  BY WireStays DEF Settles
<1>11. MarkedOk(r)'
  BY <1>2, <1>3, <1>5, MarkedStays DEF Settles
<1>12. QueueOk(r)'
  BY <1>1, <1>8, QueueStays DEF Settles
<1>13. MemOk(r)'
  BY <1>2, <1>8, <1>9, MemStays DEF Settles
<1>14. SnapsOk(r)'
  BY <1>1, <1>4, <1>5, <1>6, SnapsStay
<1> QED BY <1>10, <1>11, <1>12, <1>13, <1>14 DEF Settles

\* What others do, and what this account does from here.
LEMMA SettleBecomes ==
  ASSUME TypeInv, TypeInv', PushOrder, AgeInv, NEW r \in RoomIds, Settles(r), SnapsOk(r),
         NEW s \in RoomIds, NEW m \in Memberships, Becomes(s, m),
         UNCHANGED <<on, told, lost, task, touched, queue, mem, owes, stale, asOf>>,
         \A c \in Calls : call[c].pc \in {"fetching", "fetched", "noround"} => call'[c] = call[c],
         \A c \in Calls : call'[c].pc = "fetched" => call'[c] = call[c]
  PROVE  Settles(r)' /\ SnapsOk(r)'
<1>0. /\ Clock \in Nat /\ members'[s] = [m |-> m, is |-> Clock + 1]
      /\ \A t \in RoomIds : t # s => members'[t] = members[t]
  BY ClockIs, BecomesTyped DEF TypeInv
<1>1. DEFINE push == [room |-> s, m |-> m, is |-> Clock + 1, gap |-> srvGap]
             said == on /\ "invite" \in {m, members[s].m}
<1>2. /\ push.room = s /\ push.m = m /\ push.is = Clock + 1 /\ push.gap = srvGap
      /\ said => wire' = Append(wire, push) /\ srvGap' = FALSE
      /\ ~said => UNCHANGED <<wire, srvGap>>
      /\ wire \in Seq(Pushes)
  BY DEF Becomes, TypeInv, Types
<1> DEFINE n == Len(wire) + 1
<1>3. ASSUME said
      PROVE  /\ n \in Nat /\ n \in DOMAIN wire' /\ wire'[n] = push
             /\ \A i \in DOMAIN wire : i \in DOMAIN wire' /\ wire'[i] = wire[i] /\ i < n
             /\ \A i \in DOMAIN wire' : i \in DOMAIN wire \/ i = n
  <2> HIDE DEF push, said, n
  <2>1. wire' = Append(wire, push) /\ DOMAIN wire = 1 .. Len(wire) /\ Len(wire) \in Nat
    BY <1>2, <1>3
  <2>2. /\ DOMAIN wire' = 1 .. Len(wire) + 1 /\ wire'[Len(wire) + 1] = push
        /\ \A i \in DOMAIN wire : wire'[i] = wire[i]
    BY <2>1
  <2> QED BY <2>1, <2>2 DEF n
<1> HIDE DEF push, n
<1>4. srvGap => GapAhead'
  <2>1. CASE said
    BY <1>2, <1>3, <2>1 DEF GapAhead
  <2>2. CASE ~said
    BY <1>2, <2>2 DEF GapAhead
  <2> QED BY <2>1, <2>2
<1>5. GapAhead => GapAhead'
  <2>1. ASSUME NEW i \in DOMAIN wire, wire[i].gap PROVE GapAhead'
    <3>1. CASE said
      BY <1>3, <2>1, <3>1 DEF GapAhead
    <3>2. CASE ~said
      BY <1>2, <2>1, <3>2 DEF GapAhead
    <3> QED BY <3>1, <3>2
  <2> QED BY <1>4, <2>1 DEF GapAhead, TaskGap
<1>6. Debt => Debt'
  BY <1>5, DebtStays
<1>7. InWire(r) => InWire(r)'
  BY <1>2, <1>3 DEF InWire
<1>8. \A since : Pushed(r, since) => Pushed(r, since)'
  BY <1>2, <1>3 DEF Pushed
<1>9. CASE members'[r].m = "invite" <=> members[r].m = "invite"
  <2>1. Coming(r) => Coming(r)'
    BY <1>9, ComingStays
  <2>2. Soon(r) => Soon(r)'
    BY <1>6, <1>7, <2>1 DEF Soon, Marked
  <2>3. WireOk(r)'
    <3> SUFFICES ASSUME NEW i \in DOMAIN wire', wire'[i].room = r
                 PROVE  \/ Agree(r, wire[i].m)' \/ srvGap'
                        \/ \E j \in DOMAIN wire' : j > i /\ wire'[j].room = r
                        \/ \E j \in DOMAIN wire' : j >= i /\ wire'[j].gap
      BY DEF WireOk
    <3>1. CASE ~said
      <4>1. WireOk(r)'
        BY <1>2, <1>9, <3>1, WireStays DEF Settles
      <4> QED BY <4>1 DEF WireOk
    <3>2. CASE said /\ i \in DOMAIN wire
      <4>1. wire'[i] = wire[i] /\ i < n
        BY <1>3, <3>2
      <4>2. \/ Agree(r, wire[i].m) \/ srvGap
            \/ \E j \in DOMAIN wire : j > i /\ wire[j].room = r
            \/ \E j \in DOMAIN wire : j >= i /\ wire[j].gap
        BY <3>2, <4>1 DEF Settles, WireOk
      <4>3. Agree(r, wire[i].m) => Agree(r, wire[i].m)'
        BY <1>9, <4>1 DEF Agree
      <4>4. i \in Nat
        BY <1>2, <3>2
      <4>5. srvGap => n \in DOMAIN wire' /\ n >= i /\ wire'[n].gap
        <5>1. n \in DOMAIN wire' /\ n \in Nat /\ wire'[n].gap = srvGap
          BY <1>2, <1>3, <3>2
        <5>2. n >= i
          BY <4>1, <4>4, <5>1
        <5> QED BY <5>1, <5>2
      <4>6. \A j \in DOMAIN wire : j \in DOMAIN wire' /\ wire'[j] = wire[j]
        BY <1>3, <3>2
      <4> QED BY <4>2, <4>3, <4>5, <4>6
    <3>3. CASE said /\ i = n
      <4>1. wire'[i].m = m /\ r = s
        BY <1>2, <1>3, <3>3
      <4> QED BY <1>0, <4>1 DEF Agree
    <3> QED BY <1>3, <3>1, <3>2, <3>3
  <2>4. MarkedOk(r)'
    BY <1>5, <1>7, <1>9, MarkedStays DEF Settles, Marked
  <2>5. QueueOk(r)'
    BY <1>9, <2>2, QueueStays DEF Settles, QueueGrows
  <2>6. Later(r, 0) => Later(r, 0)'
    BY <1>9, LaterStays
  <2>7. MemOk(r)'
    BY <1>9, <2>2, <2>6, MemStays DEF Settles, TaskFailed
  <2>8. SnapsOk(r)'
    <3>1. InWire(r)' => InWire(r)
      <4>1. CASE ~said
        BY <1>2, <4>1 DEF InWire
      <4>2. CASE said
        <5>1. members'[s].m = m /\ m # members[s].m
          BY <1>0 DEF Becomes
        <5>2. r # s
          BY <1>9, <4>2, <5>1
        <5> QED BY <1>2, <1>3, <4>2, <5>2 DEF InWire
      <4> QED BY <4>1, <4>2
    <3> QED BY <1>6, <1>8, <1>9, <3>1, SnapsStay DEF QueueGrows
  <2> QED BY <2>3, <2>4, <2>5, <2>7, <2>8 DEF Settles
<1>10. CASE ~(members'[r].m = "invite" <=> members[r].m = "invite")
  <2>1. r = s /\ members'[r].m = m
    BY <1>0, <1>10
  <2>2. "invite" \in {m, members[s].m}
    BY <1>10, <2>1
  <2>3. CASE ~on
    <3>1. Debt'
      BY <2>3 DEF Debt
    <3>2. wire' = <<>>
      BY <1>2, <2>3 DEF PushOrder
    <3>3. WireOk(r)'
      BY <3>2 DEF WireOk
    <3>4. MarkedOk(r)'
      BY <2>3 DEF MarkedOk
    <3> QED BY <3>1, <3>3, <3>4, DebtSettles
  <2>4. CASE on
    <3>1. said
      BY <2>2, <2>4
    <3>2. n \in DOMAIN wire' /\ wire'[n].room = r /\ wire'[n].is = Clock + 1 /\ wire'[n].m = m
      BY <1>2, <1>3, <2>1, <3>1
    <3>3. InWire(r)'
      BY <3>2 DEF InWire
    <3>4. WireOk(r)'
      <4> SUFFICES ASSUME NEW i \in DOMAIN wire', wire'[i].room = r
                   PROVE  \/ Agree(r, wire[i].m)'
                          \/ \E j \in DOMAIN wire' : j > i /\ wire'[j].room = r
        BY DEF WireOk
      <4>1. CASE i = n
        BY <2>1, <3>2, <4>1 DEF Agree
      <4>2. CASE i \in DOMAIN wire
        <5>1. n > i
          BY <1>2, <1>3, <3>1, <4>2
        <5> QED BY <3>2, <5>1
      <4> QED BY <1>3, <3>1, <4>1, <4>2
    <3>5. MarkedOk(r)'
      BY <3>3 DEF MarkedOk
    <3>6. Soon(r)'
      BY <3>3 DEF Soon
    <3>7. \A since \in Nat : since <= Clock => Pushed(r, since)'
      BY <1>0, <3>2 DEF Pushed
    <3>8. ASSUME NEW c \in Calls, call'[c].pc = "fetched"
          PROVE  SnapOk(r, call[c].job.snap, call[c].job.at)'
      <4>1. call'[c] = call[c] /\ call[c] \in FetchedCalls
        BY <3>8, CallKinds DEF TypeInv, Types
      <4>2. call[c].job \in RoundJobs /\ call[c].job.do = "round" /\ Dated(call[c].job)
        BY <4>1, CallKinds DEF AgeInv, RoundJobs, CallStates
      <4>3. call[c].job.at \in Nat /\ call[c].job.at <= Clock
        BY <4>2 DEF Dated, RoundJobs
      <4>4. Pushed(r, call[c].job.at)'
        BY <3>7, <4>1, <4>3
      <4> QED BY <4>4 DEF SnapOk
    <3>9. ASSUME NEW i \in DOMAIN queue', queue'[i].do = "round"
          PROVE  SnapOk(r, queue[i].snap, queue[i].at)'
      <4>1. queue[i] \in Jobs /\ queue'[i] = queue[i] /\ i \in DOMAIN queue
        <5>1. queue \in Seq(Jobs)
          BY DEF TypeInv, Types
        <5> QED BY <3>9, <5>1
      <4>2. queue[i].at \in Nat /\ queue[i].at <= Clock
        BY <3>9, <4>1, JobKinds DEF AgeInv, Dated
      <4>3. Pushed(r, queue[i].at)'
        BY <3>7, <4>1, <4>2
      <4> QED BY <4>3 DEF SnapOk
    <3> QED BY <3>4, <3>5, <3>6, <3>8, <3>9 DEF Settles, QueueOk, MemOk, SnapsOk
  <2> QED BY <2>3, <2>4
<1> QED BY <1>9, <1>10

LEMMA SettlePushIsLost ==
  ASSUME TypeInv, NEW r \in RoomIds, r \notin spilt', Settles(r), PushIsLost
  PROVE  Settles(r)' /\ SnapsOk(r)'
<1> USE DEF roomServer, roomsLine, cacheDb, roomGhosts
<1>1. /\ wire \in Seq(Pushes) /\ wire # <<>> /\ wire' = Front(wire)
      /\ UNCHANGED <<members, on, task>>
      /\ \/ srvGap'
         \/ /\ lost' /\ srvGap' = srvGap
            /\ spilt' = spilt \cup {s \in RoomIds :
                                   Waiting(s) /\ (s = Last(wire).room \/ Last(wire).gap)}
  BY DEF PushIsLost, TypeInv, Types
<1> DEFINE n == Len(wire)
<1>2. /\ n \in Nat \ {0} /\ DOMAIN wire = 1 .. n /\ Last(wire) = wire[n]
      /\ DOMAIN wire' = 1 .. (n - 1) /\ \A i \in 1 .. (n - 1) : wire'[i] = wire[i]
  BY <1>1 DEF Front, Last
<1> HIDE DEF n
<1>3. GapAhead'
  BY <1>1 DEF GapAhead
<1>4. Debt'
  BY <1>3 DEF Debt
<1>5. MarkedOk(r)'
  BY <1>3 DEF MarkedOk
<1>6. WireOk(r)'
  <2> SUFFICES ASSUME NEW i \in 1 .. (n - 1), wire'[i].room = r, ~srvGap'
               PROVE  \/ Agree(r, wire[i].m)'
                      \/ \E j \in 1 .. (n - 1) : j > i /\ wire'[j].room = r
                      \/ \E j \in 1 .. (n - 1) : j >= i /\ wire'[j].gap
    BY <1>2 DEF WireOk
  <2>1. wire'[i] = wire[i] /\ i \in DOMAIN wire /\ srvGap' = srvGap
    BY <1>1, <1>2
  <2>2. Agree(r, wire[i].m) => Agree(r, wire[i].m)'
    BY <1>1, <2>1 DEF Agree
  <2>3. Waiting(r)
    <3>1. i \in 1 .. (Len(wire) - 1)
      BY DEF n
    <3> QED BY <2>1, <3>1 DEF Waiting
  <2>4. wire[n].room # r /\ ~wire[n].gap
    BY <1>1, <1>2, <2>3
  <2>5. \/ Agree(r, wire[i].m)
        \/ \E j \in DOMAIN wire : j > i /\ wire[j].room = r
        \/ \E j \in DOMAIN wire : j >= i /\ wire[j].gap
    BY <2>1 DEF Settles, WireOk
  <2>6. \A j \in DOMAIN wire : j = n \/ (j \in 1 .. (n - 1) /\ wire'[j] = wire[j])
    BY <1>2
  <2> QED BY <2>2, <2>4, <2>5, <2>6
<1> QED BY <1>4, <1>5, <1>6, DebtSettles

LEMMA SettleLineDies ==
  ASSUME NEW r \in RoomIds, RoomsLineDies \/ RoomsCrash
  PROVE  Settles(r)' /\ SnapsOk(r)'
<1>1. ~on' /\ wire' = <<>>
  BY DEF RoomsLineDies, RoomsCrash
<1>2. Debt' /\ WireOk(r)' /\ MarkedOk(r)'
  BY <1>1 DEF Debt, WireOk, MarkedOk
<1> QED BY <1>2, DebtSettles

LEMMA SettleSubscribe ==
  ASSUME PushOrder, NEW r \in RoomIds, Subscribe
  PROVE  Settles(r)' /\ SnapsOk(r)'
<1>1. ~told' /\ wire' = <<>> /\ task' = Resting
  BY DEF Subscribe, PushOrder
<1>2. Debt' /\ WireOk(r)' /\ MarkedOk(r)'
  BY <1>1 DEF Debt, WireOk, MarkedOk, Marked, Resting
<1> QED BY <1>2, DebtSettles

LEMMA SettleTakeInvite ==
  ASSUME TypeInv, RoundInv, RoomShapes, NEW r \in RoomIds, Settles(r), SnapsOk(r), TakeInvite
  PROVE  Settles(r)' /\ SnapsOk(r)'
<1> USE DEF roomServer, roomsLine, cacheDb, roomGhosts
<1> DEFINE h == wire[1]
<1>1. /\ wire \in Seq(Pushes) /\ wire # <<>> /\ wire' = Tail(wire) /\ Head(wire) = wire[1]
      /\ UNCHANGED <<members, on, told, srvGap, queue, mem, call, owes, stale, asOf>>
      /\ task.pc = "idle"
      /\ MarkEarly(Head(wire))
      /\ task' = [pc |-> "marked", push |-> Head(wire), gap |-> Head(wire).gap \/ lost]
  BY DEF TakeInvite, TypeInv, Types
<1>2. /\ 1 \in DOMAIN wire /\ h \in Pushes
      /\ \A i \in DOMAIN wire' : i + 1 \in DOMAIN wire /\ wire'[i] = wire[i + 1]
      /\ \A i \in DOMAIN wire : i # 1 => i - 1 \in DOMAIN wire' /\ wire'[i - 1] = wire[i]
      /\ \A i \in DOMAIN wire : i \in Nat /\ i >= 1
      /\ \A i \in DOMAIN wire' : i \in Nat /\ i >= 1
  <2>1. /\ Len(wire) \in Nat \ {0} /\ DOMAIN wire = 1 .. Len(wire)
           /\ DOMAIN wire' = 1 .. Len(wire) - 1
        /\ \A i \in 1 .. Len(wire) - 1 : wire'[i] = wire[i + 1]
    BY <1>1, HeadTailProperties
  <2> QED BY <1>1, <2>1
<1>3. h.room \in RoomIds /\ h.is \in Nat /\ h.gap \in BOOLEAN
  BY <1>2, PushesAre
<1>4. /\ task'.pc = "marked" /\ task'.push = h /\ (task'.gap <=> h.gap \/ lost)
         /\ task' \in PushTasks
  <2>2. task' = [pc |-> "marked", push |-> h, gap |-> h.gap \/ lost]
    BY <1>1
  <2> HIDE DEF h
  <2>3. (h.gap \/ lost) \in BOOLEAN
    OBVIOUS
  <2> QED BY <1>2, <2>2, <2>3 DEF PushTasks
<1>5. /\ touched \in [RoomIds -> Nat]
      /\ callers = 0 => touched' = touched
      /\ callers # 0 => touched' = [touched EXCEPT ![h.room] = Max({@, h.is})]
  BY <1>1 DEF MarkEarly, Touch, TypeInv, Types
<1>6. /\ r # h.room => touched'[r] = touched[r]
      /\ \A since \in Nat : touched[r] > since => touched'[r] > since
      /\ \A since \in Nat : callers # 0 /\ r = h.room /\ h.is > since => touched'[r] > since
  <2>1. CASE callers = 0
    BY <1>5, <2>1
  <2>2. CASE callers # 0 /\ r # h.room
    BY <1>3, <1>5, <2>2
  <2>3. CASE callers # 0 /\ r = h.room
    <3>1. touched'[r] = Max({touched[r], h.is}) /\ touched[r] \in Nat
      BY <1>3, <1>5, <2>3
    <3>2. touched'[r] = IF touched[r] >= h.is THEN touched[r] ELSE h.is
      BY <1>3, <3>1, MaxOfTwo
    <3> QED BY <1>3, <2>3, <3>1, <3>2
  <2> QED BY <2>1, <2>2, <2>3
<1> HIDE DEF h
<1>7. /\ r = h.room <=> Marked(r)'
      /\ ~Marked(r) /\ ~TaskFailed(r) /\ ~TaskGap
  <2>1. task \notin PushTasks
    BY <1>1, TaskKinds DEF TypeInv, Types
  <2> QED BY <1>1, <1>4, <2>1 DEF Marked, TaskFailed, TaskGap
<1>8. GapAhead => GapAhead'
  <2>1. CASE srvGap
    BY <1>1, <2>1 DEF GapAhead
  <2>2. CASE lost
    BY <1>4, <2>2 DEF GapAhead, TaskGap
  <2>3. ASSUME NEW i \in DOMAIN wire, wire[i].gap PROVE GapAhead'
    <3>1. CASE i = 1
      BY <1>4, <2>3, <3>1 DEF GapAhead, TaskGap, h
    <3>2. CASE i # 1
      BY <1>2, <2>3, <3>2 DEF GapAhead
    <3> QED BY <3>1, <3>2
  <2> QED BY <1>7, <2>1, <2>2, <2>3 DEF GapAhead
<1>9. Debt => Debt'
  BY <1>1, <1>8, DebtStays
<1>10. InWire(r) => InWire(r)' \/ Marked(r)'
  <2> SUFFICES ASSUME NEW i \in DOMAIN wire, wire[i].room = r PROVE InWire(r)' \/ Marked(r)'
    BY DEF InWire
  <2>1. CASE i = 1
    BY <1>7, <2>1 DEF h
  <2>2. CASE i # 1
    BY <1>2, <2>2 DEF InWire
  <2> QED BY <2>1, <2>2
<1>11. Soon(r) => Soon(r)'
  <2>1. Coming(r) => Coming(r)' \/ Marked(r)'
    BY <1>1, <1>6, <1>7 DEF Coming, Shown
  <2> QED BY <1>7, <1>9, <1>10, <2>1 DEF Soon
<1>12. \A q : Later(r, q) => Later(r, q)' \/ Soon(r)'
  BY <1>1, <1>6, <1>7 DEF Later, IsPush, RoundAt, Shown, Soon
<1>13. WireOk(r)'
  <2> SUFFICES ASSUME NEW i \in DOMAIN wire', wire'[i].room = r
               PROVE  \/ Agree(r, wire[i].m)' \/ srvGap'
                      \/ \E j \in DOMAIN wire' : j > i /\ wire'[j].room = r
                      \/ \E j \in DOMAIN wire' : j >= i /\ wire'[j].gap
    BY DEF WireOk
  <2>1. i + 1 \in DOMAIN wire /\ wire'[i] = wire[i + 1]
    BY <1>2
  <2>2. \/ Agree(r, wire[i + 1].m) \/ srvGap
        \/ \E j \in DOMAIN wire : j > i + 1 /\ wire[j].room = r
        \/ \E j \in DOMAIN wire : j >= i + 1 /\ wire[j].gap
    BY <2>1 DEF Settles, WireOk
  <2>3. Agree(r, wire[i + 1].m) => Agree(r, wire[i].m)'
    BY <1>1, <2>1 DEF Agree
  <2>4. ASSUME NEW j \in DOMAIN wire, j >= i + 1
        PROVE  j - 1 \in DOMAIN wire' /\ wire'[j - 1] = wire[j] /\ j - 1 >= i
        /\ (j > i + 1 => j - 1 > i)
    <3>1. j \in Nat /\ i \in Nat /\ i >= 1
      BY <1>2
    <3>2. j # 1
      BY <2>4, <3>1
    <3>3. j - 1 >= i /\ (j > i + 1 => j - 1 > i)
      BY <2>4, <3>1
    <3> QED BY <1>2, <3>2, <3>3
  <2>5. \A j \in DOMAIN wire : j > i + 1 => j >= i + 1
    BY <1>2
  <2>6. CASE \E j \in DOMAIN wire : j > i + 1 /\ wire[j].room = r
    <3>1. PICK j \in DOMAIN wire : j > i + 1 /\ wire[j].room = r
      BY <2>6
    <3>2. j - 1 \in DOMAIN wire' /\ wire'[j - 1].room = r /\ j - 1 > i
      BY <2>4, <2>5, <3>1
    <3> QED BY <3>2
  <2>7. CASE \E j \in DOMAIN wire : j >= i + 1 /\ wire[j].gap
    <3>1. PICK j \in DOMAIN wire : j >= i + 1 /\ wire[j].gap
      BY <2>7
    <3>2. j - 1 \in DOMAIN wire' /\ wire'[j - 1].gap /\ j - 1 >= i
      BY <2>4, <3>1
    <3> QED BY <3>2
  <2> QED BY <1>1, <2>2, <2>3, <2>6, <2>7
<1>14. MarkedOk(r)'
  <2> SUFFICES ASSUME r = h.room PROVE Agree(r, task.push.m)' \/ InWire(r)' \/ GapAhead'
    BY <1>4, <1>7 DEF MarkedOk
  <2>1. \/ Agree(r, h.m) \/ srvGap
        \/ \E j \in DOMAIN wire : j > 1 /\ wire[j].room = r
        \/ \E j \in DOMAIN wire : j >= 1 /\ wire[j].gap
    BY <1>2 DEF Settles, WireOk, h
  <2>2. Agree(r, h.m) => Agree(r, task.push.m)'
    BY <1>1, <1>4 DEF Agree
  <2>3. (\E j \in DOMAIN wire : j > 1 /\ wire[j].room = r) => InWire(r)'
    BY <1>2 DEF InWire
  <2>4. srvGap \/ (\E j \in DOMAIN wire : wire[j].gap) => GapAhead'
    BY <1>8 DEF GapAhead
  <2> QED BY <2>1, <2>2, <2>3, <2>4
<1>15. QueueOk(r)'
  BY <1>1, <1>11, <1>12 DEF Settles, QueueOk, IsPush, Agree
<1>16. MemOk(r)'
  BY <1>1, <1>7, <1>11, <1>12 DEF Settles, MemOk, Agree
<1>17. ASSUME NEW snap, NEW since \in Nat, SnapOk(r, snap, since), callers # 0
       PROVE  SnapOk(r, snap, since)'
  <2>1. Pushed(r, since) => Pushed(r, since)' \/ touched'[r] > since
    <3> SUFFICES ASSUME NEW i \in DOMAIN wire, wire[i].room = r, wire[i].is > since
                 PROVE  Pushed(r, since)' \/ touched'[r] > since
      BY DEF Pushed
    <3>1. CASE i = 1
      BY <1>6, <1>17, <3>1 DEF h
    <3>2. CASE i # 1
      BY <1>2, <3>2 DEF Pushed
    <3> QED BY <3>1, <3>2
  <2>2. Outdone(r, since) => Outdone(r, since)'
    <3>1. ASSUME Outdone(r, since) PROVE r # h.room /\ InWire(r)' => InWire(r)
      <4>1. r # h.room
        BY <1>2, <3>1 DEF Outdone, InWire, h
      <4>2. InWire(r)' => InWire(r)
        BY <1>2 DEF InWire
      <4> QED BY <4>1, <4>2
    <3> QED BY <1>1, <1>2, <1>6, <3>1 DEF Outdone, RoundAt, Shown, InWire, h
  <2> QED BY <1>1, <1>6, <1>9, <1>17, <2>1, <2>2 DEF SnapOk, Shown
<1>18. ASSUME NEW c \in Calls, call'[c].pc = "fetched"
       PROVE  SnapOk(r, call[c].job.snap, call[c].job.at)'
  <2>1. call'[c] = call[c] /\ call[c] \in FetchedCalls
    BY <1>1, <1>18, CallKinds DEF TypeInv, Types
  <2>2. call[c].job.at \in Nat /\ SnapOk(r, call[c].job.snap, call[c].job.at)
    BY <1>18, <2>1, CallKinds DEF RoundJobs, CallStates, SnapsOk
  <2>3. callers # 0
    BY <1>18, <2>1, RoundsOf DEF InRound, RoundPcs
  <2> QED BY <1>17, <2>1, <2>2, <2>3
<1>19. ASSUME NEW i \in DOMAIN queue', queue'[i].do = "round"
       PROVE  SnapOk(r, queue[i].snap, queue[i].at)'
  <2>1. queue[i] \in Jobs /\ i \in DOMAIN queue /\ queue'[i] = queue[i]
    <3>1. queue \in Seq(Jobs)
      BY DEF TypeInv, Types
    <3> QED BY <1>1, <3>1
  <2>2. queue[i].at \in Nat /\ SnapOk(r, queue[i].snap, queue[i].at) /\ queue[i].by \in Calls
    BY <1>19, <2>1, JobKinds DEF SnapsOk
  <2>3. callers # 0
    BY <1>19, <2>1, <2>2, RoundsOf DEF InRound
  <2> QED BY <1>17, <2>1, <2>2, <2>3
<1> QED BY <1>13, <1>14, <1>15, <1>16, <1>18, <1>19 DEF Settles, SnapsOk

LEMMA SettleWriteInvite ==
  ASSUME TypeInv, RoomShapes, NEW r \in RoomIds, Settles(r), SnapsOk(r), WriteInvite
  PROVE  Settles(r)' /\ SnapsOk(r)'
<1> USE DEF roomServer, roomsLine, cacheDb, roomGhosts
<1> DEFINE job == [do |-> "push", by |-> Task, room |-> task.push.room, m |-> task.push.m]
<1>1. /\ task.pc = "marked" /\ task \in PushTasks /\ task.push \in Pushes
      /\ UNCHANGED <<members, wire, on, told, srvGap, lost, touched, mem, call, owes, stale, asOf>>
      /\ Post(job) /\ task' = [task EXCEPT !.pc = "wait"] /\ queue \in Seq(Jobs)
  BY TaskKinds DEF WriteInvite, TypeInv, Types
<1>2. job \in Jobs /\ job.do = "push" /\ job.by = Task /\ job.room = task.push.room
      /\ job.m = task.push.m
  BY <1>1, PushesAre DEF Jobs, PushJobs
<1> HIDE DEF job
<1> DEFINE n == Len(queue) + 1
<1>3. /\ \A i \in DOMAIN queue : i \in DOMAIN queue' /\ queue'[i] = queue[i] /\ i < n
      /\ \A i \in DOMAIN queue' : i \in DOMAIN queue \/ i = n
      /\ n \in DOMAIN queue' /\ n \in Nat /\ n > 0 /\ queue'[n] = job
  <2>1. /\ DOMAIN queue = 1 .. Len(queue) /\ DOMAIN queue' = 1 .. Len(queue) + 1
           /\ Len(queue) \in Nat
        /\ \A i \in DOMAIN queue : queue'[i] = queue[i]
        /\ queue'[Len(queue) + 1] = job
    BY <1>1, <1>2, JobPosted
  <2> QED BY <2>1
<1> HIDE DEF n
<1>4. task' \in PushTasks /\ task'.gap = task.gap /\ task'.pc = "wait" /\ task'.push = task.push
  BY <1>1 DEF PushTasks
<1>5. GapAhead <=> GapAhead'
  BY <1>1, <1>4 DEF GapAhead, TaskGap
<1>6. Debt => Debt'
  BY <1>1, <1>5, DebtStays
<1>7. ~Marked(r)' /\ ~TaskFailed(r)
  BY <1>1, <1>4 DEF Marked, TaskFailed
<1>8. \A q \in Nat : Marked(r) /\ q < n => Later(r, q)'
  BY <1>2, <1>3 DEF Marked, Later, IsPush
<1>9. \A q : Later(r, q) => Later(r, q)'
  BY <1>1, <1>3, LaterStays
<1>10. Soon(r) => Soon(r)' \/ Marked(r)
  <2>1. Coming(r) => Coming(r)'
    BY <1>1, ComingStays
  <2> QED BY <1>1, <1>6, <2>1 DEF Soon, InWire
<1>11. WireOk(r)'
  BY <1>1, WireStays DEF Settles
<1>12. MarkedOk(r)'
  BY <1>7 DEF MarkedOk
<1>13. QueueOk(r)'
  <2> SUFFICES ASSUME NEW q \in DOMAIN queue', IsPush(q, r)'
               PROVE  (Agree(r, queue[q].m) /\ queue[q].by = Task)' \/ Later(r, q)' \/ Soon(r)'
    BY DEF QueueOk
  <2>1. CASE q \in DOMAIN queue
    <3>1. queue'[q] = queue[q] /\ q < n /\ q \in Nat /\ IsPush(q, r)
      BY <1>1, <1>3, <2>1 DEF IsPush
    <3>2. (Agree(r, queue[q].m) /\ queue[q].by = Task) \/ Later(r, q) \/ Soon(r)
      BY <2>1, <3>1 DEF Settles, QueueOk
    <3>3. Agree(r, queue[q].m) => Agree(r, queue[q].m)'
      BY <1>1, <3>1 DEF Agree
    <3> QED BY <1>8, <1>9, <1>10, <3>1, <3>2, <3>3
  <2>2. CASE q = n
    <3>1. task.push.room = r /\ queue'[q].by = Task /\ queue'[q].m = task.push.m
      BY <1>2, <1>3, <2>2 DEF IsPush
    <3>2. Agree(r, task.push.m) \/ InWire(r) \/ ~on \/ GapAhead
      BY <1>1, <3>1 DEF Settles, MarkedOk, Marked
    <3>3. Agree(r, task.push.m) => Agree(r, queue[q].m)'
      BY <1>1, <3>1 DEF Agree
    <3>4. InWire(r) => InWire(r)'
      BY <1>1 DEF InWire
    <3>5. ~on \/ GapAhead => Debt'
      BY <1>1, <1>5 DEF Debt
    <3> QED BY <3>1, <3>2, <3>3, <3>4, <3>5 DEF Soon
  <2> QED BY <1>3, <2>1, <2>2
<1>14. MemOk(r)'
  <2>1. Marked(r) => Later(r, 0)'
    BY <1>3, <1>8
  <2> QED BY <1>1, <1>7, <1>9, <1>10, <2>1 DEF Settles, MemOk, Agree
<1>15. ASSUME NEW snap, NEW since, SnapOk(r, snap, since) PROVE SnapOk(r, snap, since)'
  <2>1. \A i \in DOMAIN queue : RoundAt(r, i) => RoundAt(r, i)'
    BY <1>1, <1>3 DEF RoundAt, Shown
  <2>2. Outdone(r, since) => Outdone(r, since)'
    BY <1>1, <1>3, <2>1 DEF Outdone, InWire, Shown
  <2> QED BY <1>1, <1>6, <1>15, <2>2 DEF SnapOk, Shown, Pushed
<1>16. ASSUME NEW c \in Calls, call'[c].pc = "fetched"
       PROVE  SnapOk(r, call[c].job.snap, call[c].job.at)'
  BY <1>1, <1>15, <1>16 DEF SnapsOk
<1>17. ASSUME NEW i \in DOMAIN queue', queue'[i].do = "round"
       PROVE  SnapOk(r, queue[i].snap, queue[i].at)'
  <2>1. i \in DOMAIN queue /\ queue'[i] = queue[i]
    BY <1>2, <1>3, <1>17
  <2> QED BY <1>15, <1>17, <2>1 DEF SnapsOk
<1> QED BY <1>11, <1>12, <1>13, <1>14, <1>16, <1>17 DEF Settles, SnapsOk

LEMMA SettleTellInvite ==
  ASSUME TypeInv, PushOrder, AgeInv, NEW r \in RoomIds, Settles(r), SnapsOk(r), TellInvite
  PROVE  Settles(r)' /\ SnapsOk(r)'
<1> USE DEF roomServer, roomsLine, cacheDb, roomGhosts
<1>1. /\ task.pc \in {"stored", "failed"} /\ task' = Resting
      /\ UNCHANGED <<members, wire, on, told, srvGap, lost, touched, queue, mem, call>>
      /\ (owes => owes') /\ ((task.pc = "stored" /\ task.gap) => owes')
  BY DEF TellInvite
<1>2. /\ ~Marked(r) /\ ~Marked(r)'
      /\ \A q \in DOMAIN queue : ~IsPush(q, r)
  BY <1>1 DEF Marked, Resting, PushOrder, IsPush
<1>3. WireOk(r)' /\ MarkedOk(r)' /\ QueueOk(r)'
  <2>1. WireOk(r)'
    BY <1>1, WireStays DEF Settles
  <2> QED BY <1>1, <1>2, <2>1 DEF MarkedOk, QueueOk, IsPush
<1>4. \A q : Later(r, q) => Later(r, q)'
  BY <1>1, LaterStays
<1>5. CASE task.pc = "stored" \/ ~TaskGap
  <2>1. stale \subseteq stale' /\ (TaskFailed(r) => r \in stale') /\ asOf' = asOf
    <3>1. task \in PushTasks
      BY <1>1, TaskKinds DEF TypeInv, Types
    <3>2. stale \subseteq RoomIds
      BY DEF TypeInv, Types
    <3> QED BY <1>5, <3>1, <3>2 DEF TellInvite, TaskFailed, TaskGap
  <2>2. Debt => Debt'
    <3>1. GapAhead => GapAhead' \/ owes'
      <4>1. ASSUME TaskGap PROVE owes'
        <5>1. task.pc = "stored"
          BY <1>5, <4>1
        <5>2. task.gap
          BY <4>1 DEF TaskGap
        <5> QED BY <1>1, <5>1, <5>2
      <4>2. GapAhead => GapAhead' \/ TaskGap
        BY <1>1 DEF GapAhead
      <4> QED BY <4>1, <4>2
    <3> QED BY <1>1, <3>1, DebtStays
  <2>3. Coming(r) => Coming(r)'
    BY <1>1, ComingStays
  <2>4. Soon(r) => Soon(r)'
    BY <1>1, <1>2, <2>2, <2>3 DEF Soon, InWire
  <2>5. MemOk(r)'
    BY <1>1, <1>4, <2>1, <2>4, MemStays DEF Settles
  <2>6. SnapsOk(r)'
    <3>1. QueueGrows
      BY <1>1 DEF QueueGrows
    <3>2. /\ \A since : Pushed(r, since) => Pushed(r, since)'
          /\ InWire(r)' => InWire(r)
      BY <1>1 DEF Pushed, InWire
    <3> QED BY <1>1, <2>1, <2>2, <3>1, <3>2, SnapsStay
  <2> QED BY <1>3, <2>5, <2>6 DEF Settles
<1>6. CASE task.pc = "failed" /\ TaskGap
  <2>1. r \in stale' /\ asOf' = Clock
    BY <1>6 DEF TellInvite, TaskGap
  <2>2. MemOk(r)'
    BY <2>1 DEF MemOk
  <2>3. /\ Clock \in Nat /\ members[r].is <= Clock /\ members[r].is \in Nat
    BY ClockIs DEF TypeInv, Types
  <2>4. ASSUME NEW j, Dated(j), j.do = "round", j.at \in Nat PROVE SnapOk(r, j.snap, j.at)'
    <3>1. CASE j.at < Clock
      BY <2>1, <3>1 DEF SnapOk
    <3>2. CASE j.at = Clock
      <4>1. Shown(r, j.snap)
        BY <2>3, <2>4, <3>2 DEF Dated
      <4> QED BY <1>1, <4>1 DEF SnapOk, Shown
    <3>3. j.at <= Clock
      BY <2>4 DEF Dated
    <3> QED BY <2>3, <2>4, <3>1, <3>2, <3>3
  <2>5. ASSUME NEW c \in Calls, call'[c].pc = "fetched"
        PROVE  SnapOk(r, call[c].job.snap, call[c].job.at)'
    <3>1. call'[c] = call[c] /\ call[c] \in FetchedCalls
      BY <1>1, <2>5, CallKinds DEF TypeInv, Types
    <3>2. call[c].job \in RoundJobs /\ Dated(call[c].job)
      BY <3>1, CallKinds DEF CallStates, AgeInv
    <3>3. call[c].job.do = "round" /\ call[c].job.at \in Nat
      BY <3>2 DEF RoundJobs
    <3> QED BY <2>4, <3>1, <3>2, <3>3
  <2>6. ASSUME NEW i \in DOMAIN queue', queue'[i].do = "round"
        PROVE  SnapOk(r, queue[i].snap, queue[i].at)'
    <3>1. queue[i] \in Jobs /\ i \in DOMAIN queue /\ queue'[i] = queue[i]
      <4>1. queue \in Seq(Jobs)
        BY DEF TypeInv, Types
      <4> QED BY <1>1, <4>1
    <3>2. queue[i].at \in Nat /\ Dated(queue[i])
      BY <2>6, <3>1, JobKinds DEF AgeInv
    <3> QED BY <2>4, <2>6, <3>1, <3>2
  <2> QED BY <1>3, <2>2, <2>5, <2>6 DEF Settles, SnapsOk
<1> QED BY <1>1, <1>5, <1>6

LEMMA SettleFetchInvites ==
  ASSUME TypeInv, WireInv, RoomShapes, NEW r \in RoomIds, r \notin spilt, r \notin spilt',
         Settles(r), SnapsOk(r), NEW c \in Calls, FetchInvites(c)
  PROVE  Settles(r)' /\ SnapsOk(r)'
<1> USE DEF roomServer, roomsLine, cacheDb, roomGhosts
<1>1. /\ UNCHANGED <<members, wire, on, told, srvGap, lost, task, touched, queue, mem, stale, asOf>>
      /\ GoesOn(c, [pc |-> "fetching"]) /\ call[c].pc = "idle"
      /\ owes => touched[r] = 0
  BY DEF FetchInvites, AsksFor, Resting
<1>2. call'[c].pc = "fetching" /\ \A d \in Calls : d # c => call'[d] = call[d]
  BY <1>1 DEF GoesOn, TypeInv, Types
<1>3. /\ \A d \in Calls : call[d].pc \in {"fetching", "fetched", "noround"} => call'[d] = call[d]
      /\ \A d \in Calls : call'[d].pc = "fetched" => call'[d] = call[d]
  BY <1>1, <1>2
<1>4. CASE ~owes
  <2>1. owes => owes'
    BY <1>4
  <2> QED BY <1>1, <1>3, <2>1, SettleStays DEF TaskStays
\* The round will make up for what the UI owed it for.
<1>5. CASE owes
  <2>1. touched[r] = 0 /\ touched'[r] = 0
    BY <1>1, <1>5
  <2>2. Soon(r)'
    BY <1>2, <2>1 DEF Soon, Coming
  <2>3. (GapAhead => GapAhead') /\ (InWire(r)' <=> InWire(r))
    BY <1>1 DEF GapAhead, TaskGap, InWire
  <2>4. WireOk(r)'
    BY <1>1, WireStays DEF Settles
  <2>5. MarkedOk(r)'
    BY <1>1, <2>3, MarkedStays DEF Settles, Marked
  <2>6. ASSUME NEW j \in RoundJobs, Under(j) PROVE SnapOk(r, j.snap, j.at)'
    <3>1. CASE ~InWire(r)
      <4>1. Outdone(r, j.at)'
        BY <1>2, <2>1, <2>3, <3>1 DEF Outdone
      <4> QED BY <4>1 DEF SnapOk
    <3>2. CASE InWire(r)
      <4>1. PICK i \in DOMAIN wire : wire[i].room = r
        BY <3>2 DEF InWire
      <4>2. \/ Shown(r, j.snap) \/ srvGap \/ j.at < asOf
            \/ \E k \in DOMAIN wire :
                 k >= i /\ (wire[k].gap \/ (wire[k].room = r /\ wire[k].is > j.at))
        BY <2>6, <4>1 DEF WireInv, Behind
      <4>3. srvGap \/ (\E k \in DOMAIN wire : wire[k].gap) => Debt'
        BY <1>1 DEF Debt, GapAhead
      <4>4. Shown(r, j.snap) => Shown(r, j.snap)'
        BY <1>1 DEF Shown
      <4>5. (\E k \in DOMAIN wire : wire[k].room = r /\ wire[k].is > j.at) => Pushed(r, j.at)'
        BY <1>1 DEF Pushed
      <4> QED BY <1>1, <4>2, <4>3, <4>4, <4>5 DEF SnapOk
    <3> QED BY <3>1, <3>2
  <2>7. SnapsOk(r)'
    <3>1. ASSUME NEW d \in Calls, call'[d].pc = "fetched"
          PROVE  SnapOk(r, call[d].job.snap, call[d].job.at)'
      <4>1. call'[d] = call[d] /\ call[d].job \in RoundJobs /\ Under(call[d].job)
        BY <1>3, <3>1, CallKinds DEF TypeInv, Types, Under
      <4>2. PICK j \in RoundJobs : j = call[d].job
        BY <4>1
      <4>3. SnapOk(r, j.snap, j.at)' /\ call'[d].job = j
        BY <2>6, <4>1, <4>2
      <4> QED BY <4>3
    <3>2. ASSUME NEW i \in DOMAIN queue', queue'[i].do = "round"
          PROVE  SnapOk(r, queue[i].snap, queue[i].at)'
      <4>1. queue'[i] = queue[i] /\ queue[i] \in RoundJobs /\ Under(queue[i])
        <5>1. queue'[i] = queue[i] /\ i \in DOMAIN queue /\ queue[i] \in Jobs
          BY <1>1, <3>2 DEF TypeInv, Types
        <5> QED BY <3>2, <5>1, RoundsAre DEF Under
      <4>2. PICK j \in RoundJobs : j = queue[i]
        BY <4>1
      <4>3. SnapOk(r, j.snap, j.at)' /\ queue'[i] = j
        BY <2>6, <4>1, <4>2
      <4> QED BY <4>3
    <3> QED BY <3>1, <3>2 DEF SnapsOk
  <2> QED BY <2>2, <2>4, <2>5, <2>7 DEF Settles, QueueOk, MemOk
<1> QED BY <1>4, <1>5

LEMMA SettleFetchAnswered ==
  ASSUME TypeInv, AgeInv, NEW r \in RoomIds, Settles(r), SnapsOk(r),
         NEW c \in Calls, FetchAnswered(c)
  PROVE  Settles(r)' /\ SnapsOk(r)'
<1> USE DEF roomServer, roomsLine, cacheDb, roomGhosts
<1> DEFINE job == [do |-> "round", by |-> c, snap |-> Counts, at |-> Clock]
<1>1. /\ UNCHANGED <<members, wire, on, told, srvGap, lost, task, touched, queue, mem, owes, stale,
                     asOf>>
      /\ call[c].pc = "fetching" /\ GoesOn(c, [pc |-> "fetched", job |-> job])
  BY DEF FetchAnswered
<1>2. call'[c] = [pc |-> "fetched", job |-> job] /\ \A d \in Calls : d # c => call'[d] = call[d]
  BY <1>1 DEF GoesOn, TypeInv, Types
<1>3. call'[c].pc = "fetched" /\ call'[c].job.snap = Counts /\ call'[c].job.at = Clock
  BY <1>2
<1>4. Shown(r, Counts)
  BY DEF Counts, Shown, AgeInv
<1>5. Shown(r, call[c].job.snap)'
  BY <1>1, <1>3, <1>4 DEF Shown
<1> HIDE DEF job
<1>6. \A snap : Shown(r, snap)' <=> Shown(r, snap)
  BY <1>1 DEF Shown
<1>7. Coming(r) => Coming(r)'
  BY <1>1, <1>2, <1>3, <1>5, <1>6 DEF Coming
<1>8. Debt => Debt'
  <2>1. GapAhead => GapAhead'
    BY <1>1 DEF GapAhead, TaskGap
  <2>2. \A d \in Calls : call[d].pc = "noround" => call'[d].pc = "noround" \/ owes'
    BY <1>1, <1>2
  <2> QED BY <1>1, <2>1, <2>2, DebtStays
<1>9. Soon(r) => Soon(r)'
  BY <1>1, <1>7, <1>8 DEF Soon, Marked, InWire
<1>10. QueueGrows
  BY <1>1 DEF QueueGrows
<1>11. WireOk(r)' /\ MarkedOk(r)'
  <2>1. WireOk(r)'
    BY <1>1, WireStays DEF Settles
  <2>2. GapAhead => GapAhead'
    BY <1>1 DEF GapAhead, TaskGap
  <2>3. MarkedOk(r)'
    BY <1>1, <2>2, MarkedStays DEF Settles, Marked, InWire
  <2> QED BY <2>1, <2>3
<1>12. QueueOk(r)'
  BY <1>1, <1>9, <1>10, QueueStays DEF Settles
<1>13. MemOk(r)'
  <2>1. Later(r, 0) => Later(r, 0)'
    BY <1>1, LaterStays
  <2> QED BY <1>1, <1>9, <2>1, MemStays DEF Settles, TaskFailed
\* What was written of the room before is outdone, or was as new.
<1>14. ASSUME NEW j \in RoundJobs, Dated(j), SnapOk(r, j.snap, j.at)
       PROVE  SnapOk(r, j.snap, j.at)'
  <2>1. j.at \in Nat /\ j.do = "round" /\ j.at <= Clock
    BY <1>14 DEF RoundJobs, Dated
  <2>2. CASE j.at = Clock
    <3>1. members[r].is <= Clock
      BY ClockIs DEF TypeInv
    <3>2. Shown(r, j.snap)
      BY <1>14, <2>1, <2>2, <3>1 DEF Dated
    <3> QED BY <1>6, <3>2 DEF SnapOk
  <2>3. CASE j.at # Clock /\ ~Outdone(r, j.at)
    BY <1>1, <1>6, <1>8, <1>14, <2>3 DEF SnapOk, Pushed
  <2>4. CASE j.at # Clock /\ Outdone(r, j.at)
    <3>1. touched'[r] = 0 /\ ~InWire(r)'
      BY <1>1, <2>4 DEF Outdone, InWire
    <3>2. Clock > j.at
      BY <2>1, <2>4, ClockIs DEF TypeInv
    <3>3. Outdone(r, j.at)'
      BY <1>3, <1>5, <3>1, <3>2 DEF Outdone
    <3> QED BY <3>3 DEF SnapOk
  <2> QED BY <2>2, <2>3, <2>4
<1>15. ASSUME NEW d \in Calls, call'[d].pc = "fetched"
       PROVE  SnapOk(r, call[d].job.snap, call[d].job.at)'
  <2>1. CASE d = c
    BY <1>5, <2>1 DEF SnapOk
  <2>2. CASE d # c
    <3>1. call'[d] = call[d] /\ call[d] \in FetchedCalls
      BY <1>2, <1>15, <2>2, CallKinds DEF TypeInv, Types
    <3>2. call[d].job \in RoundJobs /\ Dated(call[d].job)
      BY <3>1, CallKinds DEF CallStates, AgeInv
    <3>3. SnapOk(r, call[d].job.snap, call[d].job.at)
      BY <1>15, <3>1 DEF SnapsOk
    <3>4. PICK j \in RoundJobs : j = call[d].job
      BY <3>2
    <3>5. SnapOk(r, j.snap, j.at)'
      BY <1>14, <3>2, <3>3, <3>4
    <3>6. call'[d].job = j
      BY <3>1, <3>4
    <3> QED BY <3>5, <3>6
  <2> QED BY <2>1, <2>2
<1>16. ASSUME NEW i \in DOMAIN queue', queue'[i].do = "round"
       PROVE  SnapOk(r, queue[i].snap, queue[i].at)'
  <2>1. queue'[i] = queue[i] /\ i \in DOMAIN queue /\ queue[i] \in Jobs
    BY <1>1 DEF TypeInv, Types
  <2>2. queue[i] \in RoundJobs /\ Dated(queue[i])
    BY <1>16, <2>1, RoundsAre DEF AgeInv
  <2>3. SnapOk(r, queue[i].snap, queue[i].at)
    BY <1>16, <2>1 DEF SnapsOk
  <2>4. PICK j \in RoundJobs : j = queue[i]
    BY <2>2
  <2>5. SnapOk(r, j.snap, j.at)'
    BY <1>14, <2>2, <2>3, <2>4
  <2> QED BY <2>1, <2>4, <2>5
<1> QED BY <1>11, <1>12, <1>13, <1>15, <1>16 DEF Settles, SnapsOk

LEMMA SettleCloseRound ==
  ASSUME TypeInv, RoundInv, RoomShapes, NEW r \in RoomIds, Settles(r), SnapsOk(r),
         NEW c \in Calls, CloseRound(c)
  PROVE  Settles(r)' /\ SnapsOk(r)'
<1> USE DEF roomServer, roomsLine, cacheDb, roomGhosts
<1>1. /\ UNCHANGED <<members, wire, on, told, srvGap, lost, task, queue, mem, stale, asOf>>
      /\ call[c].pc \in {"round", "noround"} /\ GoesOn(c, Resting)
      /\ owes' = (owes \/ call[c].pc = "noround")
      /\ callers # 1 => touched' = touched
  BY DEF CloseRound
<1>2. call'[c] = Resting /\ \A d \in Calls : d # c => call'[d] = call[d]
  BY <1>1 DEF GoesOn, TypeInv, Types
<1>3. /\ \A d \in Calls : call[d].pc \in {"fetching", "fetched"} => call'[d] = call[d]
      /\ \A d \in Calls : call'[d].pc = "fetched" => call'[d] = call[d]
      /\ \A d \in Calls : call[d].pc = "noround" => call'[d].pc = "noround" \/ owes'
  <2>1. Resting.pc = "idle"
    BY DEF Resting
  <2>2. ASSUME NEW d \in Calls, call[d].pc \in {"fetching", "fetched"} PROVE call'[d] = call[d]
    BY <1>1, <1>2, <2>2
  <2>3. ASSUME NEW d \in Calls, call'[d].pc = "fetched" PROVE call'[d] = call[d]
    BY <1>2, <2>1, <2>3
  <2>4. ASSUME NEW d \in Calls, call[d].pc = "noround" PROVE call'[d].pc = "noround" \/ owes'
    <3>1. CASE d = c
      BY <1>1, <2>4, <3>1
    <3>2. CASE d # c
      BY <1>2, <2>4, <3>2
    <3> QED BY <3>1, <3>2
  <2> QED BY <2>2, <2>3, <2>4
<1>4. (GapAhead => GapAhead') /\ (InWire(r)' <=> InWire(r))
  BY <1>1 DEF GapAhead, TaskGap, InWire
<1>5. Debt => Debt'
  <2>1. owes => owes'
    BY <1>1
  <2> QED BY <1>1, <1>3, <1>4, <2>1, DebtStays
\* The last round leaves no snapshot behind.
<1>6. ASSUME callers = 1
      PROVE  /\ \A d \in Calls : call[d].pc \notin {"fetching", "fetched"}
             /\ \A d \in Calls : call'[d].pc # "fetched"
             /\ \A i \in DOMAIN queue : queue[i].do # "round"
  <2>1. \A d \in Calls : InRound(d) => d = c
    <3>1. InRound(c)
      BY <1>1 DEF InRound, RoundPcs
    <3> QED BY <1>6, <3>1, RoundsOf
  <2>2. \A d \in Calls : call[d].pc \notin {"fetching", "fetched"}
    BY <1>1, <2>1 DEF InRound, RoundPcs
  <2>3. ASSUME NEW i \in DOMAIN queue, queue[i].do = "round" PROVE FALSE
    <3>4. queue[i] \in Jobs
      BY <2>3 DEF TypeInv, Types
    <3>1. queue[i].by \in Calls
      BY <2>3, <3>4, JobKinds
    <3>2. queue[i].by = c
      BY <2>1, <2>3, <3>1 DEF InRound
    <3>3. call[c].pc = "wait"
      BY <3>2 DEF TypeInv, Theirs
    <3> QED BY <1>1, <3>3
  <2>4. \A d \in Calls : call'[d].pc # "fetched"
    BY <1>3, <2>2
  <2> QED BY <2>2, <2>3, <2>4
<1>7. Coming(r) => Coming(r)'
  <2>1. CASE callers = 1
    BY <1>6, <2>1 DEF Coming
  <2>2. CASE callers # 1
    BY <1>1, <1>3, <2>2, ComingStays
  <2> QED BY <2>1, <2>2
<1>8. Soon(r) => Soon(r)'
  BY <1>1, <1>4, <1>5, <1>7 DEF Soon, Marked
<1>9. \A q : Later(r, q) => Later(r, q)'
  <2>1. CASE callers = 1
    BY <1>1, <1>6, <2>1 DEF Later, IsPush, RoundAt
  <2>2. CASE callers # 1
    BY <1>1, <2>2, LaterStays
  <2> QED BY <2>1, <2>2
<1>10. WireOk(r)' /\ MarkedOk(r)'
  <2>1. WireOk(r)'
    BY <1>1, WireStays DEF Settles
  <2>2. MarkedOk(r)'
    BY <1>1, <1>4, MarkedStays DEF Settles, Marked
  <2> QED BY <2>1, <2>2
<1>11. QueueOk(r)'
  BY <1>1, <1>8, <1>9 DEF Settles, QueueOk, IsPush, Agree
<1>12. MemOk(r)'
  BY <1>1, <1>8, <1>9 DEF Settles, MemOk, Agree, TaskFailed
<1>13. SnapsOk(r)'
  <2>1. CASE callers = 1
    BY <1>1, <1>6, <2>1 DEF SnapsOk
  <2>2. CASE callers # 1
    <3>1. QueueGrows
      BY <1>1 DEF QueueGrows
    <3>2. \A since : Pushed(r, since) => Pushed(r, since)'
      BY <1>1 DEF Pushed
    <3> QED BY <1>1, <1>3, <1>4, <1>5, <2>2, <3>1, <3>2, SnapsStay
  <2> QED BY <2>1, <2>2
<1> QED BY <1>10, <1>11, <1>12, <1>13 DEF Settles

\* A round breaks off while it is on its way.
LEMMA SettleBreaksOff ==
  ASSUME TypeInv, NEW r \in RoomIds, Settles(r), SnapsOk(r), NEW c \in Calls, BreaksOff(c)
  PROVE  Settles(r)' /\ SnapsOk(r)'
<1> USE DEF roomServer, roomsLine, cacheDb, roomGhosts
<1>1. UNCHANGED <<members, wire, on, told, srvGap, lost, task, touched, queue, mem, owes, stale,
                  asOf>>
  BY DEF BreaksOff
<1>2. CASE GoesOn(c, [pc |-> "noround"])
  <2>1. call'[c].pc = "noround"
    BY <1>2 DEF GoesOn, TypeInv, Types
  <2>2. Debt'
    BY <2>1 DEF Debt
  <2>3. GapAhead => GapAhead'
    BY <1>1 DEF GapAhead, TaskGap
  <2>4. WireOk(r)'
    BY <1>1, WireStays DEF Settles
  <2>5. MarkedOk(r)'
    BY <1>1, <2>3, MarkedStays DEF Settles, Marked, InWire
  <2> QED BY <2>2, <2>4, <2>5, DebtSettles
<1>3. CASE call[c].pc = "window" /\ GoesOn(c, Resting)
  <2>1. call'[c] = Resting /\ \A d \in Calls : d # c => call'[d] = call[d]
    BY <1>3 DEF GoesOn, TypeInv, Types
  <2>2. /\ \A d \in Calls : call[d].pc \in {"fetching", "fetched", "noround"} => call'[d] = call[d]
        /\ \A d \in Calls : call'[d].pc = "fetched" => call'[d] = call[d]
    BY <1>3, <2>1 DEF Resting
  <2> QED BY <1>1, <2>2, SettleStays DEF TaskStays
<1> QED BY <1>2, <1>3 DEF BreaksOff

\* A fetched round goes to the writer.
LEMMA SettleRecordRound ==
  ASSUME TypeInv, NEW r \in RoomIds, Settles(r), SnapsOk(r), NEW c \in Calls, Record(c),
         call[c].pc = "fetched"
  PROVE  Settles(r)' /\ SnapsOk(r)'
<1> USE DEF roomServer, roomsLine, cacheDb, roomGhosts
<1> DEFINE job == call[c].job
<1>1. /\ UNCHANGED <<members, wire, on, told, srvGap, lost, task, touched, mem, owes, stale, asOf>>
      /\ Post(job) /\ GoesOn(c, [pc |-> "wait"]) /\ queue \in Seq(Jobs)
  BY DEF Record, TypeInv, Types
<1>2. job \in Jobs /\ job.do = "round"
  <2>1. job \in RoundJobs
    BY CallKinds DEF TypeInv, Types
  <2> QED BY <2>1 DEF RoundJobs, Jobs
<1>3. call'[c].pc = "wait" /\ \A d \in Calls : d # c => call'[d] = call[d]
  BY <1>1 DEF GoesOn, TypeInv, Types
<1>4. SnapOk(r, job.snap, job.at)
  BY DEF SnapsOk
<1>5. PICK j : j = job
  OBVIOUS
<1>6. /\ j \in Jobs /\ j.do = "round" /\ Post(j) /\ SnapOk(r, j.snap, j.at)
      /\ call[c].pc = "fetched" => call[c].job = j
  BY <1>1, <1>2, <1>4, <1>5
<1> HIDE DEF job
<1> DEFINE n == Len(queue) + 1
<1>7. /\ \A i \in DOMAIN queue : i \in DOMAIN queue' /\ queue'[i] = queue[i] /\ i < n
      /\ \A i \in DOMAIN queue' : i \in DOMAIN queue \/ i = n
      /\ n \in DOMAIN queue' /\ n \in Nat /\ n > 0 /\ queue'[n] = j
  <2>1. /\ DOMAIN queue = 1 .. Len(queue) /\ DOMAIN queue' = 1 .. Len(queue) + 1
           /\ Len(queue) \in Nat
        /\ \A i \in DOMAIN queue : queue'[i] = queue[i]
        /\ queue'[Len(queue) + 1] = j
    BY <1>1, <1>6, JobPosted
  <2> QED BY <2>1
<1> HIDE DEF n
<1>8. GapAhead <=> GapAhead'
  BY <1>1 DEF GapAhead, TaskGap
<1>9. Debt => Debt'
  <2>1. \A d \in Calls : call[d].pc = "noround" => call'[d].pc = "noround" \/ owes'
    BY <1>3
  <2> QED BY <1>1, <1>8, <2>1, DebtStays
<1>10. \A snap : Shown(r, snap)' <=> Shown(r, snap)
  BY <1>1 DEF Shown
<1>11. Coming(r) => Coming(r)' \/ (touched[r] = 0 /\ Shown(r, j.snap))
  BY <1>1, <1>3, <1>6, <1>10 DEF Coming
<1>12. \A q \in Nat : touched[r] = 0 /\ Shown(r, j.snap) /\ q < n => Later(r, q)'
  BY <1>1, <1>6, <1>7, <1>10 DEF Later, RoundAt
<1>13. \A q : Later(r, q) => Later(r, q)'
  BY <1>1, <1>7, LaterStays
<1>14. \A q \in Nat : q < n /\ Soon(r) => Soon(r)' \/ Later(r, q)'
  BY <1>1, <1>9, <1>11, <1>12 DEF Soon, Marked, InWire
<1>15. WireOk(r)' /\ MarkedOk(r)'
  <2>1. WireOk(r)'
    BY <1>1, WireStays DEF Settles
  <2>2. MarkedOk(r)'
    BY <1>1, <1>8, MarkedStays DEF Settles, Marked, InWire
  <2> QED BY <2>1, <2>2
<1>16. QueueOk(r)'
  <2> SUFFICES ASSUME NEW q \in DOMAIN queue', IsPush(q, r)'
               PROVE  (Agree(r, queue[q].m) /\ queue[q].by = Task)' \/ Later(r, q)' \/ Soon(r)'
    BY DEF QueueOk
  <2>1. q \in DOMAIN queue /\ queue'[q] = queue[q] /\ q < n /\ q \in Nat
    <3>1. q # n
      BY <1>6, <1>7 DEF IsPush
    <3> QED BY <1>1, <1>7, <3>1
  <2>2. (Agree(r, queue[q].m) /\ queue[q].by = Task) \/ Later(r, q) \/ Soon(r)
    BY <2>1 DEF Settles, QueueOk, IsPush
  <2>3. Agree(r, queue[q].m) => Agree(r, queue[q].m)'
    BY <1>1, <2>1 DEF Agree
  <2> QED BY <1>13, <1>14, <2>1, <2>2, <2>3
<1>17. MemOk(r)'
  <2>1. Soon(r) => Soon(r)' \/ Later(r, 0)'
    BY <1>7, <1>14
  <2> QED BY <1>1, <1>13, <2>1 DEF Settles, MemOk, Agree, TaskFailed
<1>18. ASSUME NEW snap, NEW since, SnapOk(r, snap, since) PROVE SnapOk(r, snap, since)'
  <2>1. ASSUME Outdone(r, since) PROVE Outdone(r, since)'
    <3>1. touched'[r] = 0 /\ ~InWire(r)' /\ touched[r] = 0
      BY <1>1, <2>1 DEF Outdone, InWire
    <3>2. CASE \E i \in DOMAIN queue : RoundAt(r, i) /\ queue[i].at > since
      BY <1>7, <1>10, <3>1, <3>2 DEF Outdone, RoundAt
    <3>3. CASE \E d \in Calls : d # c /\ \/ call[d].pc = "fetching"
                                         \/ /\ call[d].pc = "fetched" /\ Shown(r, call[d].job.snap)
                                            /\ call[d].job.at > since
      BY <1>3, <1>10, <3>1, <3>3 DEF Outdone
    <3>4. CASE Shown(r, j.snap) /\ j.at > since
      BY <1>6, <1>7, <1>10, <3>1, <3>4 DEF Outdone, RoundAt
    <3> QED BY <1>6, <2>1, <3>2, <3>3, <3>4 DEF Outdone
  <2> QED BY <1>1, <1>9, <1>18, <2>1 DEF SnapOk, Shown, Pushed
<1>19. ASSUME NEW d \in Calls, call'[d].pc = "fetched"
       PROVE  SnapOk(r, call[d].job.snap, call[d].job.at)'
  BY <1>3, <1>18, <1>19 DEF SnapsOk
<1>20. ASSUME NEW i \in DOMAIN queue', queue'[i].do = "round"
       PROVE  SnapOk(r, queue[i].snap, queue[i].at)'
  <2>1. CASE i = n
    BY <1>6, <1>7, <1>18, <2>1
  <2>2. CASE i \in DOMAIN queue
    BY <1>7, <1>18, <1>20, <2>2 DEF SnapsOk
  <2> QED BY <1>7, <2>1, <2>2
<1> QED BY <1>15, <1>16, <1>17, <1>19, <1>20 DEF Settles, SnapsOk

\* What the end of a write changes besides the memberships of the cache.
LEMMA ReportTells ==
  ASSUME TypeInv, RoomShapes, queue # <<>>, NEW res \in {"stored", "failed"}, Report(res),
         NEW r \in RoomIds
  PROVE  /\ Marked(r)' <=> Marked(r)
         /\ Marked(r) => task'.push = task.push
         /\ TaskGap => TaskGap'
         /\ TaskFailed(r) => TaskFailed(r)'
         /\ (Job.by = Task /\ Job.do = "push" /\ Job.room = r /\ res = "failed") => TaskFailed(r)'
         /\ \A c \in Calls : call[c].pc \in {"fetching", "fetched", "noround"} => call'[c] = call[c]
         /\ \A c \in Calls : call'[c].pc = "fetched" => call'[c] = call[c]
         /\ (Job.do = "round" /\ res = "failed") => \E c \in Calls : call'[c].pc = "noround"
<1>1. queue \in Seq(Jobs) /\ 1 \in DOMAIN queue /\ Job = queue[1] /\ Job \in Jobs
  BY DEF TypeInv, Types, Job
<1>2. CASE Job.by \in Calls
  <2>1. call[Job.by].pc = "wait" /\ Job.by # Task
    BY <1>1, <1>2 DEF TypeInv, Theirs, RoomShapes
  <2>2. task' = task /\ call' = [call EXCEPT ![Job.by].pc = EndsAs(Job.by, res)]
    BY <1>2, <2>1 DEF Report
  <2>3. call \in [Calls -> CallStates] /\ \A c \in Calls : c # Job.by => call'[c] = call[c]
    BY <1>2, <2>2 DEF TypeInv, Types
  <2>4. call'[Job.by].pc = EndsAs(Job.by, res)
    <3>1. call'[Job.by] = [call[Job.by] EXCEPT !.pc = EndsAs(Job.by, res)]
      BY <1>2, <2>2, <2>3
    <3>2. call[Job.by] \in PlainCalls \cup PullCalls
      BY <1>2, <2>1, <2>3, CallKinds
    <3>3. "pc" \in DOMAIN call[Job.by]
      BY <3>2 DEF PlainCalls, PullCalls
    <3> QED BY <3>1, <3>3
  <2>5. call'[Job.by].pc \notin {"fetching", "fetched"}
    BY <2>4 DEF EndsAs
  <2>6. (Job.do = "round" /\ res = "failed") => call'[Job.by].pc = "noround"
    BY <2>4 DEF EndsAs
  <2> QED BY <1>2, <2>1, <2>2, <2>3, <2>5, <2>6 DEF Marked, TaskGap, TaskFailed
<1>3. CASE Job.by \notin Calls
  <2>1. call' = call /\ Job.do # "round"
    BY <1>1, <1>3, JobKinds DEF Report
  <2>2. CASE Job.by # Task
    BY <2>1, <2>2 DEF Report, Marked, TaskGap, TaskFailed
  <2>3. CASE Job.by = Task
    <3>1. task.pc = "wait" /\ (task \in PushTasks <=> Job.do = "push")
          /\ (Job.do = "push" => Job.room = task.push.room)
      BY <1>1, <2>3 DEF TypeInv, Theirs
    <3>2. ~Marked(r) /\ ~TaskFailed(r)
      BY <3>1 DEF Marked, TaskFailed
    <3>3. CASE Job.do = "push"
      <4>1. task' = [task EXCEPT !.pc = res] /\ task \in PushTasks
        BY <2>3, <3>1, <3>3 DEF Report
      <4>2. task'.pc = res /\ task'.push = task.push /\ task'.gap = task.gap /\ task' \in PushTasks
        BY <4>1 DEF PushTasks
      <4>3. ~Marked(r)' /\ (TaskGap => TaskGap')
        BY <4>1, <4>2 DEF Marked, TaskGap
      <4>4. (Job.room = r /\ res = "failed") => TaskFailed(r)'
        BY <3>1, <3>3, <4>2 DEF TaskFailed
      <4> QED BY <2>1, <3>2, <4>3, <4>4
    <3>4. CASE Job.do # "push"
      <4>1. task' = Resting /\ task \notin PushTasks
        BY <2>3, <3>1, <3>4 DEF Report
      <4> QED BY <2>1, <3>2, <3>4, <4>1 DEF Marked, TaskGap, Resting
    <3> QED BY <3>3, <3>4
  <2> QED BY <2>2, <2>3
<1> QED BY <1>2, <1>3

\* The first job is gone: what stood behind it still does.
LEMMA TailLater ==
  ASSUME queue \in Seq(Jobs), queue # <<>>, queue' = Tail(queue), touched' = touched,
         members' = members,
         NEW r \in RoomIds
  PROVE  /\ \A q \in Nat : Later(r, q + 1) => Later(r, q)'
         /\ (~IsPush(1, r) /\ ~RoundAt(r, 1)) => (Later(r, 0) => Later(r, 0)')
<1>1. /\ DOMAIN queue = 1 .. Len(queue) /\ Len(queue) \in Nat
      /\ \A i \in DOMAIN queue' : queue'[i] = queue[i + 1]
      /\ \A i \in DOMAIN queue : i # 1 => i - 1 \in DOMAIN queue'
  BY Gone
<1>2. ASSUME NEW q \in Nat, Later(r, q + 1) PROVE Later(r, q)'
  <2>1. PICK i \in DOMAIN queue : i > q + 1 /\ (IsPush(i, r) \/ RoundAt(r, i))
    BY <1>2 DEF Later
  <2>2. i \in Nat /\ i # 1 /\ i - 1 > q
    BY <1>1, <2>1
  <2>3. i - 1 \in DOMAIN queue' /\ queue'[i - 1] = queue[i]
    BY <1>1, <2>2
  <2> QED BY <2>1, <2>2, <2>3 DEF Later, IsPush, RoundAt, Shown
<1>3. ASSUME ~IsPush(1, r), ~RoundAt(r, 1), Later(r, 0) PROVE Later(r, 0)'
  <2>1. PICK i \in DOMAIN queue : i > 0 /\ (IsPush(i, r) \/ RoundAt(r, i))
    BY <1>3 DEF Later
  <2>2. i > 0 + 1
    BY <1>1, <1>3, <2>1
  <2>3. Later(r, 0 + 1)
    BY <2>1, <2>2 DEF Later
  <2> QED BY <1>2, <2>3
<1> QED BY <1>2, <1>3

\* The writer is done with a job; mem and stale aside.
LEMMA SettleReport ==
  ASSUME TypeInv, RoomShapes, NEW r \in RoomIds, Settles(r), SnapsOk(r), queue # <<>>,
         queue' = Tail(queue),
         NEW res \in {"stored", "failed"}, Report(res),
         UNCHANGED <<members, wire, on, told, srvGap, lost, touched, owes>>,
         asOf \in Int /\ asOf' \in Int /\ asOf' >= asOf,
         Job.do = "round" /\ res = "stored" => asOf' >= Job.at
  PROVE  /\ WireOk(r)' /\ MarkedOk(r)' /\ QueueOk(r)' /\ SnapsOk(r)'
         /\ Soon(r) => Soon(r)'
         /\ Debt => Debt'
         /\ TaskFailed(r) => TaskFailed(r)'
<1>0. /\ queue \in Seq(Jobs)
      /\ \A i \in DOMAIN queue' : queue'[i] = queue[i + 1] /\ i + 1 \in DOMAIN queue /\ i \in Nat
  <2>1. queue \in Seq(Jobs)
    BY DEF TypeInv, Types
  <2> QED BY <2>1, Gone
<1>1. /\ Marked(r)' <=> Marked(r)
      /\ Marked(r) => task'.push = task.push
      /\ TaskGap => TaskGap'
      /\ TaskFailed(r) => TaskFailed(r)'
      /\ \A c \in Calls : call[c].pc \in {"fetching", "fetched", "noround"} => call'[c] = call[c]
      /\ \A c \in Calls : call'[c].pc = "fetched" => call'[c] = call[c]
  BY ReportTells
<1>2. GapAhead => GapAhead'
  BY <1>1, GapStays
<1>3. Debt => Debt'
  <2>1. \A c \in Calls : call[c].pc = "noround" => call'[c].pc = "noround" \/ owes'
    BY <1>1
  <2> QED BY <1>2, <2>1, DebtStays
<1>4. Coming(r) => Coming(r)'
  BY <1>1, ComingStays
<1>5. Soon(r) => Soon(r)'
  BY <1>1, <1>3, <1>4 DEF Soon, InWire
<1>6. WireOk(r)'
  BY WireStays DEF Settles
<1>7. MarkedOk(r)'
  <2>1. InWire(r) => InWire(r)'
    BY DEF InWire
  <2> QED BY <1>1, <1>2, <2>1, MarkedStays DEF Settles
<1>8. QueueOk(r)'
  <2> SUFFICES ASSUME NEW q \in DOMAIN queue', IsPush(q, r)'
               PROVE  (Agree(r, queue[q].m) /\ queue[q].by = Task)' \/ Later(r, q)' \/ Soon(r)'
    BY DEF QueueOk
  <2>1. queue'[q] = queue[q + 1] /\ q + 1 \in DOMAIN queue /\ q \in Nat
    BY <1>0
  <2>2. (Agree(r, queue[q + 1].m) /\ queue[q + 1].by = Task) \/ Later(r, q + 1) \/ Soon(r)
    BY <2>1 DEF Settles, QueueOk, IsPush
  <2>3. Agree(r, queue[q + 1].m) => Agree(r, queue[q].m)'
    BY <2>1 DEF Agree
  <2>4. Later(r, q + 1) => Later(r, q)'
    BY <1>0, <2>1, TailLater
  <2> QED BY <1>5, <2>1, <2>2, <2>3, <2>4
<1>9. ASSUME NEW snap, NEW since \in Nat, SnapOk(r, snap, since) PROVE SnapOk(r, snap, since)'
  <2>1. since < asOf => since < asOf'
    OBVIOUS
  <2>2. ASSUME Outdone(r, since) PROVE SnapOk(r, snap, since)'
    <3>1. touched'[r] = 0 /\ ~InWire(r)' /\ \A x : Shown(r, x)' <=> Shown(r, x)
      BY <2>2 DEF Outdone, InWire, Shown
    <3>2. ASSUME NEW c \in Calls,
                 \/ call[c].pc = "fetching"
                 \/ call[c].pc = "fetched" /\ Shown(r, call[c].job.snap) /\ call[c].job.at > since
          PROVE  SnapOk(r, snap, since)'
      <4>1. call'[c] = call[c]
        BY <1>1, <3>2
      <4>2. Outdone(r, since)'
        BY <3>1, <3>2, <4>1 DEF Outdone
      <4> QED BY <4>2 DEF SnapOk
    <3>3. ASSUME NEW i \in DOMAIN queue, RoundAt(r, i), queue[i].at > since, i # 1
          PROVE  SnapOk(r, snap, since)'
      <4>1. i - 1 \in DOMAIN queue' /\ queue'[i - 1] = queue[i]
        BY <1>0, <3>3, Gone
      <4>2. RoundAt(r, i - 1)' /\ queue'[i - 1].at > since
        BY <3>1, <3>3, <4>1 DEF RoundAt
      <4>3. Outdone(r, since)'
        BY <3>1, <4>1, <4>2 DEF Outdone
      <4> QED BY <4>3 DEF SnapOk
    \* The newer one is written now, or given up.
    <3>4. ASSUME RoundAt(r, 1), 1 \in DOMAIN queue, queue[1].at > since
          PROVE  SnapOk(r, snap, since)'
      <4>1. Job = queue[1] /\ Job.do = "round" /\ Job.at \in Nat
        BY <1>0, <3>4, JobKinds DEF Job, RoundAt
      <4>2. CASE res = "stored"
        <5>1. since < asOf'
          BY <3>4, <4>1, <4>2
        <5> QED BY <5>1 DEF SnapOk
      <4>3. CASE res = "failed"
        <5>1. \E c \in Calls : call'[c].pc = "noround"
          BY <4>1, <4>3, ReportTells
        <5> QED BY <5>1 DEF SnapOk, Debt
      <4> QED BY <4>2, <4>3
    <3> QED BY <2>2, <3>2, <3>3, <3>4 DEF Outdone
  <2> QED BY <1>3, <1>9, <2>1, <2>2 DEF SnapOk, Shown, Pushed
<1>10. ASSUME NEW c \in Calls, call'[c].pc = "fetched"
       PROVE  SnapOk(r, call[c].job.snap, call[c].job.at)'
  <2>1. call'[c] = call[c] /\ call[c] \in FetchedCalls
    BY <1>1, <1>10, CallKinds DEF TypeInv, Types
  <2>2. call[c].job.at \in Nat
    BY <2>1, CallKinds DEF CallStates, RoundJobs
  <2> QED BY <1>9, <1>10, <2>1, <2>2 DEF SnapsOk
<1>11. ASSUME NEW i \in DOMAIN queue', queue'[i].do = "round"
       PROVE  SnapOk(r, queue[i].snap, queue[i].at)'
  <2>1. queue'[i] = queue[i + 1] /\ i + 1 \in DOMAIN queue /\ queue[i + 1] \in Jobs
    BY <1>0
  <2>2. queue[i + 1].at \in Nat /\ SnapOk(r, queue[i + 1].snap, queue[i + 1].at)
    BY <1>11, <2>1, JobKinds DEF SnapsOk
  <2> QED BY <1>9, <2>1, <2>2
<1> QED BY <1>1, <1>3, <1>5, <1>6, <1>7, <1>8, <1>10, <1>11 DEF SnapsOk

LEMMA SettleWriteFails ==
  ASSUME TypeInv, RoomShapes, NEW r \in RoomIds, Settles(r), SnapsOk(r), WriteFails
  PROVE  Settles(r)' /\ SnapsOk(r)'
<1> USE DEF roomServer, roomsLine, cacheDb, roomGhosts
<1>1. /\ queue # <<>> /\ queue' = Tail(queue) /\ Report("failed") /\ asOf' = asOf /\ asOf \in Int
      /\ UNCHANGED <<members, wire, on, told, srvGap, lost, touched, owes, mem, stale>>
  BY DEF WriteFails, TypeInv, Types
<1>2. /\ WireOk(r)' /\ MarkedOk(r)' /\ QueueOk(r)' /\ SnapsOk(r)'
      /\ Soon(r) => Soon(r)'
      /\ TaskFailed(r) => TaskFailed(r)'
  BY <1>1, SettleReport
<1>3. queue \in Seq(Jobs) /\ 1 \in DOMAIN queue /\ Job = queue[1]
  BY <1>1 DEF TypeInv, Types, Job
<1>4. /\ \A q \in Nat : Later(r, q + 1) => Later(r, q)'
      /\ (~IsPush(1, r) /\ ~RoundAt(r, 1)) => (Later(r, 0) => Later(r, 0)')
  BY <1>1, <1>3, TailLater
<1>5. Later(r, 0) => Later(r, 0)' \/ Soon(r)' \/ TaskFailed(r)'
  <2>1. CASE IsPush(1, r)
    <3>1. (Agree(r, queue[1].m) /\ queue[1].by = Task) \/ Later(r, 0 + 1) \/ Soon(r)
      BY <1>3, <2>1 DEF Settles, QueueOk
    <3>2. queue[1].by = Task => TaskFailed(r)'
      BY <1>1, <1>3, <2>1, ReportTells DEF IsPush
    <3> QED BY <1>2, <1>4, <3>1, <3>2
  <2>2. CASE RoundAt(r, 1)
    <3>1. \E c \in Calls : call'[c].pc = "noround"
      BY <1>1, <1>3, <2>2, ReportTells DEF RoundAt
    <3> QED BY <3>1 DEF Soon, Debt
  <2> QED BY <1>4, <2>1, <2>2
<1>6. MemOk(r)'
  BY <1>1, <1>2, <1>5 DEF Settles, MemOk, Agree
<1> QED BY <1>2, <1>6 DEF Settles

LEMMA SettleCommit ==
  ASSUME TypeInv, AgeInv, RoomShapes, NEW r \in RoomIds, Settles(r), SnapsOk(r), Commit
  PROVE  Settles(r)' /\ SnapsOk(r)'
<1> USE DEF roomServer, roomsLine, cacheDb, roomGhosts
<1>1. /\ queue # <<>> /\ queue' = Tail(queue) /\ Report("stored")
      /\ UNCHANGED <<members, wire, on, told, srvGap, lost, touched, owes>>
  BY DEF Commit
<1>2. /\ queue \in Seq(Jobs) /\ 1 \in DOMAIN queue /\ Job = queue[1] /\ Job \in Jobs /\ Dated(Job)
      /\ mem \in [RoomIds -> Memberships \cup {Absent}] /\ stale \subseteq RoomIds
      /\ members \in [RoomIds -> [m : Memberships, is : Nat]]
      /\ touched \in [RoomIds -> Nat] /\ asOf \in Nat
  BY <1>1 DEF TypeInv, Types, Job, AgeInv
<1>3. asOf' \in Int /\ asOf' >= asOf
  <2>1. CASE ApplyRound
    <3>1. Job.at \in Nat /\ asOf' = Max({asOf, Job.at})
      BY <1>2, <2>1, JobKinds DEF ApplyRound
    <3>2. asOf \in Int /\ Job.at \in Int
      BY <1>2, <3>1
    <3>3. Max({asOf, Job.at}) = IF asOf >= Job.at THEN asOf ELSE Job.at
      BY <3>2, MaxOfTwo
    <3> QED BY <3>1, <3>2, <3>3
  <2>2. CASE asOf' = asOf
    BY <1>2, <2>2
  <2> QED
    BY <2>1, <2>2
       DEF Commit, ApplyPush, ApplyMember, ApplyJoined, ApplyLook, ApplyForget, ApplyEvents,
           ApplyMark
<1>17. Job.do = "round" => asOf' >= Job.at
  <2>1. ASSUME Job.do = "round" PROVE asOf' >= Job.at
    <3>1. ApplyRound
      BY <2>1 DEF Commit, ApplyPush, ApplyMember, ApplyJoined, ApplyLook, ApplyForget,
                  ApplyEvents, ApplyMark
    <3>2. Job.at \in Nat /\ asOf' = Max({asOf, Job.at})
      BY <1>2, <3>1, JobKinds DEF ApplyRound
    <3>3. asOf \in Int /\ Job.at \in Int
      BY <1>2, <3>2
    <3>4. Max({asOf, Job.at}) = IF asOf >= Job.at THEN asOf ELSE Job.at
      BY <3>3, MaxOfTwo
    <3> QED BY <3>2, <3>3, <3>4
  <2> QED BY <2>1
<1>4. /\ WireOk(r)' /\ MarkedOk(r)' /\ QueueOk(r)' /\ SnapsOk(r)'
      /\ Soon(r) => Soon(r)'
      /\ Debt => Debt'
      /\ TaskFailed(r) => TaskFailed(r)'
  BY <1>1, <1>2, <1>3, <1>17, SettleReport
<1>5. /\ \A q \in Nat : Later(r, q + 1) => Later(r, q)'
      /\ (~IsPush(1, r) /\ ~RoundAt(r, 1)) => (Later(r, 0) => Later(r, 0)')
  BY <1>1, <1>2, TailLater
<1>6. /\ Absent # "invite" /\ \A m \in {"join", "leave"} : m # "invite"
      /\ \A m : Agree(r, m)' <=> Agree(r, m)
  <2>1. Absent # "invite" /\ \A m \in {"join", "leave"} : m # "invite"
    BY DEF RoomShapes, Memberships
  <2>2. \A m : Agree(r, m)' <=> Agree(r, m)
    BY <1>1 DEF Agree
  <2> QED BY <2>1, <2>2
\* A write that leaves the room as it is, or as good.
<1>7. ASSUME ~IsPush(1, r), ~RoundAt(r, 1), mem'[r] = "invite" <=> mem[r] = "invite",
             r \in stale => r \in stale'
      PROVE  MemOk(r)'
  BY <1>1, <1>4, <1>5, <1>7, MemStays DEF Settles
<1>8. ASSUME ApplyPush PROVE MemOk(r)'
  <2>1. /\ mem' = [mem EXCEPT ![Job.room] = Job.m] /\ stale' = stale \ {Job.room} /\ Job.do = "push"
    BY <1>8 DEF ApplyPush
  <2>2. CASE Job.room = r
    <3>1. mem'[r] = queue[1].m
      BY <1>2, <2>1, <2>2
    <3>2. Agree(r, queue[1].m) \/ Later(r, 0 + 1) \/ Soon(r)
      BY <1>2, <2>1, <2>2 DEF Settles, QueueOk, IsPush
    <3>3. Agree(r, queue[1].m) => Agree(r, mem[r])'
      BY <1>6, <3>1
    <3> QED BY <1>4, <1>5, <3>2, <3>3 DEF MemOk
  <2>3. CASE Job.room # r
    <3>1. mem'[r] = mem[r] /\ (r \in stale => r \in stale') /\ ~IsPush(1, r) /\ ~RoundAt(r, 1)
      BY <1>2, <2>1, <2>3 DEF IsPush, RoundAt
    <3> QED BY <1>7, <3>1
  <2> QED BY <2>2, <2>3
<1>9. ASSUME ApplyRound PROVE MemOk(r)'
  <2>1. /\ Job.do = "round" /\ Job.snap \in [RoomIds -> Nat] /\ Job.at \in Nat
        /\ Job.snap[r] <= Job.at
        /\ members[r].is <= Job.at => Shown(r, Job.snap)
        /\ SnapOk(r, Job.snap, Job.at)
    BY <1>2, <1>9, JobKinds DEF ApplyRound, Dated, SnapsOk
  <2>2. /\ mem'[r] = IF r \in Listed(Job.snap) THEN "invite"
                     ELSE IF Ended(r, Job.snap) THEN "leave" ELSE mem[r]
        /\ stale' = IF Job.at >= asOf THEN stale \ {s \in RoomIds : touched[s] = 0}
                    ELSE stale \cup {s \in RoomIds : /\ Job.at < members[s].is
                                                     /\ (touched[s] = 0 \/ s \in Listed(Job.snap))}
    BY <1>9 DEF ApplyRound
  <2>3. Job.snap[r] \in Nat /\ touched[r] \in Nat /\ members[r].is \in Nat
    BY <1>2, <2>1
  \* What the round does to the room, it does well.
  <2>4. ASSUME touched[r] = 0 \/ r \in Listed(Job.snap), mem'[r] = "invite" <=> Job.snap[r] # 0,
               touched[r] <= Job.at
        PROVE  MemOk(r)'
    <3>1. CASE Shown(r, Job.snap)
      <4>1. Agree(r, mem[r])'
        BY <1>1, <2>4, <3>1 DEF Shown, Agree
      <4> QED BY <4>1 DEF MemOk
    <3>2. CASE ~Shown(r, Job.snap)
      <4>1. Job.at < members[r].is
        BY <2>1, <2>3, <3>2
      <4>2. CASE Job.at < asOf
        <5>1. r \in stale'
          BY <1>2, <2>1, <2>2, <2>4, <4>1, <4>2
        <5> QED BY <5>1 DEF MemOk
      <4>3. CASE Pushed(r, Job.at) \/ Debt
        <5>1. Soon(r)
          BY <4>3 DEF Soon, Pushed, InWire
        <5> QED BY <1>4, <5>1 DEF MemOk
      <4>4. CASE Outdone(r, Job.at)
        <5>1. Coming(r) => MemOk(r)'
          BY <1>4 DEF Soon, MemOk
        <5>2. ASSUME NEW i \in DOMAIN queue, RoundAt(r, i), queue[i].at > Job.at
              PROVE  MemOk(r)'
          <6>1. i \in Nat /\ i # 0 /\ i # 1
            BY <1>2, <2>1, <5>2
          <6>2. Later(r, 0 + 1)
            BY <5>2, <6>1 DEF Later
          <6> QED BY <1>5, <6>2 DEF MemOk
        <5> QED BY <4>4, <5>1, <5>2 DEF Outdone, Coming
      <4> QED BY <2>1, <2>3, <2>4, <3>2, <4>2, <4>3, <4>4 DEF SnapOk
    <3> QED BY <3>1, <3>2
  <2>5. CASE touched[r] = 0
    <3>1. r \in Listed(Job.snap) <=> Job.snap[r] # 0
      BY <2>5 DEF Listed, Yields
    <3>2. mem'[r] = "invite" <=> Job.snap[r] # 0
      BY <2>2, <2>5, <3>1 DEF Ended
    <3>3. touched[r] <= Job.at
      BY <2>1, <2>5
    <3> QED BY <2>4, <2>5, <3>2, <3>3
  <2>6. CASE touched[r] # 0 /\ r \in Listed(Job.snap)
    <3>1. Job.snap[r] # 0 /\ touched[r] < Job.snap[r]
      BY <2>3, <2>6 DEF Listed, Yields
    <3>2. touched[r] <= Job.at
      BY <2>1, <2>3, <3>1
    <3>3. mem'[r] = "invite"
      BY <2>2, <2>6
    <3> QED BY <2>4, <2>6, <3>1, <3>2, <3>3
  <2>7. CASE touched[r] # 0 /\ r \notin Listed(Job.snap)
    <3>1. mem'[r] = mem[r]
      BY <2>2, <2>7 DEF Ended
    <3>2. r \in stale => r \in stale'
      BY <2>2, <2>7
    <3>3. ~IsPush(1, r) /\ ~RoundAt(r, 1)
      BY <1>2, <2>1, <2>7 DEF IsPush, RoundAt
    <3> QED BY <1>7, <3>1, <3>2, <3>3
  <2> QED BY <2>5, <2>6, <2>7
\* An answer of the server that is written: it is as the server has it, or outdated.
<1>10. ASSUME Job.do \in {"member", "forget"}, Aged(Job.room, Job.is),
              NEW m, mem' = [mem EXCEPT ![Job.room] = m],
              Job.is = members[Job.room].is => (m = "invite" <=> members[Job.room].m = "invite")
       PROVE  MemOk(r)'
  <2>1. /\ Job.room \in RoomIds /\ Job.is \in Nat /\ Job.is <= members[Job.room].is
        /\ members[Job.room].is \in Nat
    BY <1>2, <1>10, JobKinds DEF Dated
  <2>2. stale' = IF Job.is < members[Job.room].is THEN stale \cup {Job.room} ELSE stale \ {Job.room}
    BY <1>10 DEF Aged
  <2>3. CASE Job.room = r
    <3>1. mem'[r] = m
      BY <1>2, <1>10, <2>3
    <3>2. CASE Job.is < members[r].is
      <4>1. r \in stale'
        BY <2>2, <2>3, <3>2
      <4> QED BY <4>1 DEF MemOk
    <3>3. CASE Job.is = members[r].is
      <4>1. m = "invite" <=> members[r].m = "invite"
        BY <1>10, <2>3, <3>3
      <4>2. Agree(r, mem[r])'
        BY <1>1, <3>1, <4>1 DEF Agree
      <4> QED BY <4>2 DEF MemOk
    <3> QED BY <2>1, <2>3, <3>2, <3>3
  <2>4. CASE Job.room # r
    <3>1. mem'[r] = mem[r] /\ (r \in stale => r \in stale') /\ ~IsPush(1, r) /\ ~RoundAt(r, 1)
      <4>1. mem'[r] = mem[r]
        BY <1>2, <1>10, <2>4
      <4>2. r \in stale => r \in stale'
        BY <2>2, <2>4
      <4> QED BY <1>2, <1>10, <4>1, <4>2 DEF IsPush, RoundAt
    <3> QED BY <1>7, <3>1
  <2> QED BY <2>3, <2>4
<1>11. ASSUME ApplyMember PROVE MemOk(r)'
  <2>1. /\ Job.do = "member" /\ mem' = [mem EXCEPT ![Job.room] = Job.m] /\ Aged(Job.room, Job.is)
        /\ Job.m \in {"join", "leave"}
    BY <1>2, <1>11, JobKinds DEF ApplyMember
  <2>2. Job.is = members[Job.room].is => (Job.m = "invite" <=> members[Job.room].m = "invite")
    BY <1>2, <2>1 DEF Dated
  <2> QED BY <1>10, <2>1, <2>2
<1>12. ASSUME ApplyForget PROVE MemOk(r)'
  <2>1. Job.do = "forget" /\ mem' = [mem EXCEPT ![Job.room] = Absent] /\ Aged(Job.room, Job.is)
    BY <1>12 DEF ApplyForget
  <2>2. Job.is = members[Job.room].is => (Absent = "invite" <=> members[Job.room].m = "invite")
    BY <1>2, <1>6, <2>1 DEF Dated
  <2> QED BY <1>10, <2>1, <2>2
<1>13. ASSUME ApplyJoined PROVE MemOk(r)'
  <2>1. /\ Job.do = "joined"
        /\ mem'[r] = IF r \in Job.rooms THEN "join" ELSE IF mem[r] = "join" THEN "leave" ELSE mem[r]
        /\ stale' = stale \cup {s \in RoomIds : Job.ages[s] < members[s].is}
    BY <1>13 DEF ApplyJoined
  <2>2. /\ Job.ages[r] \in Nat /\ members[r].is \in Nat /\ Job.ages[r] <= members[r].is
        /\ Job.ages[r] = members[r].is => (r \in Job.rooms <=> members[r].m = "join")
    <3>1. Job.ages \in [RoomIds -> Nat]
      BY <1>2, <2>1, JobKinds
    <3> QED BY <1>2, <2>1, <3>1 DEF Dated
  <2>3. CASE Job.ages[r] < members[r].is
    <3>1. r \in stale'
      BY <2>1, <2>3
    <3> QED BY <3>1 DEF MemOk
  <2>4. CASE Job.ages[r] = members[r].is /\ r \in Job.rooms
    <3>1. mem'[r] = "join" /\ members[r].m = "join"
      BY <2>1, <2>2, <2>4
    <3>2. Agree(r, mem[r])'
      BY <1>1, <3>1 DEF Agree
    <3> QED BY <3>2 DEF MemOk
  <2>5. CASE r \notin Job.rooms
    <3>1. mem'[r] = "invite" <=> mem[r] = "invite"
      BY <2>1, <2>5
    <3>2. (r \in stale => r \in stale') /\ ~IsPush(1, r) /\ ~RoundAt(r, 1)
      BY <1>2, <2>1 DEF IsPush, RoundAt
    <3> QED BY <1>7, <3>1, <3>2
  <2> QED BY <2>2, <2>3, <2>4, <2>5
<1>14. ASSUME ApplyLook PROVE MemOk(r)'
  <2>1. /\ Job.do = "look" /\ Job.room \in RoomIds /\ stale' = stale
        /\ mem' = [mem EXCEPT ![Job.room] = IF @ = Absent THEN "join" ELSE @]
    BY <1>2, <1>14, JobKinds DEF ApplyLook
  <2>2. mem'[r] = "invite" <=> mem[r] = "invite"
    BY <1>2, <1>6, <2>1
  <2>3. ~IsPush(1, r) /\ ~RoundAt(r, 1)
    BY <1>2, <2>1 DEF IsPush, RoundAt
  <2> QED BY <1>7, <2>1, <2>2, <2>3
<1>15. ASSUME ApplyEvents \/ ApplyMark PROVE MemOk(r)'
  <2>1. Job.do \in {"events", "mark"} /\ mem' = mem /\ stale' = stale
    BY <1>15 DEF ApplyEvents, ApplyMark
  <2>2. ~IsPush(1, r) /\ ~RoundAt(r, 1)
    BY <1>2, <2>1 DEF IsPush, RoundAt
  <2> QED BY <1>7, <2>1, <2>2
<1>16. MemOk(r)'
  BY <1>8, <1>9, <1>11, <1>12, <1>13, <1>14, <1>15 DEF Commit
<1> QED BY <1>4, <1>16 DEF Settles

LEMMA SettleQuietCall ==
  ASSUME TypeInv, NEW r \in RoomIds, Settles(r), SnapsOk(r), NEW c \in Calls, NEW x, GoesOn(c, x),
         call[c].pc \notin {"fetching", "fetched", "noround"}, x.pc # "fetched",
         UNCHANGED <<members, wire, on, told, srvGap, lost, task, touched, mem, owes, stale, asOf>>,
         queue' = queue \/ \E job \in Jobs : Post(job) /\ job.do \notin {"push", "round"}
  PROVE  Settles(r)' /\ SnapsOk(r)'
<1>1. call'[c] = x /\ \A d \in Calls : d # c => call'[d] = call[d]
  BY DEF GoesOn, TypeInv, Types
<1>2. /\ \A d \in Calls : call[d].pc \in {"fetching", "fetched", "noround"} => call'[d] = call[d]
      /\ \A d \in Calls : call'[d].pc = "fetched" => call'[d] = call[d]
  BY <1>1
<1> QED BY <1>2, SettleStays DEF TaskStays

LEMMA SettleRecord ==
  ASSUME TypeInv, RoomShapes, NEW r \in RoomIds, Settles(r), SnapsOk(r), NEW c \in Calls, Record(c)
  PROVE  Settles(r)' /\ SnapsOk(r)'
<1>1. CASE call[c].pc = "fetched"
  BY <1>1, SettleRecordRound
<1>2. CASE call[c].pc # "fetched"
  <2>1. /\ call[c].pc = "answered"
        /\ UNCHANGED <<members, wire, on, told, srvGap, lost, task, touched, mem, owes, stale,
                       asOf>>
    BY <1>2 DEF Record, roomServer, roomsLine, cacheDb, roomGhosts
  <2>2. /\ call[c].job \in Jobs /\ call[c].job.do \notin {"push", "round"} /\ Post(call[c].job)
        /\ GoesOn(c, [pc |-> "wait"])
    BY <1>2, RecordSteps
  <2> QED BY <2>1, <2>2, SettleQuietCall
<1> QED BY <1>1, <1>2

LEMMA SettlePull ==
  ASSUME TypeInv, CoverInv, RoomShapes, NEW r \in RoomIds, Settles(r), SnapsOk(r), NEW c \in Calls,
         Recent(c) \/ AskWindow(c) \/ NextWindow(c) \/ MarkRecent(c)
  PROVE  Settles(r)' /\ SnapsOk(r)'
<1> USE DEF roomServer, roomsLine, cacheDb, roomGhosts
<1>1. UNCHANGED <<members, wire, on, told, srvGap, lost, task, touched, mem, owes, stale, asOf>>
  BY DEF Recent, AskWindow, NextWindow, MarkRecent
<1>2. call[c].pc \notin {"fetching", "fetched", "noround"}
  BY DEF Recent, AskWindow, NextWindow, MarkRecent, AsksFor, Resting
<1>3. ASSUME NEW x, GoesOn(c, x), x.pc # "fetched",
             queue' = queue \/ \E job \in Jobs : Post(job) /\ job.do \notin {"push", "round"}
      PROVE  Settles(r)' /\ SnapsOk(r)'
  BY <1>1, <1>2, <1>3, SettleQuietCall
<1>4. CASE Recent(c)
  <2>1. PICK base \in {watermark, 0} :
          GoesOn(c, [pc |-> "window", base |-> base, before |-> head + 1, top |-> 0])
    BY <1>4 DEF Recent
  <2> QED BY <1>3, <1>4, <2>1 DEF Recent
<1>5. CASE NextWindow(c)
  <2>1. call[c] \in PullCalls
    BY <1>5, CallKinds DEF NextWindow, TypeInv, Types
  <2>2. PICK p \in {"window", "pulled"} : GoesOn(c, [call[c] EXCEPT !.pc = p])
    BY <1>5 DEF NextWindow
  <2>3. [call[c] EXCEPT !.pc = p].pc # "fetched"
    BY <2>1 DEF PullCalls
  <2> QED BY <1>3, <1>5, <2>2, <2>3 DEF NextWindow
<1>6. CASE AskWindow(c)
  <2>1. call[c] \in PullCalls
    BY <1>6, CallKinds DEF AskWindow, TypeInv, Types
  <2>2. call[c].before <= head + 1
    BY <2>1 DEF CoverInv, Known
  <2>3. CASE queue' = queue /\ GoesOn(c, [call[c] EXCEPT !.pc = "pulled"])
    <3>1. [call[c] EXCEPT !.pc = "pulled"].pc # "fetched"
      BY <2>1 DEF PullCalls
    <3> QED BY <1>3, <2>3, <3>1
  <2>4. ASSUME NEW lo, NEW job \in Jobs,
               job = [do |-> "events", by |-> c, events |-> lo .. call[c].before - 1], Post(job),
               NEW top,
               GoesOn(c, [pc |-> "wait", base |-> call[c].base, before |-> lo, top |-> top])
        PROVE  Settles(r)' /\ SnapsOk(r)'
    <3>1. job.do \notin {"push", "round"}
      BY <2>4
    <3> QED BY <1>3, <2>4, <3>1
  <2> QED BY <1>6, <2>2, <2>3, <2>4, AskWindowSteps
<1>7. CASE MarkRecent(c)
  <2>1. CASE queue' = queue /\ GoesOn(c, Resting)
    BY <1>3, <2>1 DEF Resting
  <2>2. ASSUME NEW job \in Jobs, job = [do |-> "mark", by |-> c, at |-> call[c].top], Post(job),
               GoesOn(c, [pc |-> "wait"])
        PROVE  Settles(r)' /\ SnapsOk(r)'
    <3>1. job.do \notin {"push", "round"}
      BY <2>2
    <3> QED BY <1>3, <2>2, <3>1
  <2> QED BY <1>7, <2>1, <2>2, MarkRecentSteps
<1> QED BY <1>4, <1>5, <1>6, <1>7

LEMMA SettleInit == RoomsInit => SettleInv
<1> SUFFICES ASSUME RoomsInit, NEW r \in RoomIds PROVE Settles(r) /\ SnapsOk(r)
  BY DEF SettleInv
<1>1. ~on /\ DOMAIN wire = {}
  BY DEF RoomsInit
<1>2. Debt
  BY <1>1 DEF Debt
<1> QED BY <1>1, <1>2 DEF Settles, WireOk, MarkedOk, QueueOk, MemOk, SnapsOk, SnapOk, Soon

LEMMA SpiltGrows == [RoomsNext]_roomVars => spilt \subseteq spilt'
BY DEF RoomsNext, roomVars, roomServer, roomsLine, cacheDb, roomGhosts, OthersChange, PushIsLost,
       NewEvent, RoomsLineDies, Subscribe, TellOpened, TakeInvite, WriteInvite, TellInvite,
       TakeEvents, Act, ForgetRoom, Look, FetchInvites, FetchAnswered, CloseRound, List, Recent,
       AskWindow, NextWindow, MarkRecent, Record, BreaksOff, Return, Commit, ApplyPush, ApplyRound,
       ApplyMember, ApplyJoined, ApplyLook, ApplyForget, ApplyEvents, ApplyMark, WriteFails,
       RoomsCrash

LEMMA SettleStep ==
  /\ TypeInv /\ TypeInv' /\ CoverInv /\ RoundInv /\ PushOrder /\ AgeInv /\ WireInv /\ SettleInv
  /\ RoomShapes /\ [RoomsNext]_roomVars
  => SettleInv'
<1> SUFFICES ASSUME TypeInv, TypeInv', CoverInv, RoundInv, PushOrder, AgeInv, WireInv, SettleInv,
                    RoomShapes, [RoomsNext]_roomVars, NEW r \in RoomIds, r \notin spilt'
             PROVE  Settles(r)' /\ SnapsOk(r)'
  BY DEF SettleInv
<1> USE DEF roomServer, roomsLine, cacheDb, roomGhosts
<1>0. Settles(r) /\ SnapsOk(r) /\ r \notin spilt
  BY SpiltGrows DEF SettleInv
<1>1. ASSUME NEW s \in RoomIds, NEW m \in Memberships, OthersChange(s, m)
      PROVE  Settles(r)' /\ SnapsOk(r)'
  BY <1>0, <1>1, SettleBecomes DEF OthersChange
<1>2. CASE PushIsLost
  BY <1>0, <1>2, SettlePushIsLost
<1>3. CASE NewEvent \/ TellOpened
  BY <1>0, <1>3, SettleStays DEF NewEvent, TellOpened, TaskStays
<1>4. CASE RoomsLineDies \/ RoomsCrash
  BY <1>4, SettleLineDies
<1>5. CASE Subscribe
  BY <1>5, SettleSubscribe
<1>6. CASE TakeInvite
  BY <1>0, <1>6, SettleTakeInvite
<1>7. CASE WriteInvite
  BY <1>0, <1>7, SettleWriteInvite
<1>8. CASE TellInvite
  BY <1>0, <1>8, SettleTellInvite
<1>9. CASE TakeEvents
  <2>1. DEFINE job == [do |-> "events", by |-> Task, events |-> {Head(feed)}]
  <2>2. job \in Jobs /\ job.do = "events" /\ Post(job)
    BY <1>9 DEF TakeEvents, Jobs, EventJobs, Owners, TypeInv, Types
  <2>3. /\ UNCHANGED <<members, wire, on, told, srvGap, lost, touched, mem, owes, stale, asOf,
                       call>>
        /\ TaskStays
    BY <1>9 DEF TakeEvents, TaskStays
  <2> HIDE DEF job
  <2> QED BY <1>0, <2>2, <2>3, SettleStays
<1>10. ASSUME NEW c \in Calls, NEW s \in RoomIds, NEW m \in Memberships, Act(c, s, m)
       PROVE  Settles(r)' /\ SnapsOk(r)'
  <2>1. /\ Becomes(s, m)
        /\ UNCHANGED <<on, told, lost, task, touched, queue, mem, owes, stale, asOf>>
        /\ call[c].pc = "idle"
    BY <1>10 DEF Act, AsksFor, Resting
  <2>2. call'[c].pc = "answered" /\ \A d \in Calls : d # c => call'[d] = call[d]
    BY <1>10 DEF Act, AnsweredWith, GoesOn, TypeInv, Types
  <2>3. /\ \A d \in Calls : call[d].pc \in {"fetching", "fetched", "noround"} => call'[d] = call[d]
        /\ \A d \in Calls : call'[d].pc = "fetched" => call'[d] = call[d]
    BY <2>1, <2>2
  <2> QED BY <1>0, <2>1, <2>3, SettleBecomes
<1>11. ASSUME NEW c \in Calls, NEW s \in RoomIds, ForgetRoom(c, s) \/ Look(c, s) \/ List(c)
       PROVE  Settles(r)' /\ SnapsOk(r)'
  <2>1. /\ UNCHANGED <<members, wire, on, told, srvGap, lost, task, touched, mem, owes, stale,
                       asOf, queue>>
        /\ call[c].pc = "idle"
    BY <1>11 DEF ForgetRoom, Look, List, AsksFor, Resting
  <2>2. PICK job : GoesOn(c, [pc |-> "answered", job |-> job])
    BY <1>11 DEF ForgetRoom, Look, List, AnsweredWith
  <2> QED BY <1>0, <2>1, <2>2, SettleQuietCall
<1>12. ASSUME NEW c \in Calls, FetchInvites(c) PROVE Settles(r)' /\ SnapsOk(r)'
  BY <1>0, <1>12, SettleFetchInvites
<1>13. ASSUME NEW c \in Calls, FetchAnswered(c) PROVE Settles(r)' /\ SnapsOk(r)'
  BY <1>0, <1>13, SettleFetchAnswered
<1>14. ASSUME NEW c \in Calls, CloseRound(c) PROVE Settles(r)' /\ SnapsOk(r)'
  BY <1>0, <1>14, SettleCloseRound
<1>15. ASSUME NEW c \in Calls, Recent(c) \/ AskWindow(c) \/ NextWindow(c) \/ MarkRecent(c)
       PROVE  Settles(r)' /\ SnapsOk(r)'
  BY <1>0, <1>15, SettlePull
<1>16. ASSUME NEW c \in Calls, Record(c) PROVE Settles(r)' /\ SnapsOk(r)'
  BY <1>0, <1>16, SettleRecord
<1>17. ASSUME NEW c \in Calls, BreaksOff(c) PROVE Settles(r)' /\ SnapsOk(r)'
  BY <1>0, <1>17, SettleBreaksOff
<1>18. ASSUME NEW c \in Calls, Return(c) PROVE Settles(r)' /\ SnapsOk(r)'
  <2>1. /\ UNCHANGED <<members, wire, on, told, srvGap, lost, task, touched, mem, owes, stale,
                       asOf, queue>>
        /\ call[c].pc \in {"stored", "failed"} /\ GoesOn(c, Resting) /\ Resting.pc = "idle"
    BY <1>18 DEF Return, Resting
  <2> QED BY <1>0, <2>1, SettleQuietCall
<1>19. CASE Commit
  BY <1>0, <1>19, SettleCommit
<1>20. CASE WriteFails
  BY <1>0, <1>20, SettleWriteFails
<1>21. CASE UNCHANGED roomVars
  BY <1>0, <1>21, SettleStays DEF roomVars, TaskStays
<1> QED
  BY <1>1, <1>2, <1>3, <1>4, <1>5, <1>6, <1>7, <1>8, <1>9, <1>10, <1>11, <1>12, <1>13, <1>14,
     <1>15, <1>16, <1>17, <1>18, <1>19, <1>20, <1>21 DEF RoomsNext

LEMMA WireInit == RoomsInit => WireInv
<1> SUFFICES ASSUME RoomsInit PROVE WireInv
  OBVIOUS
<1>1. DOMAIN wire = {}
  BY DEF RoomsInit
<1> QED BY <1>1 DEF WireInv, Behind

LEMMA UnderStays ==
  ASSUME NEW j, Under(j)',
         \A c \in Calls : call'[c].pc = "fetched" => call'[c] = call[c],
         \A i \in DOMAIN queue' : queue'[i].do = "round" =>
            \/ \E k \in DOMAIN queue : queue[k] = queue'[i]
            \/ \E c \in Calls : call[c].pc = "fetched" /\ call[c].job = queue'[i]
  PROVE  Under(j)
<1>1. CASE \E c \in Calls : call'[c].pc = "fetched" /\ j = call'[c].job
  BY <1>1 DEF Under
<1>2. CASE \E i \in DOMAIN queue' : queue'[i].do = "round" /\ j = queue'[i]
  BY <1>2 DEF Under
<1> QED BY <1>1, <1>2 DEF Under

LEMMA UnderOfMove ==
  ASSUME TypeInv, NEW j, Under(j)', queue' = queue, NEW c \in Calls, NEW x, GoesOn(c, x),
         x.pc # "fetched"
  PROVE  Under(j)
<1>1. call'[c] = x /\ \A d \in Calls : d # c => call'[d] = call[d]
  BY DEF GoesOn, TypeInv, Types
<1>2. \A d \in Calls : call'[d].pc = "fetched" => call'[d] = call[d]
  BY <1>1
<1> QED BY <1>2, UnderStays

LEMMA UnderOfPost ==
  ASSUME TypeInv, NEW j, Under(j)', NEW job \in Jobs, Post(job),
         job.do = "round" => \E c \in Calls : call[c].pc = "fetched" /\ call[c].job = job,
         \A c \in Calls : call'[c].pc = "fetched" => call'[c] = call[c]
  PROVE  Under(j)
<1>1. queue \in Seq(Jobs)
  BY DEF TypeInv, Types
<1>2. \A i \in DOMAIN queue' : (i \in DOMAIN queue /\ queue'[i] = queue[i]) \/ queue'[i] = job
  BY <1>1, JobPosted
<1>3. \A i \in DOMAIN queue' : queue'[i].do = "round" =>
         \/ \E k \in DOMAIN queue : queue[k] = queue'[i]
         \/ \E c \in Calls : call[c].pc = "fetched" /\ call[c].job = queue'[i]
  BY <1>2
<1> QED BY <1>3, UnderStays

\* A snapshot that is under way was before, or is fresh.
LEMMA UnderStep ==
  ASSUME TypeInv, CoverInv, AgeInv, RoomShapes, [RoomsNext]_roomVars, NEW j \in RoundJobs, Under(j)'
  PROVE  Under(j) \/ (j.at = Clock /\ \A r \in RoomIds : Shown(r, j.snap))
<1> USE DEF roomServer, roomsLine, cacheDb, roomGhosts
<1> DEFINE Goal == Under(j) \/ (j.at = Clock /\ \A r \in RoomIds : Shown(r, j.snap))
<1>1. ASSUME UNCHANGED <<queue, call>> PROVE Goal
  BY <1>1, UnderStays
<1>2. ASSUME NEW c \in Calls, NEW x, GoesOn(c, x), x.pc # "fetched", queue' = queue PROVE Goal
  BY <1>2, UnderOfMove
<1>3. ASSUME NEW r \in RoomIds, NEW m \in Memberships, OthersChange(r, m) PROVE Goal
  BY <1>1, <1>3 DEF OthersChange
<1>4. CASE PushIsLost \/ NewEvent \/ RoomsLineDies \/ TellOpened \/ TakeInvite \/ TellInvite
  BY <1>1, <1>4 DEF PushIsLost, NewEvent, RoomsLineDies, TellOpened, TakeInvite, TellInvite
<1>5. CASE Subscribe
  <2>1. /\ DOMAIN queue' = DOMAIN queue /\ call' = call
        /\ \A i \in DOMAIN queue : /\ queue[i].by # Task => queue'[i] = queue[i]
                                   /\ queue'[i].do = queue[i].do /\ queue[i] \in Jobs
    BY <1>5, Orphaned DEF Subscribe, TypeInv, Types
  <2>2. Task \notin Calls
    BY DEF RoomShapes
  <2>3. \A i \in DOMAIN queue' : queue'[i].do = "round" => queue'[i] = queue[i]
    BY <2>1, <2>2, JobKinds
  <2> QED BY <2>1, <2>3, UnderStays
<1>6. CASE WriteInvite
  <2>1. DEFINE job == [do |-> "push", by |-> Task, room |-> task.push.room, m |-> task.push.m]
  <2>2. job \in Jobs /\ job.do = "push" /\ Post(job) /\ call' = call
    BY <1>6, WriteInviteTyped, PushesAre DEF WriteInvite, PushTasks, Jobs, PushJobs
  <2> HIDE DEF job
  <2>3. job.do # "round"
    BY <2>2
  <2> QED BY <2>2, <2>3, UnderOfPost
<1>7. CASE TakeEvents
  <2>1. DEFINE job == [do |-> "events", by |-> Task, events |-> {Head(feed)}]
  <2>2. job \in Jobs /\ job.do = "events" /\ Post(job) /\ call' = call
    BY <1>7 DEF TakeEvents, Jobs, EventJobs, Owners, TypeInv, Types
  <2> HIDE DEF job
  <2>3. job.do # "round"
    BY <2>2
  <2> QED BY <2>2, <2>3, UnderOfPost
<1>8. ASSUME NEW c \in Calls, NEW r \in RoomIds, NEW m \in Memberships, Act(c, r, m) PROVE Goal
  <2>1. PICK job : GoesOn(c, [pc |-> "answered", job |-> job])
    BY <1>8 DEF Act, AnsweredWith
  <2>2. [pc |-> "answered", job |-> job].pc # "fetched" /\ queue' = queue
    BY <1>8 DEF Act
  <2> QED BY <1>2, <2>1, <2>2
<1>9. ASSUME NEW c \in Calls, List(c) \/ \E r \in RoomIds : ForgetRoom(c, r) \/ Look(c, r)
      PROVE  Goal
  <2>1. PICK job : GoesOn(c, [pc |-> "answered", job |-> job])
    BY <1>9 DEF ForgetRoom, Look, List, AnsweredWith
  <2>2. [pc |-> "answered", job |-> job].pc # "fetched" /\ queue' = queue
    BY <1>9 DEF ForgetRoom, Look, List
  <2> QED BY <1>2, <2>1, <2>2
<1>10. ASSUME NEW c \in Calls, FetchAnswered(c) PROVE Goal
  <2>1. DEFINE job == [do |-> "round", by |-> c, snap |-> Counts, at |-> Clock]
  <2>2. GoesOn(c, [pc |-> "fetched", job |-> job]) /\ queue' = queue
    BY <1>10 DEF FetchAnswered
  <2>3. /\ call'[c] = [pc |-> "fetched", job |-> job]
        /\ \A d \in Calls : d # c => call'[d] = call[d]
    BY <2>2 DEF GoesOn, TypeInv, Types
  <2>4. call'[c].job.snap = Counts /\ call'[c].job.at = Clock
    BY <2>3
  <2>5. \A r \in RoomIds : Shown(r, Counts)
    BY DEF Counts, Shown, AgeInv
  <2> HIDE DEF job
  <2>6. CASE j = call'[c].job
    BY <2>4, <2>5, <2>6
  <2>7. CASE j # call'[c].job
    BY <2>2, <2>3, <2>7 DEF Under
  <2> QED BY <2>6, <2>7
<1>11. ASSUME NEW c \in Calls, FetchInvites(c) \/ CloseRound(c) \/ BreaksOff(c) \/ Return(c)
       PROVE  Goal
  <2>1. PICK x \in PlainCalls : GoesOn(c, x)
    BY <1>11, RestingIsPlain, PlainOnes DEF FetchInvites, CloseRound, BreaksOff, Return
  <2>2. x.pc # "fetched" /\ queue' = queue
    BY <1>11 DEF FetchInvites, CloseRound, BreaksOff, Return, PlainCalls
  <2> QED BY <1>2, <2>1, <2>2
<1>12. ASSUME NEW c \in Calls, Recent(c) PROVE Goal
  <2>1. PICK base \in {watermark, 0} :
          GoesOn(c, [pc |-> "window", base |-> base, before |-> head + 1, top |-> 0])
    BY <1>12 DEF Recent
  <2>2. /\ [pc |-> "window", base |-> base, before |-> head + 1, top |-> 0].pc # "fetched"
        /\ queue' = queue
    BY <1>12 DEF Recent
  <2> QED BY <1>2, <2>1, <2>2
<1>13. ASSUME NEW c \in Calls, NextWindow(c) PROVE Goal
  <2>1. PICK p \in {"window", "pulled"} : GoesOn(c, [call[c] EXCEPT !.pc = p])
    BY <1>13 DEF NextWindow
  <2>2. call[c] \in PullCalls /\ queue' = queue
    BY <1>13, CallKinds DEF NextWindow, TypeInv, Types
  <2>3. [call[c] EXCEPT !.pc = p].pc # "fetched"
    BY <2>2, PullGoesOn
  <2> QED BY <1>2, <2>1, <2>2, <2>3
<1>14. ASSUME NEW c \in Calls, NEW x, GoesOn(c, x), x.pc = "wait", NEW job \in Jobs, Post(job),
              job.do = "round" => call[c].pc = "fetched" /\ call[c].job = job
       PROVE  Goal
  <2>1. call'[c] = x /\ \A d \in Calls : d # c => call'[d] = call[d]
    BY <1>14 DEF GoesOn, TypeInv, Types
  <2>2. \A d \in Calls : call'[d].pc = "fetched" => call'[d] = call[d]
    BY <1>14, <2>1
  <2> QED BY <1>14, <2>2, UnderOfPost
<1>15. ASSUME NEW c \in Calls, AskWindow(c) PROVE Goal
  <2>1. call[c] \in PullCalls
    BY <1>15, CallKinds DEF AskWindow, TypeInv, Types
  <2>2. call[c].before <= head + 1
    BY <2>1 DEF CoverInv, Known
  <2>3. CASE queue' = queue /\ GoesOn(c, [call[c] EXCEPT !.pc = "pulled"])
    <3>1. [call[c] EXCEPT !.pc = "pulled"].pc # "fetched"
      BY <2>1, PullGoesOn
    <3> QED BY <1>2, <2>3, <3>1
  <2>4. ASSUME NEW lo \in Nat, NEW job \in Jobs,
               job = [do |-> "events", by |-> c, events |-> lo .. call[c].before - 1],
               Post(job),
               GoesOn(c, [pc |-> "wait", base |-> call[c].base, before |-> lo,
                          top |-> IF call[c].top = 0 THEN call[c].before - 1 ELSE call[c].top])
        PROVE Goal
    <3>1. DEFINE x == [pc |-> "wait", base |-> call[c].base, before |-> lo,
                       top |-> IF call[c].top = 0 THEN call[c].before - 1 ELSE call[c].top]
    <3>2. job.do # "round" /\ x.pc = "wait" /\ GoesOn(c, x)
      BY <2>4
    <3> HIDE DEF x
    <3> QED BY <1>14, <2>4, <3>2
  <2> QED BY <1>15, <2>2, <2>3, <2>4, AskWindowSteps
<1>16. ASSUME NEW c \in Calls, MarkRecent(c) PROVE Goal
  <2>1. CASE queue' = queue /\ GoesOn(c, Resting)
    <3>1. Resting.pc # "fetched"
      BY RestingIsPlain
    <3> QED BY <1>2, <2>1, <3>1
  <2>2. ASSUME NEW job \in Jobs, job = [do |-> "mark", by |-> c, at |-> call[c].top], Post(job),
               GoesOn(c, [pc |-> "wait"])
        PROVE Goal
    <3>1. job.do # "round"
      BY <2>2
    <3> QED BY <1>14, <2>2, <3>1, PlainOnes
  <2> QED BY <1>16, <2>1, <2>2, MarkRecentSteps
<1>17. ASSUME NEW c \in Calls, Record(c) PROVE Goal
  <2>1. /\ call[c].job \in Jobs /\ Post(call[c].job) /\ GoesOn(c, [pc |-> "wait"])
        /\ call[c].job.do = "round" => call[c].pc = "fetched"
    BY <1>17, RecordSteps
  <2> QED BY <1>14, <2>1, PlainOnes
<1>18. CASE Commit \/ WriteFails
  <2>1. PICK res \in {"stored", "failed"} : queue # <<>> /\ queue' = Tail(queue) /\ Report(res)
    BY <1>18 DEF Commit, WriteFails
  <2>2. \A i \in DOMAIN queue' : queue'[i] = queue[i + 1] /\ i + 1 \in DOMAIN queue
    BY <2>1, Gone DEF TypeInv, Types
  <2>3. \A d \in Calls : call'[d] = call[d] \/ call'[d] \in PlainCalls \cup PullCalls
    BY <2>1, Reported
  <2>4. \A x \in PlainCalls \cup PullCalls : x.pc # "fetched"
    BY DEF PlainCalls, PullCalls
  <2> QED BY <2>2, <2>3, <2>4, UnderStays
<1>19. CASE RoomsCrash
  <2>1. /\ DOMAIN queue' = {} /\ \A d \in Calls : call'[d].pc = "idle"
    BY <1>19 DEF RoomsCrash, Resting
  <2> QED BY <2>1 DEF Under
<1>20. CASE UNCHANGED roomVars
  BY <1>1, <1>20 DEF roomVars
<1> HIDE DEF Goal
<1>21. ASSUME RoomsNext PROVE Goal
  <2>1. CASE \E r \in RoomIds, m \in Memberships : OthersChange(r, m)
    BY <1>3, <2>1
  <2>2. CASE \E c \in Calls, r \in RoomIds : \/ \E m \in Memberships : Act(c, r, m)
                                           \/ ForgetRoom(c, r) \/ Look(c, r)
    BY <1>8, <1>9, <2>2
  <2>3. ASSUME NEW c \in Calls,
               \/ FetchInvites(c) \/ FetchAnswered(c) \/ CloseRound(c) \/ List(c)
               \/ Recent(c) \/ AskWindow(c) \/ NextWindow(c) \/ MarkRecent(c)
               \/ Record(c) \/ BreaksOff(c) \/ Return(c)
        PROVE  Goal
    BY <1>9, <1>10, <1>11, <1>12, <1>13, <1>15, <1>16, <1>17, <2>3
  <2>4. CASE \/ PushIsLost \/ NewEvent \/ RoomsLineDies \/ Subscribe \/ TellOpened
             \/ TakeInvite \/ WriteInvite \/ TellInvite \/ TakeEvents
             \/ Commit \/ WriteFails \/ RoomsCrash
    BY <1>4, <1>5, <1>6, <1>7, <1>18, <1>19, <2>4 DEF Goal
  <2> QED BY <1>21, <2>1, <2>2, <2>3, <2>4 DEF RoomsNext
<1> QED BY <1>20, <1>21 DEF Goal

LEMMA BehindStays ==
  ASSUME NEW r \in RoomIds, NEW snap, NEW since \in Nat, Behind(r, snap, since),
         members'[r].m = "invite" <=> members[r].m = "invite",
         wire' = wire, srvGap => srvGap', since < asOf => since < asOf'
  PROVE  Behind(r, snap, since)'
BY DEF Behind, Shown

\* A new push is behind all that are under way, and newer than every snapshot.
LEMMA BehindBecomes ==
  ASSUME TypeInv, PushOrder, NEW r \in RoomIds, NEW snap, NEW since \in Nat, since <= Clock,
         Behind(r, snap, since), NEW s \in RoomIds, NEW m \in Memberships, Becomes(s, m),
         asOf' = asOf
  PROVE  Behind(r, snap, since)'
<1>0. /\ Clock \in Nat /\ members'[s] = [m |-> m, is |-> Clock + 1]
      /\ \A t \in RoomIds : t # s => members'[t] = members[t]
  BY ClockIs, BecomesTyped DEF TypeInv
<1>1. DEFINE push == [room |-> s, m |-> m, is |-> Clock + 1, gap |-> srvGap]
             said == on /\ "invite" \in {m, members[s].m}
<1>2. /\ push.room = s /\ push.is = Clock + 1 /\ push.gap = srvGap
      /\ said => wire' = Append(wire, push) /\ srvGap' = FALSE
      /\ ~said => UNCHANGED <<wire, srvGap>>
      /\ wire \in Seq(Pushes)
  BY DEF Becomes, TypeInv, Types
<1>3. CASE ~said /\ ~on
  <2>1. wire' = <<>>
    BY <1>2, <1>3 DEF PushOrder
  <2> QED BY <2>1 DEF Behind
<1>4. CASE ~said /\ on
  <2>1. members'[r].m = "invite" <=> members[r].m = "invite"
    BY <1>0, <1>4
  <2> HIDE DEF said, push
  <2> QED BY <1>2, <1>4, <2>1, BehindStays
<1>5. CASE said
  <2> DEFINE n == Len(wire) + 1
  <2> HIDE DEF push, said
  <2>1. /\ n \in DOMAIN wire' /\ wire'[n] = push /\ n \in Nat
        /\ \A i \in DOMAIN wire : i \in DOMAIN wire' /\ wire'[i] = wire[i] /\ n >= i
        /\ \A i \in DOMAIN wire' : n >= i /\ (i \in DOMAIN wire \/ i = n)
    <3>1. wire' = Append(wire, push) /\ DOMAIN wire = 1 .. Len(wire) /\ Len(wire) \in Nat
      BY <1>2, <1>5
    <3>2. /\ DOMAIN wire' = 1 .. Len(wire) + 1 /\ wire'[Len(wire) + 1] = push
          /\ \A i \in DOMAIN wire : wire'[i] = wire[i]
      BY <3>1
    <3> QED BY <3>1, <3>2
  <2> HIDE DEF n
  <2>2. CASE r = s
    <3>1. wire'[n].room = r /\ wire'[n].is > since
      BY <1>0, <1>2, <2>1, <2>2
    <3> QED BY <2>1, <3>1 DEF Behind
  <2>3. CASE r # s
    <3> SUFFICES ASSUME NEW i \in DOMAIN wire', wire'[i].room = r
                 PROVE  \/ Shown(r, snap)' \/ since < asOf'
                        \/ \E k \in DOMAIN wire' : k >= i /\ (wire'[k].gap
                                                     \/ (wire'[k].room = r /\ wire'[k].is > since))
      BY DEF Behind
    <3>1. i \in DOMAIN wire /\ wire[i].room = r
      BY <1>2, <2>1, <2>3
    <3>2. \/ Shown(r, snap) \/ srvGap \/ since < asOf
          \/ \E k \in DOMAIN wire : k >= i /\ (wire[k].gap
                                               \/ (wire[k].room = r /\ wire[k].is > since))
      BY <3>1 DEF Behind
    <3>3. Shown(r, snap) => Shown(r, snap)'
      BY <1>0, <2>3 DEF Shown
    <3>4. srvGap => wire'[n].gap
      BY <1>2, <2>1
    <3> QED BY <2>1, <3>2, <3>3, <3>4
  <2> QED BY <2>2, <2>3
<1> QED BY <1>3, <1>4, <1>5

LEMMA BehindLost ==
  ASSUME TypeInv, NEW r \in RoomIds, r \notin spilt', NEW snap, NEW since \in Nat,
         Behind(r, snap, since), PushIsLost
  PROVE  Behind(r, snap, since)'
<1> USE DEF roomServer, roomsLine, cacheDb, roomGhosts
<1>1. /\ wire \in Seq(Pushes) /\ wire # <<>> /\ wire' = Front(wire)
      /\ UNCHANGED <<members, asOf>>
      /\ \/ srvGap'
         \/ /\ srvGap' = srvGap
            /\ spilt' = spilt \cup {s \in RoomIds :
                                   Waiting(s) /\ (s = Last(wire).room \/ Last(wire).gap)}
  BY DEF PushIsLost, TypeInv, Types
<1> DEFINE n == Len(wire)
<1>2. /\ n \in Nat \ {0} /\ DOMAIN wire = 1 .. n /\ Last(wire) = wire[n]
      /\ DOMAIN wire' = 1 .. (n - 1) /\ \A i \in 1 .. (n - 1) : wire'[i] = wire[i]
  BY <1>1 DEF Front, Last
<1> HIDE DEF n
<1> SUFFICES ASSUME NEW i \in 1 .. (n - 1), wire'[i].room = r, ~srvGap'
             PROVE  \/ Shown(r, snap)' \/ since < asOf'
                    \/ \E k \in 1 .. (n - 1) : k >= i /\ (wire'[k].gap
                                                 \/ (wire'[k].room = r /\ wire'[k].is > since))
  BY <1>2 DEF Behind
<1>3. wire'[i] = wire[i] /\ i \in DOMAIN wire /\ srvGap' = srvGap
  BY <1>1, <1>2
<1>4. Waiting(r)
  <2>1. i \in 1 .. (Len(wire) - 1)
    BY DEF n
  <2> QED BY <1>3, <2>1 DEF Waiting
<1>5. wire[n].room # r /\ ~wire[n].gap
  BY <1>1, <1>2, <1>4
<1>6. \/ Shown(r, snap) \/ since < asOf
      \/ \E k \in DOMAIN wire : k >= i /\ (wire[k].gap \/ (wire[k].room = r /\ wire[k].is > since))
  BY <1>3 DEF Behind
<1>7. Shown(r, snap) => Shown(r, snap)'
  BY <1>1 DEF Shown
<1>8. \A k \in DOMAIN wire : k = n \/ (k \in 1 .. (n - 1) /\ wire'[k] = wire[k])
  BY <1>2
<1> QED BY <1>1, <1>5, <1>6, <1>7, <1>8

LEMMA BehindTaken ==
  ASSUME TypeInv, NEW r \in RoomIds, NEW snap, NEW since \in Nat, Behind(r, snap, since), TakeInvite
  PROVE  Behind(r, snap, since)'
<1> USE DEF roomServer, roomsLine, cacheDb, roomGhosts
<1>1. /\ wire \in Seq(Pushes) /\ wire # <<>> /\ wire' = Tail(wire)
      /\ UNCHANGED <<members, srvGap, asOf>>
  BY DEF TakeInvite, TypeInv, Types
<1>2. /\ \A i \in DOMAIN wire' :
           i \in Nat /\ i >= 1 /\ i + 1 \in DOMAIN wire /\ wire'[i] = wire[i + 1]
      /\ \A i \in DOMAIN wire : i \in Nat /\ i >= 1
      /\ \A i \in DOMAIN wire : i # 1 => i - 1 \in DOMAIN wire' /\ wire'[i - 1] = wire[i]
  <2>1. /\ Len(wire) \in Nat \ {0} /\ DOMAIN wire = 1 .. Len(wire)
        /\ DOMAIN wire' = 1 .. Len(wire) - 1
        /\ \A i \in 1 .. Len(wire) - 1 : wire'[i] = wire[i + 1]
    BY <1>1, HeadTailProperties
  <2> QED BY <2>1
<1> SUFFICES ASSUME NEW i \in DOMAIN wire', wire'[i].room = r
             PROVE  \/ Shown(r, snap)' \/ srvGap' \/ since < asOf'
                    \/ \E k \in DOMAIN wire' : k >= i /\ (wire'[k].gap
                                                 \/ (wire'[k].room = r /\ wire'[k].is > since))
  BY DEF Behind
<1>3. i \in Nat /\ i >= 1 /\ i + 1 \in DOMAIN wire /\ wire[i + 1].room = r
  BY <1>2
<1>4. \/ Shown(r, snap) \/ srvGap \/ since < asOf
      \/ \E k \in DOMAIN wire : k >= i + 1 /\ (wire[k].gap
                                               \/ (wire[k].room = r /\ wire[k].is > since))
  BY <1>3 DEF Behind
<1>5. ASSUME NEW k \in DOMAIN wire, k >= i + 1
      PROVE  k - 1 \in DOMAIN wire' /\ k - 1 >= i /\ wire'[k - 1] = wire[k]
  <2>1. k \in Nat /\ k # 1
    BY <1>2, <1>3, <1>5
  <2> QED BY <1>2, <1>3, <1>5, <2>1
<1>6. Shown(r, snap) => Shown(r, snap)'
  BY <1>1 DEF Shown
<1> QED BY <1>1, <1>4, <1>5, <1>6

LEMMA BehindStep ==
  ASSUME TypeInv, PushOrder, AgeInv, RoomShapes, [RoomsNext]_roomVars,
         NEW r \in RoomIds, r \notin spilt', NEW snap, NEW since \in Nat, since <= Clock,
         Behind(r, snap, since)
  PROVE  Behind(r, snap, since)'
<1> USE DEF roomServer, roomsLine, cacheDb, roomGhosts
<1>0. asOf \in Nat /\ Clock \in Nat /\ asOf <= Clock
  BY ClockIs DEF TypeInv, Types, AgeInv
<1>1. ASSUME UNCHANGED <<members, wire, srvGap, asOf>> PROVE Behind(r, snap, since)'
  BY <1>1, BehindStays
<1>2. ASSUME NEW s \in RoomIds, NEW m \in Memberships, OthersChange(s, m)
      PROVE  Behind(r, snap, since)'
  BY <1>2, BehindBecomes DEF OthersChange
<1>3. ASSUME NEW c \in Calls, NEW s \in RoomIds, NEW m \in Memberships, Act(c, s, m)
      PROVE  Behind(r, snap, since)'
  BY <1>3, BehindBecomes DEF Act
<1>4. CASE PushIsLost
  BY <1>4, BehindLost
<1>5. CASE RoomsLineDies \/ Subscribe \/ RoomsCrash
  <2>1. wire' = <<>>
    BY <1>5 DEF RoomsLineDies, Subscribe, RoomsCrash, PushOrder
  <2> QED BY <2>1 DEF Behind
<1>6. CASE TakeInvite
  BY <1>6, BehindTaken
<1>7. CASE TellInvite
  <2>1. UNCHANGED <<members, wire, srvGap>> /\ (asOf' = asOf \/ asOf' = Clock)
    BY <1>7 DEF TellInvite
  <2>2. since < asOf => since < asOf'
    BY <1>0, <2>1
  <2> QED BY <2>1, <2>2, BehindStays
<1>8. CASE NewEvent \/ TellOpened \/ WriteInvite \/ TakeEvents \/ WriteFails
  BY <1>1, <1>8 DEF NewEvent, TellOpened, WriteInvite, TakeEvents, WriteFails
<1>9. ASSUME NEW c \in Calls, NEW s \in RoomIds, ForgetRoom(c, s) \/ Look(c, s)
      PROVE  Behind(r, snap, since)'
  BY <1>1, <1>9 DEF ForgetRoom, Look
<1>10. ASSUME NEW c \in Calls,
              \/ FetchInvites(c) \/ FetchAnswered(c) \/ CloseRound(c) \/ List(c)
              \/ Recent(c) \/ AskWindow(c) \/ NextWindow(c) \/ MarkRecent(c)
              \/ Record(c) \/ BreaksOff(c) \/ Return(c)
       PROVE  Behind(r, snap, since)'
  BY <1>1, <1>10
     DEF FetchInvites, FetchAnswered, CloseRound, List, Recent, AskWindow, NextWindow, MarkRecent,
         Record, BreaksOff, Return
<1>11. CASE Commit
  <2>1. UNCHANGED <<members, wire, srvGap>> /\ queue # <<>> /\ queue' = Tail(queue)
    BY <1>11 DEF Commit
  <2>2. CASE ApplyRound
    <3>1. Job \in Jobs
      BY <2>1, Gone DEF TypeInv, Types, Job
    <3>2. Job.at \in Nat
      BY <2>2, <3>1, JobKinds DEF ApplyRound
    <3>3. asOf' = Max({asOf, Job.at})
      BY <2>2 DEF ApplyRound
    <3>4. asOf' >= asOf /\ asOf' \in Nat
      BY <1>0, <3>2, <3>3, MaxOfTwo
    <3>5. since < asOf => since < asOf'
      BY <1>0, <3>4
    <3> QED BY <2>1, <3>5, BehindStays
  <2>3. CASE asOf' = asOf
    BY <1>1, <2>1, <2>3
  <2> QED
    BY <1>11, <2>2, <2>3
       DEF Commit, ApplyPush, ApplyMember, ApplyJoined, ApplyLook, ApplyForget, ApplyEvents,
           ApplyMark
<1>12. CASE UNCHANGED roomVars
  BY <1>1, <1>12 DEF roomVars
<1> QED
  BY <1>2, <1>3, <1>4, <1>5, <1>6, <1>7, <1>8, <1>9, <1>10, <1>11, <1>12 DEF RoomsNext

LEMMA WireStep ==
  /\ TypeInv /\ CoverInv /\ PushOrder /\ AgeInv /\ WireInv /\ RoomShapes /\ [RoomsNext]_roomVars
  => WireInv'
<1> SUFFICES ASSUME TypeInv, CoverInv, PushOrder, AgeInv, WireInv, RoomShapes,
                    [RoomsNext]_roomVars, NEW r \in RoomIds, r \notin spilt',
                    NEW j \in RoundJobs, Under(j)'
             PROVE  Behind(r, j.snap, j.at)'
  BY DEF WireInv
<1>1. r \notin spilt
  BY SpiltGrows
<1>2. j.at \in Nat /\ j.do = "round" /\ Clock \in Nat
  BY ClockIs DEF RoundJobs, TypeInv
<1>3. CASE Under(j)
  <2>1. Behind(r, j.snap, j.at)
    BY <1>1, <1>3 DEF WireInv
  <2>2. Dated(j)
    <3>1. CASE \E c \in Calls : call[c].pc = "fetched" /\ j = call[c].job
      <4>1. PICK c \in Calls : call[c].pc = "fetched" /\ j = call[c].job
        BY <3>1
      <4>2. call[c] \in FetchedCalls
        BY <4>1, CallKinds DEF TypeInv, Types
      <4> QED BY <4>1, <4>2 DEF AgeInv
    <3>2. CASE \E i \in DOMAIN queue : queue[i].do = "round" /\ j = queue[i]
      BY <3>2 DEF AgeInv
    <3> QED BY <1>3, <3>1, <3>2 DEF Under
  <2>3. j.at <= Clock
    BY <1>2, <2>2 DEF Dated
  <2> QED BY <1>2, <2>1, <2>3, BehindStep
<1>4. CASE j.at = Clock /\ \A s \in RoomIds : Shown(s, j.snap)
  <2>1. Behind(r, j.snap, j.at)
    BY <1>4 DEF Behind
  <2>2. j.at <= Clock
    BY <1>2, <1>4
  <2> QED BY <1>2, <2>1, <2>2, BehindStep
<1> QED BY <1>3, <1>4, UnderStep

LEMMA RestSettles == SettleInv => InvitesSettle
<1> SUFFICES ASSUME SettleInv, AtRest, NEW r \in RoomIds, r \notin stale, r \notin spilt
             PROVE  mem[r] = "invite" <=> members[r].m = "invite"
  BY DEF InvitesSettle, Settled
<1>1. MemOk(r)
  BY DEF SettleInv, Settles
<1>2. DOMAIN wire = {} /\ DOMAIN queue = {} /\ task.pc = "idle"
      /\ \A c \in Calls : call[c].pc = "idle"
  BY DEF AtRest, Resting
<1>3. ~TaskGap
  BY DEF AtRest, Resting, TaskGap, PushTasks
<1>4. ~GapAhead
  BY <1>2, <1>3 DEF AtRest, GapAhead
<1>5. ~Debt
  BY <1>2, <1>4 DEF AtRest, Debt
<1>6. ~Soon(r) /\ ~Later(r, 0) /\ ~TaskFailed(r)
  BY <1>2, <1>5 DEF Soon, Marked, InWire, Coming, Later, TaskFailed
<1> QED BY <1>1, <1>6 DEF MemOk, Agree

\* When nothing is under way and the UI has asked for the rounds it owes, the cache
\* lists as invites exactly the invites of the server, with any number of rooms, calls
\* and pushes: a round whose snapshot is older than a push, a push that the server or
\* the inbox dropped, rounds that overlap, a line that was opened anew, a write that
\* failed and a crash leave nothing behind, but for the rooms that InvitesSettle names.
THEOREM InvitesAreSettled == ASSUME RoomShapes PROVE RoomsSpec => []InvitesSettle
<1> DEFINE Inv ==
      TypeInv /\ CoverInv /\ RoundInv /\ PushOrder /\ AgeInv /\ WireInv /\ SettleInv
<1>1. RoomsInit => Inv
  BY TypesInit, CoverInit, RoundInit, OrderInit, AgeInit, WireInit, SettleInit
<1>2. Inv /\ [RoomsNext]_roomVars => Inv'
  BY TypeStep, CoverStep, RoundStep, OrderStep, AgeStep, WireStep, SettleStep
<1>3. Inv => InvitesSettle
  BY RestSettles
<1> HIDE DEF Inv
<1> QED
  BY <1>1, <1>2, <1>3, PTL DEF RoomsSpec

=============================================================================
