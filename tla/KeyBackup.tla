------------------------------ MODULE KeyBackup ------------------------------
(***************************************************************************)
(* What outlives a device of a wbf account: its cross-signing identity     *)
(* (cross_signing), the backup of its room keys (key_backup), the private  *)
(* keys in secret storage (secret_storage), the recovery key kept in r/    *)
(* (recovery), and the gate of logout that asks for it (session_ops).      *)
(*                                                                         *)
(* Two installations are logged in to one account.  Each runs one operation*)
(* at a time, the one that holds its keys line; every call to the server   *)
(* is a step of its own, which may fail, or take effect and lose its       *)
(* answer.  An identity is named by the device that made it, the key of a  *)
(* backup by the version that was created with it, a recovery key by the   *)
(* id of its secret storage key.                                           *)
(***************************************************************************)
EXTENDS Naturals, Sequences, FiniteSets, SequencesExt

CONSTANTS
  Homes,       \* the installations, each with a data directory
  Private,     \* CROSS_SIGNING_SECRETS, in their order
  BackupKey,   \* SecretName::RecoveryKey, the name the backup's key is stored under
  Happenings,  \* bounds: how often each thing may happen
  Settings     \* SERVER_BACKUP at the start

Kinds == {"logins", "opens", "calls", "keys", "verifies", "switches", "faults", "stops", "versions",
          "leaves"}

Shapes ==
  /\ Happenings \subseteq [Kinds -> Nat]
  /\ Private \in Seq(STRING) \ {<<>>} /\ BackupKey \notin Range(Private)
  /\ Settings \subseteq BOOLEAN

VARIABLES
  server,   \* the account on the server: identity, signatures, backup, account data
  store,    \* the crypto store of each installation, and the device it is of
  kept,     \* r/: the recovery key it keeps of the account, 0 is none
  known,    \* the recovery keys its user was shown
  line,     \* its keys line is open
  batch,    \* what the keys task imported and has not acted on: "none", "old", "new" room keys
  mail,     \* backup keys that other devices sent and it has not received
  setting,  \* SERVER_BACKUP
  op,       \* the operation that holds the keys line
  overlap,  \* history: two recovery keys were made at a time
  left      \* bounds

vars == <<server, store, kept, known, line, batch, mail, setting, op, overlap, left>>

NoStore == [number |-> 0, identity |-> 0, key |-> 0, version |-> 0, on |-> FALSE,
            pending |-> FALSE, inbox |-> {}]
Idle == [at |-> "idle", why |-> "idle", backup |-> FALSE, fresh |-> FALSE, given |-> FALSE,
         id |-> 0, value |-> 0, todo |-> <<>>, got |-> {}]
Starts(why, at) == [Idle EXCEPT !.why = why, !.at = at]

SecretNames == Append(Private, BackupKey)

Init ==
  /\ server = [identity |-> 0, signed |-> {}, version |-> 0, made |-> 0, filled |-> {},
               described |-> {}, default |-> 0, secrets |-> [n \in Range(SecretNames) |-> {}],
               devices |-> 0]
  /\ store = [d \in Homes |-> NoStore]
  /\ kept = [d \in Homes |-> 0]
  /\ known = {}
  /\ line = [d \in Homes |-> FALSE]
  /\ batch = [d \in Homes |-> "none"]
  /\ mail = [d \in Homes |-> {}]
  /\ setting \in [Homes -> Settings]
  /\ op = [d \in Homes |-> Idle]
  /\ overlap = FALSE
  /\ left \in Happenings

Spend(what) == left[what] > 0 /\ left' = [left EXCEPT ![what] = @ - 1]

----------------------------------------------------------------------------
(* Where an operation goes when a half of it is over, and what is left     *)
(* undone when nothing has to be sent.                                     *)

\* backup(): the upstream machine has a batch to send.
HasBatch(m) == m.on /\ m.pending

\* The end of after_import: new room keys go to the backup.
AfterInbox(o, m) ==
  IF o.backup /\ o.fresh /\ HasBatch(m) THEN [o EXCEPT !.at = "upload"] ELSE Idle

AfterImport(o, m) ==
  LET half == [o EXCEPT !.why = "import"] IN
  IF m.inbox # {} THEN [half EXCEPT !.at = "inbox"] ELSE AfterInbox(half, m)

\* After ensure_backup: upload_quietly when the backup is enabled.
AfterBackup(o, m) == IF o.why = "open" THEN AfterImport(o, m) ELSE Idle
ToUpload(o, m) == IF HasBatch(m) THEN [o EXCEPT !.at = "upload"] ELSE AfterBackup(o, m)

\* Failed or not, cross-signing is followed by the backup, when that is switched on.
AfterIdentity(o, m) == IF o.backup THEN [o EXCEPT !.at = "latest"] ELSE AfterImport(o, m)

\* enable_with: the key is saved and uploading is on.
Enabled(m, key, version) == [m EXCEPT !.key = key, !.version = version, !.on = TRUE]
\* disable_stale_backup: the saved key stays.
Disabled(m) == [m EXCEPT !.on = FALSE]

\* A call to the server that is answered: it leaves the server as s and the store as m.
Answered(d, s, m, then) ==
  server' = s /\ store' = [store EXCEPT ![d] = m] /\ op' = [op EXCEPT ![d] = then]
  /\ UNCHANGED left
\* One that fails: the server may have done it all the same.
Fails(d, s, failed) ==
  Spend("faults") /\ server' \in {server, s} /\ op' = [op EXCEPT ![d] = failed]
  /\ UNCHANGED store
Call(d, s, m, then, failed) == Answered(d, s, m, then) \/ Fails(d, s, failed)
\* The server refuses it.
Refused(d, failed) == op' = [op EXCEPT ![d] = failed] /\ UNCHANGED <<server, store, left>>

At(d, step) == op[d].at = step
ElsewhereSame == UNCHANGED <<kept, known, line, batch, mail, setting, overlap>>

----------------------------------------------------------------------------
(* The keys line opens: cross-signing, the backup, what was caught up.     *)

\* The catch-up imports what waited; set_up_identity_and_backup begins.
OpenLine(d, fresh) ==
  /\ store[d].number # 0 /\ ~line[d] /\ op[d] = Idle /\ Spend("opens")
  /\ line' = [line EXCEPT ![d] = TRUE]
  /\ store' = [store EXCEPT ![d].inbox = @ \cup mail[d], ![d].pending = @ \/ fresh]
  /\ mail' = [mail EXCEPT ![d] = {}]
  /\ op' = [op EXCEPT ![d] = [Starts("open", "query") EXCEPT !.backup = setting[d],
                                                             !.fresh = fresh]]
  /\ UNCHANGED <<server, kept, known, batch, setting, overlap>>

\* A query of oneself drops private keys that are not those of the server's identity.
Queried(m) ==
  [m EXCEPT !.identity = IF server.identity \notin {0, @} THEN 0 ELSE @]

\* ensure_cross_signing up to what it does next: it is there, it is another device's, or
\* bootstrap_cross_signing makes it, or takes the one that was made before.
QueryIdentity(d) ==
  LET o == op[d]
      m == Queried(store[d])
      made == [m EXCEPT !.identity = IF @ = 0 THEN m.number ELSE @]
      asked == IF server.identity = 0 THEN made ELSE m
      then == IF server.identity = 0 THEN [o EXCEPT !.at = "signing"] ELSE AfterIdentity(o, m)
  IN /\ At(d, "query")
     /\ Answered(d, server, asked, then) \/ Fails(d, server, AfterIdentity(o, store[d]))
     /\ ElsewhereSame

\* SIGNING_KEYS_UPLOAD: an identity that differs from the server's needs a password.
UploadSigningKeys(d) ==
  LET o == op[d]  m == store[d]  failed == AfterIdentity(o, m) IN
  /\ At(d, "signing")
  /\ IF server.identity \in {0, m.identity}
     THEN Call(d, [server EXCEPT !.identity = m.identity], m, [o EXCEPT !.at = "signatures"],
               failed)
     ELSE Refused(d, failed)
  /\ ElsewhereSame

\* send_signature_upload of the new identity: the device is signed.
UploadSignatures(d) ==
  LET m == store[d]
      s == [server EXCEPT !.signed = @ \cup {m.number}]
      then == AfterIdentity(op[d], m)
  IN /\ At(d, "signatures")
     /\ Call(d, s, m, then, then)
     /\ ElsewhereSame

----------------------------------------------------------------------------
(* The backup: ensure_backup and upload_room_keys.                         *)

\* Mutant: any key that the store has.
OpensAnything(key) == key # 0

\* backup_key_matches of the version that find_latest_backup returned.
Opens(key) == key = server.version

\* ensure_backup with create_if_missing, up to the version it finds.
FindLatest(d) ==
  LET o == op[d]  m == store[d]  on == Enabled(m, m.key, server.version) IN
  /\ At(d, "latest")
  /\ \/ server.version = 0 /\ Call(d, server, m, [o EXCEPT !.at = "create"], AfterBackup(o, m))
     \/ /\ server.version # 0 /\ Opens(m.key)
        /\ Call(d, server, on, ToUpload(o, on), AfterBackup(o, m))
     \/ /\ server.version # 0 /\ ~Opens(m.key)
        /\ Call(d, server, Disabled(m), AfterBackup(o, m), AfterBackup(o, m))
  /\ ElsewhereSame

\* CREATE_BACKUP_VERSION: its key is saved when the answer is here.
CreateVersion(d) ==
  LET o == op[d]
      m == store[d]
      version == server.made + 1
      s == [server EXCEPT !.made = version, !.version = version, !.filled = {}]
      on == Enabled(m, version, version)
  IN /\ At(d, "create")
     /\ Call(d, s, on, ToUpload(o, on), AfterBackup(o, m))
     /\ ElsewhereSame

\* A round of upload_room_keys; the server takes room keys for its latest version only.
UploadKeys(d) ==
  LET o == op[d]
      m == store[d]
      done == [m EXCEPT !.pending = FALSE]
  IN /\ At(d, "upload")
     /\ IF server.version = m.version
        THEN Call(d, [server EXCEPT !.filled = @ \cup {m.key}], done, AfterBackup(o, done),
                  AfterBackup(o, m))
        ELSE Refused(d, AfterBackup(o, m))
     /\ ElsewhereSame

\* `backup.upload`, which the daemon refuses while SERVER_BACKUP is off.
Upload(d) ==
  /\ op[d] = Idle /\ line[d] /\ setting[d] /\ Spend("calls")
  /\ op' = [op EXCEPT ![d] = [Starts("upload", "latest") EXCEPT !.backup = TRUE]]
  /\ UNCHANGED <<server, store>> /\ ElsewhereSame

----------------------------------------------------------------------------
(* After a batch of to-device messages: the backup key another device sent.*)

\* The keys task imports a batch of the line: new room keys, or what another device sent.
Receive(d, fresh) ==
  /\ line[d] /\ batch[d] = "none" /\ op[d].why \notin {"open", "import"}
  /\ \/ fresh /\ Spend("keys")
     \/ ~fresh /\ mail[d] # {} /\ UNCHANGED left
  /\ store' = [store EXCEPT ![d].inbox = @ \cup mail[d], ![d].pending = @ \/ fresh]
  /\ mail' = [mail EXCEPT ![d] = {}]
  /\ batch' = [batch EXCEPT ![d] = IF fresh THEN "new" ELSE "old"]
  /\ UNCHANGED <<server, kept, known, line, setting, op, overlap>>

\* after_batch, once the line is free; without a line it waits for the next batch.
AfterBatch(d) ==
  /\ batch[d] # "none" /\ op[d] = Idle
  /\ batch' = [batch EXCEPT ![d] = "none"]
  /\ LET o == [Starts("import", "inbox") EXCEPT !.backup = setting[d],
                                                !.fresh = batch[d] = "new"]
     IN op' = [op EXCEPT ![d] = IF line[d] THEN AfterImport(o, store[d]) ELSE Idle]
  /\ UNCHANGED <<server, store, kept, known, line, mail, setting, overlap, left>>

\* Mutant: the inbox is cleared as it is read.
AdoptClearingFirst(d) ==
  LET o == op[d]
      m == [store[d] EXCEPT !.inbox = {}]
      opens == server.version \in store[d].inbox
      found == IF opens THEN Enabled(m, server.version, server.version) ELSE m
  IN /\ At(d, "inbox")
     /\ \/ store' = [store EXCEPT ![d] = found] /\ UNCHANGED left
        \/ Spend("faults") /\ store' = [store EXCEPT ![d] = m]
     /\ op' = [op EXCEPT ![d] = AfterInbox(o, m)]
     /\ UNCHANGED server /\ ElsewhereSame

\* adopt_backup_key_from_inbox: a key that opens the server's version is saved, and only
\* then is the inbox cleared; without an answer or a version nothing is.
AdoptFromInbox(d) ==
  LET o == op[d]
      m == store[d]
      found == IF server.version \in m.inbox THEN Enabled(m, server.version, server.version) ELSE m
      then == IF server.version = 0 THEN AfterInbox(o, m) ELSE [o EXCEPT !.at = "clear"]
  IN /\ At(d, "inbox")
     /\ Call(d, server, found, then, AfterInbox(o, m))
     /\ ElsewhereSame

\* delete_secrets_from_inbox; the download that follows only adds room keys to the store.
ClearInbox(d) ==
  LET m == [store[d] EXCEPT !.inbox = {}] IN
  /\ At(d, "clear")
  /\ store' = [store EXCEPT ![d] = m]
  /\ op' = [op EXCEPT ![d] = AfterInbox(op[d], m)]
  /\ UNCHANGED <<server, left>> /\ ElsewhereSame

----------------------------------------------------------------------------
(* create_secret_storage: the recovery key.                                *)

Creating == {d \in Homes : op[d].why = "create"}

\* An id that nothing is under yet.
NewId ==
  LET taken == server.described \cup {op[d].id : d \in Homes}
  IN CHOOSE id \in 1..(Cardinality(taken) + 1) : id \notin taken

\* It is refused when there is a default key, and without the private keys.
CreateRecoveryKey(d) ==
  LET o == [Starts("create", "describe") EXCEPT !.id = NewId, !.value = store[d].identity]
      refused == server.default # 0 \/ store[d].identity = 0
  IN /\ op[d] = Idle /\ line[d] /\ Spend("calls")
     /\ op' = [op EXCEPT ![d] = IF refused THEN Idle ELSE o]
     /\ overlap' = (overlap \/ (~refused /\ Creating # {}))
     /\ UNCHANGED <<server, store, kept, known, line, batch, mail, setting>>

\* Mutant: the default key is written with its description, as the first of them.
DescribeAsDefault(d) ==
  /\ At(d, "describe")
  /\ Call(d, [server EXCEPT !.described = @ \cup {op[d].id}, !.default = op[d].id], store[d],
          [op[d] EXCEPT !.at = "get", !.todo = Private], Idle)
  /\ ElsewhereSame

\* m.secret_storage.key.<id>
Describe(d) ==
  /\ At(d, "describe")
  /\ Call(d, [server EXCEPT !.described = @ \cup {op[d].id}], store[d],
          [op[d] EXCEPT !.at = "get", !.todo = Private], Idle)
  /\ ElsewhereSame

\* put_secret reads what other keys have encrypted under this name ...
GetSecret(d) ==
  /\ At(d, "get")
  /\ Call(d, server, store[d],
          [op[d] EXCEPT !.at = "set", !.got = server.secrets[Head(op[d].todo)]], Idle)
  /\ ElsewhereSame

\* ... and writes it back with its own.  The backup's key comes after the private keys, if
\* the store has one (find_backup_secret), and the default last.
PutSecret(d) ==
  LET o == op[d]
      name == Head(o.todo)
      value == IF name = BackupKey THEN store[d].key ELSE o.value
      content == {p \in o.got : p[1] # o.id} \cup {<<o.id, value>>}
      more == IF Len(o.todo) = 1 /\ name # BackupKey /\ store[d].key # 0
              THEN <<BackupKey>> ELSE Tail(o.todo)
  IN /\ At(d, "set")
     /\ Call(d, [server EXCEPT !.secrets[name] = content], store[d],
             [o EXCEPT !.at = IF more = <<>> THEN "default" ELSE "get", !.todo = more, !.got = {}],
             Idle)
     /\ ElsewhereSame

SetDefault(d) ==
  /\ At(d, "default")
  /\ Call(d, [server EXCEPT !.default = op[d].id], store[d],
          [op[d] EXCEPT !.at = "keep"], Idle)
  /\ ElsewhereSame

\* recovery::save: it is sealed into r/, and the user is shown it.
KeepRecoveryKey(d) ==
  /\ At(d, "keep")
  /\ kept' = [kept EXCEPT ![d] = op[d].id] /\ known' = known \cup {op[d].id}
  /\ op' = [op EXCEPT ![d] = Idle]
  /\ UNCHANGED <<server, store, line, batch, mail, setting, overlap, left>>

----------------------------------------------------------------------------
(* restore_from_recovery_key.                                              *)

\* With a key that the user gives, or the one in r/; open_default_key, whose MAC refuses any
\* other.
Restore(d, given) ==
  /\ op[d] = Idle /\ line[d] /\ Spend("calls")
  /\ \E id \in IF given THEN known ELSE {kept[d]} \ {0} :
       op' = [op EXCEPT ![d] =
                IF server.default = id
                THEN [Starts("restore", "fetch") EXCEPT !.id = id, !.given = given,
                                                        !.todo = SecretNames]
                ELSE Idle]
  /\ UNCHANGED <<server, store>> /\ ElsewhereSame

\* get_secret, one after the other: without one of the private keys nothing is imported.
FetchSecret(d) ==
  LET o == op[d]
      name == Head(o.todo)
      values == {p[2] : p \in {q \in server.secrets[name] : q[1] = o.id}}
      private == name # BackupKey
      more == [o EXCEPT !.todo = Tail(@),
                        !.got = IF private THEN @ \cup values ELSE @,
                        !.value = IF private \/ values = {} THEN 0 ELSE CHOOSE v \in values : TRUE]
      then == IF private /\ values = {} THEN Idle
              ELSE IF private THEN more ELSE [more EXCEPT !.at = "import"]
  IN /\ At(d, "fetch")
     /\ Call(d, server, store[d], then, Idle)
     /\ ElsewhereSame

\* What is left of a restore that has signed the device.
AfterSigning(o) ==
  IF o.value # 0 THEN [o EXCEPT !.at = "backup"]
  ELSE IF o.given THEN [o EXCEPT !.at = "keep"] ELSE Idle

\* The query of oneself, then import_cross_signing_keys: private keys of another identity
\* than the server's are refused.  A device that is signed is not signed again.
ImportSecrets(d) ==
  LET o == op[d]
      m == Queried(store[d])
      theirs == o.got = {server.identity}
      imported == IF theirs THEN [m EXCEPT !.identity = server.identity] ELSE m
      then == IF ~theirs THEN Idle
              ELSE IF m.number \in server.signed THEN AfterSigning(o) ELSE [o EXCEPT !.at = "sign"]
  IN /\ At(d, "import")
     /\ Call(d, server, imported, then, Idle)
     /\ ElsewhereSame

\* sign_this_device
SignDevice(d) ==
  /\ At(d, "sign")
  /\ Call(d, [server EXCEPT !.signed = @ \cup {store[d].number}], store[d], AfterSigning(op[d]),
          Idle)
  /\ ElsewhereSame

\* restore_room_keys: a key that does not open the server's version is not saved.  The device
\* is trusted by now: a failure is told and the recovery key kept all the same.
RestoreBackup(d) ==
  LET o == op[d]
      m == IF o.value = server.version THEN Enabled(store[d], o.value, o.value) ELSE store[d]
      then == IF o.given THEN [o EXCEPT !.at = "keep"] ELSE Idle
  IN /\ At(d, "backup")
     /\ Call(d, server, m, then, then)
     /\ ElsewhereSame

----------------------------------------------------------------------------
(* The account comes and goes.                                             *)

Login(d) ==
  /\ store[d].number = 0 /\ Spend("logins")
  /\ server' = [server EXCEPT !.devices = @ + 1]
  /\ store' = [store EXCEPT ![d].number = server.devices + 1]
  /\ UNCHANGED <<kept, known, line, batch, mail, setting, op, overlap>>

\* The crypto store goes, with every key that is only there; r/ stays.
Leave(d) ==
  /\ store[d].number # 0 /\ op[d] = Idle /\ Spend("leaves")
  /\ store' = [store EXCEPT ![d] = NoStore]
  /\ line' = [line EXCEPT ![d] = FALSE]
  /\ batch' = [batch EXCEPT ![d] = "none"]
  /\ mail' = [mail EXCEPT ![d] = {}]
  /\ UNCHANGED <<server, kept, known, setting, op, overlap>>

\* refuse_if_history_would_be_lost lets a wbf account go when its recovery key is in r/ ...
LogOut(d) == kept[d] # 0 /\ Leave(d)
\* ... and any when the loss is accepted.
LogOutAcceptingLoss(d) == kept[d] = 0 /\ Leave(d)

\* The line closes under whatever holds it.
LineDies(d) ==
  /\ line[d] /\ Spend("stops")
  /\ line' = [line EXCEPT ![d] = FALSE]
  /\ op' = [op EXCEPT ![d] = Idle]
  /\ UNCHANGED <<server, store, kept, known, batch, mail, setting, overlap>>

\* The process stops; opening the store turns uploading on again for the version saved there.
Crash(d) ==
  /\ store[d].number # 0 /\ Spend("stops")
  /\ store' = [store EXCEPT ![d].on = store[d].key # 0]
  /\ line' = [line EXCEPT ![d] = FALSE]
  /\ batch' = [batch EXCEPT ![d] = "none"]
  /\ op' = [op EXCEPT ![d] = Idle]
  /\ UNCHANGED <<server, kept, known, mail, setting, overlap>>

\* BackgroundBackup::set
SwitchBackup(d) ==
  /\ Spend("switches")
  /\ setting' = [setting EXCEPT ![d] = ~@]
  /\ UNCHANGED <<server, store, kept, known, line, batch, mail, op, overlap>>

\* Two devices of the account verify each other: the one that has the private keys signs the
\* other and sends it what it has, the key of the backup by way of the secrets inbox.
Verify(d, e) ==
  /\ d # e /\ line[d] /\ line[e] /\ store[d].identity # 0
  /\ store[d].identity = server.identity /\ Spend("verifies")
  /\ server' = [server EXCEPT !.signed = @ \cup {store[e].number}]
  /\ store' = [store EXCEPT ![e].identity = server.identity]
  /\ mail' = [mail EXCEPT ![e] = @ \cup ({store[d].key} \ {0})]
  /\ UNCHANGED <<kept, known, line, batch, setting, op, overlap>>

\* Another client of the account makes a new version of the backup.
ReplaceVersion ==
  /\ server.version # 0 /\ Spend("versions")
  /\ server' = [server EXCEPT !.made = @ + 1, !.version = server.made + 1, !.filled = {}]
  /\ UNCHANGED <<store, kept, known, line, batch, mail, setting, op, overlap>>

Next ==
  \/ \E d \in Homes, fresh \in BOOLEAN : OpenLine(d, fresh) \/ Receive(d, fresh)
  \/ \E d \in Homes : QueryIdentity(d) \/ UploadSigningKeys(d) \/ UploadSignatures(d)
  \/ \E d \in Homes : FindLatest(d) \/ CreateVersion(d) \/ UploadKeys(d) \/ Upload(d)
  \/ \E d \in Homes : AfterBatch(d) \/ AdoptFromInbox(d) \/ ClearInbox(d)
  \/ \E d \in Homes : CreateRecoveryKey(d) \/ Describe(d) \/ GetSecret(d) \/ PutSecret(d)
  \/ \E d \in Homes : SetDefault(d) \/ KeepRecoveryKey(d)
  \/ \E d \in Homes, given \in BOOLEAN : Restore(d, given)
  \/ \E d \in Homes : FetchSecret(d) \/ ImportSecrets(d) \/ SignDevice(d) \/ RestoreBackup(d)
  \/ \E d \in Homes : Login(d) \/ LogOut(d) \/ LogOutAcceptingLoss(d)
  \/ \E d \in Homes : LineDies(d) \/ Crash(d) \/ SwitchBackup(d)
  \/ \E d, e \in Homes : Verify(d, e)
  \/ ReplaceVersion

Spec == Init /\ [][Next]_vars

----------------------------------------------------------------------------
\* What the server keeps of the account opens with one key: a default key has all the
\* private keys of one identity under it, unless two were made at a time, and the room keys
\* of the latest version are encrypted for its key alone.
WhatIsKeptOpens ==
  /\ server.default # 0 /\ ~overlap =>
       \E i \in 1..server.devices :
         \A n \in Range(Private) : <<server.default, i>> \in server.secrets[n]
  /\ server.filled \subseteq {server.version}

\* A backup key that another device sent, and that opens the server's version, leaves the
\* inbox only when it is saved, or with the store.
InboxKeyIsKept ==
  [][\A d \in Homes :
       server.version \in store[d].inbox /\ store'[d].number # 0
         => server.version \in store'[d].inbox \/ server.version = store'[d].key]_vars

\* Who passes the gate of logout has something here that opens the backup its room keys are
\* in: the key of that backup is in secret storage, under the recovery key in r/.
GateKeepsHistory ==
  [][\A d \in Homes :
       LogOut(d) /\ store[d].key \in server.filled
         => <<kept[d], store[d].key>> \in server.secrets[BackupKey]]_vars
=============================================================================
