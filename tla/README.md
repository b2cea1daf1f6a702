# wbf-matrix-client in TLA+

A model of the client's core (`src/crates/wbf-sdk`, `src/crates/wbf-core`) in TLA+,
checked with TLC on small instances and, where it matters most, proved with TLAPS for
every value of the constants. `PROJECT.json` says which definition models which lines.

## 1. The system

A Rust client of a Matrix-like server. A daemon holds *accounts*; a UI talks to the
daemon over RPC; the daemon talks to the server over WebSocket *lines* and HTTP.
Everything runs as tokio tasks in one process, so each await is a place where every other
task may run.

| Component (source) | State | Operations | Talks to | Hard part | Must hold |
|---|---|---|---|---|---|
| WebSocket line (`link.rs`, `sessions.rs`) | session table, writer queue, three tasks, closed flag, pending slots and inboxes | request, resend, stream, subscribe, drop, deliver, heartbeat, `shut_down` | server; everything below | a caller, the reader and `shut_down` at the same entry; late and repeated replies; full inboxes | a reply reaches its asker; nobody waits on a closed line; a lost push is told |
| Link pool (`link_pool.rs`, `link_keeper.rs`) | a pool per account, a slot (lock + opener's mutex) per role | acquire, ensure_open, close, close_all, find | lines; login and logout | many openers, a closer and users at one lock; a pool replaced meanwhile | one line per slot, never closed under a user; no line of an old session; no deadlock |
| Login and logout (`login_ops.rs`, `session_ops.rs`) | session file, seal, lifecycle lock | login, logout, destroy | pool, keys task, server | a step of several fails; lines opened while the session changes | both end; nothing of the old session is left |
| Key synchronisation (`key_sync.rs`, `crypto_engine.rs`, `to_device_state.rs`) | crypto store, td.json, subscription inbox, pull flag | subscribe, catch up, import, destroy, top up | keys line, engine, cache | crash between commit, list and destroy; lost pushes | no room key is lost; each is pulled in the end |
| Encrypted messages (`room_sync.rs`, `room_crypto.rs`, `cache.rs`) | cached events, their "opened" mark | on_push, retry_after_storing, decrypt_stored, recent, history | rooms line, cache, UI | message and key arrive on two lines in any order | message and key meet; what is open stays open |
| Cache, writer and reader (`cache.rs`, `server_cache.rs`) | SQLite, one writer task | run (committed on return), read, watermark | everything above | order of writes, watermark against events | no watermark over events that are not stored |
| Request line (`link_requests.rs`) | requests waiting and on the wire | push, in order of priority, hand back | a borrowed line | silence, closing, reopening while replies arrive | each request is handed back once |
| Download queue (`download_queue.rs`) | jobs, seeks, claims between accounts | add, seek, cancel, claim, retry | request line, media pool | cancel, seek and retry of one chunk; handover to a handler that stops | nothing is asked for after a cancel; every job ends; one writer per file |
| Media pool, seek store (`media_pool.rs`, `seek_store.rs`) | pending and finished files | append, resume, adopt, seek slots | download queue | a stop in the middle of a segment | no segment is sealed twice under one nonce |
| Invites and rooms (`invites.rs`, `sync_ops.rs`, `rooms_ops.rs`) | invite rounds, watermark | round, push, recent | cache, rooms line | a snapshot races pushes | a push is not undone by an older snapshot |
| Room key sharing (`key_share.rs`) | preparation per room, retry delay | prepare, wait, share | engine, keys line | rotation while a send waits | a send uses a key its devices have |
| Identity, backup, recovery (`cross_signing.rs`, `key_backup.rs`, `secret_storage.rs`, `identity_ops.rs`, `backup_ops.rs`, `recovery.rs`) | crypto store (identity, backup key, secrets inbox), account data, `r/` | set up with the keys line, upload, restore, create a recovery key, adopt a key another device sent, the gate of logout | keys line, server, other devices | every call may fail half way; another client replaces the version; two devices write account data | what the server keeps opens with one key; a key on its way is not lost |
| Uploads (`upload.rs`, `upload_ops.rs`, `attachment_ops.rs`, `matrix_upload.rs`, `data_plane.rs`) | a state file beside the file; the set of PUTs being received | upload.file, send --file, media.create, PUT, abort, send_attachment | upload line, HTTP, the room | callers end between any two steps, chunks come late, the server sweeps or cuts, the room turns encrypted | under a manifest is one body; chunks sent are found again; no key in the clear |
| Daemon (`wbf-daemon`) | connections, handshake, push queues | hello, call, push | core | slow UI | nothing in plaintext while encryption is enforced |
| Accounts (`login_ops.rs`, `session_ops.rs`, `accounts.rs`, `account_lock.rs`) | devices on the server; sessions, key stores, recovery keys, directories, cache on disk; engines and handles in memory | log in, log out, destroy, and what commands do meanwhile | server, disk | each of twenty steps may fail, an answer may be lost, the program may stop | server, disk and memory agree on who is logged in; what is left can be found again |
| Wire, events, CLI, HTTP backend, wiring | - | parsing, files, printing | - | pure or I/O | unit-tested |

`PROJECT.json` lists each with its status, and under `hazards` every place that is hard
to test, with the property that covers it or the reason why none does yet.

## 2. The modules

| Module | Models | Specifications |
|---|---|---|
| `WsLink` | one WebSocket line and its session table | `Spec`, `FairSpec` |
| `RequestContract` | what a line promises to whoever asks on it | `ContractSpec` |
| `LinkPool` | the lines of one account: pool, keeper, login and logout, the subscription's task | `Spec`, `FairSpec` |
| `KeySync` | how a message and its room key meet: keys line, rooms line, cache, UI | `Spec`, `FairSpec` |
| `LinkRequests` | an owner's queue of requests over a borrowed line | `Spec`, `FairSpec` |
| `Downloads` | the jobs of one file at the handlers of a server: claims, hand-over, cancel, stop | `Spec`, `FairSpec` |
| `ChunkFlight` | one file at one handler: the requests a job and GETs share | `Spec`, `FairSpec` |
| `MediaStore` | the files on disk and the rows that name them: pending, pool, seek store, sweep | `StoreSpec` |
| `Uploads` | one file on its way to the server: state file, PUTs, streams, whole files, resume and abort | `UploadsSpec` |
| `Rooms` | one account's rooms in the cache, its writer, rounds of invites, the watermark | `RoomsSpec` |
| `Timeline` | one room's events: edits, redactions, reactions, read marks, as stored and as shown | `TimelineSpec` |
| `Accounts` | the accounts of one wbf server: login, logout, destroy, step by step | `AccountsSpec` |
| `KeyShare` | the key of one room: the background that prepares it, refreshes and sends that need it | `Spec`, `FairSpec` |
| `KeyBackup` | what outlives a device: cross-signing, backup, secret storage, recovery key, for two devices of one account | `Spec` |
| `Daemon` | the RPC side: connections, hello, encryption, subscriptions, shutdown | `DaemonSpec` |
| `MC...` | the instance of each for TLC; `MCServerDir` is that of `Accounts`, `Rooms`, `Timeline`, `Uploads` and `KeyBackup`, `MCLinkRequests` that of `LinkRequests` and `Daemon` | |
| `WsLink_proofs`, `LinkPool_proofs`, `KeySync_proofs`, `LinkRequests_proofs` (with `Daemon`), `Downloads_proofs` (with `MediaStore`), `KeyShare_proofs`, `Device_proofs` (`KeyBackup` and `Rooms`), `ServerDir_proofs` (`Accounts` and `Uploads`) | theorems (section 4) | |

`LinkPool` sees of a line only that it is up or not and who opened it, `KeySync` only
that it is up or not, and `LinkRequests` its numbers and that it answers, is silent or
fails whoever waits. `ChunkFlight` sees of the request line that what is queued is sent and
comes back once per copy, and `Downloads` sees of the chunks that one is asked for at a
time: all rely on what `WsLink` and `RequestContract` say about a line (a
dead one lets go of everybody, an answer belongs to its question). `MediaStore` takes over
where `ChunkFlight` stores a chunk, and has from `Downloads` that one writer has a file at a
time. `KeyShare` has from `KeySync` that the crypto store survives, and from the lines that a
request is answered or fails. `Accounts` has of a line that it ends with its account, and of
the cache whether it is there and has rows of an account; `LinkPool` has of a login and a logout which
session is valid when. `Rooms` and `Timeline` share the events table: `Rooms` counts what is stored,
`Timeline` says what is shown of it. `Uploads` has of the line
that a second request for a chunk that is waited for is refused. `Daemon` sees of all of them that a request is
answered and that events are emitted.

### WsLink

A *call* is one registration in the session table. The code numbers registrations with a
generation; here the call itself is the generation, so `entries` is the set of calls
registered, and two calls may have the same key one after the other.

| TLA+ | Code |
|---|---|
| `entries`, `Key`, `FindKey` | `SessionTable`, `SessionKey`, `find_key` |
| `Start`/`Register` | `register_reply`, `open_stream`, `subscribe`: refused when the key is taken |
| `CheckOpen`, `Enqueue`, `SendFails` | `send`: closed?, room in the queue, gone or full for `SEND_TIMEOUT` |
| `Receive`, `Elapse`, `FallSilent` | `request_with_policy`, `request_until_silent` |
| `Leave`, `Cancel` | the guard that removes the entry; a caller dropped at an await |
| `NextPack`, `NextIsOver`, `NextTimesOut`, `TakeGap` | `StreamHandle`, `Subscription` |
| `ReaderTakes`, `Dispatch`, `Deliver*` | `reader_task`, `dispatch`, `Sink::deliver` |
| `ReaderSkips` | undecodable frames, `CORRUPT_FRAME_BUDGET` |
| `Beat`, `PongOverdue`, `BeatFails`, `PulseAborted` | `pulse_task`, `beat` |
| `BeginShutDown`, `FailAll`, `AbortTasks` | `shut_down`, in its three parts |
| `Server*` | the server as the client relies on it (external) |

The reader is two steps (decode, then dispatch), because an aborted task goes on until its
next await, and a pack it has decoded still reaches its sink. Dropping a call leaves its
entry behind at exactly the places where the code has no guard.

Not modelled: the hook and the diagnostic sink (they decide nothing), what is in a pack
beyond what it is matched by, and the start of the line: the model begins with the three
task handles registered.

### LinkPool

A slot is a read-write lock and a mutex. In the code the guards are Rust scopes, so where
an actor is (`pc`) and which slot it has in hand (`slot`) say which lock it holds: the
locks have no variables of their own. `Users`, `Queued`, `Writing`, `DoorIsFree` read them
off; the lock is tokio's, where no reader passes a writer that waits. References are
counted (`Held`, `Reached`): the last one takes the line with it (`Dropping`).

| TLA+ | Code |
|---|---|
| `TakePool` | `pool_of_account` |
| `Enter`, `Look`, `Door`, `LookAgain`, `Dial`, `Connect`, `Opened` and their failures | `LinkPool::acquire`, `open_link` |
| `Join`, `Follow` | `init_connection` of a subscription line, `init_keys`: the task before is replaced |
| `StartRound`, `TryOpen`, `MoveOn` | `ensure_links`, `ensure_open` |
| `WatchEnds`, `WatcherCloses` | the end of the subscription's task, `LinkPool::close` |
| `StartLogout`, `Revoke`, `StopWatcher`, `LeaveSession` | `logout` |
| `StartLogin`, `SealSession`, `TakeBack` | `login` |
| `Unregister`, `Drain`, `WaitForUsers`, `CloseSlot` | `close_links`, `close_all` |

A line opened in a slot that no `close_links` will find (the pool was taken before a login
replaced it) is marked `stray`; it closes with its last user, and the properties say what
they say of the other lines.

Not modelled: `find_ws_link`, `reuse` and `open_count` (they look and change nothing), the
goodbye to the server before logout, the room-key-share task, the files of login, logout
and destroy other than the session, and the other accounts, whose pools are apart.

### KeySync

The server's queue of to-device items is the watermark. `pc["keys"]` is the task of the
keys line, `pc["room"]` the handler of the rooms line, `pc["reader"]` the UI's read; all
three run `decrypt_stored` (`OpenStored`).

| TLA+ | Code |
|---|---|
| `OpenLine`, `Fetch`, `Import`, `Save`, `Destroy`, `Mark` | `init_keys`, `pull_to_device`, `import_items`, `td.json` |
| `OpenNextKey`, `BatchDone`, `NextPack`, `IdleTimeout`, `Ended` | the loop of the keys task |
| `List`, `Open`, `Write`, `Announce` | `decrypt_stored` |
| `Push`, `TryToOpen`, `StorePush`, `Notify` | `on_push`, `retry_after_storing` |
| `Recent`, `ReadPage`, `Reread`, `Reply` | `sync.recent`, `room.history` |
| `Upsert` | `upsert_events`, as far as sealed and opened go |
| `QueueItem`, `TellGap`, `LineEnds` | the server and the network (external) |
| `Crash` | the daemon stops at any step; the three stores on disk stay |

Not modelled: the sequence number in td.json, one-time keys, what verification and backup
do after a batch, an `ItemsDestroyed` that names some of the items, an account without an
engine, and history that is fetched from the server. One keys task runs at a time, in one
room; events reach the UI in the order they are emitted.

### LinkRequests

| TLA+ | Code |
|---|---|
| `PushBack`, `PushFront`, `Withdraw` | the calls of `RequestLine` |
| `TimeOutIfSilent`, `Pop` | the head of the loop of `send_queued` |
| `TakeLink`, `NoLink` | its own copy of the line, `find_ws_link`, or back into the queue |
| `Send`, `SendFails` | `send_request` |
| `Record` | the entry in the wire table, and the waiter task is spawned |
| `WaiterEnds` | the waiter task after `PendingReply::wait` |
| `OpenLine`, `LockSlot`, `CloseLine`, `Reply` | the pool and the line |

Between `Send` and `Record` the reply may arrive and the line may close. A request that was
given up may be pushed again while its first sending is still out, as `fail_media` and a
new download of the same file do; so requests are counted, not listed.

A line that is opened again numbers from the start, and the wire table knows a request by its
number alone. `crossed` is a history variable: the requests of which one was entered under a
number for which another of an earlier line still had a waiter (`Clash`, `Met`). The
properties are about all others.

Not modelled: the error codes, and the branch for a number that is taken, which needs a lap
of 2^31 requests.

### Downloads

A handler is one task; `pc` is where it is in the loop of `DownloadHandler::run`. Callers
and cancels run beside it and meet it at two mutexes (`QueueState` of a handler,
`MediaClaims` of the core), so a step is one hold of one of them. An abort takes hold at
the next await only (`Awaits`).

| TLA+ | Code |
|---|---|
| `Ask`, `Find`, `Put` | `ensure_queued`, `Downloader::enqueue`, `enqueue_into` |
| `StartCancel`, `Cancel` | `media_cancel`, `Downloader::cancel` on each handler in turn |
| `Take`, `Look`, `Claim`, `Begin`, `BeginFails`, `Opened`, `Start` | `process_inbox`, `prepare_download`, `open_media`, `start_job` |
| `Denied`, `FindOther`, `Give` | the claim is another's: `hand_over` |
| `Unmark` | the end of `process_download_job` |
| `GoOn`, `ContinueCancelled` | `continue_main`: the look at the flag of a cancel |
| `Continue` | `continue_main`: after the seek store was asked, the next request (`want`) |
| `Finish`, `FinishFails`, `RecordFails`, `Recorded`, `Release`, `AnswerAll` | `finish_job` |
| `Settle`, `Wake` | `handle_cancellations`, `close_idle_without_job`, the `select!` |
| `Land`, `LineFails`, `FailKept`, `FailBad`, `Discard` | a reply; `fail_media` with and without discard |
| `Stop`, `Drop`, `Drain`, `Free` | `stop_downloader_of`, `close_everything`, the last reference to a queue |

`cut` is a handler whose pending file lost its name while it had it open: `take_open`
releases the claim before `discard` deletes the file by name, so the next claimant may have
opened it meanwhile. `late` is a history variable: the callers that joined a job in the
moment between `end_job` and the removal of its `preparing` entry. Nobody ever tells them.
`extra` is another: how many chunks landed since the job was cancelled. The flag and the request
it lets through share no lock, so a cancel may come in between.

Not modelled: the pushes to the UI and their listeners, `list_jobs`, other files in the
inbox, the comparison of descriptions, the local original, downloads of ordinary Matrix
files.

### ChunkFlight

The handler again, for one file, with its table `in_flight`: `entry` is its keys, `main`
and `gets` who waits, `timeouts` and `bad` the retries. `queued` and `out` count the copies
of a request in the line; a request given up and asked for again has two.

| TLA+ | Code |
|---|---|
| `StartJob`, `Cancel`, `EndCancelled`, `Settle`, `Evict` | `open_media`, `Downloader::cancel`, `handle_cancellations`, `close_idle_without_job` |
| `AskInfo`, `AskChunk`, `Move`, `StopMain`, `Finish` | `continue_main`, `advance_from_seek_store`, `finish_job` |
| `SeekLocal`, `SeekRemote` | `process_seek`, `request_seek_chunk` |
| `Stale`, `InfoArrives`, `ChunkArrives`, `ChunkPasses`, `Unknown`, `ChunkTooEarly` | `handle_reply`, `info_arrived`, `chunk_arrived` |
| `BadOnce`, `Bad`, `LineFails`, `TimesOut`, `Errs`, `Refused` | the error branches of `handle_reply` and after decryption |
| `Queue`, `Resend`, `Fail`, `AnswerSeeks` | `want`, `resend`, `fail_media`, `answer_seeks_only` |

Not modelled: what a chunk contains, a disk that fails while a chunk is stored, the timers
(`tick`), two files at one handler (they share the line, not the table entries), a handler
that is stopped (in `Downloads`).

### MediaStore

The disk and the media table have no common transaction, so each step is one change of one
of them. A plaintext is a sequence of units, each a number within a content (`Units`,
`Pieces`); a *segment* of the pool is `Seg` of them, a chunk of the server `Chunk`. Of a
pending file it is kept how many segments are synced (`durable`): a stop of the program keeps
what is written, a loss of power keeps what is synced, and cuts or damages the rest.
`left` says how often each of what may go wrong may still happen.

| TLA+ | Code |
|---|---|
| `BeginDownload`, `OpenMain`, `OpenStream`, `LeadingFull`, `Held`, `Resumes` | `MediaDownload::open`, `MediaPool::resume_pending`, `TransferTask::download` |
| `Write`, `LandChunk`, `Sync`, `FinishFile`, `Adopt` | `PoolWriter`, `land_chunk`, `MediaDownload::finish`, `MediaPool::adopt` |
| `Measure`, `Record` | `record_finished`: the file's size is asked for, then the writer thread writes the row |
| `Keep`, `DiscardFiles`, `PostReset` | `fail_media`, and a transfer that ends with an error or a cancel |
| `SeekAppend`, `NextCell`, `DropCell`, `Reopens`, `NumbersUsed` | `SeekStore` |
| `AskSweep`, `SweepRows`, `SweepPending`, `SweepPool`, `SweepEnds`, `Evict`, `EvictRow`, `CollectEnds` | `collect_media_garbage`, `sweep`, `collect_garbage`, `drop_from_pool` |
| `DelFiles`, `DelPending`, `DelRow` | `del_local_copy`, `media_delete` |
| `MayGo`, `Unlink` | `media_references` and `is_open`; then, as a step of its own, `MediaPool::remove` |
| `Read`, `EnterReader`, `CloseReader` | `open_read`: the file is opened, then entered in `OPEN_READERS`; the reader is dropped |
| `RowArrives`, `Age`, `ProgramStops` | an event with a link, the protection period, the process |

The writer thread owns the rows, but not the files: between the look at `OPEN_READERS` and the
unlinking a reader may open the file, and a download may be moved into the pool under its name.

A rename is taken as durable at once. `old` stands for `last_used_at` and for the mtime of a
file alike. `IsNewest` leaves out the delete of the newest row: SQLite gives its id away again
(the table has no AUTOINCREMENT), and two downloads could then share the name `m<id>`. A
table that is lost (`rebuilt`) gives all ids away again; no download is at work then, and a
pending file found under another file's name is told by its owner.

Not modelled: the manifest, thumbnails, exports to a path the user names, the cipher beyond
"a segment opens under its own number only".

### Uploads

The callers work on one file in one of four ways (`kind`). A chunk at the server is known by
the body it came from, so that two bodies in one file can be told apart.

| TLA+ | Code |
|---|---|
| `UploadFile`, `Created`, `WriteState`, `RemoveState` | `send_file`, `upload_with_account`, the state file |
| `MediaCreate`, `Put` (one at a time), `SendAttachment` | `create_media_upload`, `route_upload` with `UploadsReceiving`, `send_attachment` |
| `StatusAnswered`, `AfterStatus`, `ChunkAnswered`, `AfterChunk`, `FileGoesOn`, `PutGoesOn`, `StreamGoesOn`, `SealAnswered` | `send_chunks`, `send_sized_body`, `send_streamed_body`, `seal_upload` |
| `WholeAnswered`, `WholeMayHaveKey`, `GoesEncrypted` | `upload_matrix_media`, `create_matrix_upload`, `send_matrix_attachment` |
| `Abort`, `AbortAnswered` | `upload_abort`, `abort_upload` |
| `Fits` | `cipher_for_room`, `refuse_block_not_matching_room` |
| `Ends`, `Late` | a command is killed, a PUT breaks off or is dropped; its request comes late or never |
| `Handled`, `Sweep`, `Forget`, `Encrypt` | the server and the room (external) |

`alone` remembers that no two callers were at work together, `overtaken` the streams that
took a chunk of a PUT which had ended during the next one (section 3).

Not modelled: ciphers, hashes and names; a body of another length than it was announced with;
the check whose upload it is; `send --file` of an account of a general Matrix server, which
goes the same way without a declared attachment.

### Rooms

The UI's part is what `room-sync.md` asks of it: to call `room.invites` at the start, after
a push with a gap and after the line was opened again (`owes`).

| TLA+ | Code |
|---|---|
| `Subscribe`, `TellOpened`, `TakeInvite`, `MarkEarly`, `WriteInvite`, `TellInvite`, `TakeEvents`, `RoomsLineDies` | `init_rooms`, `RoomSyncTask::run`, `record_invite_push`, `on_push` |
| `FetchInvites`, `FetchAnswered`, `BreaksOff`, `CloseRound`, `Touch` | `fetch_invites`, `invite_fetch_round`, `InviteRounds`, `RoundGuard` |
| `Act`, `ForgetRoom`, `List`, `Look`, `AnsweredWith`, `Return` | `enter_room`, `forget_room`, `list_rooms`, `conversation`, `record_locally` |
| `Recent`, `AskWindow`, `NextWindow`, `MarkRecent` | `sync.recent`, `recent_sync`, `pull_recent` |
| `Post`, `Commit`, `WriteFails`, `Report`, `Apply*` | `ServerCache` and the statement of each job in `cache.rs` |
| `Becomes`, `OthersChange`, `NewEvent`, `Counts` | the server (external) |

What no order protects is remembered, and the property speaks of the rest: `stale` are
rooms last written by something that nothing orders against pushes, or not at all because a
push could not be, `spilt` those whose push was lost, or the gap told with it, behind older ones
of the same room, and those that a round the UI owed passed over because it began while another
was open, `asOf` how new the snapshot is that was written last or would still help,
`waived` the events that are deleted on purpose.

Not modelled: the other actions on a room (one request each), the history's pages, other
accounts, a `since` above the stored watermark.

### Timeline

The events of a room are facts chosen by `TimelineInit`. A *copy* of one comes open, sealed (not
decrypted) or stripped (the server blanked it), in any order and any number of times, for
any account.

| TLA+ | Code |
|---|---|
| `Classified`, `Strikes`, `Copies` | `classify`, `check_replacement`, `IncomingEvent` |
| `Upsert`, `Written`, `Process`, `ApplyEdit`, `ApplyRedaction`, `FallBack` | `upsert_events_counted`, `process_event`, `apply_edit`, `apply_redaction` |
| `Orders` | `list_waiting_relations`, which has no ORDER BY: both orders |
| `Shown`, `Looks`, `Reactions` | `select_messages`, `to_message`, `list_reactions` |
| `Folded`, `Judged`, `LastApplied` | the fold of a page that is not stored (`event_json.rs`) |
| `MarkRead`, `IsAfter`, `Readable`, `Unread`, `Hide` | `set_read_position`, `IS_AFTER_WATERMARK`, `find_readable_event`, `get_unread`, `hide_message` |

What a reader should be shown is defined a second time, from the *set* of copies alone
(`Told`), and `OrderIsNothing` compares the two in every state. `Told` leaves one state out:
a stripped copy of the edit that is shown comes before the redaction, and the row shows it
as deleted until the redaction is there (`cache.rs:1043`).

Not modelled: the text, mentions, attachments (`event_media` follows from the class),
paging, batches of more than one event, redactions of redactions, two messages without a
number in one millisecond.

An account may be destroyed at any time (`ForgetAccount`): events that nobody else was given
go with it. `torn` remembers that one went to which a row that stays refers or was applied;
`OrderIsNothing` does not speak of such a table (section 3).

### Accounts

A device is the number of the login that made it, so a session, a key store (`m/`) and an
engine in memory can be compared by whose they are. One operation at a time holds
`account.lock`; its steps are those between which it may fail, be killed, or be seen by
commands and background tasks, which do not ask for the lock and go on with a session they
read before (`Begin`).

| TLA+ | Code |
|---|---|
| `Enters`, `Exit` | `lock_account_lifecycle` |
| `StartLogin`, `Granted`, `GrantIsLost`, `Denied`, `Move`, `Build`, `Seal`, `Point`, `Revoke` | `log_in`, `finish_login_locally`, `move_to_canonical_dir`, `create_crypto_store_for`, `switch_current_to` |
| `StartLeave`, `MayLose`, `TellServer`, `NotTold`, `StopTasks`, `DeleteSession`, `ForgetEngine`, `DeleteStore`, `CloseCache`, `RemoveCache` | `log_out`, its gate, `log_out_account_past_the_gate` |
| `ForgetRows`, `DropRecoveryKey`, `MarkServer`, `RemoveRest`, `RemoveDir`, `RenameServer`, `SweepJunk` | `destroy_account`, `remove_server_dir_with_the_account_last` |
| `OpenEngine`, `TakeCache`, `WriteRows`, `SaveRecoveryKey` | `olm_engine_of`, `open_server_cache`, `ServerCache::run`, `create_recovery_key` |
| `RemoveByHand`, `ProgramStops` | what the user is told to do with a marked directory; the process stops |

What cannot be put right is remembered, and the properties speak of the rest: `stray` are
devices that an answer or a stop that was lost left on the server, `dead` accounts whose
device went that way, `over` those logged in once more, `stay` what was written of an account
while it was being destroyed.

Not modelled: key derivation, passphrases, names and layout of directories beyond the two
spellings of one name, plain Matrix servers, media files, `daemon.lock`.

### KeyShare

A room version is the hash over its members and their devices; here it is the set of
members itself, compared for equality only, and a version may come back. A user is one
device. `session` is the room key in the crypto store: its members, whose copy is
acknowledged (`with`) or still queued (`queued`), its age and period; which keys a library
makes and when one counts as expired is external.

| TLA+ | Code |
|---|---|
| `HandIn`, `MergeWant`, `TakeItem`, `TakeWork`, `FindLine`, `Ends` | the task's inbox, the merge of wants, the line, the back-off |
| `DiscardFirst`, `AskRotation`, `Share`, `SendKey`, `CheckReady`, `SetReady`, `CheckAfterSend`, `UploadOwn`, `RequestFails` | the stages of a preparation in `key_share.rs` and `crypto_engine.rs` |
| `StartRefresh`, `Fetch`, `HandOver` | `room.refresh` and the version it hands over |
| `StartSend`, `LookAtKey`, `Wake`, `GivesUp`, `CheckKey`, `Encrypt`, `Post`, `Sent` | sending: wait up to two seconds, encrypt, post, and the want after the send |
| `RoomChanges`, `RotationIsEdited`, `Ages` | the room on the server (external) |
| `Crash` | only the crypto store stays |

Steps of the background between which no other actor sees a difference are one step.

Not modelled: the backup of the own keys beyond its retry, logout and the end of the task,
several rooms, several devices of a user (the version covers them).

### KeyBackup

An identity is named by the device that made it, the key of a backup by the version that was
created with it, a recovery key by the id of its secret storage key: so "this key opens that"
is an equality. Each device runs one operation at a time, which goes from call to call
(`op`); a call may fail, and may have taken effect all the same (`Fails`).

| TLA+ | Code |
|---|---|
| `OpenLine`, `QueryIdentity`, `UploadSigningKeys`, `UploadSignatures` | `set_up_identity_and_backup`, `ensure_cross_signing`, `upload_new_identity` |
| `FindLatest`, `CreateVersion`, `UploadKeys`, `Upload` | `ensure_backup`, `upload_room_keys`, `backup.upload` |
| `Receive`, `AfterBatch`, `AdoptFromInbox`, `ClearInbox` | `after_batch`, `after_import`, `adopt_backup_key_from_inbox` |
| `CreateRecoveryKey`, `Describe`, `GetSecret`, `PutSecret`, `SetDefault`, `KeepRecoveryKey` | `create_secret_storage`, `put_secret`, `recovery::save` |
| `Restore`, `FetchSecret`, `ImportSecrets`, `SignDevice`, `RestoreBackup` | `wbf_restore`, `restore_secrets`, `sign_this_device`, `restore_room_keys` |
| `LogOut`, `LogOutAcceptingLoss`, `Login`, `LineDies`, `Crash`, `SwitchBackup` | the gate of logout, a login's new store, the line, the process, `BackgroundBackup` |
| `Verify`, `ReplaceVersion`, `Queried` | a verification from end to end, another client, matrix-sdk-crypto (external) |

Not modelled: the steps of a verification, the local snapshot, the room keys that a restore
downloads, and who else signed what.

### Daemon

A connection is a reader, a writer, a push task and a task per request, around one bounded
channel. Frames are sealed under the connection's lock; the lock is let go before the frame
is sent, except for a close notice (`IsFree`).

| TLA+ | Code |
|---|---|
| `Accept`, `Connect`, `Leave`, `Exit` | `RpcServer::run`, `serve_connection`, `main` |
| `Receive`, `Verdict`, `ReaderSeals`, `ReaderSends`, `SeeShutdown`, `SeeClientGone` | the reader's loop, `Connection::receive`, `hello` |
| `Call`, `Progress`, `Finish`, `TaskSeals`, `TaskSends` | a request's task, `Handle::call`, `daemon_*` |
| `Listen`, `Happen`, `TakeEvent`, `LaggedPush`, `PushSeals`, `PushSends` | `EventSink`, `forward_pushes`, `Subscriptions::wants` |
| `Write`, `WriterEnds` | the writer |

A connection that ends its handshake after the broadcast of the shutdown never sees it
(`late`). The push task is spawned with the connection and listens later (`Listen`); its abort is
immediate. `due`, what a connection must be sent or told of, counts from when it listens.

Not modelled: the data plane, what a method does, the gates for the vault and for writing,
errors in the parameters, settings.

## 3. The runs

| Run | Instance | Shows |
|---|---|---|
| `ws_calls` | a Create (whose reply carries another id) and a chunk with two attempts, or a stream and a subscription that use one session number in turn; queues of one, inboxes of two and one | every reply reaches its asker (`OwnReply`), no entry is forgotten (`NoOrphanEntry`), nobody waits on a drained table (`NoWaiterAfterClose`), a session sees its own packs, whole or with notice (`PacksAreWhole`), and the line implements `RequestContract` (`KeepsContract`) |
| `ws_pulse` | a question without a timeout and two heartbeats; the peer may vanish | `NobodyIsStuck`: `ReleasedOnClose` and `DeadPeerNoticed` (liveness) |
| `pool_lines` | a command, logouts, and a login or a round of the keeper, at the subscription line | `NoOldLine`, `LiveLineIsKept`; everyone comes to an end (`EveryoneEnds`); no deadlock |
| `keys_meet` | two keys and a message under the first; one failure, one crash, one read | `DestroyedIsStored`, `MessageMeetsKey`, `EveryKeyArrives` |
| `requests` | two requests, one of them pushed up to twice, a line that may close and is opened once more; or six scenarios for two connections of the daemon: subscriptions, jobs under one id, encryption switched, shutdown, bad frames | `ExactlyOnce`, `ResultsAreReal`, and `ComesBack` (liveness) of the requests; `MissedIsTold`, and `EveryoneIsServed` (liveness) of the daemon |
| `jobs` | two handlers, two exports of a file of two chunks, a cancel, the logout of one, one fault, one GET | `ClaimsMeetWork`, `JobIsAsked`, `CancelStops`, and `EveryoneIsTold` (liveness) |
| `seeks` | a file of two chunks, two downloads of it, two GETs, two poor replies | `EveryoneEnds` (liveness) |
| `media_files` | two files of four units, in segments of three and chunks of two, in six cases: both chunked with different contents, or one over HTTP with the same; two downloads with a stop and a failed write, or with a stop and a sweep or removal and a reader, or with a lost table | `BytesAreRight`, `NonceOnce`, `BytesAreKept` |
| `server_dir` | two accounts, one with a second spelling, in four scenarios of logins, logouts or destroys, tasks, faults and a stop; eight scenarios of rooms, one with two rounds of invites at once; nine rooms of three to six events for one or two accounts; eight scenarios of an upload of two chunks by up to four callers, two at a time; five of two devices and their backup | `AccountsAreWhole` (`SessionsAgree` and `RemainsAreFound`), `NothingUnderAnAccount` (`Accounts`); `InvitesSettle`, `ClaimsAreCovered` (`Rooms`); `OrderIsNothing`, `NothingComesBack` (`Timeline`); `SealedIsOneBody`, `WorkIsKept`, `KeyStaysSecret` (`Uploads`); `WhatIsKeptOpens`, `InboxKeyIsKept` (`KeyBackup`) |
| `login_twice` | one caller logs in to one account twice, nothing fails | TLC finds `SessionHasStore` violated (below) |
| `room_keys` | five scenarios for a room of one or two others and two calls: members change, the key ages, requests fail, the period is edited, the program stops | `MessagesMeetTheRoom`, `WaiterIsWoken`, `FreshIsKept`, and `WorkIsDone` (liveness) |
| `logout_gate` | one device, whose user makes a recovery key before the backup is switched on, and logs out | TLC finds `GateKeepsHistory` violated (below) |

`server_dir` takes five modules whose state, as modelled, is disjoint, and `requests` two:
interleaving them shows nothing, so each behaviour moves one of them (`part`).

### Bounds

* Queues and inboxes hold one or two packs: full and empty both happen, and a queue of one
  is where a sender meets a writer that has stopped.
* `Attempts = 2` and `JunkBudget = 1` or `2`: a resend, and a row of bad frames that ends
  the line or is interrupted by a good one.
* `SeqHalf = 4`, and the instances stay on the first lap of line numbers (`OneLap`): a lap
  is 2^31 requests on one line, and a question would have to outlive it. The proofs assume
  the same lap.
* Session numbers are not repeated in 2^56. `IdIsFree` is weaker: a number may come back
  as soon as the last pack of the session before it was dispatched, although its handle is
  still held.
* `MaxSession`, `Rounds`: two sessions are one replacement, and one round of the keeper is
  one stale pool. A keeper, a login, a command, two lines and two sessions together have
  more than seven million states, so `Starts` lets an instance have the login or the keeper.
  Commands repeat without bound.
* `Pools`, `Slots` are identities that are used again when unreferenced; there are more
  than can be in use, so `NewPool` and `NewSlot` always exist.
* `MaxPush`: one request is pushed up to twice, so that it is queued or on the wire twice, the
  other once; both twice are too many states beside a second line. `MaxLine = 2`: the line is
  opened, may close and is opened again, with requests of the first still waiting. The theorems
  have neither bound.
* `Faults`, `Crashes`, `Reads` bound what goes wrong; `Last` bounds the items queued. One
  fault and one crash reach every pair of adjacent steps of an import; two keys and windows
  of one item make a catch-up continue, and hit `PullWindows`.
* `Chunks`, `N`: of two chunks, one is the last and one is not. A third handler would meet
  the same two places as the second; a third caller the same queue. `MaxUpsets = 2`: of faults,
  GETs, cancels and stops any two meet in one run of `jobs`. `MaxFaults` is one in
  `jobs`, where a fault ends a job or repeats its chunk, and two in `seeks`, where a bad
  reply counts only when it comes twice.
* `Size = 4`, `Seg = 3`, `Chunk = 2`: a chunk that ends inside a segment, a segment that two
  chunks fill, and a last segment that is short. Each case of `media_files` puts a stop beside
  one kind of upset (a failed write, a sweep or removal, a lost table), so the stop meets every
  pair of adjacent steps; `reads` bounds how often a complete file is opened, and `jobs` of two
  is a download that goes on with what the first left.
  What a second stop or fault would add is in the proofs, which have no such bound. `MaxId`
  and `MaxCells` bound rows and seek cells; they stay parameters of the theorems.
* `Uploads`: of two chunks one is resumed after. Three or four callers are one that breaks
  off, one that resumes, one beside it and one that posts; two at a time are what the one PUT
  at a time is about. Each scenario bounds the starts, ends, sweeps and losses.
* `Rooms` and `Daemon` choose a scenario (`RoomCases`, `Cases`): how often each thing may
  happen, or what each client may say. All of them at once are too many; each scenario puts together what
  meets at one place of the code. Windows hold two events, the channel of a connection one
  frame (64 in the code), the broadcast one event (256): full comes at once.
* `Accounts`: two accounts make one the last of its server or not. Two logins and two
  leavings are a login after, over and beside a logout; one fault or one stop meets every
  step, and two tasks are one that began before a step and one that began after it.
* `KeyShare`: two members besides this account give four versions, so one may be left and
  come back; two calls are a send that waits while a refresh or another send changes what is
  prepared. Each scenario of `Cases` bounds the changes, sends, refreshes, faults.
* `KeyBackup`: two devices are one that has the keys and one that wants them. Each scenario
  bounds logins, lines, commands, faults, stops and versions; two private keys (three in the
  code) are one that is written and one that is not yet.
* `Timeline`: six events are a message, three edits and two redactions, so that a fall back
  to an older edit has one to choose. Scenarios of longer rooms say nothing new, since an
  edit concerns one row.

Deadlock is checked for `LinkPool`, where it is a question of its own. The other modules come to rest (a closed line; everything pushed and read), so their
configurations say `CHECK_DEADLOCK FALSE`, and liveness properties say what must not stop.

### Fairness

* `WsLink`: weak fairness of each caller's own steps, the writer, the reader, the pulse and
  `shut_down`: tokio runs what is ready, and timers fire. Nothing is assumed of the server,
  the network, the owner or a caller that has not started.
* `LinkPool`: strong fairness of each command, the keeper, the owner and the watcher's
  close. A step that waits for a lock is enabled again and again while others come and go;
  tokio's `RwLock` and `Mutex` queue first come first served, so it gets its turn. The
  model lets the lock choose among those who wait, which allows every order a queue does.
  A command that has a line ends some day (requests time out); nothing has to begin.
* `KeySync`: weak fairness of the three tasks and of the server's telling of a gap. Opening
  the line again is part of the keys task: the keeper comes by every 15 seconds. Faults and
  crashes are bounded, so in the end nothing fails.
* `Downloads`, `ChunkFlight`: weak fairness of the handlers, of a caller between its two
  locks, of the sender and of the end of a handler; strong fairness of a request's coming
  back, which waits while the handler is busy: the line answers, fails or times out
  (`LinkRequests`). Nothing is assumed of who asks, seeks, cancels or stops.
* `Daemon`: weak fairness of every step of the server at a connection. What clients say is
  bounded, so a connection that is neither left nor closed rests. A client reads: a writer
  that is stuck for ever in a full socket is not modelled.
* `KeyShare`: weak fairness of the background (it has a timer for its retries) and of the
  opening of a line, which the keeper tries every 15 s. Calls may stop anywhere; faults are
  bounded.
* `MediaStore`, `Uploads`, `Rooms`, `Timeline`, `Accounts`, `KeyBackup`: none. Their properties are safety; `InvitesSettle`
  speaks of states in which nothing is under way.
* `LinkRequests`: weak fairness of the sender's loop (it wakes every `check_every`), of the
  waiter tasks and of the clock. The line, the server and the owner may stop.

### Where code and documents disagree

Each of these came up while modelling: TLC has a run of the model for it as soon as the
exception named in a property, a bound or a fairness is taken away. The properties are
worded, or the instances bounded, so that the rest can be checked.

Lines, requests and downloads:

* `link_keeper.rs:2` says that an open subscription line is one that receives. A command or
  a keeper's round that took its pool before a login's `close_links` opens the keys line in
  the pool that is no longer registered; its `init_keys` (`key_sync.rs:240`) replaces the
  task handle of the *account*, so the task that follows the live line is aborted. That line
  stays open, the keeper sees it alive, and nobody reads it. `LinkPool` marks the other
  line `stray`.
* A caller that is dropped inside `send` or `request_with_policy` (`link.rs:284`) leaves its entry
  in the table until the line ends: `NoOrphanEntry` leaves it out.
* A line that is opened again numbers from the start, and the wire table is keyed by number alone
  (`link_requests.rs:186`). The waiter of a request of the closed line that has not run until a
  request of the new one is entered under the same number finds, or has lost, the other's
  entry: one of the two is handed back with a result that is not its own, or never.
  `ExactlyOnce` and `ResultsAreReal` leave out the requests that met so (`crossed`); without
  that TLC finds them violated.
* `media-download.md` §5.4 says that only what is out lands after a cancel
  (`download_queue.rs:912` says that it takes effect after a chunk has landed). The flag is looked
  at before a read of the disk (`download_queue.rs:913`, `938`), and `want` comes after it (`950`);
  a cancel in between is answered, and then one more chunk is asked for. `CancelStops` says that
  it is at most one.
* `download_queue.rs:1025` says that the failure of a request that only a GET waits for is
  the GET's alone, `media-download.md:281` that playing never blocks a download. A GET plays
  a file that is not downloaded: its chunk is out when a job opens the file and asks for
  `Info`. The chunk is back first, cannot be decrypted yet, and `chunk_arrived`
  (`download_queue.rs:1166`) takes the `Usage` error for a bad file: the job fails and the
  pending file is deleted.
* A caller that joins a job in the moment after its end waits for ever
  (`download_queue.rs:830`): `EveryoneIsTold` leaves out `late`.
* A handler aborted while it records a finished file keeps its claim
  (`download_queue.rs:1442`): `ClaimsMeetWork` speaks of handlers that live.
* `media-pool.md:54` protects what was used in the last seven days. A file just adopted is
  named by no row until `media_finish` ran (`download_queue.rs:1508`); a sweep in between
  takes it for an orphan and removes it (`media.rs:724`), and the job fails, or the row
  names a file that is not there (the size is asked for before the row's write is queued). The
  next `open_complete` or sweep puts such a row back. `BytesAreKept` speaks of files that a
  second row shows.
* `media_pool.rs:51` says that a file with an open handle is not deleted. `open_read` enters its
  handle at the end (`media_pool.rs:254`), and the four places that delete ask `is_open` first and
  unlink afterwards (`media.rs:478`, `648`, `725`, `media_ops.rs:926`): a file may go under a reader
  that opened it meanwhile. It reads on from its handle where an open file can be unlinked.

Uploads:

* `data-plane.md:196` says that a stream which broke off is refused (400). The chunk that the
  broken PUT sent last may be handled after the Status of the next one: the first chunk on the
  server is then of the old body, the server acknowledges the new first chunk as a repetition,
  and the file is of two bodies under a hash of one. `SealedIsOneBody` leaves out `overtaken`.
* `data-plane.md:427` and `attachment_ops.rs:327` keep what an earlier round was told of a cut.
  `send_chunks` overwrites it with each Ack (`upload.rs:160`) and `upload_with_account` does not
  take it from `Status` (`upload_ops.rs:249`): the warning of a cut is lost on resume.
  `SealedIsOneBody` speaks of the cut of PUTs only.
* `misc_ops.rs:499` names the danger of a state file for an upload that the server has
  forgotten. A command that ends between `Seal` and the removal (`upload_ops.rs:301`), a lost
  answer to either and a sweep leave one; every later command for the file then ends at Status
  until the state file is deleted by hand.
* Two commands for one file at a time make two uploads and one state file, whose removal by the
  one takes it from the other: `WorkIsKept` speaks of commands that are `alone`.
* `upload_ops.rs:81` says that the wish is compared with the room as it is at this moment, and
  line 115 that the block is compared again afterwards; the second comparison is with the
  answer from before the upload. A room that becomes encrypted during it gets the event in the
  clear (without a key: `KeyStaysSecret`).

Keys and messages:

* `key_sync.rs:12` says that each batch opens the messages it brings keys for at once. A
  catch-up that ends in an error, or at `PULL_WINDOWS_LIMIT`, drops the report of the
  windows already committed (`crypto_engine.rs:646`): their messages stay sealed until the
  next read of the room (`cutShort`).
* `e2ee-rpc.md:182` says that an opened message is announced again under the same event id
  and the UI takes it as an update. `on_push` commits the ciphertext and announces it
  afterwards (`room_sync.rs:371`); between the two the keys task may open, store and
  announce it. The sealed notice is then the last.
* `e2ee-rpc.md` §3 and `key_share.rs` say that a ready key was handed out for this version
  of the room. `encrypt_and_send` looks only at the key. Between the look at its readiness
  and the encryption it opens a line, and the background may meanwhile hand the key out for
  another version (a want that was overtaken, a version that came back): the message is
  taken by the server for one set of members and encrypted for another.
  `MessagesMeetTheRoom` leaves those messages out (`clean`).
* `e2ee-rpc.md:111` says that a key which the background replaces between check and
  encryption is noticed. Only none and expired are: a new key whose copies are not
  acknowledged is used. Also left out by `clean`.
* The newest want handed in wins, not the one for the newest version: the want after a send
  may undo that of a refresh, and who waits for the newer version gives up after two seconds.
  `WaiterIsWoken` speaks of a background at rest.

Rooms and events:

* `invites.rs:7` says that a round never undoes a push. Two rounds at once share what was pushed
  since the first began (`invites.rs:23`). A round that the UI owes, after a gap or a new line, and
  that begins while another is open, passes over the rooms that were pushed during that other
  one: if what was lost was about them, nobody makes up for it. `InvitesSettle` leaves out
  these rooms (`spilt`); without that TLC finds it violated. In all other rooms, and when the second
  round was not owed, rounds at once do no harm.
* `room-actions.md:258`: when the local inbox overflows (`client.rs:152`), the gap is told
  with a push that was queued earlier, the UI's round may be over before the pushes queued
  behind it are read, and an invite that ended meanwhile is listed again (`spilt`); so too
  when the push that is dropped was the one that told of an earlier gap.
* What `record_locally` and `room.list` write is ordered against no push (`stale`); a gap
  told with a push whose write fails is lost, and with it every room until a round begins that
  is newer (`stale`, `asOf`); two `recent` of one account at a
  time may set the watermark back.
* The first edit of a message does not win if its time is negative (`cache.rs:2790`:
  `(ts, id) > (0, NULL)` is not true), and two edits of one millisecond are ordered by their
  ids in the cache but by their place in a page that is not stored (`event_json.rs:563`;
  `Ties`). `edits-and-redactions.md` §5 has one order.
* `read-receipts.md:66`: with events that have a number and others that have none,
  `IS_AFTER_WATERMARK` is not transitive.

* `edits-and-redactions.md:30` and `:83` say that an edit or a redaction waits until its target
  is there. `forget_account` (`cache.rs:2402`) deletes a target nobody else was given and leaves
  the edits and redactions of it, which others have, marked as applied: when the message comes
  again, for another account, they are not applied to it. Likewise a message whose current edit
  goes shows the older text, or that it is outdated, though a valid edit is there. (`torn`.)

Accounts:

* `login_ops.rs:193` and `:149` (run `login_twice`): no account is left logged in without a key
  store, and what a failed login deletes is what it made itself. A login of an account that is logged
  in already finds the old device's store in place, cannot open it for the new device, deletes
  it, and revokes the new token. The old session stays and has no store; the engine that is
  opened next makes new identity keys for the old device.
* `login_ops.rs:165` says that a directory whose name does not match the server's spelling is
  moved. A login to a wbf server has not made one yet, so the rename fails and every login in
  another spelling is refused (`Move`).
* `session_ops.rs:72` says that destroy leaves nothing. Rows and recovery keys that a command writes
  while it runs stay (`stay`): the rows if another account keeps the cache, the recovery key in any
  case, for whether there is one is looked up at the start.
* When the answer to the HTTP logout is lost, or the program stops before `session.sealed`
  is deleted, the session stays though its device is gone (`dead`). Logout and
  destroy then end at the server's refusal of the token (`session_ops.rs:297`), though
  `session_ops.rs:84` says that destroy can be run again; two logins, of which the first fails as
  above, get out of it.

Identity and backup:

* `session_ops.rs:354` (run `logout_gate`): the gate of logout makes sure that something here
  opens the backup afterwards. For a wbf account it only looks for a recovery key in `r/`.
  A recovery key that was made before the backup has not the backup's key under it, a second
  one is refused, and nothing adds the key later: the last copy goes with `m/`.
* `identity_ops.rs:53` says that cross-signing which failed is set up again when the keys line
  reopens. If the identity was uploaded and its signatures were not, the next line finds the
  identity on the server and the private key here, and reports that all is set up
  (`cross_signing.rs:77`): this device stays unsigned until a restore signs it.
* `secret_storage.rs:49` refuses a second recovery key. Two devices that make one at a time
  both pass; `put_secret` reads and writes back, so one may lose its share of a secret, and the
  default key may be the one that lost it (`overlap`).

RPC:

* `server.rs:251` and `handle/mod.rs:168` say that the notice of a shutdown comes after its
  answer. Another request's task may start the broadcast first, and then the notice
  overtakes or replaces the answer; `main` returns right after the broadcast.
* `rpc-spec.md:57` says that all replies are encrypted while encryption is enforced. One that
  was sealed in clear before the switch may be sent after the encrypted answer to
  `set_encryption`. `rpc-spec.md:61` says that a clear request has a clear answer: the type
  of the frame received last decides.
* A job's id is the id its client chose for the request. Two connections with one id get
  each other's progress; the same id twice on one connection loses the second job's
  progress with the first answer; and progress still in the ring when its job ends is
  dropped without the notice that `rpc-spec.md` §4 promises for what is dropped.
* The same promise (`rpc-spec.md:458`: a `desync` for whatever was dropped) begins late: the push
  task of a connection subscribes to the events once it runs and has the core (`server.rs:288`),
  and the reader may have answered a `subscribe` before that. An event in between is neither pushed
  nor told to be missing. `MissedIsTold` counts from when the task listens.

## 4. The proofs

From the assumptions on the constants that the modules state (`CallSets`, `Headers`,
`Limits`; `Bounds`; `Shapes`; `RoomShapes`; `Spellings`; `Sizes`, `Nothing`), and for any number of
callers, files, queue sizes, attempts, keys, faults:

| Theorem | Says |
|---|---|
| `TypeCorrect`, `KeysTyped` | `[]TypeOK` of `WsLink` and of `KeySync` |
| `NobodyWaitsOnAClosedLine` | `[]NoWaiterAfterClose` |
| `NoEntryIsForgotten` | `[]NoOrphanEntry` |
| `RepliesReachTheirAsker` | `[]OwnReply` |
| `LineKeepsContract` | every behaviour of `WsLink` is one of `RequestContract` |
| `SessionsGetWholePacks` | `[]PacksAreWhole` |
| `ResultsAreOwn`, `NothingIsLost` | `[]ResultsAreReal` and `[]ExactlyOnce` of `LinkRequests` |
| `NobodyMissesInSilence` | `[]MissedIsTold` of `Daemon` |
| `PoolInvariant`, `LocksAndTypes` | the inductive invariant of `LinkPool`, and its `[]TypeOK` |
| `NoLineOfAnOldSession` | `[]NoOldLine` |
| `LiveLinesAreKept` | `LiveLineIsKept` |
| `NoKeyIsLost` | `[]DestroyedIsStored` |
| `OpenIsForGood` | a message that is open in the cache stays open |
| `KeysMeetMessages` | `[]MessageMeetsKey` |
| `OneDownloader`, `JobsGoOn` | `[]ClaimsMeetWork`, `[]JobIsAsked` of `Downloads` |
| `CancelIsHeeded` | `[]CancelStops` of `Downloads` |
| `StoredBytesAreRight`, `NoNonceTwice` | `[]BytesAreRight`, `[]NonceOnce` of `MediaStore` |
| `StoredBytesAreKept` | `BytesAreKept` |
| `WhatIsSealedIsTheBody`, `WorkIsFound`, `KeysStaySecret` | `[]SealedIsOneBody`, `[]WorkIsKept`, `[]KeyStaysSecret` of `Uploads` |
| `MessagesAreForTheRoom`, `NoWaiterIsMissed` | `[]MessagesMeetTheRoom`, `[]WaiterIsWoken` of `KeyShare` |
| `FreshKeysAreKept` | `FreshIsKept` |
| `StorageOpens`, `InboxKeysAreSafe` | `[]WhatIsKeptOpens` and `InboxKeyIsKept` of `KeyBackup`, for finitely many devices |
| `RoomTypes` | the typing of `Rooms`, and who waits for which write |
| `WhatIsClaimedIsThere` | `[]ClaimsAreCovered` of `Rooms` |
| `InvitesAreSettled` | `[]InvitesSettle` of `Rooms` |
| `AccountsStayWhole` | `[]AccountsAreWhole` |
| `NothingGoesFromUnderAnAccount` | `NothingUnderAnAccount` |

No theorem bounds the lines, rounds, crashes or faults. What a property leaves out is named in it,
by a history variable that holds only those who met what section 3 tells of (`crossed`, `late`,
`overtaken`, `alone`, `clean`, `stale`, `spilt`).

### The line

`NoWaiterAfterClose` is inductive with the typing: a caller registers before it looks at
`closed`, and `shut_down` seals before it drains. `NoOrphanEntry` follows from
`EntriesOwned` (who has an entry and is not at work was dropped).

`OwnReply` is not inductive. `Correlated` is: every line number was given once (`Numbered`),
every pack on the wire or in the reader's hand bears the header of the call it answers, and
that call has begun (`OnTheWire`), and what is in a slot came from such a pack
(`SlotsOwned`). `FoundIsAsker` is the heart: by `Headers` and `Numbered`, an entry that
`find_key` picks for such a pack belongs to the asker, or to one that resends the same chunk.

`LineKeepsContract` needs `Settled` besides: a call has a result exactly when it
is past waiting, and what was asked on a closed line never reaches the queue or the server. Each action of
`WsLink` is then a step of the contract or a stutter (`StepKeepsContract`).

`PacksAreWhole` needs, with the typing and `Correlated`, `SessionsWhole`: as long as a session
has its entry and its handle, what was dispatched and what is still on its way, in the
reader's hand or behind it, is all that was sent to it, in this order (`InOrder`); and while
it has its entry, nothing is on its way to an earlier or a refused session of its id
(`Apart`). The order of a sequence is said by places and numbers, so that no count over a
sequence is needed.

`ResultsAreOwn` needs that the numbers on the wire and of
the waiters were given out by the line (`Numbered`), one waiter each (`OneWaiterEach`), that the
request being recorded is not in the table yet (`InHand`), and some request on the wire has
been there since something was last heard (`Waited`). `ExactlyOnce` follows with where the
sender is (`InPlace`). The two counts of a request, in the queue and on the wire, are lemmas of
their own; `Retain` orders what stays by its rank, and is shown to keep the counts of the others.

### The lines of an account

`NoOldLine` speaks of the times when no login or logout runs, and is far from inductive: what
it needs is said of every step of one. `PoolInv` has a part for each reason. What an actor has in
hand follows from where it is (`HandsAreKnown`), and so do the stages of the owner
(`OwnerIsKnown`). The last reference takes the line with it, so nothing is behind a slot that nobody
reaches (`UnreachedIsEmpty`): a slot that is new in a pool is empty, and its identity may have
been used before. Every live line that is not stray is where `close_links` looks
(`LivesAreFound`): in the registered pool, in the one being emptied, or among the slots being
closed. And what is found there is of the session in use, as is what an opener is about to put
there (`FoundIsCurrent`) – except after `LeaveSession` and `SealSession`, until the registered pool is
unregistered: that is the second sweep, without which a line opened between the first one and
the change of the session would stay. With the owner idle, the last two parts are `NoOldLine`.

Most steps leave all this alone: `OwnerStaysOrActs` says that whoever is not the owner changes
neither the session nor a slot that is found, `SlotsStep` that a pool gets no slot that is known
elsewhere, and `LinesStep` that only `Connect` makes a line alive, `ConnectsStep` with which session.
`FoundStep` and `CurrentStep` then look at the owner's ten actions alone.

`LiveLineIsKept` needs `LocksHold`: who opens a line is alone with it and finds none alive, so
`Connect` and a failed opening take none from a user; `WhoLetsGo` lists the eleven actions that can
take a line away, and `LetsGo` what each does. `TypeOK` needs `DoorsHold` besides: the
opener's mutex is held from the second look to the end of the opening. TLC has checked
`PoolInv` on the instance of `pool_lines`.

The guards of `RegisterPool` and `TakeSlot` that an identity is left are bounds of the model: in
the run they never bite, and the theorems hold for any number of identities.

### Keys and messages

`DestroyedIsStored` needs `CommittedFirst`: what is on the list of destroyable items, and
the batch between import and save, is in the store.

`MessageMeetsKey` speaks of a state of rest; `MeetInv` of every state. While nothing fails, the
keys task works on a line that is up (`LineStays`), and a message that is sealed though its key
is there has somebody who comes to it (`AllOpened`): the keys task, which still has to come to
the key; the push, which looks once more after it has stored; or who has it on a list. Each
step that takes one of these from a message leaves it another, or opens it.

`KeyShareInv` says what the task holds at each step (`TaskInv`), whom a session is for
(`ShapedInv`), that what a call has checked of the key holds until it has encrypted
(`CleanInv`), and that a key which is ready while somebody waits for it comes to a wish whose
round is still to end (`WaitInv`): the end of the round wakes who waits. `FreshIsKept` is a
property of steps from such states.

### Downloads and uploads

The theorems of `Downloads` share `ClaimInv`. `ClaimsMeetWork` alone is not
inductive: that finishing a file may close it and keep the claim needs the file open where
the job is at work (`OpenThere`) and closed where it is not (`ClosedThere`), and a file is
closed for want of a job only if no request is out for one (`NotRunning`, `NothingOut`,
`RunningIsOut`). `CancelStops` is
inductive with `ExtraInv`: after a cancel a handler has at most one chunk ahead of it, out or about
to be asked for, and none once one has landed.

`UploadsInv` has a part for each theorem. `KeyInv`: who is about to post holds a block that fits
the room as it was when it was asked, and a room that was encrypted stays so. `WorkInv`: while
commands run one at a time, an open upload that the state file does not name has no chunk, and
no request on its way would bring it one. `BodyInv`: an upload of a file or of a body that can be had
again has its chunks in order, whoever sent them; one of a stream has the chunks of the one call
that is at it (`StreamIsOwn`, `OneReceives`), unless it was overtaken; and a PUT or a stream
knows of the server's limit what the chunks it sent have met (`PutKnows`).

### The media store

`Downloads_proofs` holds both halves of a download: who may write the file, and what is written.
`StoreIsSound` proves `StoreInv`, for any number of files, any sizes of files, segments and
chunks, and any number of faults and stops. Its parts:

* `IdsAreOwn`: an id belongs to one file, and a download works under the id its row had;
* `PendingIsSound`: each record of a pending file opens to its owner's segment of that number
  or not at all; one that does not open was not synced, or is the last that was; and after a
  short segment nothing is written. A stop that cuts or damages the file leaves it so
  (`DamagedIsSound`);
* `JobsGoWell`: what a download relies on at each step. When it is open, the segments and the
  buffer are its content up to `PlainLen`, and it numbers its next seek cell behind those of
  the file; when it is finished, the hash it has is that of the `Whole` file;
* `PoolIsWhole`, `HashesAreRight`: a complete file has the content of its name and is synced,
  a row has the name of its own file's content;
* `BasesAreOwn`, `SealedIs`: each base is drawn once; under that of a pending file only its
  owner's segments were sealed, so a number that is sealed again is sealed with the same
  plaintext; under that of a seek file no number behind its end was, so a number is new.
  `NonceOnce` is inductive with these.

Sequences are cut and joined by lemmas on their places (`PieceCut`, `PieceAdd`, `Filled` for
the segments a chunk completes, `Ended` for the last one), with no induction: a piece is a
function of where it begins and ends. A step of one download changes one id only (`OwnStep`),
so the others go on as before (`OthersGoOn`). `BytesAreKept` is proved of steps from states of
`StoreInv`: a complete file leaves the pool when it is unlinked, some steps after the rows that name
it were counted (`Decided`, `ReferencesAre`: no step in between gives it a second row), and a
download becomes open in two actions (`OnlyOpening`), of which `OpenMain`
starts behind every synced record (`ResumedIs`).

### Accounts and what outlives a device

`AccountsAreWhole` speaks of the times when nobody holds the lock. `AccountsInv` says of every
step of a login, logout or destroy what it may rely on (`LoginHolds`, `LeaveHolds`): that the
device of a login is on the server and no session has it yet, that a directory which is being
removed belongs to nobody who is logged in, and so on; and says of devices, sessions and
stores what holds once the operation under way is counted in (`DevicesAreKept`,
`SessionsAreValid`, `StoresAreTheirs`). One operation at a time (`OneAtATime`) comes from the
lock, so each step of one leaves the others idle (`Moves`, `Halts`). `Spellings` has a caller and a
name differ from nobody. `Beneath` is the step that `NothingUnderAnAccount` promises.

`BackupInv`: keys and devices are numbered as they are made, and the key a store has is that of
the version it uploads to (`KeysAreMade`); an inbox is cleared after its key was saved
(`SavedFirst`); and unless two recovery keys were made at a time, what was read under a
name is what is there, and once there is a default key it has the private keys
(`OneCreates`). Most steps neither write to secret storage nor clear an inbox (`QuietStep`).

### Rooms and the daemon

`ClaimsAreCovered` is inductive with what is under way (`CoverInv`): a call of `recent` has what
is below its base, and what its windows gave up to where it started, but for the window that it
waits for (`PullIsCovered`); so a mark that is in the queue covers only what is there. A room with
a stored event that shows its encryption is down as encrypted: only a forget takes that back,
with the events, which are `waived` then.

`InvitesSettle` speaks of a state of rest; `SettleInv` of every state. For each room that is
neither `stale` nor `spilt`, either the cache agrees with the server or something is bound to
bring it there: a push or a round in the queue (`Later`), a push on the wire or in the task's
hand (`InWire`, `Marked`), a round that has begun (`Coming`), or a debt – a line that is to be
opened again, a gap that is still to be told, a round the UI owes (`Debt`). The same is said of
each push: the last of a room agrees with the server, or something comes behind it (`WireOk`,
`MarkedOk`, `QueueOk`). What it rests on:

* `PushOrder`: a write of the task of this line is behind all other pushes in the queue, and
  it waits for one at a time;
* `RoundInv`: `callers` counts at least the rounds that are open, however many at once, and
  `touched` is empty when it is zero;
* `AgeInv`: what is under way is from some moment, and shows the room as it is if nothing
  happened to the room since (`Dated`);
* `SnapsOk`: the snapshot of a round shows the room as it is, or is older than one that was
  written, or a newer push of the room was taken or is on the wire, or a newer snapshot that
  shows it comes behind (`Outdone`), or there is a debt;
* `WireInv`: while a snapshot is under way, each push on the wire is of a room that the snapshot
  shows, or is newer than the snapshot, or one behind it is, or a gap is still to be told
  (`Behind`): so a push that is taken late hides no room from a round that would put it right.

The proof has a lemma per action. Two of the steps failed at first, and the model was wrong:
a gap that is dropped with its push, and one whose write fails, leave rooms out of date that
the ghosts `spilt`, `stale` and `asOf` did not name.

`MissedIsTold` is inductive with what a connection is due: events that were sent, and that it
still wants (`DueIsSent`, `DueIsWanted`). Those before the place from which its push task reads
on are carried by something on the way to the client, the event itself or a desync over it;
each step leaves a carrier where it is or hands it on, from the task to the channel and from
there to the socket (`HandingOver`), and when the ring has overrun the task, the desync spans
all that it skips.

### Only model-checked

* Everything about liveness: `NobodyIsStuck`, `EveryoneEnds`, `EveryKeyArrives`, `ComesBack`,
  `EveryoneIsServed`, `EveryoneIsTold`, `WorkIsDone`.
* `Timeline` (`OrderIsNothing`, `NothingComesBack`) computes what is shown by folds over a set of
  events and over a page. That needs induction over data, which the installed provers do
  not do; no proof here uses it.
* `ChunkFlight`, whose one property is liveness.
* The two runs that find a violation.

## 5. What is not modelled, and what would come next

The components that `PROJECT.json` lists as not modelled are codecs (wire, protocol, events),
an adapter of a library (the HTTP backend), and parsing and printing (command line). They are most of the lines that no definition maps. Of the components
that are partly modelled, the notes in `PROJECT.json` say what is left out.

Next would be: the file locks of a data directory with a second process; the handover of the
keys task within `KeySync` (`to_device_state.rs:41`), the start of a line within `WsLink`
(`link.rs:177`).

`RECURSIVE` operators stay out of every module that is proved about.
