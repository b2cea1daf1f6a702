-------------------------------- MODULE KeySync --------------------------------
(***************************************************************************)
(* How an encrypted message and its room key meet, on one account.  Keys   *)
(* come as to-device items over the keys line (wbf-core/src/key_sync.rs,   *)
(* wbf-sdk/src/crypto_engine.rs), messages over the rooms line             *)
(* (room_sync.rs), and both end in the cache and at the user interface     *)
(* (room_crypto.rs).                                                       *)
(*                                                                         *)
(* The queue of items on the server is the watermark: an item stays in it  *)
(* until it is destroyed by name.  A batch of items is imported into the   *)
(* crypto store, written to the list of what may be destroyed (td.json),   *)
(* destroyed on the server and taken off the list, in this order; a pushed *)
(* batch and a fetched one take the same way.  Then the stored messages of *)
(* every new key are opened.                                               *)
(*                                                                         *)
(* An item is its count, and stands for the room key it carries.           *)
(***************************************************************************)
EXTENDS Naturals, Sequences, FiniteSets

CONSTANTS
  Last,         \* bound: items the server ever queues
  Messages,     \* encrypted messages of the account's rooms
  KeyOf,        \* the key of each message
  Window,       \* items in a window of Device/Fetch
  PullWindows,  \* PULL_WINDOWS_LIMIT
  InboxSize,    \* the inbox of the subscription
  Faults, Crashes, Reads   \* bounds: what may fail, how often the daemon stops, how often the UI reads

Keys == 1 .. Last

ASSUME Shapes ==
  /\ Last \in Nat /\ KeyOf \in [Messages -> Keys]
  /\ Window \in Nat \ {0} /\ PullWindows \in Nat \ {0} /\ InboxSize \in Nat \ {0}
  /\ Faults \in Nat /\ Crashes \in Nat /\ Reads \in Nat

VARIABLES
  latest, queue, missed,    \* the server: items so far, those not destroyed, its gap flag
  live, inbox, overflowed,  \* the keys line, what waits in its subscription, the local gap flag
  store, toDestroy, cache,  \* on disk: the crypto store, td.json, cache.db
  mode, batch, fresh, more, windows, needsPull,   \* the keys task
  cutShort,                 \* history: a catch-up was given up at PULL_WINDOWS_LIMIT
  pc, wanted, found,        \* who opens stored messages, which, and what it found
  pushed, told, page,       \* messages pushed so far, what the UI was last told, the page it gets
  faults, crashes, reads

server == <<latest, queue, missed>>
keysLine == <<live, inbox, overflowed>>
disk == <<store, toDestroy, cache>>
importing == <<mode, batch, fresh, more, windows, needsPull>>
opening == <<pc, wanted, found>>
ui == <<pushed, told, page>>
bounds == <<faults, crashes, reads, cutShort>>
vars == <<server, keysLine, disk, importing, opening, ui, bounds>>

Openers == {"keys", "room", "reader"}
NoPage == [m \in Messages |-> "absent"]

GoTo(a, place) == pc' = [pc EXCEPT ![a] = place]
Fault == faults < Faults /\ faults' = faults + 1 /\ UNCHANGED <<crashes, reads, cutShort>>

----------------------------------------------------------------------------
\* The cache.

\* upsert_events: what is open stays open, a ciphertext is opened, nothing is
\* taken back.
Upsert(ms, how) ==
  [m \in Messages |-> IF m \notin ms \/ cache[m] = "open" THEN cache[m] ELSE how[m]]

\* What the engine can make of a message now (to_incoming).
Readable == [m \in Messages |-> IF KeyOf[m] \in store THEN "open" ELSE "sealed"]
AsSealed == [m \in Messages |-> "sealed"]

----------------------------------------------------------------------------
\* decrypt_stored: list what is sealed, open what can be opened, write it, and
\* announce it once it is written.

AfterOpening(a) == IF a = "keys" THEN "nextKey"
                   ELSE IF a = "reader" /\ page # NoPage THEN "reread" ELSE "idle"

List(a) ==
  /\ pc[a] = "list"
  /\ found' = [found EXCEPT ![a] = {m \in wanted[a] : cache[m] = "sealed"}]
  /\ GoTo(a, "open")
  /\ UNCHANGED <<server, keysLine, disk, importing, wanted, ui, bounds>>

Open(a) ==
  /\ pc[a] = "open"
  /\ LET opened == {m \in found[a] : Readable[m] = "open"} IN
       /\ found' = [found EXCEPT ![a] = opened]
       /\ GoTo(a, IF opened = {} THEN AfterOpening(a) ELSE "write")
  /\ UNCHANGED <<server, keysLine, disk, importing, wanted, ui, bounds>>

Write(a) ==
  /\ pc[a] = "write"
  /\ \/ /\ cache' = Upsert(found[a], Readable)
        /\ GoTo(a, IF a = "reader" THEN AfterOpening(a) ELSE "announce")
        /\ UNCHANGED <<found, bounds>>
     \/ /\ Fault
        /\ found' = [found EXCEPT ![a] = {}]
        /\ GoTo(a, AfterOpening(a))
        /\ UNCHANGED cache
  /\ UNCHANGED <<server, keysLine, store, toDestroy, importing, wanted, ui>>

\* room.message, once more for a message the UI knows: the UI takes the latest.
Tell(ms, how) == told' = [m \in Messages |-> IF m \in ms THEN how[m] ELSE told[m]]

Announce(a) ==
  /\ pc[a] = "announce"
  /\ Tell(found[a], Readable)
  /\ GoTo(a, AfterOpening(a))
  /\ UNCHANGED <<server, keysLine, disk, importing, wanted, found, pushed, page, bounds>>

OpenStored(a) == List(a) \/ Open(a) \/ Write(a) \/ Announce(a)

----------------------------------------------------------------------------
\* The server and the line of the keys.

Receive(pack) == IF Len(inbox) < InboxSize
                 THEN inbox' = Append(inbox, pack) /\ UNCHANGED overflowed
                 ELSE overflowed' = TRUE /\ UNCHANGED inbox

\* A new item: queued, and pushed to the line that is subscribed, or dropped
\* because that line is slow: then the next pack says so.
QueueItem ==
  /\ latest < Last
  /\ latest' = latest + 1
  /\ queue' = queue \cup {latest + 1}
  /\ \/ ~live /\ UNCHANGED <<missed, inbox, overflowed, bounds>>
     \/ live /\ Receive([items |-> {latest + 1}, gap |-> missed]) /\ missed' = FALSE
             /\ UNCHANGED bounds
     \/ live /\ Fault /\ missed' = TRUE /\ UNCHANGED <<inbox, overflowed>>
  /\ UNCHANGED <<live, disk, importing, opening, ui>>

\* CryptoState carries the gap flag too.
TellGap ==
  /\ live /\ missed
  /\ Receive([items |-> {}, gap |-> TRUE]) /\ missed' = FALSE
  /\ UNCHANGED <<latest, queue, live, disk, importing, opening, ui, bounds>>

\* The line dies, or another connection took the subscription over (1505).
LineEnds ==
  /\ live /\ Fault
  /\ live' = FALSE /\ missed' = FALSE
  /\ UNCHANGED <<latest, queue, inbox, overflowed, disk, importing, opening, ui>>

----------------------------------------------------------------------------
\* The keys task (pc["keys"]).

\* Mutant: a local loss is cleared and not pulled for.
WaitUnaware(pull) ==
  /\ GoTo("keys", "wait")
  /\ needsPull' = pull /\ overflowed' = FALSE
  /\ fresh' = {} /\ batch' = {} /\ more' = FALSE /\ windows' = 0
  /\ UNCHANGED <<mode, live, inbox>>
\* Where the loop of the task waits; a local loss is seen when it comes by.
Wait(pull) ==
  /\ GoTo("keys", "wait")
  /\ needsPull' = (pull \/ overflowed) /\ overflowed' = FALSE
  /\ fresh' = {} /\ batch' = {} /\ more' = FALSE /\ windows' = 0
  /\ UNCHANGED <<mode, live, inbox>>

StartPull ==
  /\ GoTo("keys", "fetch")
  /\ mode' = "pull" /\ needsPull' = TRUE
  /\ fresh' = {} /\ batch' = {} /\ more' = FALSE /\ windows' = 0
  /\ UNCHANGED <<live, inbox, overflowed>>

\* pull: only on a line that is open (reuse).
PullIfNeeded(pull) == IF pull /\ live THEN StartPull ELSE Wait(pull)

\* The line was not opened after all, or the task is over and closes it.
SwitchOff ==
  /\ GoTo("keys", "off")
  /\ live' = FALSE /\ inbox' = <<>> /\ overflowed' = FALSE
  /\ needsPull' = FALSE /\ fresh' = {} /\ batch' = {} /\ more' = FALSE /\ windows' = 0
  /\ UNCHANGED mode

\* import_items or a window failed; what the batch brought so far is not told.
Fail == \/ mode = "init" /\ SwitchOff
        \/ mode = "pull" /\ Wait(TRUE)
        \/ mode = "push" /\ PullIfNeeded(TRUE)

\* The keeper opens the line: Subscribe, then catch up, then the task.
OpenLine ==
  /\ pc["keys"] = "off"
  /\ live' = TRUE /\ mode' = "init"
  /\ GoTo("keys", "fetch")
  /\ UNCHANGED <<server, inbox, overflowed, disk, batch, fresh, more, windows, needsPull,
                 wanted, found, ui, bounds>>

\* Device/Fetch without a cursor: the oldest that are left.
Oldest == {k \in queue : Cardinality({j \in queue : j < k}) < Window}
Fetch ==
  /\ pc["keys"] = "fetch"
  /\ \/ /\ live
        /\ batch' = Oldest /\ more' = (queue # Oldest)
        /\ windows' = windows + 1
        /\ GoTo("keys", "import")
        /\ UNCHANGED <<keysLine, mode, fresh, needsPull, bounds>>
     \/ ~live /\ Fail /\ UNCHANGED bounds
     \/ live /\ Fault /\ Fail
  /\ UNCHANGED <<server, disk, wanted, found, ui>>

\* Mutant: an import that failed goes on like one that did not.
ImportAnyway ==
  /\ pc["keys"] = "import"
  /\ \/ /\ store' = store \cup batch
        /\ fresh' = fresh \cup (batch \ store)
        /\ UNCHANGED bounds
     \/ Fault /\ UNCHANGED <<store, fresh>>
  /\ GoTo("keys", "save")
  /\ UNCHANGED <<keysLine, mode, batch, more, windows, needsPull>>
  /\ UNCHANGED <<server, toDestroy, cache, wanted, found, ui>>

\* receive_to_device: committed when it returns.  An item that comes again
\* brings no new key.
Import ==
  /\ pc["keys"] = "import"
  /\ \/ /\ store' = store \cup batch
        /\ fresh' = fresh \cup (batch \ store)
        /\ GoTo("keys", "save")
        /\ UNCHANGED <<keysLine, mode, batch, more, windows, needsPull, bounds>>
     \/ Fault /\ Fail /\ UNCHANGED store
  /\ UNCHANGED <<server, toDestroy, cache, wanted, found, ui>>

\* mark_processed and save.
Save ==
  /\ pc["keys"] = "save"
  /\ \/ /\ toDestroy' = toDestroy \cup batch
        /\ GoTo("keys", "destroy")
        /\ UNCHANGED <<keysLine, importing, bounds>>
     \/ Fault /\ Fail /\ UNCHANGED toDestroy
  /\ UNCHANGED <<server, store, cache, wanted, found, ui>>

\* ItemsDestroy, the whole list: the server destroys, and says so, or not.
Destroy ==
  /\ pc["keys"] = "destroy"
  /\ \/ /\ live
        /\ queue' = queue \ toDestroy
        /\ GoTo("keys", "mark")
        /\ UNCHANGED <<keysLine, importing, bounds>>
     \/ ~live /\ Fail /\ UNCHANGED <<queue, bounds>>
     \/ live /\ Fault /\ Fail /\ queue' \in {queue, queue \ toDestroy}
  /\ UNCHANGED <<latest, missed, disk, wanted, found, ui>>

\* mark_destroyed and save.  On to the next window, or to the new keys.
Mark ==
  /\ pc["keys"] = "mark"
  /\ \/ /\ toDestroy' = {}
        /\ \/ /\ ~more
              /\ GoTo("keys", "nextKey")
              /\ UNCHANGED <<keysLine, importing, cutShort>>
           \/ /\ more /\ windows < PullWindows
              /\ GoTo("keys", "fetch")
              /\ UNCHANGED <<keysLine, importing, cutShort>>
           \/ more /\ windows = PullWindows /\ Fail /\ cutShort' = TRUE
        /\ UNCHANGED <<faults, crashes, reads>>
     \/ Fault /\ Fail /\ UNCHANGED toDestroy
  /\ UNCHANGED <<server, store, cache, wanted, found, ui>>

\* decrypt_what_the_keys_open: one new key after another.
OpenNextKey ==
  /\ pc["keys"] = "nextKey"
  /\ \E k \in fresh :
       /\ fresh' = fresh \ {k}
       /\ wanted' = [wanted EXCEPT !["keys"] = {m \in Messages : KeyOf[m] = k}]
  /\ GoTo("keys", "list")
  /\ UNCHANGED <<server, keysLine, disk, mode, batch, more, windows, needsPull, found, ui, bounds>>

BatchDone ==
  /\ pc["keys"] = "nextKey" /\ fresh = {}
  /\ IF mode = "push" THEN PullIfNeeded(needsPull) ELSE Wait(FALSE)
  /\ UNCHANGED <<server, disk, wanted, found, ui, bounds>>

\* The next pack.  One with a gap is not imported: the queue has it.
NextPack ==
  /\ pc["keys"] = "wait" /\ inbox # <<>>
  /\ inbox' = Tail(inbox)
  /\ LET pack == Head(inbox) IN
       \/ /\ live /\ ~pack.gap
          /\ mode' = "push" /\ batch' = pack.items
          /\ GoTo("keys", "import")
          /\ UNCHANGED <<overflowed, fresh, more, windows, needsPull, bounds>>
       \/ /\ live /\ pack.gap
          /\ mode' = "pull" /\ needsPull' = TRUE
          /\ GoTo("keys", "fetch")
          /\ UNCHANGED <<overflowed, batch, fresh, more, windows, bounds>>
       \/ /\ live /\ Fault     \* a pack that cannot be read
          /\ mode' = "pull" /\ needsPull' = TRUE
          /\ GoTo("keys", "fetch")
          /\ UNCHANGED <<overflowed, batch, fresh, more, windows>>
       \/ /\ ~live
          /\ needsPull' = TRUE /\ overflowed' = FALSE
          /\ UNCHANGED <<mode, batch, fresh, more, windows, pc, bounds>>
  /\ UNCHANGED <<server, live, disk, wanted, found, ui>>

\* PUSH_IDLE_TIMEOUT: nothing came, what is to be pulled is pulled.
IdleTimeout ==
  /\ pc["keys"] = "wait" /\ inbox = <<>> /\ live
  /\ needsPull \/ overflowed
  /\ PullIfNeeded(needsPull)
  /\ UNCHANGED <<server, disk, wanted, found, ui, bounds>>

\* The subscription is over: the task closes its line and ends.
Ended ==
  /\ pc["keys"] = "wait" /\ inbox = <<>> /\ ~live
  /\ SwitchOff
  /\ UNCHANGED <<server, disk, wanted, found, ui, bounds>>

KeysStep == \/ OpenLine \/ Fetch \/ Import \/ Save \/ Destroy \/ Mark
            \/ OpenNextKey \/ BatchDone \/ NextPack \/ IdleTimeout \/ Ended
            \/ OpenStored("keys")

----------------------------------------------------------------------------
\* The rooms line (pc["room"]): on_push.

Push ==
  /\ pc["room"] = "idle"
  /\ \E ms \in SUBSET (Messages \ pushed) :
       /\ ms # {}
       /\ pushed' = pushed \cup ms
       /\ wanted' = [wanted EXCEPT !["room"] = ms]
  /\ GoTo("room", "try")
  /\ UNCHANGED <<server, keysLine, disk, importing, found, told, page, bounds>>

\* What can be opened now is stored open, the rest sealed.
TryToOpen ==
  /\ pc["room"] = "try"
  /\ found' = [found EXCEPT !["room"] = {m \in wanted["room"] : Readable[m] = "open"}]
  /\ GoTo("room", "store")
  /\ UNCHANGED <<server, keysLine, disk, importing, wanted, ui, bounds>>

AsTried == [m \in Messages |-> IF m \in found["room"] THEN "open" ELSE "sealed"]
StorePush ==
  /\ pc["room"] = "store"
  /\ \/ cache' = Upsert(wanted["room"], AsTried) /\ GoTo("room", "notify") /\ UNCHANGED bounds
     \/ Fault /\ GoTo("room", "idle") /\ UNCHANGED cache
  /\ UNCHANGED <<server, keysLine, store, toDestroy, importing, wanted, found, ui>>

\* Mutant: no second try.
NotifyOnly ==
  /\ pc["room"] = "notify"
  /\ Tell(wanted["room"], AsTried)
  /\ GoTo("room", "idle")
  /\ UNCHANGED <<server, keysLine, disk, importing, wanted, found, pushed, page, bounds>>

\* Committed, so the UI is told; then what stayed sealed is tried once more
\* (retry_after_storing): the key may have come meanwhile.
Notify ==
  /\ pc["room"] = "notify"
  /\ Tell(wanted["room"], AsTried)
  /\ wanted' = [wanted EXCEPT !["room"] = @ \ found["room"]]
  /\ GoTo("room", IF wanted'["room"] = {} THEN "idle" ELSE "list")
  /\ UNCHANGED <<server, keysLine, disk, importing, found, pushed, page, bounds>>

RoomStep == TryToOpen \/ StorePush \/ Notify \/ OpenStored("room")

----------------------------------------------------------------------------
\* The UI reads (pc["reader"]): sync.recent and a page of room.history.

Reading == reads < Reads /\ reads' = reads + 1 /\ UNCHANGED <<faults, crashes, cutShort>>

\* Everything is written as it came, and opened afterwards.
Recent ==
  /\ pc["reader"] = "idle" /\ Reading
  /\ cache' = Upsert(Messages, AsSealed)
  /\ wanted' = [wanted EXCEPT !["reader"] = Messages]
  /\ GoTo("reader", "list")
  /\ UNCHANGED <<server, keysLine, store, toDestroy, importing, found, ui>>

\* The page as it is; what is sealed in it is tried again.
ReadPage ==
  /\ pc["reader"] = "idle" /\ Reading
  /\ page' = cache
  /\ wanted' = [wanted EXCEPT !["reader"] = {m \in Messages : cache[m] = "sealed"}]
  /\ GoTo("reader", IF wanted'["reader"] # {} THEN "list"
                    ELSE IF page' = NoPage THEN "idle" ELSE "reply")
  /\ UNCHANGED <<server, keysLine, disk, importing, found, pushed, told>>

\* Only if something was opened is the page read again.
Reread ==
  /\ pc["reader"] = "reread"
  /\ page' = [m \in Messages |-> IF found["reader"] # {} /\ m \in wanted["reader"]
                                THEN cache[m] ELSE page[m]]
  /\ GoTo("reader", "reply")
  /\ UNCHANGED <<server, keysLine, disk, importing, wanted, found, pushed, told, bounds>>

Reply ==
  /\ pc["reader"] = "reply"
  /\ Tell({m \in Messages : page[m] # "absent"}, page)
  /\ page' = NoPage
  /\ GoTo("reader", "idle")
  /\ UNCHANGED <<server, keysLine, disk, importing, wanted, found, pushed, bounds>>

ReaderStep == Reread \/ Reply \/ OpenStored("reader")

----------------------------------------------------------------------------
\* The daemon stops at any step and starts again; the UI asks anew.
Crash ==
  /\ crashes < Crashes /\ crashes' = crashes + 1
  /\ live' = FALSE /\ missed' = FALSE /\ inbox' = <<>> /\ overflowed' = FALSE
  /\ mode' = "init" /\ batch' = {} /\ fresh' = {} /\ more' = FALSE /\ windows' = 0
  /\ needsPull' = FALSE
  /\ pc' = [keys |-> "off", room |-> "idle", reader |-> "idle"]
  /\ wanted' = [a \in Openers |-> {}] /\ found' = [a \in Openers |-> {}]
  /\ told' = NoPage /\ page' = NoPage
  /\ UNCHANGED <<latest, queue, disk, pushed, faults, reads, cutShort>>

Init ==
  /\ latest = 0 /\ queue = {} /\ missed = FALSE
  /\ live = FALSE /\ inbox = <<>> /\ overflowed = FALSE
  /\ store = {} /\ toDestroy = {} /\ cache = NoPage
  /\ mode = "init" /\ batch = {} /\ fresh = {} /\ more = FALSE /\ windows = 0
  /\ needsPull = FALSE
  /\ pc = [keys |-> "off", room |-> "idle", reader |-> "idle"]
  /\ wanted = [a \in Openers |-> {}] /\ found = [a \in Openers |-> {}]
  /\ pushed = {} /\ told = NoPage /\ page = NoPage
  /\ faults = 0 /\ crashes = 0 /\ reads = 0 /\ cutShort = FALSE

Next ==
  \/ QueueItem \/ TellGap \/ LineEnds
  \/ KeysStep
  \/ Push \/ RoomStep
  \/ Recent \/ ReadPage \/ ReaderStep
  \/ Crash

Spec == Init /\ [][Next]_vars

\* The tasks run, the keeper opens the line again, the server tells its gap.
\* What fails, fails a bounded number of times.
Fairness == WF_vars(KeysStep) /\ WF_vars(RoomStep) /\ WF_vars(ReaderStep) /\ WF_vars(TellGap)
FairSpec == Spec /\ Fairness

----------------------------------------------------------------------------
\* Properties.

Places == {"off", "fetch", "import", "save", "destroy", "mark", "nextKey", "wait",
           "list", "open", "write", "announce",
           "idle", "try", "store", "notify", "reread", "reply"}
Shown == {"absent", "sealed", "open"}
Packs == [items : SUBSET Keys, gap : BOOLEAN]

ServerTyped == latest \in 0 .. Last /\ queue \subseteq Keys /\ missed \in BOOLEAN
LineTyped == live \in BOOLEAN /\ inbox \in Seq(Packs) /\ Len(inbox) <= InboxSize
             /\ overflowed \in BOOLEAN
DiskTyped == store \subseteq Keys /\ toDestroy \subseteq Keys /\ cache \in [Messages -> Shown]
TaskTyped == /\ mode \in {"init", "pull", "push"} /\ batch \subseteq Keys /\ fresh \subseteq Keys
             /\ more \in BOOLEAN /\ windows \in 0 .. PullWindows /\ needsPull \in BOOLEAN
OpeningTyped == /\ pc \in [Openers -> Places]
                /\ wanted \in [Openers -> SUBSET Messages]
                /\ found \in [Openers -> SUBSET Messages]
UiTyped == /\ pushed \subseteq Messages
           /\ told \in [Messages -> Shown] /\ page \in [Messages -> Shown]
BoundsTyped == /\ faults \in 0 .. Faults /\ crashes \in 0 .. Crashes /\ reads \in 0 .. Reads
               /\ cutShort \in BOOLEAN

\* Every variable has its type: the subscription's inbox stays within its size
\* and a catch-up within its windows.
TypeOK == /\ ServerTyped /\ LineTyped /\ DiskTyped /\ TaskTyped
          /\ OpeningTyped /\ UiTyped /\ BoundsTyped

\* A room key that is no longer on the server is in the crypto store, whatever
\* failed, came twice or crashed on the way: import_items destroys only what it
\* has committed, pull_to_device fetches without a cursor.
DestroyedIsStored == \A k \in 1 .. latest : k \in queue \/ k \in store

\* A message that was opened stays open in the cache, whoever writes it again
\* (upsert_events, from a push, from sync.recent or from decrypt_stored).
OpenStaysOpen == [][\A m \in Messages : cache[m] = "open" => cache'[m] = "open"]_vars

\* Nobody is at work.
Quiet == pc["keys"] \in {"wait", "off"} /\ pc["room"] = "idle" /\ pc["reader"] = "idle"
StoredSealed == {m \in Messages : cache[m] = "sealed" /\ KeyOf[m] \in store}

\* Message and key meet in any order: as long as nothing failed, no message
\* stays sealed in the cache when its key is in the store.  The keys task
\* commits before it looks into the cache, the rooms task stores before it
\* tries again (retry_after_storing).
MessageMeetsKey ==
  Quiet /\ faults = 0 /\ crashes = 0 /\ ~cutShort => StoredSealed = {}

\* Every queued key is destroyed on the server in the end, and so is in the
\* store: after lost pushes, failed batches, dead lines and crashes the queue is
\* pulled again from its head.
EveryKeyArrives == \A k \in Keys : k \in queue ~> k \notin queue
=============================================================================
