---------------------------- MODULE KeySync_proofs ----------------------------
(***************************************************************************)
(* Proofs about KeySync: an opened message stays open, every variable has  *)
(* its type, a key that left the server's queue is in the store, and while *)
(* nothing fails a sealed message whose key is there has somebody who is   *)
(* about to open it (MeetInv).                                             *)
(***************************************************************************)
EXTENDS KeySync, TLAPS

\* Writing to the cache takes nothing back that is open.
LEMMA UpsertKeepsOpen ==
  ASSUME NEW ms, NEW how, cache' = Upsert(ms, how)
  PROVE  \A m \in Messages : cache[m] = "open" => cache'[m] = "open"
BY DEF Upsert

\* OpenStaysOpen: whoever writes a message again (a push, sync.recent, an opened
\* message), the cache never goes back from the message to its ciphertext.
THEOREM OpenIsForGood == Spec => OpenStaysOpen
<1> DEFINE Kept == \A m \in Messages : cache[m] = "open" => cache'[m] = "open"
<1>1. Next => Kept
  <2>1. ASSUME NEW a \in Openers, OpenStored(a) PROVE Kept
    <3>1. CASE Write(a)
      BY <3>1, UpsertKeepsOpen DEF Write
    <3>2. QED
      BY <2>1, <3>1 DEF OpenStored, List, Open, Announce, disk
  <2>2. CASE StorePush \/ Recent
    BY <2>2, UpsertKeepsOpen DEF StorePush, Recent
  <2>3. CASE QueueItem \/ TellGap \/ LineEnds \/ Crash
    BY <2>3 DEF QueueItem, TellGap, LineEnds, Crash, disk
  <2>4. CASE KeysStep
    <3>1. CASE OpenStored("keys")
      BY <3>1, <2>1 DEF Openers
    <3>2. QED
      BY <2>4, <3>1 DEF KeysStep, OpenLine, Fetch, Import, Save, Destroy, Mark,
                        OpenNextKey, BatchDone, NextPack, IdleTimeout, Ended, disk
  <2>5. CASE RoomStep \/ Push
    BY <2>5, <2>1, <2>2 DEF RoomStep, TryToOpen, Notify, Push, Openers, disk
  <2>6. CASE ReaderStep \/ ReadPage
    BY <2>6, <2>1 DEF ReaderStep, Reread, Reply, ReadPage, Openers, disk
  <2>7. QED
    BY <2>2, <2>3, <2>4, <2>5, <2>6 DEF Next
<1>2. QED
  BY <1>1, PTL DEF Spec, OpenStaysOpen

----------------------------------------------------------------------------
\* Types.

\* A window is fetched only while there is one left; between the batches the
\* windows are counted anew.
WindowsFit == /\ pc["keys"] = "fetch" => windows < PullWindows
              /\ pc["keys"] \in {"off", "wait"} => windows = 0
TypeInv == TypeOK /\ WindowsFit

LEMMA Sizes == PullWindows \in Nat /\ InboxSize \in Nat /\ 0 < PullWindows /\ 0 < InboxSize
BY Shapes DEF Shapes

LEMMA Bounds == Last \in Nat /\ Faults \in Nat /\ Crashes \in Nat /\ Reads \in Nat
BY Shapes DEF Shapes

LEMMA KeysInOpeners == "keys" \in Openers /\ "room" \in Openers /\ "reader" \in Openers
BY DEF Openers

\* What may come of a failure is typed: the task starts a catch-up, waits for
\* the next pack, or is off.
LEMMA RestartTyped ==
  ASSUME mode' \in {"init", "pull", "push"}, needsPull' \in BOOLEAN,
         fresh' = {}, batch' = {}, more' = FALSE, windows' = 0
  PROVE  TaskTyped' /\ WindowsFit'
<1>1. windows' \in 0 .. PullWindows /\ windows' < PullWindows
  BY Sizes
<1>2. QED
  BY <1>1 DEF TaskTyped, WindowsFit

LEMMA LineOffTyped ==
  ASSUME live' = FALSE, inbox' = <<>>, overflowed' = FALSE
  PROVE  LineTyped'
<1>1. inbox' \in Seq(Packs)
  OBVIOUS
<1>2. Len(inbox') <= InboxSize
  BY Sizes
<1>3. QED
  BY <1>1, <1>2 DEF LineTyped

LEMMA PlaceTyped ==
  ASSUME OpeningTyped, NEW place \in Places, GoTo("keys", place)
  PROVE  pc' \in [Openers -> Places] /\ pc'["keys"] = place
BY KeysInOpeners DEF OpeningTyped, GoTo

LEMMA WaitTyped ==
  ASSUME LineTyped, TaskTyped, OpeningTyped, NEW pull \in BOOLEAN, Wait(pull)
  PROVE  LineTyped' /\ TaskTyped' /\ pc' \in [Openers -> Places] /\ WindowsFit'
<1>1. mode' = mode /\ needsPull' \in BOOLEAN /\ overflowed' = FALSE
  BY DEF Wait, LineTyped
<1>2. LineTyped'
  BY <1>1 DEF Wait, LineTyped
<1>3. TaskTyped' /\ WindowsFit'
  BY <1>1, RestartTyped DEF Wait, TaskTyped
<1>4. QED
  BY <1>2, <1>3, PlaceTyped DEF Wait, Places

LEMMA StartPullTyped ==
  ASSUME LineTyped, TaskTyped, OpeningTyped, StartPull
  PROVE  LineTyped' /\ TaskTyped' /\ pc' \in [Openers -> Places] /\ WindowsFit'
<1>1. LineTyped'
  BY DEF StartPull, LineTyped
<1>2. TaskTyped' /\ WindowsFit'
  BY RestartTyped DEF StartPull
<1>3. QED
  BY <1>1, <1>2, PlaceTyped DEF StartPull, Places

LEMMA SwitchOffTyped ==
  ASSUME TaskTyped, OpeningTyped, SwitchOff
  PROVE  LineTyped' /\ TaskTyped' /\ pc' \in [Openers -> Places] /\ WindowsFit'
<1>1. TaskTyped' /\ WindowsFit'
  BY RestartTyped DEF SwitchOff, TaskTyped
<1>2. QED
  BY <1>1, LineOffTyped, PlaceTyped DEF SwitchOff, Places

LEMMA FailTyped ==
  ASSUME TypeOK, Fail
  PROVE  LineTyped' /\ TaskTyped' /\ pc' \in [Openers -> Places] /\ WindowsFit'
BY WaitTyped, StartPullTyped, SwitchOffTyped DEF TypeOK, Fail, PullIfNeeded

\* What an opener of stored messages changes.
LEMMA OpeningKeepsType ==
  ASSUME TypeInv, NEW a \in Openers, OpenStored(a)
  PROVE  TypeInv'
<1> USE Shapes, KeysInOpeners
         DEF TypeInv, TypeOK, ServerTyped, LineTyped, DiskTyped, TaskTyped, OpeningTyped,
             UiTyped, BoundsTyped, WindowsFit, GoTo, Places,
             server, keysLine, disk, importing, opening, ui, bounds
<1>1. AfterOpening(a) \in {"nextKey", "idle", "reread"}
  BY DEF AfterOpening, Openers
<1>2. Readable \in [Messages -> Shown]
  BY DEF Readable, Shown
<1>3. CASE List(a)
  BY <1>3 DEF List
<1>4. CASE Open(a)
  BY <1>1, <1>4 DEF Open
<1>5. CASE Write(a)
  BY <1>1, <1>2, <1>5 DEF Write, Upsert, Fault
<1>6. CASE Announce(a)
  BY <1>1, <1>2, <1>6 DEF Announce, Tell
<1>7. QED
  BY <1>3, <1>4, <1>5, <1>6 DEF OpenStored

LEMMA ReceiveTyped ==
  ASSUME LineTyped, NEW pack \in Packs, Receive(pack), live' \in BOOLEAN
  PROVE  LineTyped'
<1>1. CASE Len(inbox) < InboxSize
  <2>1. inbox' = Append(inbox, pack) /\ overflowed' = overflowed
    BY <1>1 DEF Receive
  <2>2. inbox' \in Seq(Packs) /\ Len(inbox') = Len(inbox) + 1
    BY <2>1 DEF LineTyped
  <2>3. Len(inbox') <= InboxSize
    BY <1>1, <2>2, Sizes DEF LineTyped
  <2>4. QED
    BY <2>1, <2>2, <2>3 DEF LineTyped
<1>2. CASE ~ Len(inbox) < InboxSize
  BY <1>2 DEF Receive, LineTyped
<1>3. QED
  BY <1>1, <1>2

LEMMA FaultTyped == BoundsTyped /\ Fault => BoundsTyped'
BY Shapes DEF Shapes, Fault, BoundsTyped

\* The frame of the keys task: what it leaves alone keeps its type.
LEMMA KeysTaskFrame ==
  ASSUME TypeOK, UNCHANGED <<wanted, found>>, UNCHANGED ui,
         ServerTyped', DiskTyped', BoundsTyped',
         LineTyped', TaskTyped', pc' \in [Openers -> Places], WindowsFit'
  PROVE  TypeInv'
BY DEF TypeInv, TypeOK, OpeningTyped, ui, UiTyped

LEMMA Untouched ==
  ASSUME TypeOK
  PROVE  /\ UNCHANGED server => ServerTyped'
         /\ UNCHANGED keysLine => LineTyped'
         /\ UNCHANGED disk => DiskTyped'
         /\ UNCHANGED importing => TaskTyped'
         /\ UNCHANGED ui => UiTyped'
         /\ UNCHANGED bounds => BoundsTyped'
BY DEF TypeOK, server, ServerTyped, keysLine, LineTyped, disk, DiskTyped, importing, TaskTyped,
       ui, UiTyped, bounds, BoundsTyped

LEMMA OpenLineKeepsType == ASSUME TypeInv, OpenLine PROVE TypeInv'
<1>1. TypeOK /\ WindowsFit
  BY DEF TypeInv
<1>2. pc' \in [Openers -> Places] /\ pc'["keys"] = "fetch"
  BY <1>1, PlaceTyped DEF OpenLine, TypeOK, Places
<1>3. windows = 0
  BY <1>1 DEF OpenLine, WindowsFit
<1>4. WindowsFit'
  BY <1>2, <1>3, Sizes DEF OpenLine, WindowsFit
<1>5. LineTyped' /\ TaskTyped'
  BY <1>1 DEF OpenLine, TypeOK, LineTyped, TaskTyped
<1>6. QED
  BY <1>1, <1>2, <1>4, <1>5, KeysTaskFrame, Untouched DEF OpenLine

LEMMA FetchKeepsType == ASSUME TypeInv, Fetch PROVE TypeInv'
<1>1. TypeOK /\ WindowsFit
  BY DEF TypeInv
<1>2. CASE /\ batch' = Oldest /\ more' = (queue # Oldest) /\ windows' = windows + 1
           /\ GoTo("keys", "import") /\ UNCHANGED <<keysLine, mode, fresh, needsPull, bounds>>
  <2>1. pc' \in [Openers -> Places] /\ pc'["keys"] = "import"
    BY <1>1, <1>2, PlaceTyped DEF TypeOK, Places
  <2>2. windows < PullWindows /\ windows \in Nat
    BY <1>1 DEF Fetch, WindowsFit, TypeOK, TaskTyped
  <2>3. windows' \in 0 .. PullWindows
    BY <1>2, <2>2, Sizes
  <2>4. batch' \subseteq Keys
    BY <1>1, <1>2 DEF Oldest, TypeOK, ServerTyped
  <2>5. TaskTyped' /\ WindowsFit'
    BY <1>1, <1>2, <2>1, <2>3, <2>4 DEF TypeOK, TaskTyped, WindowsFit
  <2>6. QED
    BY <1>1, <1>2, <2>1, <2>5, KeysTaskFrame, Untouched DEF Fetch
<1>3. CASE Fail /\ (UNCHANGED bounds \/ Fault)
  BY <1>1, <1>3, FailTyped, FaultTyped, KeysTaskFrame, Untouched DEF Fetch, TypeOK
<1>4. QED
  BY <1>2, <1>3 DEF Fetch

LEMMA ImportKeepsType == ASSUME TypeInv, Import PROVE TypeInv'
<1>1. TypeOK /\ WindowsFit
  BY DEF TypeInv
<1>2. CASE /\ store' = store \cup batch /\ fresh' = fresh \cup (batch \ store)
           /\ GoTo("keys", "save")
           /\ UNCHANGED <<keysLine, mode, batch, more, windows, needsPull, bounds>>
  <2>1. pc' \in [Openers -> Places] /\ pc'["keys"] = "save"
    BY <1>1, <1>2, PlaceTyped DEF TypeOK, Places
  <2>2. DiskTyped' /\ TaskTyped' /\ WindowsFit'
    BY <1>1, <1>2, <2>1 DEF Import, TypeOK, DiskTyped, TaskTyped, WindowsFit
  <2>3. QED
    BY <1>1, <1>2, <2>1, <2>2, KeysTaskFrame, Untouched DEF Import
<1>3. CASE Fault /\ Fail /\ UNCHANGED store
  <2>1. DiskTyped'
    BY <1>1, <1>3 DEF Import, TypeOK, DiskTyped
  <2>2. QED
    BY <1>1, <1>3, <2>1, FailTyped, FaultTyped, KeysTaskFrame, Untouched DEF Import, TypeOK
<1>4. QED
  BY <1>2, <1>3 DEF Import

LEMMA SaveKeepsType == ASSUME TypeInv, Save PROVE TypeInv'
<1>1. TypeOK /\ WindowsFit
  BY DEF TypeInv
<1>2. DiskTyped'
  BY <1>1 DEF Save, TypeOK, DiskTyped, TaskTyped
<1>3. CASE GoTo("keys", "destroy") /\ UNCHANGED <<keysLine, importing, bounds>>
  <2>1. pc' \in [Openers -> Places] /\ pc'["keys"] = "destroy"
    BY <1>1, <1>3, PlaceTyped DEF TypeOK, Places
  <2>2. WindowsFit'
    BY <2>1 DEF WindowsFit
  <2>3. QED
    BY <1>1, <1>2, <1>3, <2>1, <2>2, KeysTaskFrame, Untouched DEF Save
<1>4. CASE Fault /\ Fail
  BY <1>1, <1>2, <1>4, FailTyped, FaultTyped, KeysTaskFrame, Untouched DEF Save, TypeOK
<1>5. QED
  BY <1>3, <1>4 DEF Save

LEMMA DestroyKeepsType == ASSUME TypeInv, Destroy PROVE TypeInv'
<1>1. TypeOK /\ WindowsFit
  BY DEF TypeInv
<1>2. ServerTyped'
  BY <1>1 DEF Destroy, TypeOK, ServerTyped
<1>3. CASE GoTo("keys", "mark") /\ UNCHANGED <<keysLine, importing, bounds>>
  <2>1. pc' \in [Openers -> Places] /\ pc'["keys"] = "mark"
    BY <1>1, <1>3, PlaceTyped DEF TypeOK, Places
  <2>2. WindowsFit'
    BY <2>1 DEF WindowsFit
  <2>3. QED
    BY <1>1, <1>2, <1>3, <2>1, <2>2, KeysTaskFrame, Untouched DEF Destroy
<1>4. CASE Fail /\ (UNCHANGED bounds \/ Fault)
  BY <1>1, <1>2, <1>4, FailTyped, FaultTyped, KeysTaskFrame, Untouched DEF Destroy, TypeOK
<1>5. QED
  BY <1>3, <1>4 DEF Destroy

LEMMA MarkKeepsType == ASSUME TypeInv, Mark PROVE TypeInv'
<1>1. TypeOK /\ WindowsFit
  BY DEF TypeInv
<1>2. DiskTyped' /\ ServerTyped'
  BY <1>1 DEF Mark, TypeOK, DiskTyped, ServerTyped, server
<1>3. ASSUME NEW place \in {"nextKey", "fetch"}, GoTo("keys", place),
             UNCHANGED <<keysLine, importing, cutShort>>, UNCHANGED <<faults, crashes, reads>>,
             place = "fetch" => windows < PullWindows
      PROVE  TypeInv'
  <2>1. pc' \in [Openers -> Places] /\ pc'["keys"] = place
    BY <1>1, <1>3, PlaceTyped DEF TypeOK, Places
  <2>2. WindowsFit'
    BY <1>3, <2>1 DEF WindowsFit, importing
  <2>3. QED
    BY <1>1, <1>2, <1>3, <2>1, <2>2, KeysTaskFrame, Untouched DEF Mark, bounds
<1>4. CASE Fail /\ cutShort' = TRUE /\ UNCHANGED <<faults, crashes, reads>>
  <2>1. BoundsTyped'
    BY <1>1, <1>4 DEF TypeOK, BoundsTyped
  <2>2. QED
    BY <1>1, <1>2, <1>4, <2>1, FailTyped, KeysTaskFrame DEF Mark, TypeOK
<1>5. CASE Fault /\ Fail
  BY <1>1, <1>2, <1>5, FailTyped, FaultTyped, KeysTaskFrame DEF Mark, TypeOK
<1>6. QED
  BY <1>3, <1>4, <1>5 DEF Mark

LEMMA OpenNextKeyKeepsType == ASSUME TypeInv, OpenNextKey PROVE TypeInv'
<1>1. TypeOK /\ WindowsFit
  BY DEF TypeInv
<1>2. pc' \in [Openers -> Places] /\ pc'["keys"] = "list"
  BY <1>1, PlaceTyped DEF OpenNextKey, TypeOK, Places
<1>3. wanted' \in [Openers -> SUBSET Messages] /\ found' \in [Openers -> SUBSET Messages]
  BY <1>1 DEF OpenNextKey, TypeOK, OpeningTyped
<1>4. TaskTyped' /\ WindowsFit'
  BY <1>1, <1>2 DEF OpenNextKey, TypeOK, TaskTyped, WindowsFit
<1>5. QED
  BY <1>1, <1>2, <1>3, <1>4, Untouched DEF OpenNextKey, TypeInv, TypeOK, OpeningTyped

\* The task comes round: it pulls, waits, or is over.
LEMMA ComeRoundKeepsType == ASSUME TypeInv, BatchDone \/ IdleTimeout \/ Ended PROVE TypeInv'
<1>1. TypeOK /\ WindowsFit
  BY DEF TypeInv
<1>2. Wait(FALSE) \/ Wait(needsPull) \/ StartPull \/ SwitchOff
  BY DEF BatchDone, IdleTimeout, Ended, PullIfNeeded
<1>3. needsPull \in BOOLEAN
  BY <1>1 DEF TypeOK, TaskTyped
<1>4. LineTyped' /\ TaskTyped' /\ pc' \in [Openers -> Places] /\ WindowsFit'
  BY <1>1, <1>2, <1>3, WaitTyped, StartPullTyped, SwitchOffTyped DEF TypeOK
<1>5. QED
  BY <1>1, <1>4, KeysTaskFrame, Untouched DEF BatchDone, IdleTimeout, Ended

LEMMA NextPackKeepsType == ASSUME TypeInv, NextPack PROVE TypeInv'
<1>1. TypeOK /\ WindowsFit
  BY DEF TypeInv
<1>2. /\ Head(inbox) \in Packs /\ inbox' \in Seq(Packs)
      /\ Len(inbox') <= InboxSize
  <2>1. inbox \in Seq(Packs) /\ inbox # <<>> /\ Len(inbox) <= InboxSize /\ inbox' = Tail(inbox)
    BY <1>1 DEF NextPack, TypeOK, LineTyped
  <2>2. Len(inbox') = Len(inbox) - 1
    BY <2>1
  <2>3. QED
    BY <2>1, <2>2, Sizes
<1>3. windows = 0 /\ pc["keys"] = "wait" /\ live' = live
  BY <1>1 DEF NextPack, WindowsFit
<1>4. overflowed' \in BOOLEAN
  BY <1>1 DEF NextPack, TypeOK, LineTyped
<1>5. LineTyped'
  BY <1>1, <1>2, <1>3, <1>4 DEF TypeOK, LineTyped
<1>6. BoundsTyped'
  BY <1>1, FaultTyped, Untouched DEF NextPack, TypeOK
<1>7. windows' = windows /\ UNCHANGED <<fresh, more>>
  BY DEF NextPack
<1>8. mode' \in {"init", "pull", "push"} /\ needsPull' \in BOOLEAN /\ batch' \subseteq Keys
  BY <1>1, <1>2 DEF NextPack, TypeOK, TaskTyped, Packs
<1>9. TaskTyped'
  BY <1>1, <1>7, <1>8 DEF TypeOK, TaskTyped
<1>10. pc' \in [Openers -> Places]
  <2>1. GoTo("keys", "import") \/ GoTo("keys", "fetch") \/ pc' = pc
    BY DEF NextPack
  <2>2. QED
    BY <1>1, <2>1, PlaceTyped DEF TypeOK, Places, OpeningTyped
<1>11. WindowsFit'
  BY <1>3, <1>7, Sizes DEF WindowsFit
<1>12. QED
  BY <1>1, <1>5, <1>6, <1>9, <1>10, <1>11, KeysTaskFrame, Untouched DEF NextPack

LEMMA KeysTaskKeepsType == TypeInv /\ KeysStep => TypeInv'
BY OpenLineKeepsType, FetchKeepsType, ImportKeepsType, SaveKeepsType, DestroyKeepsType,
   MarkKeepsType, OpenNextKeyKeepsType, ComeRoundKeepsType, NextPackKeepsType,
   OpeningKeepsType, KeysInOpeners DEF KeysStep

LEMMA ServerKeepsType == ASSUME TypeInv, QueueItem \/ TellGap \/ LineEnds PROVE TypeInv'
<1>1. TypeOK /\ WindowsFit
  BY DEF TypeInv
<1>2. WindowsFit' /\ DiskTyped' /\ TaskTyped' /\ OpeningTyped' /\ UiTyped'
  BY <1>1, Untouched DEF QueueItem, TellGap, LineEnds, WindowsFit, TypeOK, OpeningTyped,
                         opening, importing
<1>3. BoundsTyped'
  BY <1>1, Untouched, FaultTyped DEF QueueItem, TellGap, LineEnds, TypeOK
<1>4. CASE QueueItem
  <2>1. latest + 1 \in Keys /\ latest + 1 \in 0 .. Last
    BY <1>1, <1>4, Shapes DEF Shapes, QueueItem, Keys, TypeOK, ServerTyped
  <2>2. ServerTyped'
    BY <1>1, <1>4, <2>1 DEF QueueItem, TypeOK, ServerTyped
  <2>3. [items |-> {latest + 1}, gap |-> missed] \in Packs /\ live' \in BOOLEAN
    BY <1>1, <1>4, <2>1 DEF QueueItem, TypeOK, ServerTyped, LineTyped, Packs
  <2>4. LineTyped'
    <3>1. CASE Receive([items |-> {latest + 1}, gap |-> missed])
      BY <1>1, <2>3, <3>1, ReceiveTyped DEF TypeOK
    <3>2. CASE UNCHANGED <<inbox, overflowed>>
      BY <1>1, <1>4, <3>2 DEF QueueItem, TypeOK, LineTyped
    <3>3. QED
      BY <1>4, <3>1, <3>2 DEF QueueItem
  <2>5. QED
    BY <1>2, <1>3, <2>2, <2>4 DEF TypeInv, TypeOK
<1>5. CASE TellGap
  <2>1. [items |-> {}, gap |-> TRUE] \in Packs /\ live' \in BOOLEAN
    BY <1>1, <1>5 DEF TellGap, TypeOK, LineTyped, Packs
  <2>2. LineTyped'
    BY <1>1, <1>5, <2>1, ReceiveTyped DEF TellGap, TypeOK
  <2>3. ServerTyped'
    BY <1>1, <1>5 DEF TellGap, TypeOK, ServerTyped
  <2>4. QED
    BY <1>2, <1>3, <2>2, <2>3 DEF TypeInv, TypeOK
<1>6. CASE LineEnds
  <2>1. LineTyped' /\ ServerTyped'
    BY <1>1, <1>6 DEF LineEnds, TypeOK, LineTyped, ServerTyped
  <2>2. QED
    BY <1>2, <1>3, <2>1 DEF TypeInv, TypeOK
<1>7. QED
  BY <1>4, <1>5, <1>6

\* The rooms line and the UI's reads leave the keys task alone.
LEMMA RoomKeepsType ==
  ASSUME TypeInv, Push \/ TryToOpen \/ StorePush \/ Notify \/ Recent \/ ReadPage \/ Reread \/ Reply
  PROVE  TypeInv'
<1>1. TypeOK /\ WindowsFit
  BY DEF TypeInv
<1>2. ServerTyped' /\ LineTyped' /\ TaskTyped'
  BY <1>1, Untouched DEF Push, TryToOpen, StorePush, Notify, Recent, ReadPage, Reread, Reply
<1>3. AsTried \in [Messages -> Shown] /\ AsSealed \in [Messages -> Shown]
  BY DEF AsTried, AsSealed, Shown
<1>4. DiskTyped'
  BY <1>1, <1>3, Untouched
     DEF Push, TryToOpen, StorePush, Notify, Recent, ReadPage, Reread, Reply,
         TypeOK, DiskTyped, disk, Upsert
<1>5. UiTyped'
  BY <1>1, <1>3, Untouched
     DEF Push, TryToOpen, StorePush, Notify, Recent, ReadPage, Reread, Reply,
         TypeOK, DiskTyped, UiTyped, ui, Tell, NoPage, Shown
<1>6. BoundsTyped'
  BY <1>1, Untouched, FaultTyped, Shapes
     DEF Shapes, Push, TryToOpen, StorePush, Notify, Recent, ReadPage, Reread, Reply,
         TypeOK, BoundsTyped, Reading
<1>7. OpeningTyped' /\ pc'["keys"] = pc["keys"]
  BY <1>1, KeysInOpeners
     DEF Push, TryToOpen, StorePush, Notify, Recent, ReadPage, Reread, Reply,
         TypeOK, OpeningTyped, GoTo, Places
<1>8. WindowsFit'
  BY <1>1, <1>7 DEF WindowsFit, Push, TryToOpen, StorePush, Notify, Recent, ReadPage, Reread,
                    Reply, importing
<1>9. QED
  BY <1>2, <1>4, <1>5, <1>6, <1>7, <1>8 DEF TypeInv, TypeOK

LEMMA CrashKeepsType == ASSUME TypeInv, Crash PROVE TypeInv'
<1>1. TypeOK /\ WindowsFit
  BY DEF TypeInv
<1>2. LineTyped'
  BY LineOffTyped DEF Crash
<1>3. TaskTyped' /\ WindowsFit'
  BY RestartTyped DEF Crash
<1>4. OpeningTyped'
  BY DEF Crash, OpeningTyped, Openers, Places
<1>5. ServerTyped' /\ DiskTyped' /\ UiTyped'
  BY <1>1, Untouched DEF Crash, TypeOK, ServerTyped, UiTyped, NoPage, Shown
<1>6. BoundsTyped'
  BY <1>1, Shapes DEF Shapes, Crash, TypeOK, BoundsTyped
<1>7. QED
  BY <1>2, <1>3, <1>4, <1>5, <1>6 DEF TypeInv, TypeOK

LEMMA InitTyped == Init => TypeInv
<1> SUFFICES ASSUME Init PROVE TypeInv
  OBVIOUS
<1>1. NoPage \in [Messages -> Shown]
  BY DEF NoPage, Shown
<1>2. ServerTyped
  <2>1. latest = 0 /\ queue = {} /\ missed = FALSE
    BY DEF Init
  <2>2. latest \in 0 .. Last
    BY <2>1, Bounds
  <2>3. QED
    BY <2>1, <2>2 DEF ServerTyped
<1>3. DiskTyped
  <2>1. store = {} /\ toDestroy = {} /\ cache = NoPage
    BY DEF Init
  <2>2. QED
    BY <1>1, <2>1 DEF DiskTyped
<1>4. LineTyped
  <2>1. live = FALSE /\ inbox = <<>> /\ overflowed = FALSE
    BY DEF Init
  <2>2. inbox \in Seq(Packs) /\ Len(inbox) = 0
    BY <2>1
  <2>3. Len(inbox) <= InboxSize
    BY <2>2, Sizes
  <2>4. QED
    BY <2>1, <2>2, <2>3 DEF LineTyped
<1>5. TaskTyped
  <2>1. /\ mode = "init" /\ batch = {} /\ fresh = {} /\ more = FALSE
        /\ windows = 0 /\ needsPull = FALSE
    BY DEF Init
  <2>2. windows \in 0 .. PullWindows
    BY <2>1, Sizes
  <2>3. QED
    BY <2>1, <2>2 DEF TaskTyped
<1>6. OpeningTyped
  BY DEF Init, OpeningTyped, Openers, Places
<1>7. WindowsFit
  <2>1. windows = 0 /\ pc["keys"] = "off"
    BY DEF Init
  <2>2. QED
    BY <2>1 DEF WindowsFit
<1>8. UiTyped
  <2>1. pushed = {} /\ told = NoPage /\ page = NoPage
    BY DEF Init
  <2>2. QED
    BY <1>1, <2>1 DEF UiTyped
<1>9. BoundsTyped
  <2>1. faults = 0 /\ crashes = 0 /\ reads = 0 /\ cutShort = FALSE
    BY DEF Init
  <2>2. faults \in 0 .. Faults /\ crashes \in 0 .. Crashes /\ reads \in 0 .. Reads
    BY <2>1, Bounds
  <2>3. QED
    BY <2>1, <2>2 DEF BoundsTyped
<1>10. QED
  BY <1>2, <1>3, <1>4, <1>5, <1>6, <1>7, <1>8, <1>9 DEF TypeInv, TypeOK

LEMMA StepTyped == TypeInv /\ [Next]_vars => TypeInv'
<1>1. ASSUME TypeInv, Next PROVE TypeInv'
  BY <1>1, KeysTaskKeepsType, ServerKeepsType, RoomKeepsType, OpeningKeepsType, CrashKeepsType,
     KeysInOpeners DEF Next, RoomStep, ReaderStep
<1>2. ASSUME TypeInv, UNCHANGED vars PROVE TypeInv'
  BY <1>2, Untouched DEF vars, TypeInv, TypeOK, OpeningTyped, opening, WindowsFit, importing
<1>3. QED
  BY <1>1, <1>2

\* TypeOK: whatever is pushed, lost, retried or interrupted, every variable has
\* its type; the inbox holds no more than its size and no catch-up takes more
\* than PULL_WINDOWS_LIMIT windows.
THEOREM KeysTyped == Spec => []TypeOK
<1>1. TypeInv => TypeOK
  BY DEF TypeInv
<1>2. QED
  BY <1>1, InitTyped, StepTyped, PTL DEF Spec

----------------------------------------------------------------------------
\* What left the queue is in the store.

\* What may be destroyed has been committed: the batch that is about to be
\* listed, the list, and so all that is no longer queued.
CommittedFirst == /\ pc["keys"] = "save" => batch \subseteq store
                  /\ toDestroy \subseteq store
StoredInv == TypeInv /\ CommittedFirst /\ DestroyedIsStored

\* Whoever goes nowhere near "save" keeps it, as long as nothing leaves the
\* queue, the list grows by nothing and the store loses nothing.
LEMMA StoredFrame ==
  ASSUME StoredInv, TypeInv',
         pc'["keys"] # "save" \/ (pc'["keys"] = pc["keys"] /\ batch' = batch),
         latest' = latest, queue' = queue, toDestroy' \subseteq toDestroy, store' = store
  PROVE  StoredInv'
BY DEF StoredInv, CommittedFirst, DestroyedIsStored

\* A failure does not lead to "save".
LEMMA FailGoesElsewhere ==
  ASSUME TypeOK, Fail
  PROVE  pc'["keys"] # "save"
BY KeysInOpeners DEF TypeOK, OpeningTyped, Fail, PullIfNeeded, Wait, StartPull, SwitchOff, GoTo

LEMMA KeysStepKeepsStored == ASSUME StoredInv, KeysStep PROVE StoredInv'
<1>1. TypeInv /\ TypeInv' /\ TypeOK /\ CommittedFirst /\ DestroyedIsStored
  BY KeysTaskKeepsType DEF StoredInv, TypeInv
<1>2. ASSUME NEW place \in Places, GoTo("keys", place) PROVE pc'["keys"] = place
  BY <1>1, <1>2, KeysInOpeners DEF TypeOK, OpeningTyped, GoTo
<1>3. CASE OpenLine \/ Fetch \/ OpenNextKey \/ BatchDone \/ IdleTimeout \/ Ended \/ NextPack
  <2>1. pc'["keys"] # "save"
    <3>1. CASE OpenLine \/ OpenNextKey \/ NextPack
      BY <1>2, <3>1 DEF OpenLine, OpenNextKey, NextPack, Places
    <3>2. CASE Fetch
      BY <1>1, <1>2, <3>2, FailGoesElsewhere DEF Fetch, Places
    <3>3. CASE BatchDone \/ IdleTimeout \/ Ended
      BY <1>2, <3>3 DEF BatchDone, IdleTimeout, Ended, PullIfNeeded, Wait, StartPull, SwitchOff,
                        Places
    <3>4. QED
      BY <1>3, <3>1, <3>2, <3>3
  <2>2. UNCHANGED server /\ UNCHANGED disk
    BY <1>3 DEF OpenLine, Fetch, OpenNextKey, BatchDone, IdleTimeout, Ended, NextPack
  <2>3. QED
    BY <1>1, <2>1, <2>2, StoredFrame DEF server, disk
<1>4. CASE Import
  <2>1. CASE store' = store \cup batch /\ UNCHANGED batch
    BY <1>1, <1>4, <2>1 DEF Import, StoredInv, CommittedFirst, DestroyedIsStored, server
  <2>2. CASE Fail /\ UNCHANGED store
    BY <1>1, <1>4, <2>2, FailGoesElsewhere, StoredFrame DEF Import, server
  <2>3. QED
    BY <1>4, <2>1, <2>2 DEF Import
<1>5. CASE Save
  <2>1. CASE toDestroy' = toDestroy \cup batch /\ GoTo("keys", "destroy")
    <3>1. pc'["keys"] # "save"
      BY <1>2, <2>1 DEF Places
    <3>2. toDestroy' \subseteq store
      BY <1>1, <1>5, <2>1 DEF Save, CommittedFirst
    <3>3. QED
      BY <1>1, <1>5, <3>1, <3>2 DEF Save, StoredInv, CommittedFirst, DestroyedIsStored, server
  <2>2. CASE Fail /\ UNCHANGED toDestroy
    BY <1>1, <1>5, <2>2, FailGoesElsewhere, StoredFrame DEF Save, server
  <2>3. QED
    BY <1>5, <2>1, <2>2 DEF Save
<1>6. CASE Destroy
  <2>1. pc'["keys"] # "save"
    BY <1>1, <1>2, <1>6, FailGoesElsewhere DEF Destroy, Places
  <2>2. queue' = queue \/ queue' = queue \ toDestroy
    BY <1>6 DEF Destroy
  <2>3. DestroyedIsStored'
    BY <1>1, <1>6, <2>2 DEF Destroy, DestroyedIsStored, CommittedFirst, disk
  <2>4. QED
    BY <1>1, <1>6, <2>1, <2>3 DEF Destroy, StoredInv, CommittedFirst, disk
<1>7. CASE Mark
  <2>1. pc'["keys"] # "save"
    BY <1>1, <1>2, <1>7, FailGoesElsewhere DEF Mark, Places
  <2>2. toDestroy' \subseteq toDestroy
    BY <1>7 DEF Mark
  <2>3. QED
    BY <1>1, <1>7, <2>1, <2>2, StoredFrame DEF Mark, server
<1>8. CASE OpenStored("keys")
  <2>1. pc'["keys"] # "save"
    BY <1>1, <1>2, <1>8 DEF OpenStored, List, Open, Write, Announce, AfterOpening, Places
  <2>2. latest' = latest /\ queue' = queue /\ toDestroy' = toDestroy /\ store' = store
    BY <1>8 DEF OpenStored, List, Open, Write, Announce, server, disk
  <2>3. QED
    BY <1>1, <2>1, <2>2, StoredFrame
<1>9. QED
  BY <1>3, <1>4, <1>5, <1>6, <1>7, <1>8 DEF KeysStep

LEMMA OthersKeepStored ==
  ASSUME StoredInv, Next, ~KeysStep
  PROVE  StoredInv'
<1>1. TypeInv /\ TypeInv' /\ TypeOK /\ CommittedFirst /\ DestroyedIsStored
  BY StepTyped DEF StoredInv, TypeInv
<1>2. CASE QueueItem
  <2>1. latest \in Nat /\ latest' = latest + 1 /\ queue' = queue \cup {latest + 1}
    BY <1>1, <1>2 DEF QueueItem, TypeOK, ServerTyped
  <2>2. \A k \in 1 .. latest' : k \in 1 .. latest \/ k = latest + 1
    BY <2>1
  <2>3. DestroyedIsStored'
    BY <1>1, <1>2, <2>1, <2>2 DEF QueueItem, DestroyedIsStored, disk
  <2>4. QED
    BY <1>1, <1>2, <2>3 DEF QueueItem, StoredInv, CommittedFirst, disk, opening, importing
<1>3. CASE TellGap \/ LineEnds
  BY <1>1, <1>3, StoredFrame DEF TellGap, LineEnds, disk, opening, importing
<1>4. CASE Push \/ RoomStep \/ Recent \/ ReadPage \/ ReaderStep
  <2>1. ASSUME NEW a \in {"room", "reader"}, NEW place, GoTo(a, place)
        PROVE  pc'["keys"] = pc["keys"]
    BY <1>1, <2>1, KeysInOpeners DEF TypeOK, OpeningTyped, GoTo
  <2>2. pc'["keys"] = pc["keys"]
    BY <1>4, <2>1 DEF Push, RoomStep, TryToOpen, StorePush, Notify, Recent, ReadPage, ReaderStep,
                      Reread, Reply, OpenStored, List, Open, Write, Announce
  <2>3. /\ UNCHANGED server /\ UNCHANGED importing
        /\ toDestroy' = toDestroy /\ store' = store
    BY <1>4 DEF Push, RoomStep, TryToOpen, StorePush, Notify, Recent, ReadPage, ReaderStep,
                Reread, Reply, OpenStored, List, Open, Write, Announce, disk
  <2>4. QED
    BY <1>1, <2>2, <2>3, StoredFrame DEF server, importing
<1>5. CASE Crash
  BY <1>1, <1>5, StoredFrame DEF Crash, disk
<1>6. QED
  BY <1>2, <1>3, <1>4, <1>5 DEF Next

\* DestroyedIsStored: import_items never lets the server forget a key that the
\* crypto store has not committed, for any number of items, windows, failures
\* and crashes.
THEOREM NoKeyIsLost == Spec => []DestroyedIsStored
<1>1. Init => StoredInv
  <2>1. Init => TypeInv
    BY InitTyped
  <2>2. Init => CommittedFirst /\ DestroyedIsStored
    BY DEF Init, CommittedFirst, DestroyedIsStored
  <2>3. QED
    BY <2>1, <2>2 DEF StoredInv
<1>2. StoredInv /\ [Next]_vars => StoredInv'
  <2>1. ASSUME StoredInv, UNCHANGED vars PROVE StoredInv'
    BY <2>1, StepTyped DEF vars, server, disk, importing, opening, StoredInv, CommittedFirst,
                          DestroyedIsStored
  <2>2. QED
    BY <2>1, KeysStepKeepsStored, OthersKeepStored
<1>3. StoredInv => DestroyedIsStored
  BY DEF StoredInv
<1>4. QED
  BY <1>1, <1>2, <1>3, PTL DEF Spec

----------------------------------------------------------------------------
\* Message and key meet.

\* Nothing failed so far.
Smooth == faults = 0 /\ crashes = 0 /\ ~cutShort

\* While nothing fails, the keys task works on a line that is up.
LineStays == Smooth => (pc["keys"] # "off" => live)

\* Who is about to open a sealed message whose key is there: the keys task, which still has
\* to come to the key; the push, which looks once more after it stored; who has listed it.
Comes(m) == pc["keys"] \notin {"off", "wait"} /\ KeyOf[m] \in fresh
TriesAgain(m) == pc["room"] = "notify" /\ m \in wanted["room"] /\ m \notin found["room"]
Opens(a, m) == \/ pc[a] = "list" /\ m \in wanted[a]
               \/ pc[a] \in {"open", "write"} /\ m \in found[a]
SomeoneOpens(m) == Comes(m) \/ TriesAgain(m) \/ \E a \in Openers : Opens(a, m)

Met(m) == ~(cache[m] = "sealed" /\ KeyOf[m] \in store)
AllOpened == Smooth => \A m \in Messages : Met(m) \/ SomeoneOpens(m)

MeetInv == TypeInv /\ LineStays /\ AllOpened

LEMMA GoToIs ==
  ASSUME TypeOK, NEW a \in Openers, NEW place, GoTo(a, place)
  PROVE  pc'[a] = place /\ \A b \in Openers : b # a => pc'[b] = pc[b]
BY DEF TypeOK, OpeningTyped, GoTo

LEMMA FaultIsCounted ==
  ASSUME TypeOK, Fault
  PROVE  ~Smooth'
BY Bounds DEF TypeOK, BoundsTyped, Fault, Smooth

\* A failure is never taken back.
LEMMA SmoothBefore ==
  ASSUME TypeOK, Next, Smooth'
  PROVE  Smooth
<1>1. \/ UNCHANGED <<faults, crashes, cutShort>> \/ Fault
      \/ (faults' = faults /\ crashes' = crashes /\ (cutShort' = cutShort \/ cutShort' = TRUE))
      \/ crashes' = crashes + 1
  <2>1. CASE QueueItem \/ TellGap \/ LineEnds
    BY <2>1 DEF QueueItem, TellGap, LineEnds, bounds
  <2>2. CASE OpenLine \/ Fetch \/ Import \/ Save \/ Destroy
    BY <2>2 DEF OpenLine, Fetch, Import, Save, Destroy, bounds
  <2>3. CASE Mark
    BY <2>3 DEF Mark, Fault
  <2>4. CASE OpenNextKey \/ BatchDone \/ NextPack \/ IdleTimeout \/ Ended
    BY <2>4 DEF OpenNextKey, BatchDone, NextPack, IdleTimeout, Ended, bounds
  <2>5. ASSUME NEW a \in Openers, OpenStored(a)
        PROVE  UNCHANGED <<faults, crashes, cutShort>> \/ Fault
    BY <2>5 DEF OpenStored, List, Open, Write, Announce, bounds
  <2>6. CASE Push \/ TryToOpen \/ StorePush \/ Notify
    BY <2>6 DEF Push, TryToOpen, StorePush, Notify, bounds
  <2>7. CASE Recent \/ ReadPage \/ Reread \/ Reply
    BY <2>7 DEF Recent, ReadPage, Reread, Reply, Reading, bounds
  <2>8. CASE Crash
    BY <2>8 DEF Crash
  <2>9. QED
    BY <2>1, <2>2, <2>3, <2>4, <2>5, <2>6, <2>7, <2>8, KeysInOpeners
       DEF Next, KeysStep, RoomStep, ReaderStep
<1>2. crashes' # crashes + 1
  BY Bounds DEF TypeOK, BoundsTyped, Smooth
<1>3. QED
  BY <1>1, <1>2, FaultIsCounted DEF Smooth

\* One opener moves, and what it was to open it still opens; the others stand still.
LEMMA OneMoves ==
  ASSUME NEW a \in Openers, NEW m \in Messages, SomeoneOpens(m),
         \A b \in Openers : b # a => /\ pc'[b] = pc[b] /\ wanted'[b] = wanted[b]
                                     /\ found'[b] = found[b],
         a = "keys" \/ fresh' = fresh,
         Opens(a, m) => SomeoneOpens(m)',
         a = "keys" /\ Comes(m) => SomeoneOpens(m)',
         a = "room" /\ TriesAgain(m) => SomeoneOpens(m)'
  PROVE  SomeoneOpens(m)'
<1>1. CASE Comes(m)
  <2>1. CASE a = "keys"
    BY <1>1, <2>1
  <2>2. CASE a # "keys"
    BY <1>1, <2>2, KeysInOpeners DEF Comes, SomeoneOpens
  <2>3. QED
    BY <2>1, <2>2
<1>2. CASE TriesAgain(m)
  <2>1. CASE a = "room"
    BY <1>2, <2>1
  <2>2. CASE a # "room"
    BY <1>2, <2>2, KeysInOpeners DEF TriesAgain, SomeoneOpens
  <2>3. QED
    BY <2>1, <2>2
<1>3. ASSUME NEW b \in Openers, Opens(b, m)
      PROVE  SomeoneOpens(m)'
  <2>1. CASE b = a
    BY <1>3, <2>1
  <2>2. CASE b # a
    <3>1. (\E d \in Openers : Opens(d, m))'
      BY <1>3, <2>2 DEF Opens
    <3>2. QED
      BY <3>1 DEF SomeoneOpens
  <2>3. QED
    BY <2>1, <2>2
<1>4. QED
  BY <1>1, <1>2, <1>3 DEF SomeoneOpens

\* decrypt_stored leaves nothing behind that it could open.
LEMMA OpeningMeets ==
  ASSUME TypeOK, NEW a \in Openers, OpenStored(a), Smooth', NEW m \in Messages,
         Met(m) \/ SomeoneOpens(m)
  PROVE  Met(m)' \/ SomeoneOpens(m)'
<1>1. store' = store /\ fresh' = fresh /\ wanted' = wanted
  BY DEF OpenStored, List, Open, Write, Announce, disk, importing
<1>2. \A b \in Openers : b # a => pc'[b] = pc[b] /\ found'[b] = found[b]
  <2>1. \A b \in Openers : b # a => pc'[b] = pc[b]
    BY GoToIs DEF OpenStored, List, Open, Write, Announce
  <2>2. \A b \in Openers : b # a => found'[b] = found[b]
    BY DEF OpenStored, List, Open, Write, Announce, TypeOK, OpeningTyped
  <2>3. QED
    BY <2>1, <2>2
<1>3. AfterOpening(a) \in {"nextKey", "idle", "reread"} /\ (a = "keys" => AfterOpening(a) = "nextKey")
  BY DEF AfterOpening, Openers
<1>4. pc[a] \in {"list", "open", "write", "announce"}
      /\ pc'[a] \in {"open", "write", "announce", "nextKey", "idle", "reread"}
      /\ (a = "keys" => pc'[a] \in {"open", "write", "announce", "nextKey"})
  <2>1. CASE List(a)
    BY <2>1, GoToIs DEF List
  <2>2. CASE Open(a)
    BY <1>3, <2>2, GoToIs DEF Open
  <2>3. CASE Write(a)
    BY <1>3, <2>3, GoToIs DEF Write, Openers
  <2>4. CASE Announce(a)
    BY <1>3, <2>4, GoToIs DEF Announce
  <2>5. QED
    BY <2>1, <2>2, <2>3, <2>4 DEF OpenStored
<1>5. ASSUME KeyOf[m] \in store
      PROVE  Readable[m] = "open"
  BY <1>5 DEF Readable
<1>6. ASSUME ~Met(m)', Met(m)
      PROVE  FALSE
  <2>1. cache'[m] = "sealed" /\ cache[m] # "sealed" /\ KeyOf[m] \in store
    BY <1>1, <1>6 DEF Met
  <2>2. cache' = Upsert(found[a], Readable)
    BY <2>1 DEF OpenStored, List, Open, Write, Announce, disk
  <2>3. cache'[m] = cache[m] \/ cache'[m] = Readable[m]
    BY <2>2 DEF Upsert
  <2>4. QED
    BY <1>5, <2>1, <2>3
<1>7. ASSUME ~Met(m)', ~Met(m), Opens(a, m)
      PROVE  Opens(a, m)'
  <2>1. cache[m] = "sealed" /\ KeyOf[m] \in store /\ cache'[m] = "sealed"
    BY <1>1, <1>7 DEF Met
  <2>2. CASE List(a)
    <3>1. pc'[a] = "open" /\ found'[a] = {x \in wanted[a] : cache[x] = "sealed"} /\ pc[a] = "list"
      BY <2>2, GoToIs DEF List, TypeOK, OpeningTyped
    <3>2. QED
      BY <1>7, <2>1, <3>1 DEF Opens
  <2>3. CASE Open(a)
    <3> DEFINE opened == {x \in found[a] : Readable[x] = "open"}
    <3>1. m \in opened
      BY <1>5, <1>7, <2>1, <2>3 DEF Opens, Open
    <3>2. found'[a] = opened
      BY <2>3 DEF Open, TypeOK, OpeningTyped
    <3>3. pc'[a] = "write"
      BY <2>3, <3>1, GoToIs DEF Open
    <3>4. QED
      BY <3>1, <3>2, <3>3 DEF Opens
  <2>4. CASE Write(a)
    <3>1. m \in found[a]
      BY <1>7, <2>4 DEF Write, Opens
    <3>2. cache' = Upsert(found[a], Readable)
      BY <2>4, FaultIsCounted DEF Write
    <3>3. cache'[m] = "open"
      BY <1>5, <2>1, <3>1, <3>2 DEF Upsert
    <3>4. QED
      BY <2>1, <3>3
  <2>5. CASE Announce(a)
    BY <1>7, <2>5 DEF Announce, Opens
  <2>6. QED
    BY <2>2, <2>3, <2>4, <2>5 DEF OpenStored
<1>8. ASSUME ~Met(m)'
      PROVE  SomeoneOpens(m)'
  <2>1. ~Met(m) /\ SomeoneOpens(m)
    BY <1>6, <1>8
  <2>2. Opens(a, m) => SomeoneOpens(m)'
    BY <1>7, <1>8, <2>1 DEF SomeoneOpens
  <2>3. a = "keys" /\ Comes(m) => SomeoneOpens(m)'
    BY <1>1, <1>4 DEF Comes, SomeoneOpens
  <2>4. a = "room" /\ TriesAgain(m) => SomeoneOpens(m)'
    BY <1>4 DEF TriesAgain
  <2>5. QED
    BY <1>1, <1>2, <2>1, <2>2, <2>3, <2>4, OneMoves
<1>9. QED
  BY <1>8

\* The keys task: no new key is passed over.
LEMMA KeysTaskMeets ==
  ASSUME TypeOK, LineStays, Next, Smooth',
         \/ OpenLine \/ Fetch \/ Import \/ Save \/ Destroy \/ Mark
         \/ OpenNextKey \/ BatchDone \/ NextPack \/ IdleTimeout \/ Ended
  PROVE  /\ pc'["keys"] # "off" => live'
         /\ \A m \in Messages : Met(m) \/ SomeoneOpens(m) => Met(m)' \/ SomeoneOpens(m)'
<1> DEFINE Good == /\ pc'["keys"] # "off" => live'
                   /\ \A m \in Messages : Met(m) \/ SomeoneOpens(m) => Met(m)' \/ SomeoneOpens(m)'
<1>1. ~Fault /\ Smooth /\ (pc["keys"] # "off" => live)
  BY FaultIsCounted, SmoothBefore DEF LineStays
<1>2. cache' = cache /\ \A b \in Openers : b # "keys" => /\ pc'[b] = pc[b] /\ found'[b] = found[b]
                                                         /\ wanted'[b] = wanted[b]
  <2>1. cache' = cache /\ found' = found
    BY DEF OpenLine, Fetch, Import, Save, Destroy, Mark, OpenNextKey, BatchDone, NextPack,
           IdleTimeout, Ended, disk
  <2>2. \A b \in Openers : b # "keys" => wanted'[b] = wanted[b]
    BY DEF OpenLine, Fetch, Import, Save, Destroy, Mark, OpenNextKey, BatchDone, NextPack,
           IdleTimeout, Ended, TypeOK, OpeningTyped
  <2>3. ASSUME NEW place, GoTo("keys", place)
        PROVE  \A b \in Openers : b # "keys" => pc'[b] = pc[b]
    BY <2>3, GoToIs, KeysInOpeners
  <2>4. ASSUME Fail
        PROVE  \A b \in Openers : b # "keys" => pc'[b] = pc[b]
    BY <2>3, <2>4 DEF Fail, SwitchOff, Wait, PullIfNeeded, StartPull
  <2>5. \A b \in Openers : b # "keys" => pc'[b] = pc[b]
    <3>1. CASE OpenLine \/ Fetch \/ Import \/ Save \/ Destroy \/ Mark
      BY <2>3, <2>4, <3>1 DEF OpenLine, Fetch, Import, Save, Destroy, Mark
    <3>2. CASE OpenNextKey \/ BatchDone \/ IdleTimeout \/ Ended
      BY <2>3, <3>2 DEF OpenNextKey, BatchDone, IdleTimeout, Ended, PullIfNeeded, Wait,
                        StartPull, SwitchOff
    <3>3. CASE NextPack
      BY <2>3, <3>3 DEF NextPack
    <3>4. QED
      BY <3>1, <3>2, <3>3
  <2>6. QED
    BY <2>1, <2>2, <2>5
\* Where nothing new comes and the task hands on what it was to open.
<1>3. ASSUME store' = store, live' = live, pc["keys"] # "off",
             \A m \in Messages : Opens("keys", m) \/ Comes(m) => SomeoneOpens(m)'
      PROVE  Good
  <2>1. ASSUME NEW m \in Messages, Met(m) \/ SomeoneOpens(m), ~Met(m)'
        PROVE  SomeoneOpens(m)'
    <3>1. ~Met(m)
      BY <1>2, <1>3, <2>1 DEF Met
    <3>2. QED
      BY <1>2, <1>3, <2>1, <3>1, OneMoves, KeysInOpeners
  <2>2. QED
    BY <1>1, <1>3, <2>1
<1>4. ASSUME pc'["keys"] \notin {"off", "wait"}, fresh' = fresh, store' = store, live' = live,
             pc["keys"] \in {"fetch", "save", "destroy", "mark"}
      PROVE  Good
  <2>1. \A m \in Messages : Opens("keys", m) \/ Comes(m) => SomeoneOpens(m)'
    BY <1>4 DEF Opens, Comes, SomeoneOpens
  <2>2. QED
    BY <1>3, <1>4, <2>1
<1>5. ASSUME pc["keys"] \in {"off", "wait"} \/ (pc["keys"] = "nextKey" /\ fresh = {}),
             store' = store, pc'["keys"] # "off" => live'
      PROVE  Good
  <2>1. ASSUME NEW m \in Messages
        PROVE  ~Opens("keys", m) /\ ~Comes(m)
    BY <1>5 DEF Opens, Comes
  <2>2. ASSUME NEW m \in Messages, Met(m) \/ SomeoneOpens(m), ~Met(m)'
        PROVE  SomeoneOpens(m)'
    <3>1. ~Met(m)
      BY <1>2, <1>5, <2>2 DEF Met
    <3>2. QED
      BY <1>2, <2>1, <2>2, <3>1, OneMoves, KeysInOpeners
  <2>3. QED
    BY <1>5, <2>2
<1>6. CASE OpenLine
  <2>1. pc["keys"] = "off" /\ live' /\ store' = store
    BY <1>6 DEF OpenLine, disk
  <2>2. QED
    BY <1>5, <2>1
<1>7. CASE Fetch
  <2>1. pc["keys"] = "fetch" /\ pc'["keys"] = "import" /\ fresh' = fresh /\ live' = live
        /\ store' = store
    BY <1>1, <1>7, GoToIs, KeysInOpeners DEF Fetch, disk, keysLine
  <2>2. QED
    BY <1>4, <2>1
<1>8. CASE Import
  <2>1. /\ pc["keys"] = "import" /\ pc'["keys"] = "save" /\ live' = live
        /\ fresh' = fresh \cup (batch \ store) /\ store' = store \cup batch
    BY <1>1, <1>8, GoToIs, KeysInOpeners DEF Import, keysLine
  <2>2. ASSUME NEW m \in Messages, Met(m) \/ SomeoneOpens(m), ~Met(m)'
        PROVE  SomeoneOpens(m)'
    <3>1. CASE Met(m)
      <4>1. KeyOf[m] \in fresh'
        BY <1>2, <2>1, <2>2, <3>1 DEF Met
      <4>2. QED
        BY <2>1, <4>1 DEF Comes, SomeoneOpens
    <3>2. CASE SomeoneOpens(m)
      <4>1. ~Opens("keys", m)
        BY <2>1 DEF Opens
      <4>2. Comes(m) => SomeoneOpens(m)'
        BY <2>1 DEF Comes, SomeoneOpens
      <4>3. QED
        BY <1>2, <3>2, <4>1, <4>2, OneMoves, KeysInOpeners
    <3>3. QED
      BY <2>2, <3>1, <3>2
  <2>3. QED
    BY <1>1, <2>1, <2>2
<1>9. CASE Save
  <2>1. pc["keys"] = "save" /\ pc'["keys"] = "destroy" /\ fresh' = fresh /\ live' = live
        /\ store' = store
    BY <1>1, <1>9, GoToIs, KeysInOpeners DEF Save, keysLine, importing
  <2>2. QED
    BY <1>4, <2>1
<1>10. CASE Destroy
  <2>1. pc["keys"] = "destroy" /\ pc'["keys"] = "mark" /\ fresh' = fresh /\ live' = live
        /\ store' = store
    BY <1>1, <1>10, GoToIs, KeysInOpeners DEF Destroy, keysLine, importing, disk
  <2>2. QED
    BY <1>4, <2>1
<1>11. CASE Mark
  <2>1. pc["keys"] = "mark" /\ pc'["keys"] \in {"nextKey", "fetch"} /\ fresh' = fresh
        /\ live' = live /\ store' = store
    BY <1>1, <1>11, GoToIs, KeysInOpeners DEF Mark, keysLine, importing, Smooth
  <2>2. QED
    BY <1>4, <2>1
<1>12. CASE OpenNextKey
  <2>1. PICK k \in fresh :
          /\ fresh' = fresh \ {k}
          /\ wanted' = [wanted EXCEPT !["keys"] = {m \in Messages : KeyOf[m] = k}]
    BY <1>12 DEF OpenNextKey
  <2>2. pc["keys"] = "nextKey" /\ pc'["keys"] = "list" /\ live' = live /\ store' = store
    BY <1>12, GoToIs, KeysInOpeners DEF OpenNextKey, keysLine, disk
  <2>3. wanted'["keys"] = {m \in Messages : KeyOf[m] = k}
    BY <2>1, KeysInOpeners DEF TypeOK, OpeningTyped
  <2>4. ASSUME NEW m \in Messages, Opens("keys", m) \/ Comes(m)
        PROVE  SomeoneOpens(m)'
    <3>1. KeyOf[m] \in fresh
      BY <2>2, <2>4 DEF Opens, Comes
    <3>2. CASE KeyOf[m] = k
      <4>1. Opens("keys", m)'
        BY <2>2, <2>3, <3>2 DEF Opens
      <4>2. QED
        BY <4>1, KeysInOpeners DEF SomeoneOpens
    <3>3. CASE KeyOf[m] # k
      BY <2>1, <2>2, <3>1, <3>3 DEF Comes, SomeoneOpens
    <3>4. QED
      BY <3>2, <3>3
  <2>5. QED
    BY <1>3, <2>2, <2>4
<1>13. CASE BatchDone
  <2>1. pc["keys"] = "nextKey" /\ fresh = {} /\ store' = store /\ live' = live
    BY <1>13 DEF BatchDone, PullIfNeeded, Wait, StartPull, disk
  <2>2. QED
    BY <1>1, <1>5, <2>1
<1>14. CASE NextPack \/ IdleTimeout
  <2>1. pc["keys"] = "wait" /\ store' = store /\ live' = live
    BY <1>14 DEF NextPack, IdleTimeout, PullIfNeeded, Wait, StartPull, disk
  <2>2. QED
    BY <1>1, <1>5, <2>1
<1>15. CASE Ended
  <2>1. pc["keys"] = "wait" /\ store' = store /\ pc'["keys"] = "off"
    BY <1>15, GoToIs, KeysInOpeners DEF Ended, SwitchOff, disk
  <2>2. QED
    BY <1>5, <2>1
<1>16. QED
  BY <1>6, <1>7, <1>8, <1>9, <1>10, <1>11, <1>12, <1>13, <1>14, <1>15

\* What one of the others does: it changes the cache by Upsert alone, and answers for what
\* it leaves sealed.
LEMMA RoomMeets ==
  ASSUME TypeOK, NEW m \in Messages, Smooth', Met(m) \/ SomeoneOpens(m),
         Push \/ TryToOpen \/ StorePush \/ Notify
  PROVE  Met(m)' \/ SomeoneOpens(m)'
<1>1. ~Fault
  BY FaultIsCounted
<1>2. store' = store /\ fresh' = fresh
  BY DEF Push, TryToOpen, StorePush, Notify, disk, importing
<1>3. \A b \in Openers : b # "room" => /\ pc'[b] = pc[b] /\ wanted'[b] = wanted[b]
                                       /\ found'[b] = found[b]
  <2>1. \A b \in Openers : b # "room" => pc'[b] = pc[b]
    BY GoToIs, KeysInOpeners DEF Push, TryToOpen, StorePush, Notify
  <2>2. \A b \in Openers : b # "room" => wanted'[b] = wanted[b] /\ found'[b] = found[b]
    BY DEF Push, TryToOpen, StorePush, Notify, TypeOK, OpeningTyped
  <2>3. QED
    BY <2>1, <2>2
<1>4. ~Opens("room", m)
  BY DEF Push, TryToOpen, StorePush, Notify, Opens
<1>5. CASE Push \/ TryToOpen
  <2>1. pc["room"] \in {"idle", "try"} /\ cache' = cache
    BY <1>5 DEF Push, TryToOpen, disk
  <2>2. ~TriesAgain(m) /\ (Met(m)' <=> Met(m))
    BY <1>2, <2>1 DEF TriesAgain, Met
  <2>3. QED
    BY <1>2, <1>3, <1>4, <2>2, OneMoves, KeysInOpeners
<1>6. CASE StorePush
  <2>1. /\ pc["room"] = "store" /\ pc'["room"] = "notify" /\ wanted' = wanted /\ found' = found
        /\ cache' = Upsert(wanted["room"], AsTried)
    BY <1>1, <1>6, GoToIs, KeysInOpeners DEF StorePush
  <2>2. CASE m \in wanted["room"] /\ m \notin found["room"]
    BY <2>1, <2>2 DEF TriesAgain, SomeoneOpens
  <2>3. CASE m \in wanted["room"] /\ m \in found["room"]
    <3>1. cache'[m] = "open"
      BY <2>1, <2>3 DEF Upsert, AsTried
    <3>2. QED
      BY <3>1 DEF Met
  <2>4. CASE m \notin wanted["room"]
    <3>1. cache'[m] = cache[m]
      BY <2>1, <2>4 DEF Upsert
    <3>2. Met(m)' <=> Met(m)
      BY <1>2, <3>1 DEF Met
    <3>3. ~TriesAgain(m)
      BY <2>1 DEF TriesAgain
    <3>4. QED
      BY <1>2, <1>3, <1>4, <3>2, <3>3, OneMoves, KeysInOpeners
  <2>5. QED
    BY <2>2, <2>3, <2>4
<1>7. CASE Notify
  <2>1. cache' = cache /\ wanted'["room"] = wanted["room"] \ found["room"]
    BY <1>7, KeysInOpeners DEF Notify, disk, TypeOK, OpeningTyped
  <2>2. Met(m)' <=> Met(m)
    BY <1>2, <2>1 DEF Met
  <2>3. ASSUME TriesAgain(m)
        PROVE  SomeoneOpens(m)'
    <3>1. m \in wanted'["room"]
      BY <2>1, <2>3 DEF TriesAgain
    <3>2. pc'["room"] = "list"
      BY <1>7, <3>1, GoToIs, KeysInOpeners DEF Notify
    <3>3. Opens("room", m)'
      BY <3>1, <3>2 DEF Opens
    <3>4. QED
      BY <3>3, KeysInOpeners DEF SomeoneOpens
  <2>4. QED
    BY <1>2, <1>3, <1>4, <2>2, <2>3, OneMoves, KeysInOpeners
<1>8. QED
  BY <1>5, <1>6, <1>7

LEMMA ReaderMeets ==
  ASSUME TypeOK, NEW m \in Messages, Met(m) \/ SomeoneOpens(m),
         Recent \/ ReadPage \/ Reread \/ Reply
  PROVE  Met(m)' \/ SomeoneOpens(m)'
<1>1. store' = store /\ fresh' = fresh
  BY DEF Recent, ReadPage, Reread, Reply, disk, importing
<1>2. CASE Recent
  <2>1. pc'["reader"] = "list" /\ wanted'["reader"] = Messages
    BY <1>2, GoToIs, KeysInOpeners DEF Recent, TypeOK, OpeningTyped
  <2>2. Opens("reader", m)'
    BY <2>1 DEF Opens
  <2>3. QED
    BY <2>2, KeysInOpeners DEF SomeoneOpens
<1>3. CASE ReadPage \/ Reread \/ Reply
  <2>1. cache' = cache
    BY <1>3 DEF ReadPage, Reread, Reply, disk
  <2>2. Met(m)' <=> Met(m)
    BY <1>1, <2>1 DEF Met
  <2>3. ~Opens("reader", m)
    BY <1>3 DEF ReadPage, Reread, Reply, Opens
  <2>4. \A b \in Openers : b # "reader" => pc'[b] = pc[b]
    BY <1>3, GoToIs, KeysInOpeners DEF ReadPage, Reread, Reply
  <2>5. \A b \in Openers : b # "reader" => wanted'[b] = wanted[b] /\ found'[b] = found[b]
    BY <1>3 DEF ReadPage, Reread, Reply, TypeOK, OpeningTyped
  <2>6. QED
    BY <1>1, <2>2, <2>3, <2>4, <2>5, OneMoves, KeysInOpeners
<1>4. QED
  BY <1>2, <1>3

LEMMA MeetStep ==
  ASSUME MeetInv, Next
  PROVE  MeetInv'
<1>1. TypeOK /\ TypeInv' /\ TypeInv
  BY StepTyped DEF MeetInv, TypeInv
<1>2. SUFFICES ASSUME Smooth'
               PROVE  /\ pc'["keys"] # "off" => live'
                      /\ \A m \in Messages : Met(m)' \/ SomeoneOpens(m)'
  BY <1>1 DEF MeetInv, LineStays, AllOpened
<1>3. Smooth
  BY <1>1, <1>2, SmoothBefore
<1>4. LineStays /\ (pc["keys"] # "off" => live) /\ \A m \in Messages : Met(m) \/ SomeoneOpens(m)
  BY <1>3 DEF MeetInv, LineStays, AllOpened
<1>5. CASE \/ OpenLine \/ Fetch \/ Import \/ Save \/ Destroy \/ Mark
           \/ OpenNextKey \/ BatchDone \/ NextPack \/ IdleTimeout \/ Ended
  BY <1>1, <1>2, <1>4, <1>5, KeysTaskMeets
<1>6. ASSUME NEW a \in Openers, OpenStored(a)
      PROVE  /\ pc'["keys"] # "off" => live'
             /\ \A m \in Messages : Met(m)' \/ SomeoneOpens(m)'
  <2>1. pc["keys"] # "off" \/ a # "keys"
    BY <1>6 DEF OpenStored, List, Open, Write, Announce
  <2>2. live' = live
    BY <1>6 DEF OpenStored, List, Open, Write, Announce, keysLine
  <2>3. a # "keys" => pc'["keys"] = pc["keys"]
    BY <1>1, <1>6, GoToIs, KeysInOpeners DEF OpenStored, List, Open, Write, Announce
  <2>4. QED
    BY <1>1, <1>2, <1>4, <1>6, <2>1, <2>2, <2>3, OpeningMeets
<1>7. CASE Push \/ TryToOpen \/ StorePush \/ Notify
  <2>1. live' = live
    BY <1>7 DEF Push, TryToOpen, StorePush, Notify, keysLine
  <2>2. pc'["keys"] = pc["keys"]
    BY <1>1, <1>7, GoToIs, KeysInOpeners DEF Push, TryToOpen, StorePush, Notify
  <2>3. QED
    BY <1>1, <1>2, <1>4, <1>7, <2>1, <2>2, RoomMeets
<1>8. CASE Recent \/ ReadPage \/ Reread \/ Reply
  <2>1. live' = live
    BY <1>8 DEF Recent, ReadPage, Reread, Reply, keysLine
  <2>2. pc'["keys"] = pc["keys"]
    BY <1>1, <1>8, GoToIs, KeysInOpeners DEF Recent, ReadPage, Reread, Reply
  <2>3. QED
    BY <1>1, <1>4, <1>8, <2>1, <2>2, ReaderMeets
<1>9. CASE QueueItem \/ TellGap
  <2>1. live' = live /\ UNCHANGED <<disk, importing, opening>>
    BY <1>9 DEF QueueItem, TellGap
  <2>2. UNCHANGED <<store, cache, fresh, pc, wanted, found>>
    BY <2>1 DEF disk, importing, opening
  <2>3. \A m \in Messages : (Met(m)' <=> Met(m)) /\ (SomeoneOpens(m)' <=> SomeoneOpens(m))
    BY <2>2 DEF Met, SomeoneOpens, Comes, TriesAgain, Opens
  <2>4. QED
    BY <1>4, <2>1, <2>2, <2>3
<1>10. CASE LineEnds \/ Crash
  <2>1. ~Fault
    BY <1>1, <1>2, FaultIsCounted
  <2>2. crashes' = 0 /\ crashes = 0
    BY <1>2, <1>3 DEF Smooth
  <2>3. QED
    BY <1>10, <2>1, <2>2 DEF LineEnds, Crash
<1>11. QED
  BY <1>5, <1>6, <1>7, <1>8, <1>9, <1>10, KeysInOpeners DEF Next, KeysStep, RoomStep, ReaderStep

\* MessageMeetsKey: the key may come before its message, after it, or between any two steps
\* of who stores it and who reads: while nothing fails, once everybody rests no message is
\* sealed whose key is there.
THEOREM KeysMeetMessages == Spec => []MessageMeetsKey
<1>1. Init => MeetInv
  <2>1. Init => LineStays /\ AllOpened
    BY DEF Init, LineStays, AllOpened, Met
  <2>2. QED
    BY <2>1, InitTyped DEF MeetInv
<1>2. MeetInv /\ [Next]_vars => MeetInv'
  <2>1. ASSUME MeetInv, UNCHANGED vars
        PROVE  MeetInv'
    <3>1. TypeInv'
      BY <2>1, StepTyped DEF MeetInv
    <3>2. UNCHANGED <<store, cache, fresh, pc, wanted, found, live, faults, crashes, cutShort>>
      BY <2>1 DEF vars, disk, importing, opening, keysLine, bounds
    <3>3. Smooth' <=> Smooth
      BY <3>2 DEF Smooth
    <3>4. \A m \in Messages : (Met(m)' <=> Met(m)) /\ (SomeoneOpens(m)' <=> SomeoneOpens(m))
      BY <3>2 DEF Met, SomeoneOpens, Comes, TriesAgain, Opens
    <3>5. QED
      BY <2>1, <3>1, <3>2, <3>3, <3>4 DEF MeetInv, LineStays, AllOpened
  <2>2. QED
    BY <2>1, MeetStep
<1>3. MeetInv => MessageMeetsKey
  <2>1. ASSUME MeetInv, Quiet, Smooth, NEW m \in StoredSealed
        PROVE  FALSE
    <3>1. m \in Messages /\ ~Met(m)
      BY <2>1 DEF StoredSealed, Met
    <3>2. SomeoneOpens(m)
      BY <2>1, <3>1 DEF MeetInv, AllOpened
    <3>3. ~Comes(m) /\ ~TriesAgain(m) /\ \A a \in Openers : ~Opens(a, m)
      BY <2>1 DEF Quiet, Comes, TriesAgain, Opens, Openers
    <3>4. QED
      BY <3>2, <3>3 DEF SomeoneOpens
  <2>2. QED
    BY <2>1 DEF MessageMeetsKey, Smooth
<1>4. QED
  BY <1>1, <1>2, <1>3, PTL DEF Spec
=============================================================================
