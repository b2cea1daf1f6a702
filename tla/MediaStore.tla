------------------------------ MODULE MediaStore ------------------------------
(***************************************************************************)
(* Where the media files of one server are kept                            *)
(* (wbf-sdk/src/media_pool.rs, seek_store.rs, media.rs, the `media` table  *)
(* of cache.rs): the pending file m<id> that a download appends to, its    *)
(* seek file m<id>.seek, the pool of complete files named by their         *)
(* content's hash, and the rows that say which file has which.  Beside the *)
(* downloads the cache's one writer thread sweeps, collects garbage and    *)
(* deletes local copies, and the program stops: killed, or with the power, *)
(* which takes what was not fsynced.                                       *)
(*                                                                         *)
(* The disk and the table are two stores without a common transaction, so  *)
(* each step here is one change of one of them.  A chunked file (`kind` 1) *)
(* is downloaded chunk by chunk and goes on where its pending file ends;   *)
(* a standard Matrix attachment (wbf-core/src/matrix_download.rs) is read  *)
(* from its start every time.  Who may download is Downloads' part, how a  *)
(* chunk is asked for ChunkFlight's.                                       *)
(***************************************************************************)
EXTENDS Integers, Sequences, FiniteSetsExt

CONSTANTS
  Files,      \* the mxc URIs
  Contents,
  Cases,      \* which files come over HTTP (`kind` 2 and 3), what each holds (two uploads
              \* may hold the same), and what may happen (see `left`)
  FirstId,    \* the rows that came with the events
  LastId,     \* the newest row, another file's
  Size,       \* a file's length
  Seg,        \* SEGMENT_SIZE
  Chunk,      \* chunk_size: a chunk may end in the middle of a segment
  None,
  MaxId,      \* bound: row ids
  MaxCells    \* bound: cells of a seek file

VARIABLES
  matrix, content, \* chosen in the beginning
  rows,    \* the media table: [id, done, hash] of a file, or None
  top,     \* the highest id in the table
  old,     \* files not used in the protection period
  pend,    \* pending/: the main file of an id, or None
  seek,    \* pending/: the seek file of an id, or None
  pool,    \* media/<hh>/: the complete files
  opening, \* the hashes some thread has opened to read and not entered there yet
  reading, \* OPEN_READERS: the hashes some PoolReader has open
  job,     \* the download of a file
  tidy,    \* what the writer thread is in the middle of
  sealed,  \* history: what was sealed, with its nonce
  bases,   \* nonce bases drawn so far
  left     \* bound: how often each of the upsets may still happen

disk == <<pend, seek, pool>>
table == <<rows, top, old>>
history == <<sealed, bases>>
readers == <<opening, reading>>
given == <<matrix, content>>
storeVars == <<given, table, disk, readers, job, tidy, history, left>>

Least(a, b) == IF a < b THEN a ELSE b

Ids == 1..MaxId
ChunkIds == 1..((Size + Chunk - 1) \div Chunk)
SegIds == 1..((Size + Seg - 1) \div Seg)

\* A plaintext is a sequence of units, each known by the content it belongs to.
Units == Contents \X Nat
Pieces == Seq(Units)

\* What a file holds after its first `from` units and up to its `to`-th.
Piece(f, from, to) == [k \in 1..(to - from) |-> <<content[f], from + k>>]

\* The file cut into segments.
Segment(f, i) == Piece(f, (i - 1) * Seg, Least(i * Seg, Size))
Whole(f) == [i \in SegIds |-> Segment(f, i)]

\* The segments of a plaintext that are full, and what is left over.
FullSegs(data) == [i \in 1..(Len(data) \div Seg) |-> SubSeq(data, (i - 1) * Seg + 1, i * Seg)]
LeftOver(data) == SubSeq(data, (Len(data) \div Seg) * Seg + 1, Len(data))

\* A record that does not authenticate opens to nothing.
Bad == <<>>

Row == [id : Ids, done : BOOLEAN, hash : Seq(Pieces) \union {None}]
PendingFile == [owner : Files, base : Nat, segs : Seq(Pieces), durable : Nat]
Cell == [chunk : ChunkIds, of : Files \union {None}, state : {"good", "half", "torn"}]
SeekFile == [base : Nat, cells : Seq(Cell)]

\* Downloads started; files opened to read; writes that fail, cancels, lines that end;
\* sweeps and removals; stops of the program; databases that cannot be opened any more.
Upsets == {"jobs", "reads", "faults", "tidies", "stops", "losses"}

ASSUME Sizes ==
  /\ Size \in Nat \ {0} /\ Seg \in Nat \ {0} /\ Chunk \in Nat \ {0}
  /\ MaxId \in Nat /\ MaxCells \in Nat /\ LastId \in Ids
  /\ IsFiniteSet(Files)
  /\ FirstId \in [Files -> 1..(LastId - 1)]
  /\ \A f, g \in Files : FirstId[f] = FirstId[g] => f = g
  /\ \A case \in Cases : /\ case[1] \subseteq Files
                          /\ case[2] \in [Files -> Contents]
                          /\ case[3] \in [Upsets -> Nat]

ASSUME Nothing ==
  /\ None \notin Files /\ None \notin Row /\ None \notin PendingFile /\ None \notin SeekFile
  /\ None \notin Seq(Pieces) /\ None \notin Cell

NoSlots == [i \in ChunkIds |-> 0]
Idle == [pc |-> "idle", id |-> 0, buffer |-> <<>>, slots |-> NoSlots, cells |-> 0, name |-> <<>>]
ThreadIdle == [pc |-> "free", of |-> None, names |-> {}, files |-> {}, hash |-> None]

May(what) == left[what] > 0
Spend(what) == left' = [left EXCEPT ![what] = @ - 1]

\* media_row_id: SQLite gives a new row the highest id plus one.
NewRow == [id |-> top + 1, done |-> FALSE, hash |-> None]

MakesRow(f) ==
  /\ top < MaxId
  /\ rows' = [rows EXCEPT ![f] = NewRow]
  /\ top' = top + 1

\* media_reset
Reset(row) == IF row = None THEN None ELSE [row EXCEPT !.done = FALSE, !.hash = None]

Owners(id) == {f \in Files : rows[f] # None /\ rows[f].id = id}

\* list_names_in_use: a handler takes a file's name back before it finishes
\* the file, a transfer keeps its name in the registry until it is over.
InUse == {job[f].id : f \in {g \in Files :
            \/ job[g].pc \in {"open", "cut"}
            \/ g \in matrix /\ job[g].pc \in {"begun", "finished", "adopted", "measured"}}}

\* The writer thread runs one closure at a time; a sweep that is only asked
\* for still waits behind the others.
ThreadFree == tidy.pc \in {"free", "asked"}

InPool(h) == {p \in pool : p.name = h}

\* open_read: whole records, and the last one opens.
Opens(p) == p.segs # <<>> /\ p.segs[Len(p.segs)] # Bad

\* open_complete
IsComplete(row) ==
  /\ row.done
  /\ \E p \in InPool(row.hash) :
       Opens(p) /\ (Len(p.segs) - 1) * Seg + Len(p.segs[Len(p.segs)]) = Size

References(h) == Cardinality({f \in Files : rows[f] # None /\ rows[f].hash = h})

\* The file is unlinked under the writer that has it open: it fails when it
\* wants to rename it.
CutOff(ids) == [f \in Files |-> IF job[f].pc = "open" /\ job[f].id \in ids
                                  THEN [job[f] EXCEPT !.pc = "cut"] ELSE job[f]]

StoreInit ==
  /\ \E case \in Cases : matrix = case[1] /\ content = case[2] /\ left = case[3]
  /\ rows = [f \in Files |-> [id |-> FirstId[f], done |-> FALSE, hash |-> None]]
  /\ top = LastId
  /\ old = {}
  /\ pend = [id \in Ids |-> None] /\ seek = [id \in Ids |-> None]
  /\ pool = {} /\ opening = {} /\ reading = {}
  /\ job = [f \in Files |-> Idle]
  /\ tidy = ThreadIdle
  /\ sealed = {} /\ bases = 0

----------------------------------------------------------------------------
\* The main file.

\* Mutant: a file that does not end well starts anew.
LeadingIfWhole(segs) == IF \A i \in 1..Len(segs) : Len(segs[i]) = Seg THEN Len(segs) ELSE 0

\* resume_pending: full segments are progress up to the first record that does
\* not open; a short one is taken back into memory if it is the last.
LeadingFull(segs) ==
  Max({n \in 0..Len(segs) : \A i \in 1..n : Len(segs[i]) = Seg})

Held(segs) == LET n == LeadingFull(segs)
              IN IF Len(segs) = n + 1 THEN segs[n + 1] ELSE Bad

\* SeekStore::reopen: numbers go on after the last cell, a half one included;
\* of two cells of a chunk the first counts.
SlotsOf(cells) ==
  [i \in ChunkIds |->
     LET at == {s \in DOMAIN cells : cells[s].chunk = i /\ cells[s].state # "half"}
     IN IF at = {} THEN 0 ELSE Min(at)]

\* Mutant: a cell that was cut short does not count.
WholeCells(cells) == Cardinality({s \in DOMAIN cells : cells[s].state # "half"})

NumbersUsed(cells) == Len(cells)

\* Cells are bound to their file; the file's header is not.
CellOpens(f, cell) == cell.state = "good" /\ cell.of = f

\* Its first cell is another file's does not open: a new one is made.
Reopens(f, s) ==
  /\ s # None
  /\ \/ s.cells = <<>> \/ s.cells[1].state = "half"
     \/ CellOpens(f, s.cells[1])

\* open_media, ensure_matrix_download: the row first, made if there is none.
BeginDownload(f) ==
  /\ job[f].pc = "idle" /\ May("jobs")
  /\ ThreadFree
  /\ ~(rows[f] # None /\ IsComplete(rows[f]))
  /\ IF rows[f] = None THEN MakesRow(f) ELSE UNCHANGED <<rows, top>>
  /\ job' = [job EXCEPT ![f] = [Idle EXCEPT !.pc = "begun", !.id = rows'[f].id]]
  /\ Spend("jobs")
  /\ UNCHANGED <<old, disk, readers, tidy, history>>

\* Mutant: whose file it is is not asked.
ResumesAnybodys(f, p) ==
  /\ p # None
  /\ LET n == LeadingFull(p.segs) IN n * Seg + Len(Held(p.segs)) <= Size

\* May this file's download go on with what pending/ has under its name?
Resumes(f, p) ==
  /\ p # None
  /\ p.owner = f
  /\ LET n == LeadingFull(p.segs) IN n * Seg + Len(Held(p.segs)) <= Size

\* MediaDownload::open
OpenMain(f) ==
  LET id == job[f].id
      p == pend[id]
      s == seek[id]
      n == LeadingFull(p.segs)
      slots == IF s # None /\ Reopens(f, s) THEN SlotsOf(s.cells) ELSE NoSlots
      cells == IF s # None /\ Reopens(f, s) THEN NumbersUsed(s.cells) ELSE 0
      opened == [job[f] EXCEPT !.pc = "open", !.slots = slots, !.cells = cells]
  IN /\ job[f].pc = "begun" /\ f \notin matrix
     /\ IF Resumes(f, p)
          THEN /\ pend' = [pend EXCEPT ![id].segs = SubSeq(p.segs, 1, n),
                                       ![id].durable = Least(p.durable, n)]
               /\ job' = [job EXCEPT ![f] = [opened EXCEPT !.buffer = Held(p.segs)]]
               /\ bases' = bases + (IF s # None /\ ~Reopens(f, s) THEN 1 ELSE 0)
          ELSE /\ pend' = [pend EXCEPT ![id] = [owner |-> f, base |-> bases + 1,
                                                segs |-> <<>>, durable |-> 0]]
               /\ job' = [job EXCEPT ![f] = opened]
               /\ bases' = bases + (IF s # None /\ ~Reopens(f, s) THEN 2 ELSE 1)
     /\ seek' = IF s # None /\ ~Reopens(f, s)
                  THEN [seek EXCEPT ![id] = [base |-> bases', cells |-> <<>>]]
                  ELSE seek
     /\ UNCHANGED <<table, pool, readers, tidy, sealed, left>>

\* TransferTask::download: the row is asked for again, and there is no going on.
OpenStream(f) ==
  LET id == job[f].id
  IN /\ job[f].pc = "begun" /\ f \in matrix
     /\ rows[f] # None /\ ~IsComplete(rows[f])
     /\ pend' = [pend EXCEPT ![id] = [owner |-> f, base |-> bases + 1,
                                      segs |-> <<>>, durable |-> 0]]
     /\ job' = [job EXCEPT ![f].pc = "open"]
     /\ bases' = bases + 1
     /\ UNCHANGED <<table, seek, pool, readers, tidy, sealed, left>>

\* PoolWriter::plain_len
PlainLen(f) == Len(pend[job[f].id].segs) * Seg + Len(job[f].buffer)

ChunkOf(f, i) == Piece(f, (i - 1) * Chunk, Least(i * Chunk, Size))

NextChunk(f) == PlainLen(f) \div Chunk + 1

\* Adding to the main file: each segment is sealed as soon as it is full.
Write(f, data) ==
  LET id == job[f].id
      p == pend[id]
      all == job[f].buffer \o data
      at == Len(p.segs)
  IN /\ pend' = [pend EXCEPT ![id].segs = p.segs \o FullSegs(all)]
     /\ job' = [job EXCEPT ![f].buffer = LeftOver(all)]
     /\ sealed' = sealed \union
          {<<"main", p.base, at + i, FullSegs(all)[i]>> : i \in DOMAIN FullSegs(all)}

\* The cell the table names for the next chunk.
NextCell(f) ==
  LET slot == job[f].slots[NextChunk(f)]
  IN IF slot = 0 THEN None ELSE seek[job[f].id].cells[slot]

\* advance_from_seek_store, land_chunk: what the file has of the chunk is dropped.
LandChunk(f) ==
  /\ job[f].pc = "open" /\ PlainLen(f) < Size
  /\ NextCell(f) # None => CellOpens(f, NextCell(f)) /\ NextCell(f).chunk = NextChunk(f)
  /\ LET plain == IF NextCell(f) = None THEN ChunkOf(f, NextChunk(f))
                  ELSE ChunkOf(NextCell(f).of, NextCell(f).chunk)
         already == PlainLen(f) - (NextChunk(f) - 1) * Chunk
     IN Write(f, SubSeq(plain, already + 1, Len(plain)))
  /\ old' = old \ {f}
  /\ UNCHANGED <<rows, top, seek, pool, readers, tidy, bases, left>>

\* SeekStore::read: a cell that does not open leaves the table.
DropCell(f) ==
  /\ job[f].pc = "open" /\ f \notin matrix /\ PlainLen(f) < Size
  /\ NextCell(f) # None
  /\ ~CellOpens(f, NextCell(f)) \/ NextCell(f).chunk # NextChunk(f)
  /\ job' = [job EXCEPT ![f].slots[NextChunk(f)] = 0]
  /\ UNCHANGED <<table, disk, readers, tidy, history, left>>

\* What a cell that was cut short, or never written, reads as when there are
\* later ones: the index of nothing is 0, the first chunk's.
Padded(cells, slot) ==
  [k \in 1..(slot - 1) |->
     IF k > Len(cells) THEN [chunk |-> 1, of |-> None, state |-> "torn"]
     ELSE IF cells[k].state = "half" THEN [cells[k] EXCEPT !.state = "torn"] ELSE cells[k]]

\* SeekStore::append: the number is taken before anything is written.
TakesNumber(wrote) == TRUE

SeekAppend(f, i, how) ==
  LET id == job[f].id
      fresh == seek[id] = None
      file == IF fresh THEN [base |-> bases + 1, cells |-> <<>>] ELSE seek[id]
      slots == IF fresh THEN NoSlots ELSE job[f].slots
      slot == (IF fresh THEN 0 ELSE job[f].cells) + 1
      cell == [chunk |-> i, of |-> f, state |-> IF how = "done" THEN "good" ELSE "half"]
  IN /\ job[f].pc = "open" /\ f \notin matrix
     /\ slots[i] = 0 /\ i >= NextChunk(f)
     /\ slot <= MaxCells
     /\ seek' = [seek EXCEPT ![id] =
          IF how = "none" THEN file
                          ELSE [file EXCEPT !.cells = Append(Padded(file.cells, slot), cell)]]
     /\ job' = [job EXCEPT ![f].slots = IF how = "done" THEN [slots EXCEPT ![i] = slot] ELSE slots,
                            ![f].cells = IF TakesNumber(how = "done") THEN slot ELSE slot - 1]
     /\ sealed' = IF how = "none" THEN sealed
                  ELSE sealed \union {<<"seek", file.base, slot, <<content[f], i>>>>}
     /\ bases' = IF fresh THEN bases + 1 ELSE bases
     /\ IF how = "done" THEN UNCHANGED left ELSE May("faults") /\ Spend("faults")
     /\ UNCHANGED <<table, pend, pool, readers, tidy>>

\* fsync, every PROGRESS_FLUSH; media_progress writes the row too.
Sync(f) ==
  /\ job[f].pc = "open" /\ f \notin matrix
  /\ pend[job[f].id].durable < Len(pend[job[f].id].segs)
  /\ pend' = [pend EXCEPT ![job[f].id].durable = Len(pend[job[f].id].segs)]
  /\ UNCHANGED <<table, seek, pool, readers, job, tidy, history, left>>

----------------------------------------------------------------------------
\* The end of a download.

\* PoolWriter::finish: the last segment and the fsync.
SyncedAtEnd(p) == Len(p.segs)

\* A Matrix transfer asks for its row again before.
FinishFile(f) ==
  LET id == job[f].id
      p == pend[id]
      segs == IF job[f].buffer = <<>> THEN p.segs ELSE Append(p.segs, job[f].buffer)
  IN /\ job[f].pc = "open" /\ PlainLen(f) = Size
     /\ f \in matrix => rows[f] # None /\ rows[f].id = id
     /\ pend' = [pend EXCEPT ![id].segs = segs,
                             ![id].durable = SyncedAtEnd([p EXCEPT !.segs = segs])]
     /\ job' = [job EXCEPT ![f].pc = "finished", ![f].name = segs, ![f].buffer = <<>>]
     /\ sealed' = IF segs = p.segs THEN sealed
                  ELSE sealed \union {<<"main", p.base, Len(segs), job[f].buffer>>}
     /\ UNCHANGED <<table, seek, pool, readers, tidy, bases, left>>

\* MediaPool::adopt, and the seek file goes; without its pending file it fails.
Adopt(f) ==
  LET id == job[f].id
      h == job[f].name
      there == {p \in InPool(h) : Opens(p)}
  IN /\ job[f].pc = "finished"
     /\ IF pend[id] = None
          THEN job' = [job EXCEPT ![f].pc = "reset"] /\ UNCHANGED <<pool, pend, seek>>
          ELSE /\ job' = [job EXCEPT ![f].pc = "adopted"]
               /\ pool' = IF there # {} THEN pool
                          ELSE (pool \ InPool(h)) \union
                               {[name |-> h, segs |-> pend[id].segs, durable |-> pend[id].durable]}
               /\ pend' = [pend EXCEPT ![id] = None]
               /\ seek' = IF f \in matrix THEN seek ELSE [seek EXCEPT ![id] = None]
     /\ UNCHANGED <<table, readers, tidy, history, left>>

\* record_finished asks for the file's size; when it is gone already, the job failed,
\* and a Matrix transfer clears up behind itself.
Measure(f) ==
  /\ job[f].pc = "adopted"
  /\ job' = [job EXCEPT ![f] =
       IF InPool(job[f].name) # {} THEN [@ EXCEPT !.pc = "measured"]
       ELSE IF f \in matrix THEN [@ EXCEPT !.pc = "reset"] ELSE Idle]
  /\ UNCHANGED <<table, disk, readers, tidy, history, left>>

\* media_finish, in the writer's turn.
Record(f) ==
  /\ job[f].pc = "measured" /\ ThreadFree
  /\ rows' = [rows EXCEPT ![f] =
       IF @ = None THEN None ELSE [@ EXCEPT !.done = TRUE, !.hash = job[f].name]]
  /\ old' = old \ {f}
  /\ job' = [job EXCEPT ![f] = Idle]
  /\ UNCHANGED <<top, disk, readers, tidy, history, left>>

\* A line that fails, a cancel, a logout: fail_media without `discard` keeps
\* the files, synced; a segment may have been half written.
Keep(f, torn) ==
  LET id == job[f].id
      segs == IF torn THEN Append(pend[id].segs, Bad) ELSE pend[id].segs
  IN /\ job[f].pc = "open" /\ f \notin matrix /\ May("faults")
     /\ pend' = [pend EXCEPT ![id].segs = segs, ![id].durable = Len(segs)]
     /\ job' = [job EXCEPT ![f] = Idle]
     /\ Spend("faults")
     /\ UNCHANGED <<table, seek, pool, readers, tidy, history>>

\* A bad file, and whatever ends a Matrix transfer before its time: both files
\* go.  Of a Matrix transfer also a row that was deleted meanwhile.
DiscardFiles(f) ==
  /\ job[f].pc \in {"begun", "open", "cut"}
  /\ \/ /\ \/ job[f].pc = "cut"
           \/ f \in matrix /\ (rows[f] = None \/ rows[f].id # job[f].id)
        /\ UNCHANGED left
     \/ job[f].pc = "open" /\ May("faults") /\ Spend("faults")
  /\ pend' = [pend EXCEPT ![job[f].id] = None]
  /\ seek' = IF f \in matrix THEN seek ELSE [seek EXCEPT ![job[f].id] = None]
  /\ job' = [job EXCEPT ![f].pc = "reset"]
  /\ UNCHANGED <<table, pool, readers, tidy, history>>

\* cache_reset goes by the URI; a Matrix transfer first asks whether the row
\* is its own.
PostReset(f) ==
  /\ job[f].pc = "reset" /\ ThreadFree
  /\ rows' = IF f \in matrix /\ rows[f] # None /\ rows[f].id # job[f].id THEN rows
             ELSE [rows EXCEPT ![f] = Reset(@)]
  /\ job' = [job EXCEPT ![f] = Idle]
  /\ UNCHANGED <<top, old, disk, readers, tidy, history, left>>

----------------------------------------------------------------------------
\* The writer thread: a sweep, the collection after it, and single removals.

\* collect_media_garbage: the names in use are asked for before it queues.
AskSweep ==
  /\ tidy.pc = "free" /\ May("tidies")
  /\ tidy' = [ThreadIdle EXCEPT !.pc = "asked", !.names = InUse]
  /\ Spend("tidies")
  /\ UNCHANGED <<table, disk, readers, job, history>>

\* Rows that are recorded complete without their file.
SweepRows ==
  /\ tidy.pc = "asked"
  /\ rows' = [f \in Files |->
       IF rows[f] # None /\ rows[f].done /\ ~IsComplete(rows[f]) THEN Reset(rows[f]) ELSE rows[f]]
  /\ tidy' = [tidy EXCEPT !.pc = "pending"]
  /\ UNCHANGED <<top, old, disk, readers, job, history, left>>

\* discard_pending, discard_seek: under whoever has the file open too.
RemovePending(gone) ==
  /\ pend' = [id \in Ids |-> IF id \in gone THEN None ELSE pend[id]]
  /\ seek' = [id \in Ids |-> IF id \in gone THEN None ELSE seek[id]]
  /\ job' = CutOff({id \in gone : pend[id] # None})

\* Pending files nobody claims, of a complete row, or past the protection.
SweepPending ==
  LET claimed == {id \in Ids : \E f \in Owners(id) : ~rows[f].done}
      expired == {id \in Ids : Owners(id) # {} /\ Owners(id) \subseteq old}
      gone == {id \in Ids \ tidy.names : id \notin claimed \/ id \in expired}
  IN /\ tidy.pc = "pending"
     /\ RemovePending(gone)
     /\ tidy' = [tidy EXCEPT !.pc = "pool", !.files = {p.name : p \in pool}]
     /\ UNCHANGED <<table, pool, readers, history, left>>

\* Complete files no row points at: each is asked for, then unlinked.
SweepPool(h) ==
  LET goes == References(h) = 0 /\ h \notin reading
  IN /\ tidy.pc = "pool" /\ h \in tidy.files
     /\ tidy' = [tidy EXCEPT !.pc = IF goes THEN "orphan" ELSE "pool",
                             !.files = @ \ {h},
                             !.hash = IF goes THEN h ELSE None]
     /\ UNCHANGED <<table, disk, readers, job, history, left>>

SweepEnds ==
  /\ tidy.pc = "pool" /\ tidy.files = {}
  /\ tidy' = [ThreadIdle EXCEPT !.pc = "gc"]
  /\ UNCHANGED <<table, disk, readers, job, history, left>>

\* Mutant: other rows are not counted.
GoesAlways(h) == TRUE

\* May the file go with this one row?
IsOnlyOne(h) == References(h) <= 1

\* media_references and is_open.
MayGo(h) == IsOnlyOne(h) /\ h \notin reading

\* collect_garbage over the rows outside the protection, and drop_from_pool
\* after an export: the file is asked for, then unlinked, then the row is reset.
Evict(f) ==
  LET h == rows[f].hash
      where == IF tidy.pc = "gc" THEN <<"evict", "collect">> ELSE <<"drop", "clear">>
  IN /\ \/ tidy.pc = "gc" /\ f \in old
        \/ tidy.pc = "free" /\ May("tidies")
     /\ rows[f] # None /\ rows[f].done
     /\ tidy.pc = "gc" => h \notin reading
     /\ tidy' = [ThreadIdle EXCEPT !.pc = where[IF MayGo(h) THEN 1 ELSE 2], !.of = f,
                                   !.hash = IF MayGo(h) THEN h ELSE None]
     /\ IF tidy.pc = "gc" THEN UNCHANGED left ELSE Spend("tidies")
     /\ UNCHANGED <<table, disk, readers, job, history>>

\* What the thread goes on with when it has unlinked a complete file.
AfterUnlink ==
  [orphan |-> "pool", evict |-> "collect", drop |-> "clear", del |-> "pendings"]

\* MediaPool::remove: nobody is asked again, so whoever opened the file since loses
\* its name, and reads on from the handle.
Unlink ==
  /\ tidy.pc \in DOMAIN AfterUnlink
  /\ pool' = pool \ InPool(tidy.hash)
  /\ tidy' = [tidy EXCEPT !.pc = AfterUnlink[@], !.hash = None]
  /\ UNCHANGED <<table, pend, seek, readers, job, history, left>>

EvictRow ==
  /\ tidy.pc \in {"collect", "clear"}
  /\ rows' = [rows EXCEPT ![tidy.of] = Reset(@)]
  /\ tidy' = [ThreadIdle EXCEPT !.pc = IF tidy.pc = "collect" THEN "gc" ELSE "free"]
  /\ UNCHANGED <<top, old, disk, readers, job, history, left>>

CollectEnds ==
  /\ tidy.pc = "gc" /\ tidy' = ThreadIdle
  /\ UNCHANGED <<table, disk, readers, job, history, left>>

\* Bound: the newest row is not deleted.  SQLite would give its id again, and
\* with it the pending file's name (see the README).
IsNewest(f) == rows[f].id = top

\* del_local_copy: here the names in use are asked for by the thread itself.
DelFiles(f) ==
  LET h == rows[f].hash
      goes == h # None /\ MayGo(h)
  IN /\ tidy.pc = "free" /\ May("tidies")
     /\ rows[f] # None /\ rows[f].id \notin InUse /\ ~IsNewest(f)
     /\ tidy' = [ThreadIdle EXCEPT !.pc = IF goes THEN "del" ELSE "pendings", !.of = f,
                                   !.hash = IF goes THEN h ELSE None]
     /\ Spend("tidies")
     /\ UNCHANGED <<table, disk, readers, job, history>>

\* A download may have opened its file since the names were asked for; a file that
\* cannot be removed stays.
DelPending(stays) ==
  /\ tidy.pc = "pendings"
  /\ RemovePending(IF stays THEN {} ELSE {rows[tidy.of].id})
  /\ tidy' = [tidy EXCEPT !.pc = "delete"]
  /\ UNCHANGED <<table, pool, readers, history, left>>

DelRow ==
  /\ tidy.pc = "delete"
  /\ rows' = [rows EXCEPT ![tidy.of] = None]
  /\ old' = old \ {tidy.of}
  /\ tidy' = ThreadIdle
  /\ UNCHANGED <<top, disk, readers, job, history, left>>

----------------------------------------------------------------------------
\* media_link_event: from the message, the row is there again.
RowArrives(f) ==
  /\ rows[f] = None /\ ThreadFree
  /\ MakesRow(f)
  /\ UNCHANGED <<old, disk, readers, job, tidy, history, left>>

\* The protection period goes by for what is not in use.
Age ==
  LET aged == {f \in Files : /\ rows[f] # None /\ job[f].pc = "idle"
                             /\ rows[f].done \/ pend[rows[f].id] # None}
  IN /\ ~(aged \subseteq old)
     /\ old' = old \union aged
     /\ UNCHANGED <<rows, top, disk, readers, job, tidy, history, left>>

\* open_read: the file is opened and its last segment too, then the reader is
\* entered in OPEN_READERS; dropping it takes it out.
Read(f) ==
  /\ rows[f] # None /\ IsComplete(rows[f]) /\ rows[f].hash \notin opening \union reading
  /\ May("reads") /\ Spend("reads")
  /\ opening' = opening \union {rows[f].hash}
  /\ UNCHANGED <<table, disk, reading, job, tidy, history>>

EnterReader(h) ==
  /\ h \in opening
  /\ opening' = opening \ {h} /\ reading' = reading \union {h}
  /\ UNCHANGED <<table, disk, job, tidy, history, left>>

CloseReader(h) ==
  /\ h \in reading
  /\ reading' = reading \ {h}
  /\ UNCHANGED <<opening, table, disk, job, tidy, history, left>>

\* What a loss of power makes of records that were not synced: the file ends
\* before them (0), or one of them is damaged.
Damaged(segs, durable, hit) ==
  IF hit = 0 THEN SubSeq(segs, 1, Least(durable, Len(segs)))
  ELSE IF hit > durable /\ hit <= Len(segs) THEN [segs EXCEPT ![hit] = Bad] ELSE segs

\* Cells are synced one by one: only failed ones after the last may be lost.
Kept(s) ==
  IF s = None THEN None
  ELSE LET good == {0} \union {k \in DOMAIN s.cells : s.cells[k].state = "good"}
       IN [s EXCEPT !.cells = SubSeq(s.cells, 1, Max(good))]

\* The program ends.  `rebuilt` is a cache.db that cannot be opened any more
\* and is made anew at the next start, with the files still there.
AllIdle == [f \in Files |-> Idle]

ProgramStops(power, hit, rebuilt) ==
  /\ May("stops") /\ (rebuilt => May("losses"))
  /\ job' = AllIdle /\ tidy' = ThreadIdle /\ opening' = {} /\ reading' = {}
  /\ IF power
       THEN /\ pend' = [id \in Ids |-> IF pend[id] = None THEN None
                  ELSE [pend[id] EXCEPT !.segs = Damaged(@, pend[id].durable, hit)]]
            /\ pool' = {[p EXCEPT !.segs = Damaged(@, p.durable, hit)] : p \in pool}
            /\ seek' = IF hit = 0 THEN [id \in Ids |-> Kept(seek[id])] ELSE seek
            /\ sealed' = IF hit # 0 THEN sealed
                 ELSE {n \in sealed : \A id \in Ids :
                         seek[id] # None /\ n[1] = "seek" /\ n[2] = seek[id].base
                           => n[3] <= Len(Kept(seek[id]).cells)}
       ELSE UNCHANGED <<disk, sealed>>
  /\ rows' = IF rebuilt THEN [f \in Files |-> None] ELSE rows
  /\ top' = IF rebuilt THEN 0 ELSE top
  /\ old' = IF rebuilt THEN {} ELSE old
  /\ left' = [left EXCEPT !["stops"] = @ - 1, !["losses"] = @ - (IF rebuilt THEN 1 ELSE 0)]
  /\ UNCHANGED bases

Download(f) ==
  \/ BeginDownload(f) \/ OpenMain(f) \/ OpenStream(f) \/ LandChunk(f) \/ DropCell(f)
  \/ \E i \in ChunkIds, how \in {"done", "half", "none"} : SeekAppend(f, i, how)
  \/ Sync(f) \/ FinishFile(f) \/ Adopt(f) \/ Measure(f) \/ Record(f)
  \/ \E torn \in BOOLEAN : Keep(f, torn)
  \/ DiscardFiles(f) \/ PostReset(f)

Tidy ==
  \/ AskSweep \/ SweepRows \/ SweepPending \/ SweepEnds \/ CollectEnds
  \/ Unlink \/ EvictRow \/ DelRow
  \/ \E h \in tidy.files : SweepPool(h)
  \/ \E f \in Files : Evict(f) \/ DelFiles(f)
  \/ \E stays \in BOOLEAN : DelPending(stays)

StoreNext ==
  /\ UNCHANGED given
  /\ \/ \E f \in Files : Download(f) \/ RowArrives(f) \/ Read(f)
     \/ Age \/ Tidy
     \/ \E h \in opening : EnterReader(h)
     \/ \E h \in reading : CloseReader(h)
     \/ \E power, rebuilt \in BOOLEAN, hit \in 0..(Size \div Seg + 1) :
          (~power => hit = 0) /\ ProgramStops(power, hit, rebuilt)

StoreSpec == StoreInit /\ [][StoreNext]_storeVars

----------------------------------------------------------------------------
\* A file's bytes are its own: a complete copy that opens, what a download has
\* written so far, from the line or from seek cells, whatever stopped or was
\* cut short before (media_pool.rs resume_pending, seek_store.rs reopen).
BytesAreRight ==
  \A f \in Files :
    /\ rows[f] # None /\ IsComplete(rows[f]) =>
         \A p \in InPool(rows[f].hash) : p.segs = Whole(f)
    /\ job[f].pc = "open" =>
         LET segs == pend[job[f].id].segs IN
         /\ \A i \in 1..Len(segs) : segs[i] = Segment(f, i)
         /\ job[f].buffer = Piece(f, Len(segs) * Seg, PlainLen(f))

\* No nonce seals two plaintexts, also when a write fails half way and the
\* number is on the disk only in part (seek_store.rs append, reopen).
NonceOnce ==
  \A m, n \in sealed : m[1] = n[1] /\ m[2] = n[2] /\ m[3] = n[3] => m[4] = n[4]

\* A complete file goes only when no second row shows it, though between the
\* question and the unlinking other downloads end with the same content (the four
\* places that remove one: media.rs sweep, collect_garbage, del_local_copy,
\* media_ops.rs drop_from_pool; the rows are the writer thread's).
ReferencedIsKept ==
  \A h \in {p.name : p \in pool} : (\A p \in pool' : p.name # h) => References(h) <= 1

\* What was synced is there after a stop: a download that goes on with its own
\* pending file starts behind it (media-download.md 4.1).
SyncedIsKept ==
  \A f \in Files :
    LET id == job[f].id IN
    job[f].pc = "begun" /\ job'[f].pc = "open" /\ pend[id] # None
      /\ f \notin matrix /\ pend[id].owner = f
      => \A i \in 1..pend[id].durable :
           pend[id].segs[i] # Bad =>
             (i - 1) * Seg + Len(pend[id].segs[i])
               <= Len(pend'[id].segs) * Seg + Len(job'[f].buffer)

\* No step takes bytes from the disk that the table counts on: a complete file that a
\* second row shows, a pending file's synced part.
BytesAreKept == [][ReferencedIsKept /\ SyncedIsKept]_storeVars

============================================================================
