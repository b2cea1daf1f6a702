------------------------------ MODULE Timeline ------------------------------
(***************************************************************************)
(* The events table of cache.db: how a batch of events is written, how     *)
(* edits and redactions that may come before what they change are applied  *)
(* to their target's row, and what a reader is shown of each message.      *)
(* Source: src/crates/wbf-sdk/src/cache.rs and incoming.rs, and the fold   *)
(* of one page that is never stored (event_json.rs).                       *)
(*                                                                         *)
(* An event is one of a small set of facts (the room as its server has     *)
(* it); a copy of it comes open (in clear or decrypted), sealed (not       *)
(* decrypted) or stripped (the server blanked it after a redaction).       *)
(* Copies come in any order, any number of times, for any account.         *)
(***************************************************************************)
EXTENDS Integers, FiniteSets, SequencesExt

CONSTANTS Readers,   \* accounts that share the cache
          Ids,       \* event ids, ordered as their text is
          RoomFacts  \* rooms: <<facts of each event, readers, what they hide, who is destroyed>>

NoEvent == 0
IdsAreOrdered == Ids \subseteq Nat \ {NoEvent}

EventKinds == {"msg", "edit", "redact", "reaction"}
Forms == {"open", "sealed", "stripped"}

VARIABLES
    world,    \* the room's events: [kind, of, by, ts, enc, type, seq]
    hides,    \* the events the user may delete for himself
    readers,  \* the accounts that read this room
    leaves,   \* the accounts that the user may destroy
    table,    \* the events table
    seen,     \* events_synced_log: "no", "yes" or "hidden"
    mark,     \* read_positions
    got,      \* history: the copies written, but for what went with an account
    torn      \* history: a row went that one that stayed had to do with

given == <<world, hides, readers, leaves>>
eventVars == <<given, table, seen, mark, got, torn>>

Blank == [class |-> "none", done |-> FALSE, red |-> FALSE, ref |-> NoEvent, mod |-> 0]

TimelineInit ==
    /\ \E case \in RoomFacts :
          /\ world = case[1]
          /\ readers = case[2]
          /\ hides = case[3]
          /\ leaves = case[4]
    /\ table = [e \in Ids |-> Blank]
    /\ seen = [r \in Readers |-> [e \in Ids |-> "no"]]
    /\ mark = [r \in Readers |-> NoEvent]
    /\ got = {}
    /\ torn = FALSE

-----------------------------------------------------------------------------
(* What the server may send of an event: it blanks what was redacted. *)

Strikes(r, e) == world[r].kind = "redact" /\ world[r].of = e

Copies(e) ==
    IF world[e].kind = "unsent" THEN {} ELSE
    {"open"} \cup (IF world[e].enc THEN {"sealed"} ELSE {})
             \cup (IF \E r \in Ids : Strikes(r, e) THEN {"stripped"} ELSE {})

(* classify: a ciphertext says nothing; a stripped event in clear is an empty message. *)
Classified(e, form) ==
    CASE form = "open" -> world[e].kind
      [] form = "sealed" \/ world[e].enc -> "general"
      [] OTHER -> "msg"

(* check_replacement *)
Replaces(tab, m, x) ==
    /\ tab[x].class = "edit"
    /\ tab[m].class = "msg"
    /\ world[m].by = world[x].by
    /\ world[m].type = world[x].type /\ world[m].type # "state"
    /\ world[m].enc => world[x].enc

(* (origin_server_ts, event_id) > (modified_timestamp, ref_event_id) *)
After(ts, e, ts2, e2) == ts > ts2 \/ (ts = ts2 /\ e > e2)

Newest(edits) ==
    CHOOSE x \in edits : \A y \in edits \ {x} : After(world[x].ts, x, world[y].ts, y)

(* set_current_edit *)
Pointed(tab, m, x, ts) == [tab EXCEPT ![m].ref = x, ![m].mod = ts]

ApplyEdit(tab, x) ==
    LET m == tab[x].ref
        judged == [tab EXCEPT ![x].done = TRUE]
    IN IF tab[x].class # "edit" \/ tab[x].done \/ tab[m].class \in {"none", "general"} THEN tab
       ELSE IF /\ ~tab[m].red /\ ~tab[x].red
               /\ Replaces(tab, m, x)
               /\ After(world[x].ts, x, tab[m].mod, tab[m].ref)
            THEN Pointed(judged, m, x, world[x].ts)
       ELSE judged

\* Mutant: with no edit left, the time of the redacted one stays on the message.
FallShort(tab, m) ==
    LET left == {x \in Ids : /\ tab[x].class = "edit" /\ tab[x].ref = m
                             /\ ~tab[x].red /\ Replaces(tab, m, x)}
    IN IF left = {} THEN Pointed(tab, m, NoEvent, tab[m].mod)
       ELSE Pointed(tab, m, Newest(left), world[Newest(left)].ts)

(* What is left when the edit shown was redacted: the newest valid one, or none. *)
FallBack(tab, m) ==
    LET left == {x \in Ids : /\ tab[x].class = "edit" /\ tab[x].ref = m
                             /\ ~tab[x].red /\ Replaces(tab, m, x)}
    IN IF left = {} THEN Pointed(tab, m, NoEvent, 0)
       ELSE Pointed(tab, m, Newest(left), world[Newest(left)].ts)

ApplyRedaction(tab, r) ==
    LET e == tab[r].ref
        struck == [tab EXCEPT ![r].done = TRUE, ![e].red = TRUE, ![e].mod = world[r].ts]
        m == tab[e].ref
    IN IF tab[r].class # "redact" \/ tab[r].done \/ tab[e].class = "none" THEN tab
       ELSE IF tab[e].class = "edit" /\ tab[m].class = "msg" /\ tab[m].ref = e
            THEN FallBack(struck, m)
       ELSE struck

(* process_event: redactions that waited, then edits that waited, then its own effect. *)
Process(tab, e, order) ==
    LET Waiting(t, class) ==
            SelectSeq(order, LAMBDA x : t[x].class = class /\ t[x].ref = e /\ ~t[x].done)
        redacted == FoldLeft(ApplyRedaction, tab, Waiting(tab, "redact"))
        edited == FoldLeft(ApplyEdit, redacted, Waiting(redacted, "edit"))
    IN ApplyEdit(ApplyRedaction(edited, e), e)

\* Mutant: a copy that comes later replaces the mark of a redaction.
WrittenOver(tab, e, form, order) ==
    LET class == Classified(e, form)
        fresh == [class |-> class, done |-> class \in {"msg", "reaction"},
                  red |-> form = "stripped", mod |-> tab[e].mod,
                  ref |-> IF form = "open" THEN world[e].of ELSE NoEvent]
        noted == [tab EXCEPT ![e].red = fresh.red]
    IN IF tab[e].class = "none" \/ (tab[e].class = "general" /\ class # "general")
       THEN Process([tab EXCEPT ![e] = [fresh EXCEPT !.red = noted[e].red]], e, order)
       ELSE noted

(* One event of upsert_events: a new row, a row that was sealed until now, or a known one. *)
Written(tab, e, form, order) ==
    LET class == Classified(e, form)
        fresh == [class |-> class, done |-> class \in {"msg", "reaction"},
                  red |-> form = "stripped", mod |-> tab[e].mod,
                  ref |-> IF form = "open" THEN world[e].of ELSE NoEvent]
        noted == [tab EXCEPT ![e].red = @ \/ fresh.red]
    IN IF tab[e].class = "none" \/ (tab[e].class = "general" /\ class # "general")
       THEN Process([tab EXCEPT ![e] = [fresh EXCEPT !.red = noted[e].red]], e, order)
       ELSE noted

(* The order of a select without ORDER BY: with two that wait, each is first once. *)
Orders == LET up == SetToSortSeq(Ids, LAMBDA a, b : a < b) IN {up, Reverse(up)}

Upsert(reader, e) ==
    /\ reader \in readers
    /\ \E form \in Copies(e), order \in Orders :
          /\ table' = Written(table, e, form, order)
          /\ got' = got \cup {<<e, form>>}
    /\ seen' = [seen EXCEPT ![reader][e] = IF @ = "no" THEN "yes" ELSE @]
    /\ UNCHANGED <<given, mark, torn>>

(* hide_message: only for this account, and only what it was given. *)
Hide(reader, e) ==
    /\ e \in hides
    /\ seen[reader][e] = "yes"
    /\ seen' = [seen EXCEPT ![reader][e] = "hidden"]
    /\ UNCHANGED <<given, table, mark, got, torn>>

(* IS_AFTER_WATERMARK: by r_seq if both have one, else by the server's time (in no   *)
(* instance are two messages without numbers of the same millisecond).              *)
IsAfter(e, w) ==
    IF world[e].seq > 0 /\ world[w].seq > 0 THEN world[e].seq > world[w].seq
    ELSE world[e].ts > world[w].ts

Moves(e, w) == w # NoEvent => IsAfter(e, w)

(* find_readable_event: only what this account was given; what it hides counts too. *)
Readable(reader, e) == seen[reader][e] # "no"

(* set_read_position: only forward. *)
MarkRead(reader, e) ==
    /\ Readable(reader, e)
    /\ Moves(e, mark[reader])
    /\ mark' = [mark EXCEPT ![reader] = e]
    /\ UNCHANGED <<given, table, seen, got, torn>>

(* get_unread *)
Unread(reader) ==
    {e \in Ids : /\ seen[reader][e] = "yes"
                 /\ table[e].class \in {"msg", "general"}
                 /\ ~table[e].red
                 /\ world[e].by # reader
                 /\ mark[reader] # NoEvent => IsAfter(e, mark[reader])}

(* Rows that stay have to do with one that goes: they show it, or were applied to it. *)
Tears(kept) ==
    \E x \in Ids \ kept, y \in kept :
        /\ table[x].class # "none" /\ table[y].ref = x
        /\ table[y].class = "msg" \/ (table[y].class \in {"edit", "redact"} /\ table[y].done)

(* forget_account: what was given to nobody else goes with him.  The mark of a redaction   *)
(* stays where the redaction itself does not, and so it counts as got.                     *)
ForgetAccount(reader) ==
    LET log == [seen EXCEPT ![reader] = [e \in Ids |-> "no"]]
        kept == {e \in Ids : \E r \in readers : log[r][e] # "no"}
    IN /\ reader \in leaves
       /\ seen' = log /\ mark' = [mark EXCEPT ![reader] = NoEvent]
       /\ table' = [e \in Ids |-> IF e \in kept THEN table[e] ELSE Blank]
       /\ got' = {c \in got : \/ c[1] \in kept
                              \/ world[c[1]].kind = "redact" /\ world[c[1]].of \in kept}
       /\ torn' = (torn \/ Tears(kept))
       /\ UNCHANGED given

TimelineNext ==
    \/ \E reader \in Readers, e \in Ids :
          Upsert(reader, e) \/ Hide(reader, e) \/ MarkRead(reader, e)
    \/ \E reader \in Readers : ForgetAccount(reader)

TimelineSpec == TimelineInit /\ [][TimelineNext]_eventVars

-----------------------------------------------------------------------------
(* What a reader is shown of a message (to_message, find_current_edit, list_reactions); *)
(* log is his part of events_synced_log.                                                *)

Nothing == [kind |-> "nothing"]
Mark(what) == [kind |-> what]
Text(version, reactions) == [kind |-> "text", version |-> version, reactions |-> reactions]

Reactions(tab, log, m) ==
    {y \in Ids : /\ tab[y].class = "reaction" /\ tab[y].ref = m
                 /\ ~tab[y].red /\ log[y] = "yes"}

Looks(tab, log, m) ==
    LET x == tab[m].ref
        IsEdited == x # NoEvent /\ tab[x].class = "edit" /\ tab[x].ref = m
                    /\ world[x].by = world[m].by
    IN IF log[m] # "yes" \/ tab[m].class \notin {"msg", "general"} THEN Nothing
       ELSE IF tab[m].red THEN Mark("deleted")
       ELSE IF tab[m].class = "general" THEN Mark("sealed")
       ELSE IF ~IsEdited THEN Text(m, Reactions(tab, log, m))
       ELSE CASE log[x] = "no" -> Mark("outdated")
              [] log[x] = "hidden" -> Nothing
              [] log[x] = "yes" /\ tab[x].red -> Mark("deleted")
              [] OTHER -> Text(x, Reactions(tab, log, m))

Shown(reader, m) == Looks(table, seen[reader], m)

-----------------------------------------------------------------------------
(* aggregate: the fold of one page that is not stored, all of it in clear. *)

Judged(page, m) ==
    {x \in ToSet(page) : /\ world[x].kind = "edit" /\ world[x].of = m
                         /\ world[x].by = world[m].by
                         /\ world[x].type = world[m].type /\ world[m].type # "state"
                         /\ world[m].enc => world[x].enc}

Struck(page, e) == \E r \in ToSet(page) : Strikes(r, e)

SentAt(e) == IF world[e].ts < 0 THEN 0 ELSE world[e].ts

(* Oldest first, so the last one stays; a stable sort keeps the page's order on a tie. *)
LastApplied(page, edits) ==
    LET place == [x \in edits |-> CHOOSE i \in DOMAIN page : page[i] = x]
    IN CHOOSE x \in edits : \A y \in edits \ {x} : After(SentAt(x), place[x], SentAt(y), place[y])

\* Mutant: an edit counts though the page also says that it was redacted.
FoldedRashly(page, m) ==
    LET edits == Judged(page, m)
    IN IF Struck(page, m) THEN Mark("deleted")
       ELSE Text(IF edits = {} THEN m ELSE LastApplied(page, edits),
                 {y \in ToSet(page) : world[y].kind = "reaction" /\ world[y].of = m
                                      /\ ~Struck(page, y)})

Folded(page, m) ==
    LET edits == {x \in Judged(page, m) : ~Struck(page, x)}
    IN IF Struck(page, m) THEN Mark("deleted")
       ELSE Text(IF edits = {} THEN m ELSE LastApplied(page, edits),
                 {y \in ToSet(page) : world[y].kind = "reaction" /\ world[y].of = m
                                      /\ ~Struck(page, y)})

-----------------------------------------------------------------------------
(* Properties. *)

Opened(e) == <<e, "open">> \in got
Withdrawn(e) == \E r \in Ids : Strikes(r, e) /\ Opened(r)
Gone(e) == Withdrawn(e) \/ <<e, "stripped">> \in got

(* What a message should look like, from the copies received and nothing else. *)
Expected(reader, m) ==
    LET log == seen[reader]
        edits == {x \in Ids : /\ world[x].kind = "edit" /\ world[x].of = m
                              /\ Opened(x) /\ ~Gone(x)
                              /\ world[x].by = world[m].by
                              /\ world[x].type = world[m].type /\ world[m].type # "state"
                              /\ world[m].enc => world[x].enc}
        reactions == {y \in Ids : /\ world[y].kind = "reaction" /\ world[y].of = m
                                  /\ Opened(y) /\ ~Gone(y) /\ log[y] = "yes"}
    IN IF log[m] # "yes" THEN Nothing
       ELSE IF Gone(m) THEN Mark("deleted")
       ELSE IF ~Opened(m) THEN Mark("sealed")
       ELSE IF edits = {} THEN Text(m, reactions)
       ELSE CASE log[Newest(edits)] = "no" -> Mark("outdated")
              [] log[Newest(edits)] = "hidden" -> Nothing
              [] OTHER -> Text(Newest(edits), reactions)

(* No copy of an edit came blanked before the redaction that blanked it. *)
Told == \A e \in Ids : world[e].kind = "edit" /\ <<e, "stripped">> \in got => Withdrawn(e)

Messages == {m \in Ids : world[m].kind = "msg"}

Pages == UNION {SetToSeqs(part) : part \in SUBSET Ids}

Ties(page) ==
    \E x, y \in ToSet(page) : x # y /\ world[x].kind = "edit" /\ world[y].kind = "edit"
                             /\ SentAt(x) = SentAt(y)

\* A page read without the cache shows each of its messages as an empty cache would after
\* that page was written to it, unless two edits have the same time.
PageAgrees ==
    \A page \in Pages :
        LET up == CHOOSE order \in Orders : TRUE
            Write(tab, e) == Written(tab, e, "open", up)
            tab == FoldLeft(Write, table, page)
            log == [e \in Ids |-> IF e \in ToSet(page) THEN "yes" ELSE "no"]
        IN Ties(page) \/ \A m \in Messages \cap ToSet(page) : Folded(page, m) = Looks(tab, log, m)

(* Whatever the order in which events, edits, redactions, reactions, clear texts and      *)
(* blanked copies came, and through whichever account, each reader is shown what the set  *)
(* of copies says: the newest valid edit that was not redacted, and no text once the      *)
(* message is redacted.  An account that is destroyed leaves the others what they had, but *)
(* where the table is torn.  And what a page shows that was never stored is no other.      *)
OrderIsNothing ==
    /\ Told /\ ~torn =>
         \A reader \in readers, m \in Messages : Shown(reader, m) = Expected(reader, m)
    /\ got = {} /\ readers # {} => PageAgrees

(* What comes late brings nothing back: a message that a reader saw as deleted never shows *)
(* a text again, whatever older copies of it or edits of it come later; and an older place *)
(* that another window marks late never makes a read message unread.                       *)
NothingComesBack ==
    [][/\ \A reader \in readers, m \in Messages :
             Shown(reader, m) = Mark("deleted") /\ table[m].red =>
                 Shown(reader, m)' \in {Mark("deleted"), Nothing}
       /\ \A reader \in Readers : mark'[reader] # mark[reader] =>
             Unread(reader)' \subseteq Unread(reader)]_eventVars

=============================================================================
