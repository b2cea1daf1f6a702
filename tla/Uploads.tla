------------------------------- MODULE Uploads -------------------------------
(***************************************************************************)
(* One file on its way to the server, in one of four ways (`kind`):        *)
(*   "file"    upload.file and send --file (wbf-core/src/upload_ops.rs):   *)
(*             the upload's number and key are in a state file beside the  *)
(*             file, and the next command goes on from it;                 *)
(*   "put"     media.create with a size, then PUT (attachment_ops.rs,      *)
(*             wbf-daemon/src/data_plane.rs): a second PUT of the same     *)
(*             body goes on where the server is;                           *)
(*   "stream"  media.create without a size: a body that nobody can repeat; *)
(*   "whole"   an account of a general Matrix server (matrix_upload.rs):   *)
(*             one request, with a key that is made for it.                *)
(* A caller is a command, a PUT or a send_attachment.  It asks, and waits  *)
(* for the answer before it goes on; it may end while it waits (killed,    *)
(* hung up, a body that breaks off, a line that dies), and what it asked   *)
(* for is then lost or comes to the server late.                           *)
(*                                                                         *)
(* The server is not of this repository: it does what the client expects   *)
(* (tests/support/fake_server.rs, rpc-specs/wbf-cli-spec.md section 6).    *)
(* That state file and upload are this account's (is_for) and that the     *)
(* file still has its size is taken for granted; so is the same body in    *)
(* every PUT of one sized upload.                                          *)
(***************************************************************************)
EXTENDS Naturals, Sequences, FiniteSets

CONSTANTS
  Callers,
  Chunks,       \* chunks of the file; a stream may be shorter
  UploadCases   \* bounds: [kind, limit, left]; `limit` is the chunk that reaches the
                \* server's size limit, or 0

Modes == {"file", "put", "stream", "whole"}
UploadHappenings == {"runs", "creates", "ends", "sweeps", "forgets", "encrypts"}

\* What the constants must be.
UploadShapes ==
  /\ Chunks \in Nat \ {0}
  /\ UploadCases \subseteq [kind : Modes, limit : Nat, left : [UploadHappenings -> Nat]]

VARIABLES
  kind, limit,  \* chosen in the beginning
  encrypted,    \* the room on the server
  srv,          \* the uploads there, by number
  disk,         \* the state file: an upload's number, or 0
  run,          \* what a caller is at
  late,         \* requests whose sender is gone
  posted,       \* events with the file: <<upload, encrypted>>
  alone,        \* history: no two callers were at work together
  overtaken,    \* history: streams that took a chunk of a PUT that had ended during the next
  more          \* bound: what may still happen

uploadVars == <<kind, limit, encrypted, srv, disk, run, late, posted, alone, overtaken, more>>

Free == [at |-> "idle", up |-> 0, next |-> 0, len |-> 0, body |-> 0, cut |-> FALSE,
         secret |-> FALSE, posts |-> FALSE, asked |-> FALSE]

NoManifest == [size |-> 0, body |-> 0, cut |-> FALSE]

\* An upload: the chunks it has, each known by the body it is from; `secret`: its block
\* has a key; `told`: the manifest that a caller got.
NewUpload(secret) ==
  [at |-> "open", got |-> <<>>, done |-> FALSE, secret |-> secret, told |-> NoManifest]

UploadsInit ==
  /\ \E case \in UploadCases : kind = case.kind /\ limit = case.limit /\ more = case.left
  /\ encrypted = FALSE
  /\ srv = <<>> /\ disk = 0
  /\ run = [r \in Callers |-> Free]
  /\ late = {} /\ posted = {}
  /\ alone = TRUE /\ overtaken = {}

Costs(what) == more[what] > 0 /\ more' = [more EXCEPT ![what] = @ - 1]

----------------------------------------------------------------------------
\* The server.

\* The server keeps nothing beyond its size limit: Status and Ack say so.
Cut(size) == limit # 0 /\ size >= limit

\* A chunk is taken once, in its turn; Seal and Abort take the upload away.
Handled(q) ==
  LET s == srv[q.up] IN
  IF s.at # "open" THEN s
  ELSE CASE q.what = "chunk" ->
              IF ~s.done /\ q.index = Len(s.got)
                THEN [s EXCEPT !.got = Append(@, q.body),
                               !.done = IF kind = "stream"
                                          THEN q.last \/ Cut(q.index + 1)
                                          ELSE q.index + 1 = Chunks]
                ELSE s
         [] q.what = "seal" -> IF s.done THEN [s EXCEPT !.at = "sealed"] ELSE s
         [] q.what = "abort" -> [s EXCEPT !.at = "gone"]
         [] q.what = "whole" -> [s EXCEPT !.got = <<q.body>>, !.at = "sealed"]

\* What a caller waits for, as the server will see it.
Request(x) ==
  [what |-> x.at, up |-> x.up, index |-> x.next, body |-> x.body, last |-> x.next + 1 = x.len]

Asks == {"chunk", "seal", "abort", "whole"}

\* A request of a caller that is gone arrives.
Late(q) ==
  LET n == Handled(q) IN
  /\ q \in late
  /\ late' = late \ {q}
  /\ srv' = [srv EXCEPT ![q.up] = n]
  /\ overtaken' =
       IF /\ kind = "stream" /\ n.got # srv[q.up].got
          /\ \E r \in Callers : run[r].at # "idle" /\ run[r].up = q.up
         THEN overtaken \union {q.up} ELSE overtaken
  /\ UNCHANGED <<kind, limit, encrypted, disk, run, posted, alone, more>>

\* An upload that is not finished in time is swept away.
Sweep(u) ==
  /\ srv[u].at = "open"
  /\ Costs("sweeps")
  /\ srv' = [srv EXCEPT ![u].at = "gone"]
  /\ UNCHANGED <<kind, limit, encrypted, disk, run, late, posted, alone, overtaken>>

\* It was told of a chunk that the server does not have any more.
Forget(u) ==
  /\ srv[u].at = "open" /\ srv[u].got # <<>>
  /\ Costs("forgets")
  /\ srv' = [srv EXCEPT ![u].got = SubSeq(@, 1, Len(@) - 1), ![u].done = FALSE]
  /\ UNCHANGED <<kind, limit, encrypted, disk, run, late, posted, alone, overtaken>>

\* Somebody turns on the room's encryption; there is no way back.
Encrypt ==
  /\ ~encrypted
  /\ Costs("encrypts")
  /\ encrypted' = TRUE
  /\ UNCHANGED <<kind, limit, srv, disk, run, late, posted, alone, overtaken>>

----------------------------------------------------------------------------
\* A caller starts.

Begins(r, x) ==
  /\ run[r] = Free
  /\ Costs("runs")
  /\ run' = [run EXCEPT ![r] = x]
  /\ alone' = (alone /\ \A q \in Callers : run[q] = Free)

\* A body that cannot be had again is known by the call that brought it.
Body == IF kind \in {"stream", "whole"} THEN more["runs"] ELSE 0

\* A block with a key is for an encrypted room, one without for a room in the clear.
Fits(secret, asked) == secret = asked

\* Mutant: a state file that is there is not looked at.
UploadFileAnew(r, secret, posts) ==
  /\ kind = "file"
  /\ posts => Fits(secret, encrypted)
  /\ Begins(r, [Free EXCEPT !.at = "create", !.len = Chunks, !.secret = secret,
                            !.posts = posts, !.asked = posts /\ encrypted])
  /\ UNCHANGED <<kind, limit, encrypted, srv, disk, late, posted, overtaken>>

\* upload.file, or send --file into the room: the wish must fit the room before a byte
\* is sent, and a state file decides instead of the wish.
UploadFile(r, secret, posts) ==
  /\ kind = "file"
  /\ posts => Fits(secret, encrypted)
  /\ Begins(r, [Free EXCEPT !.at = IF disk = 0 THEN "create" ELSE "status", !.up = disk,
                            !.len = Chunks, !.secret = secret, !.posts = posts,
                            !.asked = posts /\ encrypted])
  /\ UNCHANGED <<kind, limit, encrypted, srv, disk, late, posted, overtaken>>

\* A whole file has a key if the room it is for is encrypted, and none without a room.
WholeMayHaveKey(secret) == secret => encrypted

\* media.create: what the UI holds of it names the upload and carries its key.
MediaCreate(secret) ==
  /\ kind # "file"
  /\ kind = "whole" => WholeMayHaveKey(secret)
  /\ Costs("creates")
  /\ srv' = Append(srv, NewUpload(secret))
  /\ UNCHANGED <<kind, limit, encrypted, disk, run, late, posted, alone, overtaken>>

\* Mutant: an upload takes as many PUTs at a time as come.
PutBeside(r, u, len) ==
  /\ kind # "file"
  /\ len = Chunks \/ kind = "stream"
  /\ Begins(r, [Free EXCEPT !.at = IF kind = "whole" THEN "whole" ELSE "status",
                            !.up = u, !.len = len, !.body = Body])
  /\ UNCHANGED <<kind, limit, encrypted, srv, disk, late, posted, overtaken>>

\* A PUT, unless another one of this upload is being received.
Put(r, u, len) ==
  /\ \A q \in Callers : run[q].at \in {"status", "chunk", "seal", "whole"} => run[q].up # u
  /\ PutBeside(r, u, len)

\* upload.abort, with the state file if there is one.
Abort(r, u) ==
  /\ kind # "whole"
  /\ kind = "file" => u = disk
  /\ Begins(r, [Free EXCEPT !.at = "abort", !.up = u])
  /\ UNCHANGED <<kind, limit, encrypted, srv, disk, late, posted, overtaken>>

\* room.send_attachment with a manifest: the room is asked again.
SendAttachment(r, u) ==
  /\ srv[u].told # NoManifest
  /\ Fits(srv[u].secret, encrypted)
  /\ Begins(r, [Free EXCEPT !.at = "post", !.up = u, !.asked = encrypted])
  /\ UNCHANGED <<kind, limit, encrypted, srv, disk, late, posted, overtaken>>

----------------------------------------------------------------------------
\* A caller goes on.

\* The chunk after the last it is told of; Seal after them all.  On one line a chunk
\* that somebody else waits for is refused.
Goes(r, x) ==
  IF x.next >= x.len THEN [x EXCEPT !.at = "seal"]
  ELSE IF \E q \in Callers \ {r} :
            run[q].at = "chunk" /\ run[q].up = x.up /\ run[q].next = x.next
    THEN Free
    ELSE [x EXCEPT !.at = "chunk"]

Created(r) ==
  /\ run[r].at = "create"
  /\ srv' = Append(srv, NewUpload(run[r].secret))
  /\ run' = [run EXCEPT ![r].at = "write", ![r].up = Len(srv) + 1]
  /\ UNCHANGED <<kind, limit, encrypted, disk, late, posted, alone, overtaken, more>>

WriteState(r) ==
  /\ run[r].at = "write"
  /\ disk' = run[r].up
  /\ run' = [run EXCEPT ![r] = Goes(r, run[r])]
  /\ UNCHANGED <<kind, limit, encrypted, srv, late, posted, alone, overtaken, more>>

\* Mutant: what an earlier PUT had cut is not asked for.
AfterStatusOnly(r) ==
  LET x == run[r]
      received == Len(srv[x.up].got)
  IN IF srv[x.up].at # "open" \/ (kind = "stream" /\ received # 0) THEN Free
     ELSE Goes(r, [x EXCEPT !.next = received])

\* Where the server is, and for a PUT whether it has cut the file already.  A stream
\* that has chunks cannot go on.
AfterStatus(r) ==
  LET x == run[r]
      received == Len(srv[x.up].got)
  IN IF srv[x.up].at # "open" \/ (kind = "stream" /\ received # 0) THEN Free
     ELSE Goes(r, [x EXCEPT !.next = received, !.cut = kind = "put" /\ Cut(received)])

StatusAnswered(r) ==
  /\ run[r].at = "status"
  /\ run' = [run EXCEPT ![r] = AfterStatus(r)]
  /\ UNCHANGED <<kind, limit, encrypted, srv, disk, late, posted, alone, overtaken, more>>

\* Ack: a file and a PUT go on where the server is; a PUT does not forget that it was cut.
FileGoesOn(x, n) == [x EXCEPT !.next = Len(n.got), !.cut = Cut(Len(n.got))]
PutGoesOn(x, n) == [x EXCEPT !.next = Len(n.got), !.cut = @ \/ Cut(Len(n.got))]

\* A stream goes on with its next chunk, unless the server has finished it.
StreamGoesOn(x, n) ==
  [x EXCEPT !.next = @ + 1, !.cut = Cut(Len(n.got)), !.len = IF n.done THEN x.next + 1 ELSE @]

\* OutOfOrder: a file goes back to the chunk the server wants, a body cannot.
AfterChunk(r, s, n) ==
  LET x == run[r]
      refused == s.at # "open" \/ (s.done /\ x.next = Len(s.got))
      outOfOrder == x.next > Len(s.got)
  IN CASE refused \/ (outOfOrder /\ kind # "file") -> Free
       [] ~refused /\ outOfOrder /\ kind = "file" -> Goes(r, [x EXCEPT !.next = Len(s.got)])
       [] OTHER -> Goes(r, CASE kind = "file" -> FileGoesOn(x, n)
                             [] kind = "put" -> PutGoesOn(x, n)
                             [] kind = "stream" -> StreamGoesOn(x, n))

ChunkAnswered(r) ==
  LET q == Request(run[r])
      n == Handled(q)
  IN /\ run[r].at = "chunk"
     /\ srv' = [srv EXCEPT ![q.up] = n]
     /\ run' = [run EXCEPT ![r] = AfterChunk(r, srv[q.up], n)]
     /\ UNCHANGED <<kind, limit, encrypted, disk, late, posted, alone, overtaken, more>>

Manifest(x) == [size |-> x.len, body |-> x.body, cut |-> x.cut]

\* A file that is sealed needs no state any more; of a PUT the manifest is the answer.
SealAnswered(r) ==
  LET x == run[r]
      n == Handled(Request(x))
      sealed == n # srv[x.up]
  IN /\ x.at = "seal"
     /\ srv' = IF sealed THEN [srv EXCEPT ![x.up] = [n EXCEPT !.told = Manifest(x)]] ELSE srv
     /\ run' = [run EXCEPT ![r] = IF sealed /\ kind = "file" THEN [x EXCEPT !.at = "remove"]
                                  ELSE Free]
     /\ UNCHANGED <<kind, limit, encrypted, disk, late, posted, alone, overtaken, more>>

\* What is there already is not overwritten.
WholeAnswered(r) ==
  LET x == run[r]
      n == Handled(Request(x))
  IN /\ x.at = "whole"
     /\ srv' = IF srv[x.up].at = "open"
                 THEN [srv EXCEPT ![x.up] = [n EXCEPT !.told = Manifest([x EXCEPT !.len = 1])]]
                 ELSE srv
     /\ run' = [run EXCEPT ![r] = Free]
     /\ UNCHANGED <<kind, limit, encrypted, disk, late, posted, alone, overtaken, more>>

AbortAnswered(r) ==
  LET x == run[r] IN
  /\ x.at = "abort"
  /\ srv' = [srv EXCEPT ![x.up] = Handled(Request(x))]
  /\ run' = [run EXCEPT ![r] = IF srv[x.up].at = "open" /\ kind = "file"
                                 THEN [x EXCEPT !.at = "remove"] ELSE Free]
  /\ UNCHANGED <<kind, limit, encrypted, disk, late, posted, alone, overtaken, more>>

\* Mutant: only the wish was held against the room.
RemoveStateAndPost(r) ==
  LET x == run[r] IN
  /\ x.at = "remove"
  /\ disk' = 0
  /\ run' = [run EXCEPT ![r] = IF x.posts THEN [x EXCEPT !.at = "post"] ELSE Free]
  /\ UNCHANGED <<kind, limit, encrypted, srv, late, posted, alone, overtaken, more>>

\* The state file goes, whatever it names.  Then the block, which may be an older
\* command's, must fit the room's answer from before the upload.
RemoveState(r) ==
  LET x == run[r] IN
  /\ x.at = "remove"
  /\ disk' = 0
  /\ run' = [run EXCEPT ![r] = IF x.posts /\ Fits(srv[x.up].secret, x.asked)
                                 THEN [x EXCEPT !.at = "post"] ELSE Free]
  /\ UNCHANGED <<kind, limit, encrypted, srv, late, posted, alone, overtaken, more>>

\* In the clear or not as the room was when it was asked; the other backend looks for itself.
GoesEncrypted(x) == IF kind = "whole" THEN encrypted ELSE x.asked

\* The event with the file.
Posted(r) ==
  LET x == run[r] IN
  /\ x.at = "post"
  /\ posted' = posted \union {<<x.up, GoesEncrypted(x)>>}
  /\ run' = [run EXCEPT ![r] = Free]
  /\ UNCHANGED <<kind, limit, encrypted, srv, disk, late, alone, overtaken, more>>

\* A caller ends where it is; what it waits for is lost, or comes late.
Ends(r) ==
  LET x == run[r] IN
  /\ x # Free
  /\ Costs("ends")
  /\ run' = [run EXCEPT ![r] = Free]
  /\ late' \in {late} \union (IF x.at \in Asks THEN {late \union {Request(x)}} ELSE {})
  /\ UNCHANGED <<kind, limit, encrypted, srv, disk, posted, alone, overtaken>>

----------------------------------------------------------------------------
UploadsNext ==
  \/ \E q \in late : Late(q)
  \/ \E u \in DOMAIN srv : Sweep(u) \/ Forget(u)
  \/ Encrypt
  \/ \E secret \in BOOLEAN : MediaCreate(secret)
  \/ \E r \in Callers :
       \/ \E secret, posts \in BOOLEAN : UploadFile(r, secret, posts)
       \/ \E u \in DOMAIN srv :
            \/ \E len \in 1..Chunks : Put(r, u, len)
            \/ Abort(r, u)
            \/ SendAttachment(r, u)
       \/ Created(r) \/ WriteState(r) \/ StatusAnswered(r) \/ ChunkAnswered(r)
       \/ SealAnswered(r) \/ WholeAnswered(r) \/ AbortAnswered(r) \/ RemoveState(r)
       \/ Posted(r) \/ Ends(r)

UploadsSpec == UploadsInit /\ [][UploadsNext]_uploadVars

----------------------------------------------------------------------------
UploadTypeOK ==
  /\ disk \in 0..Len(srv)
  /\ \A u \in DOMAIN srv :
       /\ srv[u].at \in {"open", "sealed", "gone"}
       /\ Len(srv[u].got) \in 0..Chunks
       /\ srv[u].at = "sealed" => srv[u].done \/ kind = "whole"
  /\ \A r \in Callers : run[r].up \in 0..Len(srv)
  /\ \A q \in late : q.what \in Asks

\* SealedIsOneBody: what the server has under a manifest that somebody holds is, chunk
\* for chunk, the body of the call that got it, however many calls sent it, and a PUT
\* knows when the server cut it short, also in a call before (the UI's own file is then
\* not kept as a source).  A stream that was overtaken is left out: see the README.
SealedIsOneBody ==
  \A u \in DOMAIN srv \ overtaken :
    LET m == srv[u].told IN
    m # NoManifest =>
      /\ srv[u].got = [i \in 1..m.size |-> m.body]
      /\ kind \in {"put", "stream"} => m.cut = Cut(m.size)

\* WorkIsKept: chunks of a file that the server has are found again by the next command:
\* no upload of it stays open with chunks that no command is at and the state file does
\* not name.  Commands for one file that run side by side are left out: they make two
\* uploads and one state file.
WorkIsKept ==
  kind = "file" /\ alone =>
    \A u \in DOMAIN srv :
      srv[u].at = "open" /\ srv[u].got # <<>> =>
        disk = u \/ \E r \in Callers : run[r] # Free /\ run[r].up = u

\* KeyStaysSecret: an event in the clear carries no file key, and in an encrypted event
\* of a wbf room no file that the server can read, although the block may be of an older
\* command with another wish and the room may change in the meantime.
KeyStaysSecret ==
  \A p \in posted :
    LET secret == srv[p[1]].secret IN
    (secret => p[2]) /\ (p[2] => secret \/ kind = "whole")
=============================================================================
