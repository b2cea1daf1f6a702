------------------------------ MODULE MCWsLink ------------------------------
(***************************************************************************)
(* Small lines for TLC.  Upload 1 and 2 and session 3 are the ids; two     *)
(* chunk indices and SeqHalf line numbers share the space of seq.          *)
(***************************************************************************)
EXTENDS WsLink

CONSTANTS create, status, chunk, ping, ping2, stream, sub, none

\* A status of upload 1, two pings.
PulseId == [c \in Calls |-> CASE c = status -> 1 [] OTHER -> 0]

FirstChunk == [c \in Chunks |-> 0]

\* A create (no id, its reply carries upload 2), chunk 0 of upload 1, whose number is
\* below every line number, and a stream and a subscription that use session 3 in turn.
\* Questions share no key with named sessions: a line carries either in one behaviour.
BothId == [c \in Calls |-> CASE c \in {status, chunk} -> 1 [] c \in Named -> 3 [] OTHER -> 0]
BothReplyId == [c \in Calls |-> IF c = create THEN 2 ELSE BothId[c]]
EitherKind == LET begun == {c \in Calls : pc[c] # "idle"}
              IN begun \cap Named = {} \/ begun \cap Oneshots = {}
=============================================================================
