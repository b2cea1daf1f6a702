\* Two questions (the Create exception, a chunk that is sent again), or a stream
\* and a subscription that use one id in turn.
CONSTANTS
  create = create  status = status  chunk = chunk  ping = ping  ping2 = ping2
  stream = stream  sub = sub  none = none
  Asks = {create, chunk}
  Chunks = {chunk}
  Timed = {chunk}
  Pings = {}
  Streams = {stream}
  Subs = {sub}
  Id <- BothId
  ReplyId <- BothReplyId
  ChunkIndex <- FirstChunk
  SeqHalf = 4
  Attempts = 2
  SendQueue = 1
  StreamQueue = 2
  SubQueue = 1
  JunkBudget = 2
  MaxPacks = 3
  MaxInbound = 1
  Vanishes = FALSE
  Nobody = none
SPECIFICATION Spec
CONSTRAINT EitherKind
INVARIANTS
  NoWaiterAfterClose
  NoOrphanEntry
  OwnReply
  PacksAreWhole
PROPERTIES
  KeepsContract
CHECK_DEADLOCK FALSE
