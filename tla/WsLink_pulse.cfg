\* The heartbeat and a question that waits until the line is silent.
CONSTANTS
  create = create  status = status  chunk = chunk  ping = ping  ping2 = ping2
  stream = stream  sub = sub  none = none
  Asks = {status}
  Chunks = {}
  Timed = {}
  Pings = {ping, ping2}
  Streams = {}
  Subs = {}
  Id <- PulseId
  ReplyId <- PulseId
  ChunkIndex <- FirstChunk
  SeqHalf = 4
  Attempts = 1
  SendQueue = 1
  StreamQueue = 1
  SubQueue = 1
  JunkBudget = 1
  MaxPacks = 0
  MaxInbound = 1
  Vanishes = TRUE
  Nobody = none
SPECIFICATION FairSpec
PROPERTIES
  NobodyIsStuck
CHECK_DEADLOCK FALSE
