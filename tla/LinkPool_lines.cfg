\* A round of the keeper or a login, beside a command and logouts: locks, progress,
\* and what the old session leaves behind.
SPECIFICATION FairSpec
CONSTANTS
  keys = keys
  backup = backup
  keeper = keeper
  owner = owner
  watcher = watcher
  None = None
  Commands = {backup}
  RoleOrder <- OnlyKeys
  Subscribed <- KeysOnly
  CommandRole <- OneOnKeys
  Pools <- PoolIds
  Slots <- SlotIds
  MaxSession = 2
  Rounds = 1
  Starts <- EitherOne
INVARIANTS NoOldLine
PROPERTIES LiveLineIsKept EveryoneEnds
