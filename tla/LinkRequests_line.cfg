\* Two requests over a line that closes and is opened again; two clients of the
\* daemon; one of the two at a time.
CHECK_DEADLOCK FALSE
SPECIFICATION AskSpec
CONSTANTS
  chunk = chunk
  seek = seek
  c1 = c1
  c2 = c2
  j = j
  u = u
  v = v
  Asks = {chunk, seek}
  MaxPush <- Pushes
  MaxLine = 2
  Nobody = Nobody
  Conns = {c1, c2}
  JobIds = {j}
  NoId = NoId
  AnyUser = AnyUser
  Room = 1
  EventQueue = 1
  Cases <- ClientCases
  Users = {u, v}
INVARIANTS ExactlyOnce ResultsAreReal MissedIsTold
PROPERTIES ComesBack EveryoneIsServed
