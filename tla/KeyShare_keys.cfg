\* Refreshes and sends in a room of two others whose members change.
SPECIFICATION FairSpec
CONSTANTS
  bob = bob
  carol = carol
  c1 = c1
  c2 = c2
  None = None
  Users = {bob, carol}
  Calls = {c1, c2}
  FirstRooms <- OneOrBoth
  Cases <- Scenarios
CHECK_DEADLOCK FALSE
INVARIANTS MessagesMeetTheRoom WaiterIsWoken
PROPERTIES FreshIsKept WorkIsDone
