\* Two handlers and two exports: hand-over, a cancel, a logout, a fault, a GET.
CHECK_DEADLOCK FALSE
SPECIFICATION FairSpec
CONSTANTS
  alice = alice
  bob = bob
  first = first
  second = second
  Handlers = {alice, bob}
  Callers = {first, second}
  Chunks = 2
  MayStop = {alice}
  MaxFaults = 1
  MaxSeeks = 1
  MaxUpsets = 2
  Nobody = Nobody
INVARIANTS ClaimsMeetWork JobIsAsked CancelStops
PROPERTY EveryoneIsTold
