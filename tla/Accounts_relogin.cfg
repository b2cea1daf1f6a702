\* Two logins of one account, one after the other.
SPECIFICATION AccountsSpec
CONSTANTS
  alice = alice
  bob = bob
  capital = capital
  c1 = c1
  c2 = c2
  None = None
  Names = {alice, bob, capital}
  Canon <- Spelling
  Clients = {c1, c2}
  Cases <- Twice
SYMMETRY AnyCaller
CHECK_DEADLOCK FALSE
INVARIANT SessionHasStore
