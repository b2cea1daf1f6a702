\* The directory of one server: its accounts, its rooms, its events, an upload,
\* what outlives a device, one at a time.
SPECIFICATION DirSpec
CONSTANTS
  alice = alice
  bob = bob
  capital = capital
  r1 = r1
  r2 = r2
  c1 = c1
  c2 = c2
  None = None
  Names = {alice, bob, capital}
  Canon <- Spelling
  Clients = {c1, c2}
  Cases <- LoginCases
  RoomFacts <- Timelines
  Callers = {c1, c2}
  Chunks = 2
  UploadCases <- Ways
  Homes = {c1, c2}
  Private <- TwoNames
  BackupKey = "backup"
  Happenings <- BackupCases
  Settings = {TRUE, FALSE}
  Task = Task
  Absent = Absent
  RoomCases <- RoomScenarios
  RoomIds = {r1, r2}
  Talk = r1
  Calls = {c1, c2}
  Window = 2
  Readers = {alice, bob}
  Ids = {1, 2, 3, 4, 5, 6}
SYMMETRY SameCalls
CHECK_DEADLOCK FALSE
INVARIANTS AccountsAreWhole InvitesSettle ClaimsAreCovered OrderIsNothing
           SealedIsOneBody WorkIsKept KeyStaysSecret
           WhatIsKeptOpens
PROPERTIES NothingUnderAnAccount NothingComesBack InboxKeyIsKept
