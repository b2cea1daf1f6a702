\* Two keys and a message: one failure, one crash, one read by the UI.
\* When everything has been queued, pushed and read, the system rests.
CHECK_DEADLOCK FALSE
SPECIFICATION FairSpec
CONSTANTS
  m1 = m1
  Last = 2
  Messages <- OneMessage
  KeyOf <- UnderFirst
  Window = 1
  PullWindows = 1
  InboxSize = 1
  Faults = 1
  Crashes = 1
  Reads = 1
INVARIANTS DestroyedIsStored MessageMeetsKey
PROPERTIES EveryKeyArrives
