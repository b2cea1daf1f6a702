\* A job that is cancelled, fails or is asked for again, and two GETs beside it.
CHECK_DEADLOCK FALSE
SPECIFICATION FairSpec
CONSTANTS
  play = play
  scrub = scrub
  N = 2
  Gets = {play, scrub}
  MaxJobs = 2
  MaxFaults = 2
PROPERTIES EveryoneEnds
