\* Three calls of one run or two, one session at a time; one removal fails.
SPECIFICATION FairSpec
CONSTANTS
  None = None
  Call = {c1, c2, c3}
  Run = {r1, r2}
  MaxSessions = 1
  MaxSnapshots = 2
  MaxFaults = 1
INVARIANTS
  LeaseKeepsTheCopy
  ReleasedIsRemoved
PROPERTIES
  NothingLeaks
\* All the calls have ended.
CHECK_DEADLOCK FALSE
