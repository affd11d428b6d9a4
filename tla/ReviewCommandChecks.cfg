SPECIFICATION Spec
CONSTANTS
  Proc = {p1, p2}
  Version = {v1}
  Policy = {open}
  Open = {open}
  None = None
  MaxMoves = 0
  MaxFreeMoves = 1
  MaxFaults = 0
INVARIANT FailedChecksForceIncomplete
CHECK_DEADLOCK FALSE
