\* Two live processes hold the lock that a dead one left.
SPECIFICATION Spec
CONSTANTS
  x = x
  h = h
  Proc = {x, h, p1, p2, p3}
  None = None
  Absent = Absent
  Unwritten = Unwritten
  MaintenanceCrashes = TRUE
SYMMETRY Symmetry
CONSTRAINT Scenario
INVARIANTS
  MutualExclusion
CHECK_DEADLOCK FALSE
