\* The lock's safety, with processes that die anywhere outside the maintenance section.
SPECIFICATION Spec
CONSTANTS
  Proc = {p1, p2, p3, p4}
  None = None
  Absent = Absent
  Unwritten = Unwritten
  MaintenanceCrashes = FALSE
SYMMETRY Symmetry
INVARIANTS
  HandleIsOwner
  LoserLeavesNothing
PROPERTIES
  KeepsPromise
\* Every process may be dead.
CHECK_DEADLOCK FALSE
