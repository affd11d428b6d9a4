\* An acquireLock that throws in its finally block keeps the lock.
SPECIFICATION Spec
CONSTANTS
  Proc = {p1, p2, p3}
  None = None
  Absent = Absent
  Unwritten = Unwritten
  MaintenanceCrashes = TRUE
SYMMETRY Symmetry
INVARIANTS
  FailedAcquireLeavesNoLock
CHECK_DEADLOCK FALSE
