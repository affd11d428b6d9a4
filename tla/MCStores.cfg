\* Three contenders of one key and one waiter slot; two processes on a directory for two
\* entries, three items, and one fault.
SPECIFICATION MCSpec
CONSTANTS
  Proc = {p1, p2, p3}
  None = None
  MaxWaiters = 1
  Writer = {w1, w2}
  Item = {p1, p2, p3}
  Leftover = {old}
  Foreign = foreign
  MaxEntries = 2
  MaxBytes = 3
  MaxCleanup = 1
  MaxFaults = 1
SYMMETRY Symmetry
INVARIANTS
  ReviewIsNeeded
  StoredBeforePublished
  ReturnLeavesNoLock
  LimitsKept
PROPERTIES
  KeepsFlightPromise
  KeepsEntries
  OnlyTheUselessIsDiscarded
\* Every call may be over.
CHECK_DEADLOCK FALSE
