\* Recovery, with processes that die anywhere.
SPECIFICATION FairSpec
CONSTANTS
  Proc = {p1, p2, p3}
  None = None
  Absent = Absent
  Unwritten = Unwritten
  MaintenanceCrashes = TRUE
PROPERTIES
  SurvivorAcquires
CHECK_DEADLOCK FALSE
