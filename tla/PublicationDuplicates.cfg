\* Three publications of one report by two processes; one fault.
SPECIFICATION Spec
CONSTANTS
  p1 = p1
  p2 = p2
  p3 = p3
  p4 = p4
  h1 = h1
  h2 = h2
  report = report
  other = other
  OldMarker = OldMarker
  Publisher = {p1, p2, p3}
  Host = {h1, h2}
  Marker = {report, other}
  HostOf <- MCHostOf
  MarkerOf <- MCMarkerOf
  MaxWaiters = 2
  MaxFaults = 1
INVARIANTS
  NoDuplicateComments
\* All the publications have ended.
CHECK_DEADLOCK FALSE
