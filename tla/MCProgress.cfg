\* One provider call with two chunks of output, of which the parent accepts one; two
\* contenders of one key; four publications by two processes, with two faults.
SPECIFICATION MCSpec
CONSTANTS
  MaxWritten = 2
  OutputLimit = 1
  Proc = {c1, c2}
  None = None
  MaxFlightWaiters = 1
  p1 = p1
  p2 = p2
  p3 = p3
  p4 = p4
  h1 = h1
  h2 = h2
  report = report
  other = other
  OldMarker = OldMarker
  Publisher = {p1, p2, p3, p4}
  Host = {h1, h2}
  HostOf <- MCHostOf
  Marker = {report, other}
  MarkerOf <- MCMarkerOf
  MaxLaneWaiters = 2
  MaxFaults = 2
INVARIANTS
  NothingOutlivesTheCall
  ResultIsWhole
  OneCommentPerProcess
  OneCommentIfAllGoesWell
  PublishedCommentStands
PROPERTIES
  DeadlineSettles
  CancelEndsTheWork
  EveryCallReturns
  EveryPublicationEnds
\* The call has settled, the flights and the publications are over.
CHECK_DEADLOCK FALSE
