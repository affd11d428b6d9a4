------------------------------ MODULE MCProgress ------------------------------
(* The three protocols in which a caller waits for others: the single flight  *)
(* of a key, the child process of a provider, and the lane of a change.  They *)
(* share nothing, and a behaviour is one of their behaviours: that of subject *)
(* runs, and the others stay as they are at first.                            *)
EXTENDS BoundedChild

CONSTANTS
  Proc, None, MaxFlightWaiters,                      \* of SingleFlight
  Publisher, Host, HostOf, Marker, MarkerOf, OldMarker, MaxLaneWaiters, MaxFaults,
  p1, p2, p3, p4, h1, h2, report, other              \* names of publishers, hosts, markers

VARIABLES
  subject,
  alive, owner, handle, cache, stored, slots, at, beat, review, probe, flightOutcome,
  comments, flying, nextId, lane, pc, attempt, mine, target, faults

flight == <<alive, owner, handle, cache, stored, slots, at, beat, review, probe, flightOutcome>>
publication == <<comments, flying, nextId, lane, pc, attempt, mine, target, faults>>
all == <<vars, subject, flight, publication>>

Flight == INSTANCE SingleFlight
  WITH pc <- at, outcome <- flightOutcome, MaxWaiters <- MaxFlightWaiters

Lane == INSTANCE Publication WITH MaxWaiters <- MaxLaneWaiters

\* p3 is the one publisher of the second process, and p4 has another report.
MCHostOf == [p \in Publisher |-> IF p = p3 THEN h2 ELSE h1]
MCMarkerOf == [p \in Publisher |-> IF p = p4 THEN other ELSE report]

\* An earlier comment is of another report, and of nobody who still runs.
ASSUME PublicationAssumption ==
  /\ HostOf \in [Publisher -> Host]
  /\ MarkerOf \in [Publisher -> Marker]
  /\ OldMarker \notin Publisher \cup Marker
  /\ MaxFaults \in Nat

MCInit ==
  /\ subject \in {"child", "flight", "publication"}
  /\ Init
  /\ Flight!Init
  /\ Lane!Init
  /\ subject # "publication" => comments = {}

ChildDoes(A) == subject = "child" /\ A /\ UNCHANGED <<subject, flight, publication>>
FlightDoes(A) == subject = "flight" /\ A /\ UNCHANGED <<subject, vars, publication>>
LaneDoes(A) == subject = "publication" /\ A /\ UNCHANGED <<subject, vars, flight>>

MCNext == ChildDoes(Next) \/ FlightDoes(Flight!Next) \/ LaneDoes(Lane!Next)

\* The fairness of each, as its module states it.
MCFairness ==
  /\ WF_all(ChildDoes(SupervisorStep)) /\ WF_all(ChildDoes(ParentStep))
  /\ \A p \in Proc : /\ WF_all(FlightDoes(Flight!Step(p)))
                     /\ SF_all(FlightDoes(Flight!WaitEnds(p)))
  /\ \A p \in Publisher : WF_all(LaneDoes(Lane!Step(p)))

MCSpec == MCInit /\ [][MCNext]_all /\ MCFairness

\* The properties of BoundedChild go by their names.  Those of the other two:

\* Every call of runWithSingleFlight returns, or dies with its process.
EveryCallReturns == subject = "flight" => Flight!EveryCallReturns

\* A process makes a second comment only where the publication that made the first missed it.
OneCommentPerProcess == Lane!OneCommentPerProcess

\* Publications of one report that all run through leave one comment.
OneCommentIfAllGoesWell == Lane!OneCommentIfAllGoesWell

\* The comment that a publication has returned stands, and has its marker.
PublishedCommentStands == Lane!PublishedCommentStands

\* A publication that waits for its turn, or has it, comes to an end.
EveryPublicationEnds == Lane!EveryPublicationEnds
================================================================================
