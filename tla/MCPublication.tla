----------------------------- MODULE MCPublication -----------------------------
(* Publication by two processes, p3 being the one publisher of the second, and *)
(* p4 the one that publishes another report.                                   *)
EXTENDS Publication

CONSTANTS p1, p2, p3, p4, h1, h2, report, other

MCHostOf == [p \in Publisher |-> IF p = p3 THEN h2 ELSE h1]
MCMarkerOf == [p \in Publisher |-> IF p = p4 THEN other ELSE report]
================================================================================
