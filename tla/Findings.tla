------------------------------- MODULE Findings -------------------------------
(***************************************************************************)
(* The findings of a review: what the evidence verifier makes of the       *)
(* candidates of a stage (review/evidence-verifier.ts), how the findings   *)
(* of all the stages are merged, and the gate (core/findings.ts).  A       *)
(* severity is its rank, P0 = 0 .. NIT = 4.  A key stands for what makes   *)
(* two findings the same: rule, path, lines and normalized title.          *)
(***************************************************************************)
EXTENDS Naturals, FiniteSets

CONSTANTS
  Key,         \* the deduplication keys
  GateMode,    \* gatePolicy.mode; "default" where there is no policy
  BlockRank    \* the rank of gatePolicy.blockSeverity

ASSUME FindingsAssumption ==
  /\ GateMode \in {"default", "advisory", "block", "warn"}
  /\ BlockRank \in 0 .. 2

Severity == 0 .. 4

\* What the verifier finds for a candidate: no captured source that matches its quote,
\* the source, or the source and a fact of the independent verifier.
Evidence == {"none", "source", "fact"}

Candidate == [key : Key, severity : Severity, evidence : Evidence]

Lifecycle == {"waived", "reported", "confirmed", "corroborated", "uncertain",
              "candidate", "dismissed"}

Finding == [key : Key, severity : Severity, lifecycle : Lifecycle, unresolved : BOOLEAN]

Blocking(severity) == severity <= 1
Material(severity) == severity <= 2

(* verifyCandidates                                                        *)

Conflicting(c, candidates) ==
  \E d \in candidates : d.key = c.key /\ d.severity # c.severity

Unverified(c) == c.evidence = "source" /\ Blocking(c.severity)

VerifiedLifecycle(c, candidates) ==
  CASE Conflicting(c, candidates) \/ c.evidence = "none" -> "uncertain"
    [] OTHER -> IF Unverified(c) THEN "corroborated" ELSE "confirmed"

VerifyCandidates(candidates) ==
  { [key |-> c.key, severity |-> c.severity,
     lifecycle |-> VerifiedLifecycle(c, candidates),
     unresolved |-> Unverified(c)] : c \in candidates }

(* dedupeFindings                                                          *)

Group(findings, k) == {f \in findings : f.key = k}
Keys(findings) == {f.key : f \in findings}

LeastSeverity(group) ==
  CHOOSE s \in {f.severity : f \in group} : \A f \in group : s <= f.severity

\* The lifecycles in the order in which one of them speaks for the group.
Precedence == <<"waived", "reported", "confirmed", "corroborated", "uncertain",
                "candidate", "dismissed">>

StrongestLifecycle(group) ==
  LET present == {f.lifecycle : f \in group}
      i == CHOOSE i \in 1 .. 7 : /\ Precedence[i] \in present
                                 /\ \A j \in 1 .. i - 1 : Precedence[j] \notin present
  IN Precedence[i]

SeverityConflict(group) == Cardinality({f.severity : f \in group}) > 1

\* Mutated: a conflict of severities is settled by the strongest lifecycle.
MergedLifecycleOptimistic(group) == StrongestLifecycle(group)

MergedLifecycle(group) ==
  IF SeverityConflict(group) THEN "uncertain" ELSE StrongestLifecycle(group)

MergeFindingGroup(k, group) ==
  IF Cardinality(group) = 1
  THEN CHOOSE f \in group : TRUE
  ELSE [ key |-> k,
         severity |-> LeastSeverity(group),
         lifecycle |-> MergedLifecycle(group),
         unresolved |-> /\ MergedLifecycle(group) = "corroborated"
                        /\ \E f \in group : f.unresolved ]

DedupeFindings(findings) ==
  { MergeFindingGroup(k, Group(findings, k)) : k \in Keys(findings) }

(* finalizeResult and decideGate.  Every confirmed finding has high         *)
(* confidence, so minimumConfidence excludes none.                          *)

Confirmed(findings) == {f \in findings : f.lifecycle \in {"confirmed", "reported"}}

Unresolved(findings) == \E f \in findings : f.lifecycle = "corroborated" /\ f.unresolved

BlockingRank == IF GateMode = "default" THEN 1 ELSE BlockRank

DecideGate(findings, incomplete) ==
  LET severities == {f.severity : f \in Confirmed(findings)}
      blocks == /\ GateMode \in {"default", "block"}
                /\ \E s \in severities : s <= BlockingRank
  IN IF incomplete THEN "INCOMPLETE"
     ELSE IF blocks THEN "BLOCK"
     ELSE IF \E s \in severities : Material(s) THEN "WARN" ELSE "PASS"
===============================================================================
