--------------------------- MODULE ScoreCalculation ---------------------------
(***************************************************************************)
(* The score and its comparison with a baseline (core/scoring-model.ts,    *)
(* scoring-assessments.ts, scoring-calculation.ts, core/score-input.ts),   *)
(* as `cq score` computes them (commands/score.ts) for a document that its *)
(* author edits between two runs, and as a profile weighs them             *)
(* (review/profile-score-model.ts).                                        *)
(*                                                                         *)
(* Weights are in tenths of a point, ratings in halves and what is         *)
(* displayed in tenths: 1000 stands for 100.0.  An earnedWeightRatingUnit  *)
(* of the code is a fiftieth of a tenth, so that weight * rating * 10 is   *)
(* weight * halves * 5 here.                                               *)
(***************************************************************************)
EXTENDS Integers, FiniteSets, Functions

CONSTANTS
  Minor,
  Major,
  MajorOf,     \* [Minor -> Major]
  Weights,     \* [minor, major]: what documents and profiles may weigh
  Standard,    \* the default model
  Rating,      \* the ratings that occur
  None

VARIABLES
  weights,     \* the model of the document
  scope,       \* "repository", or the major of a focused domain
  items,       \* the assessments of the document
  baseline     \* those of its baseline, which are valid: [Minor -> Assessment]

vars == <<weights, scope, items, baseline>>

MinorsOf(major) == {m \in Minor : MajorOf[m] = major}
Selected(s) == IF s = "repository" THEN Minor ELSE MinorsOf(s)

\* validateScoreModel: a major weighs what its minors weigh, and all of them 100.0.
ValidModel(w) ==
  /\ \A a \in Major : SumFunctionOnSet(w.minor, MinorsOf(a)) = w.major[a]
  /\ SumFunctionOnSet(w.major, Major) = 1000

(* Assessments.                                                            *)

Assessment == [status : {"not_applicable", "not_assessed"}, halves : {0}]
              \cup [status : {"scored"}, halves : Rating]
Item == {[minor |-> m, is |-> a] : m \in Minor, a \in Assessment}

\* validateAndSnapshotAssessments: one for each minor that is selected, and no other.
Accepted ==
  /\ {i.minor : i \in items} = Selected(scope)
  /\ \A i, j \in items : i.minor = j.minor => i = j

Current == [m \in Selected(scope) |-> (CHOOSE i \in items : i.minor = m).is]

(* scoreMinor and aggregateCalculations, of the minors S.                  *)

Scored(a, S) == {m \in S : a[m].status = "scored"}
Applicable(a, S) == {m \in S : a[m].status # "not_applicable"}
Weight(w, S) == SumFunctionOnSet(w.minor, S)
Units(w, a) == [m \in DOMAIN a |-> w.minor[m] * a[m].halves * 5]
Earned(w, a, S) == SumFunctionOnSet(Units(w, a), Scored(a, S))

(* What is displayed, in tenths.                                           *)

HalfUp(n, d) == (2 * n + d) \div (2 * d)
Normalized(w, a, S) ==
  IF Weight(w, Scored(a, S)) = 0 THEN None
  ELSE HalfUp(Earned(w, a, S) * 20, Weight(w, Scored(a, S)))

\* formatSignedFraction: the size is rounded, and the sign is put before it.
Signed(n, d) == IF n >= 0 THEN HalfUp(n * 10, d) ELSE -HalfUp(-n * 10, d)

(* compareBaseline.  The baseline has the same scope and the default model. *)

Compatible == weights = Standard

\* Mutated: only what is scored on both sides counts.
SameStatusesWhereScored(S) ==
  \E m \in S : Current[m].status = "scored" /\ baseline[m].status = "scored"

SameStatuses(S) == \A m \in S : baseline[m].status = Current[m].status

\* Mutated: the units are subtracted as if both had the weight of the current ones.
NormalizedDeltaOfUnits(S) ==
  LET now == Weight(weights, Scored(Current, S))
  IN IF now = 0 THEN None
     ELSE Signed(Earned(weights, Current, S) - Earned(Standard, baseline, S), now)

NormalizedDelta(S) ==
  LET now == Weight(weights, Scored(Current, S))
      old == Weight(Standard, Scored(baseline, S))
  IN IF now = 0 \/ old = 0 THEN None
     ELSE Signed(Earned(weights, Current, S) * 2 * old - Earned(Standard, baseline, S) * 2 * now,
                 now * old)

\* compareMajors for the minors of a major; normalizedDelta for all that are selected.
Delta(S) == IF Compatible /\ SameStatuses(S) THEN NormalizedDelta(S) ELSE None

\* compareMinors: the tenths that one minor has gained.
MinorDelta(m) ==
  IF Compatible /\ Current[m].status = "scored" /\ baseline[m].status = "scored"
  THEN Signed((Current[m].halves - baseline[m].halves) * weights.minor[m] * 5, 500)
  ELSE None

(* The author edits the document, or another profile weighs it.            *)

Init ==
  /\ weights = Standard
  /\ scope \in {"repository"} \cup Major
  /\ baseline \in [Minor -> Assessment]
  /\ items = {[minor |-> m, is |-> baseline[m]] : m \in Selected(scope)}

Put(i) ==
  /\ Cardinality(items) < Cardinality(Minor)
  /\ items' = items \cup {i}
  /\ UNCHANGED <<weights, scope, baseline>>

Drop(i) ==
  /\ items' = items \ {i}
  /\ UNCHANGED <<weights, scope, baseline>>

\* materializeProfileScoreModel: weights that do not add up are an error.
Reweigh(w) ==
  /\ ValidModel(w)
  /\ weights' = w
  /\ UNCHANGED <<scope, items, baseline>>

Next ==
  \/ \E i \in Item : Put(i) \/ Drop(i)
  \/ \E w \in Weights : Reweigh(w)

Spec == Init /\ [][Next]_vars

(* A gain over the baseline is displayed, of the whole or of a major, only *)
(* if a rating has risen: nothing is gained by leaving a poor minor out,   *)
(* by calling it not applicable, or by weighing it less.                   *)
NoGainFromSilence ==
  Accepted => \A S \in {Selected(scope)} \cup {MinorsOf(MajorOf[m]) : m \in Selected(scope)} :
    Delta(S) # None /\ Delta(S) > 0 =>
      \E m \in S : /\ MinorDelta(m) # None /\ MinorDelta(m) >= 0
                   /\ Current[m].halves > baseline[m].halves

(* What is displayed fits together: a delta and the two totals it is of    *)
(* have the same order, and differ by a tenth at the most.                 *)
DeltaFitsTheScores ==
  Accepted /\ Delta(Selected(scope)) # None =>
    LET now == Normalized(weights, Current, Selected(scope))
        old == Normalized(Standard, baseline, Selected(scope))
        d == Delta(Selected(scope))
    IN /\ now \in 0 .. 1000 /\ old \in 0 .. 1000
       /\ d > 0 => now >= old
       /\ d < 0 => now <= old
       /\ now - old - d \in -1 .. 1

===============================================================================
