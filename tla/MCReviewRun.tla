------------------------------ MODULE MCReviewRun ------------------------------
(* What the answers of the stages come to: the budget and the gate of a run,  *)
(* the assessments, the score and the exit code of a review for a hook, and   *)
(* the score and its comparison.  A behaviour is one of the module that       *)
(* subject names; the run of the others stays as it is at first, and the      *)
(* variables of the other modules are None.                                   *)
EXTENDS ReviewRun, Integers

CONSTANTS
  k, None, File, Assessed,
  ScoreMinor, Major, ScoreMajorOf, Weights, Standard, Rating   \* of ScoreCalculation

\* The ratings that a provider gives are numbers.
ASSUME RatingsAreNumbers == Assessed \subseteq Nat

VARIABLES
  subject,
  mode, plan, hookPc, unread, worst, output, short, scored, exit,
  weights, scope, items, baseline

hookVars == <<mode, plan, hookPc, unread, worst, output, short, scored, exit>>
scoreVars == <<weights, scope, items, baseline>>
all == <<vars, subject, hookVars, scoreVars>>

Says(severity, evidence) == [key |-> k, severity |-> severity, evidence |-> evidence]

\* Nothing; a P1 that is quoted wrongly, quoted, and verified; a P2; two severities.
MCOutputs ==
  { {}, {Says(1, "none")}, {Says(1, "source")}, {Says(1, "fact")}, {Says(2, "source")},
    {Says(1, "fact"), Says(2, "source")} }

\* The weights of the default model in small, all of them on one minor, and weights of a
\* major that are not those of its minors.
MCMajorOf == [m1 |-> "A", m2 |-> "A", m3 |-> "B"]
MCStandard ==
  [minor |-> [m1 |-> 333, m2 |-> 400, m3 |-> 267], major |-> [A |-> 733, B |-> 267]]
MCWeights ==
  { MCStandard,
    [minor |-> [m1 |-> 1000, m2 |-> 0, m3 |-> 0], major |-> [A |-> 1000, B |-> 0]],
    [MCStandard EXCEPT !.major = [A |-> 700, B |-> 300]] }

Hook == INSTANCE HookReview WITH pc <- hookPc
Score == INSTANCE ScoreCalculation WITH Minor <- ScoreMinor, MajorOf <- ScoreMajorOf

\* The minors of a model are a list, a weight is a natural number of tenths and a rating
\* at most 5.0; null is no number.
ScoreConstants ==
  /\ IsFiniteSet(ScoreMinor)
  /\ ScoreMajorOf \in [ScoreMinor -> Major]
  /\ Standard.minor \in [ScoreMinor -> Nat]
  /\ \A w \in Weights : w.minor \in [ScoreMinor -> Nat]
  /\ Rating \subseteq 0 .. 10
  /\ None \notin Int

ASSUME ScoreAssumption == ScoreConstants

RunWaits == budget = 1 /\ partial = FALSE
HookIdle ==
  /\ mode = None /\ plan = None /\ hookPc = None /\ unread = None /\ worst = None
  /\ output = None /\ short = None /\ scored = None /\ exit = None
ScoreIdle == weights = None /\ scope = None /\ items = None /\ baseline = None

MCInit ==
  /\ subject \in {"run", "hook", "score"}
  /\ Init
  /\ subject # "run" => RunWaits
  /\ IF subject = "hook" THEN Hook!Init ELSE HookIdle
  /\ IF subject = "score" THEN Score!Init ELSE ScoreIdle

RunDoes(A) == subject = "run" /\ A /\ UNCHANGED <<subject, hookVars, scoreVars>>

MCNext ==
  \/ RunDoes(Next)
  \/ subject = "hook" /\ Hook!Next /\ UNCHANGED <<subject, vars, scoreVars>>
  \/ subject = "score" /\ Score!Next /\ UNCHANGED <<subject, vars, hookVars>>

\* The fairness is that of ReviewRun.
MCFairness == WF_all(RunDoes(Step)) /\ \A r \in Runner : WF_all(RunDoes(RunnerStep(r)))

MCSpec == MCInit /\ [][MCNext]_all /\ MCFairness

\* Every run ends, cancelled or not.
EveryRunEnds == subject = "run" => RunEnds

\* The other properties of ReviewRun go by their names.  Those of HookReview and of
\* ScoreCalculation:

\* No assessment is scored above what the findings of its minor allow.
FindingsCapTheScore == subject = "hook" => Hook!FindingsCapTheScore

\* An assessment that is left out never raises the comparison.
NoGainFromSilence == subject = "score" => Score!NoGainFromSilence

\* A difference is that of the two scores that are displayed.
DeltaFitsTheScores == subject = "score" => Score!DeltaFitsTheScores
================================================================================
