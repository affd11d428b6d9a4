------------------------------ MODULE HookReview ------------------------------
(***************************************************************************)
(* A git hook run by `cq hooks run` (hooks/run.ts): the readability pass   *)
(* over the files of its input, then a scored review whose stages assess   *)
(* the minors of the score model that they own (review/assessment-plan.ts),*)
(* then the score (review/score-bridge.ts), the exit code of the review    *)
(* and what the hook makes of it (hooks/presets.ts).                       *)
(*                                                                         *)
(* Hooks bring no verifier of blocking evidence, so that a blocking        *)
(* candidate whose quote is found becomes an unresolved finding.  Ratings  *)
(* are in halves: 10 stands for 5.0.                                       *)
(***************************************************************************)
EXTENDS Naturals, Sequences, FiniteSets, FiniteSetsExt

CONSTANTS
  File,        \* the files that the readability pass looks at
  Assessed,    \* the ratings that the provider gives
  None

VARIABLES
  mode,        \* warn or block
  plan,        \* the stages of the review, in order
  pc,
  unread,      \* the files that the readability pass has yet to look at
  worst,       \* the worst exit code of the readability pass
  output,      \* output[s]: what stage s answered, or None
  short,       \* the snapshot or the context is incomplete
  scored,      \* the assessments of the result, by minor, or None
  exit         \* the exit code of the hook, or None

vars == <<mode, plan, pc, unread, worst, output, short, scored, exit>>
review == <<plan, output, short, scored>>

(* The score model: two of its eight majors, with one minor each.          *)

Minor == {"primary-path", "authentication-authorization"}
MajorOf == [m \in Minor |-> IF m = "primary-path" THEN "correctness" ELSE "security"]

Route == [correctness |-> <<"behavior", "universal">>,
          security    |-> <<"security", "permissions">>]
RequiresSpecialist == {"security"}

(* The plan: one stage when the hook is fast; the mandatory ones, of which *)
(* two stand here, and those that the paths call for when it is full.      *)

Mandatory == <<"universal", "behavior">>
Plans == {<<"universal">>, Mandatory, Mandatory \o <<"security">>}
Stage == {"universal", "behavior", "security"}
In(s, stages) == \E i \in DOMAIN stages : stages[i] = s

OwnerForMajor(major, stages) ==
  LET able == {i \in DOMAIN Route[major] : In(Route[major][i], stages)}
  IN IF able # {} THEN Route[major][Min(able)]
     ELSE IF major \in RequiresSpecialist THEN None ELSE stages[1]

Owner(m) == OwnerForMajor(MajorOf[m], plan)
MinorsForStage(s) == {m \in Minor : Owner(m) = s}
Unrouted == {m \in Minor : Owner(m) = None}

(* What a stage answers: a claim about each minor it owns, and perhaps one *)
(* about something else.  An "unusable" claim is left out, made twice,     *)
(* blank, or has no quote that matches the source.                         *)

Claim == [status : {"unusable", "not_applicable"}, rating : {0}]
         \cup [status : {"scored"}, rating : Assessed]
Severity == {"P1", "P2"}

Failed == [ok |-> FALSE, claims |-> <<>>, extra |-> None, finding |-> None]
Answers(s) ==
  LET own == MinorsForStage(s)
  IN [ok : {TRUE}, claims : [own -> Claim],
      extra : ((Minor \ own) \cup {"unknown", None}), finding : Severity \cup {None}]

(* materializeStageAssessments: one claim about something that the stage   *)
(* does not own discredits the whole answer, and what it is about.         *)

NotAssessed(s, m) == [by |-> s, minor |-> m, status |-> "not_assessed", rating |-> 0]

Own(s, answer) ==
  { IF answer.claims[m].status = "unusable" THEN NotAssessed(s, m)
    ELSE [by |-> s, minor |-> m, status |-> answer.claims[m].status,
          rating |-> answer.claims[m].rating] : m \in DOMAIN answer.claims }

Materialize(s, answer) ==
  IF answer.extra = None THEN Own(s, answer)
  ELSE {NotAssessed(s, m) : m \in DOMAIN answer.claims \cup {answer.extra}}

Answered == {s \in Stage : In(s, plan) /\ output[s] # None /\ output[s].ok}
Provided == (UNION {Materialize(s, output[s]) : s \in Answered})
            \cup {NotAssessed("plan", m) : m \in Unrouted}

(* The findings: what is less than blocking is confirmed by its quote, and *)
(* what blocks stays unresolved.                                           *)

Reporting(severities) == {s \in Answered : output[s].finding \in severities}
Incomplete == \/ short
              \/ \E s \in Stage : output[s] # None /\ ~output[s].ok
              \/ Reporting({"P1"}) # {}
Gate == IF Incomplete THEN "INCOMPLETE" ELSE IF Reporting({"P2"}) # {} THEN "WARN" ELSE "PASS"

\* minorForFinding, of a finding of stage s.
MinorForFinding(s) ==
  IF s = "security" THEN "authentication-authorization" ELSE "primary-path"
RatingFromSeverity == [P1 |-> 2, P2 |-> 5]

(* assessmentsFromReview and scoreFromReview.                              *)

FindingsOn(m) == {s \in Reporting({"P2"}) : MinorForFinding(s) = m}

\* Mutated: what was not applicable stays so.
CapWithFindingsOfScored(m, a) ==
  IF FindingsOn(m) = {} \/ a.status # "scored" THEN a
  ELSE [a EXCEPT !.rating = Min({a.rating, RatingFromSeverity["P2"]})]

CapWithFindings(m, a) ==
  IF FindingsOn(m) = {} \/ a.status = "not_assessed" THEN a
  ELSE [a EXCEPT !.status = "scored",
                 !.rating = IF a.status = "not_applicable" THEN RatingFromSeverity["P2"]
                            ELSE Min({a.rating, RatingFromSeverity["P2"]})]

AssessmentsFromReview(provided) ==
  [m \in Minor |->
     LET of == {a \in provided : a.minor = m}
         unusable == (\E a \in provided : a.minor \notin Minor) \/ Cardinality(of) # 1
     IN CapWithFindings(m, IF unusable THEN NotAssessed("plan", m)
                           ELSE CHOOSE a \in of : TRUE)]

\* finalizeResult keeps the assessments and scores them in a second pass.
Twice(provided) ==
  LET once == AssessmentsFromReview(provided)
  IN AssessmentsFromReview({once[m] : m \in Minor})

RequiredGap == \E m \in Minor : scored[m].status = "not_assessed"
ScoreGate == IF RequiredGap THEN "INCOMPLETE" ELSE Gate

GateExitCode ==
  IF Incomplete \/ Gate = "INCOMPLETE" \/ ScoreGate = "INCOMPLETE" THEN 3
  ELSE IF Gate = "BLOCK" THEN 1 ELSE 0

\* resolveHookExitCode, and the script around it; both presets fail open.
HookExit(code) == IF mode = "warn" \/ code = 3 THEN 0 ELSE code

(* The hook.                                                               *)

Init ==
  /\ mode \in {"warn", "block"}
  /\ plan \in Plans
  /\ pc = "readability"
  /\ unread = File
  /\ worst = 0
  /\ output = [s \in Stage |-> None]
  /\ short = FALSE
  /\ scored = None
  /\ exit = None

\* PASS or WARN or a file that is gone, BLOCK, an unreadable file, and INCOMPLETE.
Inspect(f) ==
  /\ pc = "readability" /\ f \in unread
  /\ \E code \in 0 .. 3 : worst' = Max({worst, code})
  /\ unread' = unread \ {f}
  /\ UNCHANGED <<mode, review, pc, exit>>

CaptureFails ==
  /\ pc = "readability" /\ unread = File
  /\ worst' = 3 /\ unread' = {}
  /\ UNCHANGED <<mode, review, pc, exit>>

EndReadability ==
  /\ pc = "readability" /\ unread = {}
  /\ IF worst = 1 /\ mode = "block" THEN pc' = "done" /\ exit' = 1
     ELSE pc' = "review" /\ exit' = exit
  /\ worst' = 0
  /\ UNCHANGED <<mode, review, unread>>

\* No provider, an invalid policy, or a step that throws.
RefuseReview ==
  /\ pc = "review"
  /\ pc' = "done" /\ exit' = HookExit(2)
  /\ UNCHANGED <<mode, review, unread, worst>>

StartReview ==
  /\ pc = "review"
  /\ short' \in BOOLEAN
  /\ pc' = "stages"
  /\ UNCHANGED <<mode, plan, output, scored, unread, worst, exit>>

\* The stages do not see each other: the order in which they end does not matter.
EndStage ==
  /\ pc = "stages"
  /\ \E i \in DOMAIN plan :
       /\ output[plan[i]] = None
       /\ \A j \in 1 .. i - 1 : output[plan[j]] # None
       /\ \E answer \in Answers(plan[i]) \cup {Failed} : output' = [output EXCEPT ![plan[i]] = answer]
  /\ UNCHANGED <<mode, plan, pc, short, scored, unread, worst, exit>>

FinalizeResult ==
  /\ pc = "stages" /\ \A i \in DOMAIN plan : output[plan[i]] # None
  /\ scored' = Twice(Provided)
  /\ pc' = "scored"
  /\ UNCHANGED <<mode, plan, output, short, unread, worst, exit>>

EndHook ==
  /\ pc = "scored"
  /\ exit' = HookExit(GateExitCode)
  /\ pc' = "done"
  /\ UNCHANGED <<mode, review, unread, worst>>

Next ==
  \/ \E f \in File : Inspect(f)
  \/ CaptureFails
  \/ EndReadability
  \/ RefuseReview
  \/ StartReview
  \/ EndStage
  \/ FinalizeResult
  \/ EndHook

Spec == Init /\ [][Next]_vars

(* No minor keeps a rating above the cap of a finding that is confirmed on *)
(* it, and none of them is "not applicable": whatever the stages claimed,  *)
(* in whatever order the two passes of the score apply.                    *)
FindingsCapTheScore ==
  pc = "scored" => \A s \in Reporting({"P2"}) :
    LET a == scored[MinorForFinding(s)]
    IN a.status = "not_assessed" \/ (a.status = "scored" /\ a.rating <= RatingFromSeverity["P2"])

(* The design lets a hook in block mode pass an incomplete review "for     *)
(* local provider or network failures" (design.md:1035).  Violated: the    *)
(* code also passes one whose stages all succeeded and which is incomplete *)
(* by a blocking finding that nobody has verified.                         *)
FailOpenIsForProviderFailures ==
  mode = "block" /\ pc = "done" /\ exit = 0 /\ scored # None /\ GateExitCode = 3
    => \E s \in Stage : output[s] # None /\ ~output[s].ok

===============================================================================
