---------------------------- MODULE ReviewRunProofs ----------------------------
(***************************************************************************)
(* The attempt budget and the gate of a review run, for every plan: type   *)
(* correctness, the accounting of the attempts, that a budget of two       *)
(* attempts for each stage starves none, and what a gate stands for.  Then *)
(* the score of a hook, for every assessment of the files: what the        *)
(* findings cap it to.  Last the score and its comparison with a baseline, *)
(* for every model: facts about sums and rounding, and what a displayed    *)
(* gain stands for.                                                        *)
(***************************************************************************)
EXTENDS MCReviewRun, FiniteSetTheorems, WellFoundedInduction, TLAPS

\* What a runner holds, by where it stands.
RunnerInv(r) ==
  /\ pc[r] \in {"free", "end"} => limit[r] = 0 /\ consumed[r] = 0 /\ tries[r] = 0
  /\ pc[r] \in {"call", "attempt"} => at[r] \in Stage
  /\ pc[r] = "call" => tries[r] = 0 /\ consumed[r] < limit[r]
  /\ pc[r] = "attempt" => 1 <= tries[r] /\ consumed[r] + tries[r] <= limit[r]

\* The budget is split between what is free, what is settled and what is reserved, and
\* no stage takes more than two attempts of it.
BudgetInv ==
  /\ available + used + limit[1] + limit[2] = budget
  /\ used + limit[1] + limit[2] <= 2 * (next - 1)
  /\ made <= used + consumed[1] + tries[1] + consumed[2] + tries[2]

\* A result is made when every runner has ended.
ResultInv ==
  gate # "none" =>
    /\ phase \notin {"open", "run"}
    /\ \A r \in Runner : pc[r] = "end"
    /\ attempts = used

RunInv ==
  /\ TypeOK
  /\ \A r \in Runner : RunnerInv(r)
  /\ BudgetInv
  /\ ResultInv
  /\ NoStarvation

LEMMA BudgetsNat == Budgets \subseteq Nat
BY ReviewRunAssumption

LEMMA RunnerPair == Runner = {1, 2}
BY DEF Runner

LEMMA VerifiedFindings ==
  ASSUME NEW candidates, candidates \subseteq Candidate
  PROVE  VerifyCandidates(candidates) \in SUBSET Finding
<1>1. \A c \in candidates : VerifiedLifecycle(c, candidates) \in Lifecycle
  BY DEF VerifiedLifecycle, Lifecycle
<1>2. \A c \in candidates : Unverified(c) \in BOOLEAN
  BY DEF Unverified
<1> QED
  BY <1>1, <1>2 DEF VerifyCandidates, Finding, Candidate

LEMMA RunInit == Init => RunInv
<1> SUFFICES ASSUME Init PROVE RunInv
  OBVIOUS
<1>1. TypeOK
  <2>1. budget \in Budgets /\ available \in Nat /\ next \in 1 .. NumStages + 1
    BY ReviewRunAssumption, BudgetsNat DEF Init
  <2>2. pc \in [Runner -> {"free", "call", "attempt", "end"}]
    BY DEF Init
  <2>3. at \in [Runner -> 0 .. NumStages]
    BY ReviewRunAssumption DEF Init
  <2>4. /\ result \in [Stage -> {"none", "complete", "incomplete", "exhausted", "cancelled"}]
        /\ found \in [Stage -> SUBSET Finding]
    BY DEF Init
  <2>5. /\ limit \in [Runner -> 0 .. 2]
        /\ consumed \in [Runner -> 0 .. 2]
        /\ tries \in [Runner -> 0 .. 2]
    BY DEF Init
  <2>6. /\ used \in Nat /\ made \in Nat /\ attempts \in Nat
        /\ aborted \in BOOLEAN /\ partial \in BOOLEAN
        /\ phase \in {"open", "run", "release", "returned", "failed"}
        /\ gate \in {"none", "PASS", "WARN", "BLOCK", "INCOMPLETE"}
    BY DEF Init
  <2> QED
    BY <2>1, <2>2, <2>3, <2>4, <2>5, <2>6 DEF TypeOK
<1>2. \A r \in Runner : RunnerInv(r)
  BY DEF Init, RunnerInv
<1>3. BudgetInv
  BY RunnerPair, BudgetsNat DEF Init, BudgetInv
<1>4. ResultInv /\ NoStarvation
  BY DEF Init, ResultInv, NoStarvation
<1> QED
  BY <1>1, <1>2, <1>3, <1>4 DEF RunInv

(* The steps of a runner.                                                   *)

LEMMA TakeStageStep ==
  ASSUME RunInv, NEW r \in Runner, TakeStage(r)
  PROVE  RunInv'
<1> USE RunnerPair, BudgetsNat, ReviewRunAssumption
<1>1. TypeOK'
  <2>1. /\ next \in Stage
        /\ next' \in 1 .. NumStages + 1
    BY DEF RunInv, TypeOK, TakeStage, Stage
  <2>2. limit' \in [Runner -> 0 .. 2] /\ available' \in Nat
    BY DEF RunInv, TypeOK, TakeStage, Reserve
  <2>3. pc' \in [Runner -> {"free", "call", "attempt", "end"}] /\ at' \in [Runner -> 0 .. NumStages]
    BY <2>1 DEF RunInv, TypeOK, TakeStage, Goto, Stage
  <2>4. result' \in [Stage -> {"none", "complete", "incomplete", "exhausted", "cancelled"}]
    BY <2>1 DEF RunInv, TypeOK, TakeStage
  <2> QED
    BY <2>1, <2>2, <2>3, <2>4 DEF RunInv, TypeOK, TakeStage, runVars
<1>2. \A q \in Runner : RunnerInv(q)'
  BY DEF RunInv, TypeOK, RunnerInv, TakeStage, Reserve, Goto, runVars, Stage
<1>3. BudgetInv'
  <2>1. CASE r = 1
    BY <2>1 DEF RunInv, TypeOK, RunnerInv, BudgetInv, TakeStage, Reserve, Goto, runVars
  <2>2. CASE r = 2
    BY <2>2 DEF RunInv, TypeOK, RunnerInv, BudgetInv, TakeStage, Reserve, Goto, runVars
  <2> QED
    BY <2>1, <2>2
<1>4. ResultInv'
  BY DEF RunInv, ResultInv, TakeStage, runVars
<1>5. NoStarvation'
  <2>1. budget >= 2 * NumStages => available > 0
    BY DEF RunInv, TypeOK, BudgetInv, TakeStage
  <2> QED
    BY <2>1 DEF RunInv, TypeOK, NoStarvation, TakeStage, Stage
<1> QED
  BY <1>1, <1>2, <1>3, <1>4, <1>5 DEF RunInv
LEMMA RunnerEndsStep ==
  ASSUME RunInv, NEW r \in Runner, RunnerEnds(r)
  PROVE  RunInv'
<1> USE RunnerPair, BudgetsNat, ReviewRunAssumption DEF RunnerEnds
<1>1. TypeOK'
  BY DEF RunInv, TypeOK, RunnerInv, runVars, stageVars, poolVars, Goto
<1>2. \A q \in Runner : RunnerInv(q)'
  BY DEF RunInv, TypeOK, RunnerInv, runVars, stageVars, poolVars, Goto
<1>3. BudgetInv'
  <2>1. CASE r = 1
    BY <2>1 DEF RunInv, TypeOK, RunnerInv, BudgetInv, runVars, poolVars, Goto
  <2>2. CASE r = 2
    BY <2>2 DEF RunInv, TypeOK, RunnerInv, BudgetInv, runVars, poolVars, Goto
  <2> QED
    BY <2>1, <2>2
<1>4. ResultInv' /\ NoStarvation'
  BY DEF RunInv, TypeOK, ResultInv, NoStarvation, runVars, stageVars, poolVars, Goto
<1> QED
  BY <1>1, <1>2, <1>3, <1>4 DEF RunInv

LEMMA StartAttemptStep ==
  ASSUME RunInv, NEW r \in Runner, StartAttempt(r)
  PROVE  RunInv'
<1> USE RunnerPair, BudgetsNat, ReviewRunAssumption DEF StartAttempt
<1>1. TypeOK'
  BY DEF RunInv, TypeOK, RunnerInv, runVars, stageVars, poolVars, Goto
<1>2. \A q \in Runner : RunnerInv(q)'
  BY DEF RunInv, TypeOK, RunnerInv, runVars, stageVars, poolVars, Goto
<1>3. BudgetInv'
  <2>1. CASE r = 1
    BY <2>1 DEF RunInv, TypeOK, RunnerInv, BudgetInv, runVars, poolVars, Goto
  <2>2. CASE r = 2
    BY <2>2 DEF RunInv, TypeOK, RunnerInv, BudgetInv, runVars, poolVars, Goto
  <2> QED
    BY <2>1, <2>2
<1>4. ResultInv' /\ NoStarvation'
  BY DEF RunInv, TypeOK, ResultInv, NoStarvation, runVars, stageVars, poolVars, Goto
<1> QED
  BY <1>1, <1>2, <1>3, <1>4 DEF RunInv

LEMMA RepairAttemptStep ==
  ASSUME RunInv, NEW r \in Runner, RepairAttempt(r)
  PROVE  RunInv'
<1> USE RunnerPair, BudgetsNat, ReviewRunAssumption DEF RepairAttempt
<1>1. TypeOK'
  BY DEF RunInv, TypeOK, RunnerInv, runVars, stageVars, poolVars, Goto
<1>2. \A q \in Runner : RunnerInv(q)'
  BY DEF RunInv, TypeOK, RunnerInv, runVars, stageVars, poolVars, Goto
<1>3. BudgetInv'
  <2>1. CASE r = 1
    BY <2>1 DEF RunInv, TypeOK, RunnerInv, BudgetInv, runVars, poolVars, Goto
  <2>2. CASE r = 2
    BY <2>2 DEF RunInv, TypeOK, RunnerInv, BudgetInv, runVars, poolVars, Goto
  <2> QED
    BY <2>1, <2>2
<1>4. ResultInv' /\ NoStarvation'
  BY DEF RunInv, TypeOK, ResultInv, NoStarvation, runVars, stageVars, poolVars, Goto
<1> QED
  BY <1>1, <1>2, <1>3, <1>4 DEF RunInv

\* A stage that returns settles its reservation, and its runner holds nothing.
LEMMA SettleStep ==
  ASSUME RunInv, NEW r \in Runner, pc[r] \in {"call", "attempt"},
         NEW outcome \in {"complete", "incomplete"},
         NEW findings \in SUBSET Finding, NEW n \in Nat,
         consumed[r] + tries[r] <= n, n <= limit[r],
         StageReturns(r, outcome, findings), Settle(r, n)
  PROVE  RunInv'
<1> USE RunnerPair, BudgetsNat, ReviewRunAssumption DEF StageReturns, Settle
<1>1. TypeOK'
  <2>1. at[r] \in Stage
    BY DEF RunInv, RunnerInv
  <2>2. /\ result' \in [Stage -> {"none", "complete", "incomplete", "exhausted", "cancelled"}]
        /\ found' \in [Stage -> SUBSET Finding]
    BY <2>1 DEF RunInv, TypeOK
  <2>3. /\ limit' \in [Runner -> 0 .. 2]
        /\ consumed' \in [Runner -> 0 .. 2]
        /\ tries' \in [Runner -> 0 .. 2]
    BY DEF RunInv, TypeOK
  <2>4. used' \in Nat /\ available' \in Nat
    BY DEF RunInv, TypeOK
  <2>5. /\ pc' \in [Runner -> {"free", "call", "attempt", "end"}]
        /\ at' \in [Runner -> 0 .. NumStages]
    BY DEF RunInv, TypeOK, Goto
  <2> QED
    BY <2>2, <2>3, <2>4, <2>5 DEF RunInv, TypeOK, runVars
<1>2. \A q \in Runner : RunnerInv(q)'
  BY DEF RunInv, TypeOK, RunnerInv, Goto
<1>3. BudgetInv'
  <2>1. /\ limit[1] \in Nat /\ consumed[1] \in Nat /\ tries[1] \in Nat
        /\ limit[2] \in Nat /\ consumed[2] \in Nat /\ tries[2] \in Nat
        /\ available \in Nat /\ used \in Nat /\ made \in Nat
        /\ next \in Nat /\ budget \in Nat
    BY DEF RunInv, TypeOK
  <2>2. next' = next /\ made' = made /\ budget' = budget
    OBVIOUS
  <2>3. CASE r = 1
    <3>1. /\ limit'[1] = 0 /\ consumed'[1] = 0 /\ tries'[1] = 0
          /\ limit'[2] = limit[2] /\ consumed'[2] = consumed[2] /\ tries'[2] = tries[2]
      BY <2>3 DEF RunInv, TypeOK
    <3>2. used' = used + n /\ available' = available + (limit[1] - n)
      BY <2>3
    <3> QED
      BY <2>1, <2>2, <2>3, <3>1, <3>2 DEF RunInv, BudgetInv
  <2>4. CASE r = 2
    <3>1. /\ limit'[2] = 0 /\ consumed'[2] = 0 /\ tries'[2] = 0
          /\ limit'[1] = limit[1] /\ consumed'[1] = consumed[1] /\ tries'[1] = tries[1]
      BY <2>4 DEF RunInv, TypeOK
    <3>2. used' = used + n /\ available' = available + (limit[2] - n)
      BY <2>4
    <3> QED
      BY <2>1, <2>2, <2>4, <3>1, <3>2 DEF RunInv, BudgetInv
  <2> QED
    BY <2>3, <2>4
<1>4. ResultInv'
  BY DEF RunInv, TypeOK, ResultInv, runVars
<1>5. NoStarvation'
  BY DEF RunInv, TypeOK, NoStarvation, runVars
<1> QED
  BY <1>1, <1>2, <1>3, <1>4, <1>5 DEF RunInv

LEMMA AnswerValidStep ==
  ASSUME RunInv, NEW r \in Runner, AnswerValid(r)
  PROVE  RunInv'
<1>1. PICK candidates \in Outputs :
        StageReturns(r, "complete", VerifyCandidates(candidates))
  BY DEF AnswerValid
<1>2. VerifyCandidates(candidates) \in SUBSET Finding
  BY VerifiedFindings, ReviewRunAssumption
<1>3. /\ consumed[r] + tries[r] \in Nat
      /\ consumed[r] + tries[r] <= limit[r]
      /\ pc[r] = "attempt"
      /\ Settle(r, consumed[r] + tries[r])
  BY DEF AnswerValid, RunInv, TypeOK, RunnerInv
<1> QED
  BY <1>1, <1>2, <1>3, SettleStep

LEMMA AnswerInvalidStep ==
  ASSUME RunInv, NEW r \in Runner, AnswerInvalid(r)
  PROVE  RunInv'
<1> USE RunnerPair, BudgetsNat, ReviewRunAssumption
<1>1. CASE consumed[r] + tries[r] < limit[r]
  <2>1. TypeOK'
    BY <1>1 DEF AnswerInvalid, RunInv, TypeOK, RunnerInv, runVars, stageVars, Goto
  <2>2. \A q \in Runner : RunnerInv(q)'
    BY <1>1 DEF AnswerInvalid, RunInv, TypeOK, RunnerInv, Goto
  <2>3. BudgetInv'
    <3>1. CASE r = 1
      BY <1>1, <3>1 DEF AnswerInvalid, RunInv, TypeOK, RunnerInv, BudgetInv
    <3>2. CASE r = 2
      BY <1>1, <3>2 DEF AnswerInvalid, RunInv, TypeOK, RunnerInv, BudgetInv
    <3> QED
      BY <3>1, <3>2
  <2>4. ResultInv' /\ NoStarvation'
    BY <1>1 DEF AnswerInvalid, RunInv, TypeOK, ResultInv, NoStarvation, runVars, stageVars
  <2> QED
    BY <2>1, <2>2, <2>3, <2>4 DEF RunInv
<1>2. CASE consumed[r] + tries[r] >= limit[r]
  <2>1. /\ consumed[r] + tries[r] \in Nat
        /\ consumed[r] + tries[r] <= limit[r]
        /\ pc[r] = "attempt"
        /\ StageReturns(r, "incomplete", {})
        /\ Settle(r, consumed[r] + tries[r])
    BY <1>2 DEF AnswerInvalid, RunInv, TypeOK, RunnerInv
  <2> QED
    BY <2>1, SettleStep
<1> QED
  BY <1>1, <1>2 DEF RunInv, TypeOK

LEMMA StageFailsStep ==
  ASSUME RunInv, NEW r \in Runner, StageFails(r)
  PROVE  RunInv'
<1>1. /\ limit[r] \in Nat
      /\ consumed[r] + tries[r] <= limit[r]
      /\ pc[r] \in {"call", "attempt"}
  BY DEF StageFails, RunInv, TypeOK, RunnerInv
<1> QED
  BY <1>1, SettleStep DEF StageFails

(* The steps of the run, and the theorems.                                  *)

LEMMA OpenOrReleaseStep ==
  ASSUME RunInv, OpenSession \/ ReleaseSession \/ Abort
  PROVE  RunInv'
<1>1. TypeOK'
  BY DEF RunInv, TypeOK, OpenSession, ReleaseSession, Abort, poolVars, stageVars
<1>2. (\A r \in Runner : RunnerInv(r)') /\ BudgetInv'
  BY DEF RunInv, RunnerInv, BudgetInv, OpenSession, ReleaseSession, Abort, poolVars, stageVars
<1>3. ResultInv' /\ NoStarvation'
  BY DEF RunInv, ResultInv, NoStarvation, OpenSession, ReleaseSession, Abort, poolVars, stageVars
<1> QED
  BY <1>1, <1>2, <1>3 DEF RunInv

LEMMA FinalizeStep ==
  ASSUME RunInv, Finalize
  PROVE  RunInv'
<1>1. gate' \in {"PASS", "WARN", "BLOCK", "INCOMPLETE"}
  BY DEF Finalize, DecideGate
<1>2. TypeOK'
  BY <1>1 DEF RunInv, TypeOK, Finalize, poolVars, stageVars
<1>3. (\A r \in Runner : RunnerInv(r)') /\ BudgetInv'
  BY DEF RunInv, RunnerInv, BudgetInv, Finalize, poolVars, stageVars
<1>4. ResultInv' /\ NoStarvation'
  BY DEF RunInv, ResultInv, NoStarvation, Finalize, poolVars, stageVars
<1> QED
  BY <1>2, <1>3, <1>4 DEF RunInv

LEMMA RunStep == RunInv /\ [Next]_vars => RunInv'
<1> SUFFICES ASSUME RunInv, [Next]_vars PROVE RunInv'
  OBVIOUS
<1>1. CASE Step
  BY <1>1, OpenOrReleaseStep, FinalizeStep DEF Step
<1>2. CASE Abort
  BY <1>2, OpenOrReleaseStep
<1>3. ASSUME NEW r \in Runner, RunnerStep(r) PROVE RunInv'
  BY <1>3, TakeStageStep, RunnerEndsStep, StartAttemptStep, RepairAttemptStep,
     AnswerValidStep, AnswerInvalidStep, StageFailsStep DEF RunnerStep
<1>4. CASE UNCHANGED vars
  BY <1>4 DEF vars, RunInv, TypeOK, RunnerInv, BudgetInv, ResultInv, NoStarvation
<1> QED
  BY <1>1, <1>2, <1>3, <1>4 DEF Next

LEMMA RunInvariant == Spec => []RunInv
BY RunInit, RunStep, PTL DEF Spec

\* The variables of a review run keep their types.
THEOREM RunTypes == Spec => []TypeOK
<1>1. RunInv => TypeOK
  BY DEF RunInv
<1> QED
  BY <1>1, RunInvariant, PTL

\* For every plan: no more attempts reach the provider than its budget, and the result
\* reports no fewer than were made.  (createAttemptAllocator, orchestrator.ts:232.)
THEOREM BudgetKept == Spec => []AttemptsAccounted
<1>1. RunInv => AttemptsAccounted
  <2> SUFFICES ASSUME RunInv PROVE AttemptsAccounted
    OBVIOUS
  <2>1. \A r \in {1, 2} : consumed[r] + tries[r] <= limit[r]
    BY RunnerPair DEF RunInv, RunnerInv, TypeOK
  <2>2. made <= budget
    BY <2>1, RunnerPair, BudgetsNat DEF RunInv, BudgetInv, TypeOK
  <2>3. gate # "none" => made <= attempts /\ attempts <= budget
    BY RunnerPair, BudgetsNat DEF RunInv, RunnerInv, BudgetInv, ResultInv, TypeOK
  <2> QED
    BY <2>2, <2>3 DEF AttemptsAccounted
<1> QED
  BY <1>1, RunInvariant, PTL

\* For every number of stages: two attempts of budget for each stage starve none of
\* them, however the stages overlap.  (reserve, orchestrator.ts:236.)
THEOREM StagesNotStarved == Spec => []NoStarvation
<1>1. RunInv => NoStarvation
  BY DEF RunInv
<1> QED
  BY <1>1, RunInvariant, PTL
-----------------------------------------------------------------------------
(* The gate.  The findings that share a key are finitely many, whatever the  *)
(* keys are, and those that a stage reports are what the verifier made of    *)
(* its candidates.                                                           *)

\* A set that is listed, of seven elements at most, is finite.
LEMMA ListedFinite ==
  ASSUME NEW a, NEW b, NEW c, NEW d, NEW e, NEW g, NEW h
  PROVE  IsFiniteSet({a, b, c, d, e, g, h})
<1>1. \A S, x : IsFiniteSet(S) => IsFiniteSet(S \cup {x})
  BY FS_AddElement, Zenon
<1>2. IsFiniteSet({})
  BY FS_EmptySet, Zenon
<1>3. IsFiniteSet((((((({} \cup {a}) \cup {b}) \cup {c}) \cup {d}) \cup {e}) \cup {g}) \cup {h})
  BY <1>1, <1>2, Zenon
<1>4. (((((({} \cup {a}) \cup {b}) \cup {c}) \cup {d}) \cup {e}) \cup {g}) \cup {h}
        = {a, b, c, d, e, g, h}
  OBVIOUS
<1>5. QED
  BY <1>3, <1>4

LEMMA GroupFinite ==
  ASSUME NEW findings \in SUBSET Finding, NEW key \in Key
  PROVE  IsFiniteSet(Group(findings, key))
<1> DEFINE D == Severity \X (Lifecycle \X BOOLEAN)
           Of(t) == [key |-> key, severity |-> t[1], lifecycle |-> t[2][1], unresolved |-> t[2][2]]
           S == {Of(t) : t \in D}
           f == [t \in D |-> Of(t)]
<1>1. IsFiniteSet(Severity) /\ IsFiniteSet(BOOLEAN) /\ IsFiniteSet(Lifecycle)
  <2>1. Severity = {0, 1, 2, 3, 4, 4, 4}
    BY DEF Severity
  <2>2. BOOLEAN = {TRUE, FALSE, FALSE, FALSE, FALSE, FALSE, FALSE}
    OBVIOUS
  <2>3. IsFiniteSet(Severity)
    BY <2>1, ListedFinite
  <2>4. IsFiniteSet(BOOLEAN)
    BY <2>2, ListedFinite
  <2>5. IsFiniteSet(Lifecycle)
    BY ListedFinite DEF Lifecycle
  <2>6. QED
    BY <2>3, <2>4, <2>5
<1>2. IsFiniteSet(D)
  BY <1>1, FS_Product
<1>3. f \in Surjection(D, S)
  BY DEF Surjection
<1>4. IsFiniteSet(S)
  BY <1>2, <1>3, FS_Surjection
<1>5. Group(findings, key) \subseteq S
  <2>1. ASSUME NEW g \in Group(findings, key)
        PROVE  g \in S
    <3>1. g \in Finding /\ g.key = key
      BY DEF Group
    <3>2. <<g.severity, <<g.lifecycle, g.unresolved>>>> \in D
      BY <3>1 DEF Finding
    <3>3. g = Of(<<g.severity, <<g.lifecycle, g.unresolved>>>>)
      BY <3>1 DEF Finding
    <3>4. QED
      BY <3>2, <3>3
  <2>2. QED
    BY <2>1
<1>6. QED
  BY <1>4, <1>5, FS_Subset

\* All the findings of a group have one severity, or they are in conflict.
LEMMA ConflictMeansTwo ==
  ASSUME NEW findings \in SUBSET Finding, NEW key \in Key
  PROVE  SeverityConflict(Group(findings, key)) <=>
           \E f, g \in Group(findings, key) : f.severity # g.severity
<1> DEFINE G == Group(findings, key)
           S == {f.severity : f \in G}
<1>1. S \in SUBSET {0, 1, 2, 3, 4, 4, 4}
  BY DEF Group, Finding, Severity
<1>2. IsFiniteSet({0, 1, 2, 3, 4, 4, 4})
  BY ListedFinite
<1>3. IsFiniteSet(S) /\ Cardinality(S) \in Nat
  BY <1>1, <1>2, FS_Subset, FS_CardinalityType
<1>4. Cardinality(S) = 1 <=> \E x : S = {x}
  BY <1>3, FS_Singleton
<1>5. Cardinality(S) = 0 <=> S = {}
  BY <1>3, FS_EmptySet
<1>6. CASE Cardinality(S) > 1
  <2>0. Cardinality(S) # 1 /\ Cardinality(S) # 0
    BY <1>3, <1>6
  <2>1. S # {} /\ ~ \E x : S = {x}
    BY <1>4, <1>5, <2>0, Zenon
  <2>2. \E x, y \in S : x # y
    BY <2>1
  <2>3. QED
    BY <1>6, <2>2 DEF SeverityConflict
<1>7. CASE ~(Cardinality(S) > 1)
  <2>0. Cardinality(S) = 1 \/ Cardinality(S) = 0
    BY <1>3, <1>7
  <2>1. S = {} \/ \E x : S = {x}
    BY <1>4, <1>5, <2>0, Zenon
  <2>2. \A x, y \in S : x = y
    BY <2>1
  <2>3. QED
    BY <1>7, <2>2 DEF SeverityConflict
<1>8. QED
  BY <1>6, <1>7

\* What the verifier makes of candidates, for each of the findings F.
AreVerified(F) ==
  \A f \in F : /\ f \in Finding
               /\ f.lifecycle \in {"uncertain", "corroborated", "confirmed"}
               /\ f.unresolved /\ f.lifecycle # "corroborated" =>
                    \E g \in F : g.key = f.key /\ g.severity # f.severity

LEMMA VerifiedIsVerified ==
  ASSUME NEW candidates, candidates \subseteq Candidate
  PROVE  AreVerified(VerifyCandidates(candidates))
<1> DEFINE F == VerifyCandidates(candidates)
<1>1. F \subseteq Finding
  BY VerifiedFindings
<1>2. ASSUME NEW f \in F
      PROVE  /\ f.lifecycle \in {"uncertain", "corroborated", "confirmed"}
             /\ f.unresolved /\ f.lifecycle # "corroborated" =>
                  \E g \in F : g.key = f.key /\ g.severity # f.severity
  <2>1. PICK c \in candidates :
          f = [key |-> c.key, severity |-> c.severity,
               lifecycle |-> VerifiedLifecycle(c, candidates),
               unresolved |-> Unverified(c)]
    BY DEF VerifyCandidates
  <2>2. f.lifecycle \in {"uncertain", "corroborated", "confirmed"}
    BY <2>1 DEF VerifiedLifecycle
  <2>3. ASSUME f.unresolved, f.lifecycle # "corroborated"
        PROVE  \E g \in F : g.key = f.key /\ g.severity # f.severity
    <3>1. Unverified(c) /\ VerifiedLifecycle(c, candidates) # "corroborated"
      BY <2>1, <2>3
    <3>2. Conflicting(c, candidates)
      BY <3>1 DEF Unverified, VerifiedLifecycle
    <3>3. PICK d \in candidates : d.key = c.key /\ d.severity # c.severity
      BY <3>2 DEF Conflicting
    <3> DEFINE g == [key |-> d.key, severity |-> d.severity,
                     lifecycle |-> VerifiedLifecycle(d, candidates),
                     unresolved |-> Unverified(d)]
    <3>4. g \in F
      BY DEF VerifyCandidates
    <3>5. g.key = d.key /\ g.severity = d.severity
      OBVIOUS
    <3>6. QED
      BY <2>1, <3>3, <3>4, <3>5
  <2>4. QED
    BY <2>2, <2>3
<1>3. QED
  BY <1>1, <1>2 DEF AreVerified
-----------------------------------------------------------------------------
(* What dedupeFindings makes of findings that are verified                   *)

LEMMA StrongestIs ==
  ASSUME NEW G, G # {},
         \A f \in G : f.lifecycle \in {"uncertain", "corroborated", "confirmed"}
  PROVE  StrongestLifecycle(G) =
           IF \E f \in G : f.lifecycle = "confirmed" THEN "confirmed"
           ELSE IF \E f \in G : f.lifecycle = "corroborated" THEN "corroborated"
           ELSE "uncertain"
<1> DEFINE present == {f.lifecycle : f \in G}
           First(i) == /\ Precedence[i] \in present
                       /\ \A j \in 1 .. i - 1 : Precedence[j] \notin present
           i == CHOOSE i \in 1 .. 7 : First(i)
           n == IF "confirmed" \in present THEN 3
                ELSE IF "corroborated" \in present THEN 4 ELSE 5
<1>1. present # {} /\ present \subseteq {"uncertain", "corroborated", "confirmed"}
  OBVIOUS
<1>2. /\ Precedence[1] = "waived" /\ Precedence[2] = "reported"
      /\ Precedence[3] = "confirmed" /\ Precedence[4] = "corroborated"
      /\ Precedence[5] = "uncertain" /\ Precedence[6] = "candidate"
      /\ Precedence[7] = "dismissed"
  BY DEF Precedence
<1> HIDE DEF present
<1>3. n \in 1 .. 7 /\ First(n)
  <2>1. CASE n = 3
    <3>1. \A j \in 1 .. 2 : j = 1 \/ j = 2
      OBVIOUS
    <3>2. QED
      BY <1>1, <1>2, <2>1, <3>1
  <2>2. CASE n = 4
    <3>1. \A j \in 1 .. 3 : j = 1 \/ j = 2 \/ j = 3
      OBVIOUS
    <3>2. QED
      BY <1>1, <1>2, <2>2, <3>1
  <2>3. CASE n = 5
    <3>1. \A j \in 1 .. 4 : j = 1 \/ j = 2 \/ j = 3 \/ j = 4
      OBVIOUS
    <3>2. "confirmed" \notin present /\ "corroborated" \notin present
      BY <2>3
    <3>3. "uncertain" \in present
      BY <1>1, <3>2
    <3>4. QED
      BY <1>2, <1>1, <2>3, <3>1, <3>2, <3>3
  <2>4. QED
    BY <2>1, <2>2, <2>3
<1>4. i \in 1 .. 7 /\ First(i)
  BY <1>3
<1>5. i = n
  <2>1. \A j \in 1 .. 7, l \in 1 .. 7 : First(j) /\ First(l) => ~(j < l)
    OBVIOUS
  <2>2. ~(i < n) /\ ~(n < i)
    BY <1>3, <1>4, <2>1
  <2>3. i \in Int /\ n \in Int
    BY <1>3, <1>4
  <2>4. QED
    BY <2>2, <2>3
<1>6. StrongestLifecycle(G) = Precedence[n]
  BY <1>5 DEF StrongestLifecycle, present
<1>7. QED
  BY <1>2, <1>6 DEF present

LEMMA MergedFinding ==
  ASSUME NEW F, F \subseteq Finding,
         \A f \in F : f.lifecycle \in {"uncertain", "corroborated", "confirmed"},
         NEW key \in Key, Group(F, key) # {}
  PROVE  LET G == Group(F, key)
             m == MergeFindingGroup(key, G)
         IN  /\ m.lifecycle = "confirmed" <=>
                  /\ \A f, g \in G : f.severity = g.severity
                  /\ \E f \in G : f.lifecycle = "confirmed"
             /\ (m.lifecycle = "corroborated" /\ m.unresolved) <=>
                  /\ \A f, g \in G : f.severity = g.severity
                  /\ \A f \in G : f.lifecycle # "confirmed"
                  /\ \E f \in G : f.lifecycle = "corroborated"
                  /\ \E f \in G : f.unresolved
             /\ (\A f, g \in G : f.severity = g.severity) =>
                  \A f \in G : m.severity = f.severity
             /\ m.lifecycle # "reported"
<1> DEFINE G == Group(F, key)
           m == MergeFindingGroup(key, G)
<1>1. G \subseteq F /\ G \subseteq Finding
  BY DEF Group
<1>2. IsFiniteSet(G)
  BY GroupFinite
<1>3. CASE Cardinality(G) = 1
  <2>1. PICK f : G = {f}
    BY <1>2, <1>3, FS_Singleton
  <2>2. m = f
    BY <1>3, <2>1 DEF MergeFindingGroup
  <2>3. f \in Finding /\ f.lifecycle \in {"uncertain", "corroborated", "confirmed"}
    BY <1>1, <2>1
  <2>4. QED
    BY <2>1, <2>2, <2>3
<1>4. CASE Cardinality(G) # 1
  <2>1. /\ m.severity = LeastSeverity(G)
        /\ m.lifecycle = MergedLifecycle(G)
        /\ m.unresolved <=> MergedLifecycle(G) = "corroborated" /\ \E f \in G : f.unresolved
    BY <1>4 DEF MergeFindingGroup
  <2>2. SeverityConflict(G) <=> \E f, g \in G : f.severity # g.severity
    BY ConflictMeansTwo
  <2>3. StrongestLifecycle(G) =
          IF \E f \in G : f.lifecycle = "confirmed" THEN "confirmed"
          ELSE IF \E f \in G : f.lifecycle = "corroborated" THEN "corroborated"
          ELSE "uncertain"
    BY <1>1, StrongestIs
  <2>4. (\A f, g \in G : f.severity = g.severity) => \A f \in G : LeastSeverity(G) = f.severity
    <3>1. SUFFICES ASSUME \A f, g \in G : f.severity = g.severity, NEW f \in G
                   PROVE  LeastSeverity(G) = f.severity
      OBVIOUS
    <3>2. {g.severity : g \in G} = {f.severity}
      BY <3>1
    <3>3. \A g \in G : f.severity <= g.severity
      BY <1>1, <3>1 DEF Finding, Severity
    <3>4. QED
      BY <3>2, <3>3 DEF LeastSeverity
  <2>5. QED
    BY <2>1, <2>2, <2>3, <2>4 DEF MergedLifecycle
<1>5. QED
  BY <1>3, <1>4
-----------------------------------------------------------------------------
(* The gate is that of the findings when the runners have ended             *)

GateInv ==
  /\ \A s \in Stage : AreVerified(found[s])
  /\ gate # "none" => gate = DecideGate(DedupeFindings(AllFindings), Incomplete)

LEMMA GateStep ==
  ASSUME RunInv, GateInv, [Next]_vars
  PROVE  GateInv'
<1>1. CASE UNCHANGED <<found, result, partial, gate>>
  BY <1>1 DEF GateInv, AllFindings, Incomplete
<1>2. CASE Finalize
  BY <1>2 DEF Finalize, stageVars, GateInv, AllFindings, Incomplete
<1>3. ASSUME NEW r \in Runner, RunnerStep(r)
      PROVE  GateInv'
  <2>1. gate = "none" /\ gate' = "none"
    <3>1. pc[r] # "end" /\ gate' = gate
      BY <1>3 DEF RunnerStep, TakeStage, RunnerEnds, StartAttempt, RepairAttempt, AnswerValid,
                  AnswerInvalid, StageFails, StageReturns, runVars
    <3>2. QED
      BY <3>1 DEF RunInv, ResultInv
  <2>2. CASE found' = found
    BY <2>1, <2>2 DEF GateInv
  <2>3. CASE \E F : StageReturns(r, "complete", F) /\ AreVerified(F)
    BY <2>1, <2>3 DEF GateInv, StageReturns, RunInv, TypeOK
  <2>4. CASE StageReturns(r, "incomplete", {})
    BY <2>1, <2>4 DEF GateInv, StageReturns, RunInv, TypeOK, AreVerified
  <2>5. CASE AnswerValid(r)
    <3>1. PICK o \in Outputs : StageReturns(r, "complete", VerifyCandidates(o))
      BY <2>5 DEF AnswerValid
    <3>2. AreVerified(VerifyCandidates(o))
      BY VerifiedIsVerified, ReviewRunAssumption
    <3>3. QED
      BY <2>3, <3>1, <3>2
  <2>6. CASE AnswerInvalid(r) \/ StageFails(r)
    BY <2>2, <2>4, <2>6 DEF AnswerInvalid, StageFails, stageVars
  <2>7. CASE TakeStage(r) \/ RunnerEnds(r) \/ StartAttempt(r) \/ RepairAttempt(r)
    BY <2>2, <2>7 DEF TakeStage, RunnerEnds, StartAttempt, RepairAttempt, stageVars
  <2>8. QED
    BY <1>3, <2>5, <2>6, <2>7 DEF RunnerStep
<1>4. QED
  BY <1>1, <1>2, <1>3
  DEF Next, Step, OpenSession, ReleaseSession, Abort, stageVars, vars

LEMMA GateInvariant == Spec => [](RunInv /\ GateInv)
<1>1. Init => RunInv /\ GateInv
  BY RunInit DEF Init, GateInv, AreVerified
<1>2. RunInv /\ GateInv /\ [Next]_vars => (RunInv /\ GateInv)'
  BY RunStep, GateStep
<1>3. QED
  BY <1>1, <1>2, PTL DEF Spec

\* Contradictions, from the point of view of the group.
LEMMA Uncontradicted ==
  ASSUME RunInv, NEW f \in AllFindings
  PROVE  /\ ~Contradicted(f) <=> \A g, h \in Group(AllFindings, f.key) : g.severity = h.severity
         /\ f \in Group(AllFindings, f.key)
         /\ f.key \in Key /\ AllFindings \subseteq Finding
         /\ MergeFindingGroup(f.key, Group(AllFindings, f.key)) \in DedupeFindings(AllFindings)
<1>1. AllFindings \subseteq Finding /\ f.key \in Key
  BY DEF RunInv, TypeOK, AllFindings, Finding
<1>2. f \in Group(AllFindings, f.key) /\ f.key \in Keys(AllFindings)
  BY DEF Group, Keys
<1>3. ~Contradicted(f) <=> \A g, h \in Group(AllFindings, f.key) : g.severity = h.severity
  BY <1>2 DEF Contradicted, Group, AllFindings
<1>4. QED
  BY <1>1, <1>2, <1>3 DEF DedupeFindings

\* The merged finding of f, and when it counts.
LEMMA MergedOf ==
  ASSUME RunInv, GateInv, NEW f \in AllFindings
  PROVE  LET G == Group(AllFindings, f.key)
             m == MergeFindingGroup(f.key, G)
         IN  /\ m.lifecycle = "confirmed" <=>
                  ~Contradicted(f) /\ \E g \in G : g.lifecycle = "confirmed"
             /\ (m.lifecycle = "corroborated" /\ m.unresolved) <=>
                  /\ ~Contradicted(f)
                  /\ \A g \in G : g.lifecycle # "confirmed"
                  /\ \E g \in G : g.lifecycle = "corroborated"
                  /\ \E g \in G : g.unresolved
             /\ ~Contradicted(f) => \A g \in G : m.severity = g.severity
<1>1. /\ ~Contradicted(f) <=> \A g, h \in Group(AllFindings, f.key) : g.severity = h.severity
      /\ Group(AllFindings, f.key) # {}
      /\ f.key \in Key /\ AllFindings \subseteq Finding
  BY Uncontradicted
<1>2. \A g \in AllFindings : g.lifecycle \in {"uncertain", "corroborated", "confirmed"}
  BY DEF GateInv, AreVerified, AllFindings
<1>3. QED
  BY <1>1, <1>2, MergedFinding

\* The review concludes only over a whole input and whole answers, it passes over no
\* confirmed material finding that nobody contradicts, and over no blocker that nobody
\* could verify: for any stages, keys, candidates and thresholds.
THEOREM GateEarned == Spec => []GateIsEarned
<1>1. RunInv /\ GateInv => GateIsEarned
  <2> SUFFICES ASSUME RunInv, GateInv PROVE GateIsEarned
    OBVIOUS
  <2> DEFINE D == DedupeFindings(AllFindings)
  <2>1. ASSUME gate \in {"PASS", "WARN", "BLOCK"}, NEW f \in AllFindings, f.unresolved,
               ~Contradicted(f),
               \A g \in AllFindings : g.key = f.key => g.lifecycle # "confirmed"
        PROVE  FALSE
    <3> DEFINE G == Group(AllFindings, f.key)
               m == MergeFindingGroup(f.key, G)
    <3>1. f.lifecycle = "corroborated"
      BY <2>1 DEF GateInv, AreVerified, AllFindings, Contradicted
    <3>2. m.lifecycle = "corroborated" /\ m.unresolved
      <4>1. f \in G /\ \A g \in G : g.lifecycle # "confirmed"
        BY <2>1, Uncontradicted DEF Group
      <4>2. QED
        BY <2>1, <3>1, <4>1, MergedOf
    <3>3. Unresolved(D)
      BY <3>2, Uncontradicted DEF Unresolved
    <3>4. QED
      BY <2>1, <3>3 DEF GateInv, DecideGate, Incomplete
  <2>2. ASSUME gate = "PASS", NEW f \in AllFindings, f.lifecycle = "confirmed",
               Material(f.severity), ~Contradicted(f)
        PROVE  FALSE
    <3> DEFINE G == Group(AllFindings, f.key)
               m == MergeFindingGroup(f.key, G)
    <3>1. m.lifecycle = "confirmed" /\ m.severity = f.severity
      <4>1. f \in G
        BY Uncontradicted
      <4>2. QED
        BY <2>2, <4>1, MergedOf
    <3>2. m \in Confirmed(D)
      BY <3>1, Uncontradicted DEF Confirmed
    <3>3. \E s \in {d.severity : d \in Confirmed(D)} : Material(s)
      BY <2>2, <3>1, <3>2
    <3>4. QED
      BY <2>2, <3>3 DEF GateInv, DecideGate
  <2>3. gate \in {"PASS", "WARN", "BLOCK"} => ~partial /\ \A s \in Stage : result[s] = "complete"
    BY DEF GateInv, DecideGate, Incomplete
  <2>4. QED
    BY <2>1, <2>2, <2>3 DEF GateIsEarned
<1>2. QED
  BY <1>1, GateInvariant, PTL

\* A change is blocked only for a finding that a stage confirmed, that reaches the
\* threshold, and whose severity no stage disputes.
THEOREM BlockJustified == Spec => []BlockIsJustified
<1>1. RunInv /\ GateInv => BlockIsJustified
  <2> SUFFICES ASSUME RunInv, GateInv, gate = "BLOCK"
               PROVE  \E f \in AllFindings :
                        f.lifecycle = "confirmed" /\ f.severity <= BlockingRank /\ ~Contradicted(f)
    BY DEF BlockIsJustified
  <2> DEFINE D == DedupeFindings(AllFindings)
  <2>a. \A f \in AllFindings : f.lifecycle \in {"uncertain", "corroborated", "confirmed"}
    BY DEF GateInv, AreVerified, AllFindings
  <2>1. PICK d \in Confirmed(D) : d.severity <= BlockingRank
    BY DEF GateInv, DecideGate
  <2>2. PICK e \in AllFindings : d = MergeFindingGroup(e.key, Group(AllFindings, e.key))
    BY DEF Confirmed, DedupeFindings, Keys
  <2> DEFINE G == Group(AllFindings, e.key)
  <2>3. d.lifecycle = "confirmed"
    <3>1. /\ AllFindings \subseteq Finding /\ e.key \in Key /\ Group(AllFindings, e.key) # {}
      BY Uncontradicted
    <3>2. d.lifecycle # "reported"
      BY <2>2, <2>a, <3>1, MergedFinding
    <3>3. QED
      BY <3>2 DEF Confirmed
  <2>4. ~Contradicted(e) /\ \E f \in G : f.lifecycle = "confirmed"
    BY <2>2, <2>3, MergedOf
  <2>5. PICK f \in G : f.lifecycle = "confirmed" /\ d.severity = f.severity
    BY <2>2, <2>4, MergedOf
  <2>b. f \in AllFindings /\ f.key = e.key
    BY DEF Group
  <2>c. ~Contradicted(f)
    BY <2>4, <2>b, Uncontradicted
  <2>6. QED
    BY <2>1, <2>5, <2>b, <2>c
<1>2. QED
  BY <1>1, GateInvariant, PTL

-----------------------------------------------------------------------------
(* The score of a hook: a confirmed finding caps its minor in both passes. *)

Statuses == {"not_assessed", "not_applicable", "scored"}
Assessment ==
  [by : Hook!Stage \cup {"plan"}, minor : Hook!Minor \cup {"unknown"}, status : Statuses,
   rating : Nat]

Capped(a) == a.status = "not_assessed" \/ (a.status = "scored" /\ a.rating <= 5)

LEMMA LesserRating ==
  ASSUME NEW r \in Nat
  PROVE  Hook!Min({r, 5}) \in Nat /\ Hook!Min({r, 5}) <= 5
<1>1. \E x \in {r, 5} : \A y \in {r, 5} : x <= y
  <2>1. CASE r <= 5
    BY <2>1
  <2>2. CASE ~(r <= 5)
    BY <2>2
  <2>3. QED
    BY <2>1, <2>2
<1>2. /\ Hook!Min({r, 5}) \in {r, 5}
      /\ \A y \in {r, 5} : Hook!Min({r, 5}) <= y
  BY <1>1 DEF Hook!Min
<1>3. QED
  BY <1>2

LEMMA CapIsKept ==
  ASSUME NEW m \in Hook!Minor, NEW a \in Assessment
  PROVE  /\ Hook!CapWithFindings(m, a) \in Assessment
         /\ Hook!FindingsOn(m) # {} => Capped(Hook!CapWithFindings(m, a))
<1> DEFINE capped == Hook!CapWithFindings(m, a)
           r == IF a.status = "not_applicable" THEN 5 ELSE Hook!Min({a.rating, 5})
<1>1. a.rating \in Nat /\ a.status \in Statuses
  BY DEF Assessment
<1>2. r \in Nat /\ r <= 5
  BY <1>1, LesserRating
<1>3. CASE Hook!FindingsOn(m) = {} \/ a.status = "not_assessed"
  BY <1>3 DEF Hook!CapWithFindings, Capped
<1>4. CASE ~(Hook!FindingsOn(m) = {} \/ a.status = "not_assessed")
  <2>1. Hook!RatingFromSeverity["P2"] = 5
    BY DEF Hook!RatingFromSeverity
  <2>2. capped = [a EXCEPT !.status = "scored", !.rating = r]
    BY <1>4, <2>1 DEF Hook!CapWithFindings
  <2> HIDE DEF capped, r
  <2>3. capped \in Assessment /\ capped.status = "scored" /\ capped.rating = r
    BY <1>2, <2>2 DEF Assessment, Statuses
  <2>4. QED
    BY <1>2, <2>3 DEF Capped, capped
<1>5. QED
  BY <1>3, <1>4

LEMMA AssessedOnce ==
  ASSUME NEW X, X \subseteq Assessment, NEW m \in Hook!Minor
  PROVE  /\ Hook!AssessmentsFromReview(X)[m] \in Assessment
         /\ Hook!FindingsOn(m) # {} => Capped(Hook!AssessmentsFromReview(X)[m])
<1> DEFINE of == {a \in X : a.minor = m}
           unusable == (\E a \in X : a.minor \notin Hook!Minor) \/ Hook!Cardinality(of) # 1
           a0 == IF unusable THEN Hook!NotAssessed("plan", m) ELSE CHOOSE a \in of : TRUE
<1>1. Hook!AssessmentsFromReview(X)[m] = Hook!CapWithFindings(m, a0)
  BY DEF Hook!AssessmentsFromReview
<1>2. Hook!NotAssessed("plan", m) \in Assessment
  BY DEF Hook!NotAssessed, Assessment, Statuses
<1>3. ~unusable => of # {}
  <2>1. Hook!Cardinality({}) = Cardinality({})
    BY DEF Hook!Cardinality, Cardinality
  <2>2. QED
    BY <2>1, FS_EmptySet
<1>4. a0 \in Assessment
  BY <1>2, <1>3
<1> HIDE DEF a0
<1>5. QED
  BY <1>1, <1>4, CapIsKept

LEMMA TwiceIsCapped ==
  ASSUME NEW X, X \subseteq Assessment, NEW m \in Hook!Minor, Hook!FindingsOn(m) # {}
  PROVE  Capped(Hook!Twice(X)[m])
<1> DEFINE once == Hook!AssessmentsFromReview(X)
<1>1. {once[n] : n \in Hook!Minor} \subseteq Assessment
  BY AssessedOnce
<1>2. QED
  BY <1>1, AssessedOnce DEF Hook!Twice

AnswersInv ==
  /\ \A s \in Hook!Stage : output[s] # None => output[s] \in Hook!Answers(s) \cup {Hook!Failed}
  /\ DOMAIN output = Hook!Stage
  /\ plan \in Hook!Plans
  /\ hookPc = "scored" =>
       \A m \in Hook!Minor : Hook!FindingsOn(m) # {} => Capped(scored[m])

LEMMA ProvidedAreAssessments ==
  ASSUME AnswersInv
  PROVE  Hook!Provided \subseteq Assessment
<1>1. ASSUME NEW s \in Hook!Answered
      PROVE  Hook!Materialize(s, output[s]) \subseteq Assessment
  <2>1. s \in Hook!Stage /\ output[s] \in Hook!Answers(s)
    BY <1>1 DEF Hook!Answered, AnswersInv, Hook!Failed
  <2> DEFINE own == Hook!MinorsForStage(s)
             answer == output[s]
  <2>2. /\ own \subseteq Hook!Minor
        /\ answer.claims \in [own -> Hook!Claim]
        /\ answer.extra \in (Hook!Minor \ own) \cup {"unknown", None}
    BY <2>1 DEF Hook!Answers, Hook!MinorsForStage
  <2> HIDE DEF own, answer
  <2>3. \A m \in Hook!Minor \cup {"unknown"} : Hook!NotAssessed(s, m) \in Assessment
    BY <2>1 DEF Hook!NotAssessed, Assessment, Statuses
  <2>4. \A m \in own : /\ answer.claims[m].status \in {"unusable", "not_applicable", "scored"}
                       /\ answer.claims[m].rating \in Nat
    <3>1. \A c \in Hook!Claim : /\ c.status \in {"unusable", "not_applicable", "scored"}
                               /\ c.rating \in {0} \cup Assessed
      BY DEF Hook!Claim
    <3>2. {0} \cup Assessed \subseteq Nat
      BY RatingsAreNumbers
    <3>3. QED
      BY <2>2, <3>1, <3>2
  <2>5. ASSUME NEW m \in own, answer.claims[m].status # "unusable"
        PROVE  [by |-> s, minor |-> m, status |-> answer.claims[m].status,
                rating |-> answer.claims[m].rating] \in Assessment
    BY <2>1, <2>2, <2>4, <2>5 DEF Assessment, Statuses
  <2>6. Hook!Own(s, answer) \subseteq Assessment
    BY <2>2, <2>3, <2>5 DEF Hook!Own
  <2>7. answer.extra # None =>
          {Hook!NotAssessed(s, m) : m \in DOMAIN answer.claims \cup {answer.extra}}
            \subseteq Assessment
    BY <2>2, <2>3
  <2>8. QED
    BY <2>6, <2>7 DEF Hook!Materialize, answer
<1>2. \A m \in Hook!Unrouted : Hook!NotAssessed("plan", m) \in Assessment
  BY DEF Hook!Unrouted, Hook!NotAssessed, Assessment, Statuses
<1>3. {Hook!NotAssessed("plan", m) : m \in Hook!Unrouted} \subseteq Assessment
  BY <1>2
<1>4. UNION {Hook!Materialize(s, output[s]) : s \in Hook!Answered} \subseteq Assessment
  BY <1>1
<1> DEFINE unrouted == {Hook!NotAssessed("plan", m) : m \in Hook!Unrouted}
           answered == UNION {Hook!Materialize(s, output[s]) : s \in Hook!Answered}
<1>5. Hook!Provided = answered \cup unrouted
  BY DEF Hook!Provided
<1> HIDE DEF unrouted, answered
<1>6. unrouted \subseteq Assessment /\ answered \subseteq Assessment
  BY <1>3, <1>4 DEF unrouted, answered
<1>7. QED
  BY <1>5, <1>6

LEMMA AnswersStep ==
  ASSUME AnswersInv, Hook!Next \/ UNCHANGED hookVars
  PROVE  AnswersInv'
<1> USE DEF Hook!review
<1>a. ASSUME UNCHANGED plan
      PROVE  \A s \in Hook!Stage : Hook!Answers(s)' = Hook!Answers(s)
  BY <1>a DEF Hook!Answers, Hook!MinorsForStage, Hook!Owner, Hook!OwnerForMajor, Hook!In
<1>b. ASSUME UNCHANGED <<plan, output>>
      PROVE  \A m \in Hook!Minor : Hook!FindingsOn(m)' = Hook!FindingsOn(m)
  BY <1>b DEF Hook!FindingsOn, Hook!Reporting, Hook!Answered, Hook!In
<1>1. CASE Hook!EndStage
  <2>0. PICK i \in DOMAIN plan : \E answer \in Hook!Answers(plan[i]) \cup {Hook!Failed} :
          output' = [output EXCEPT ![plan[i]] = answer]
    BY <1>1 DEF Hook!EndStage
  <2>1. PICK answer \in Hook!Answers(plan[i]) \cup {Hook!Failed} :
          output' = [output EXCEPT ![plan[i]] = answer]
    BY <2>0
  <2>2. plan' = plan /\ hookPc' = "stages"
    BY <1>1 DEF Hook!EndStage
  <2>3. \A s \in Hook!Stage : Hook!Answers(s)' = Hook!Answers(s)
    BY <1>a, <2>2
  <2>4. QED
    BY <2>1, <2>2, <2>3 DEF AnswersInv, Hook!Failed
<1>2. CASE Hook!FinalizeResult
  <2>1. /\ scored' = Hook!Twice(Hook!Provided)
        /\ UNCHANGED <<plan, output>>
    BY <1>2 DEF Hook!FinalizeResult
  <2>2. \A m \in Hook!Minor : Hook!FindingsOn(m) # {} => Capped(scored'[m])
    BY <2>1, ProvidedAreAssessments, TwiceIsCapped
  <2>3. QED
    BY <1>a, <1>b, <2>1, <2>2 DEF AnswersInv, Hook!Failed, Capped
<1>3. CASE Hook!EndHook \/ Hook!StartReview \/ Hook!RefuseReview \/ Hook!EndReadability
           \/ Hook!CaptureFails \/ \E f \in File : Hook!Inspect(f)
  <2>1. UNCHANGED <<plan, output>> /\ hookPc' # "scored"
    BY <1>3 DEF Hook!EndHook, Hook!StartReview, Hook!RefuseReview, Hook!EndReadability,
       Hook!CaptureFails, Hook!Inspect
  <2>2. QED
    BY <1>a, <2>1 DEF AnswersInv, Hook!Failed
<1>4. CASE UNCHANGED hookVars
  <2>1. UNCHANGED <<plan, output, scored, hookPc>>
    BY <1>4 DEF hookVars
  <2>2. QED
    BY <1>a, <1>b, <2>1 DEF AnswersInv, Hook!Failed, Capped
<1>5. QED
  BY <1>1, <1>2, <1>3, <1>4 DEF Hook!Next

\* No minor keeps a rating above the cap of a finding that is confirmed on it, whatever the
\* stages claim.
THEOREM FindingsCap ==
  MCSpec => []FindingsCapTheScore
<1> DEFINE Inv == subject = "hook" => AnswersInv
<1>1. MCInit => Inv
  BY DEF MCInit, Hook!Init, AnswersInv
<1>2. Inv /\ [MCNext]_all => Inv'
  <2>1. SUFFICES ASSUME Inv, [MCNext]_all, subject' = "hook"
                 PROVE  AnswersInv'
    OBVIOUS
  <2>2. subject = "hook" /\ (Hook!Next \/ UNCHANGED hookVars)
    BY <2>1 DEF MCNext, RunDoes, all
  <2>3. QED
    BY <2>1, <2>2, AnswersStep
<1>3. Inv => FindingsCapTheScore
  <2>1. SUFFICES ASSUME AnswersInv, hookPc = "scored", NEW s \in Hook!Reporting({"P2"})
                 PROVE  Capped(scored[Hook!MinorForFinding(s)])
    BY DEF FindingsCapTheScore, Hook!FindingsCapTheScore, Capped, Hook!RatingFromSeverity
  <2>2. /\ Hook!MinorForFinding(s) \in Hook!Minor
        /\ Hook!FindingsOn(Hook!MinorForFinding(s)) # {}
    BY DEF Hook!MinorForFinding, Hook!Minor, Hook!FindingsOn
  <2>3. QED
    BY <2>1, <2>2 DEF AnswersInv
<1>4. QED
  BY <1>1, <1>2, <1>3, PTL DEF MCSpec

-----------------------------------------------------------------------------
(* Sums of functions over finite sets.  The induction is over the size of a set, by its  *)
(* least counterexample.                                                   *)

\* Every set of numbers has a least one: the induction that the lemmas on sums use.
LEMMA LeastNumber ==
  ASSUME NEW T, T \subseteq Nat, T # {}
  PROVE  \E n \in T : \A m \in T : n <= m
<1>1. PICK n \in T : \A m \in T : ~(<<m, n>> \in OpToRel(<, Nat))
  BY NatLessThanWellFounded, WFMin, Zenon
<1>2. \A m \in T : ~(m < n)
  BY <1>1 DEF OpToRel
<1>3. \A m \in T : m \in Int
  OBVIOUS
<1>4. \A m \in T : n <= m
  BY <1>2, <1>3
<1> QED
  BY <1>4

\* The element that a fold takes next, and what it makes of it.
Picked(s) == CHOOSE x \in s : TRUE
SumStep(f, g, s) == IF s = {} THEN 0 ELSE f[Picked(s)] + g[s \ {Picked(s)}]

IsSum(f, S, g) == g = [s \in SUBSET S |-> SumStep(f, g, s)]

\* SumFunctionOnSet by its definition, a function that is chosen.
LEMMA SumIsIterated ==
  ASSUME NEW f, NEW S
  PROVE  Score!SumFunctionOnSet(f, S) =
           (CHOOSE g : IsSum(f, S, g))[S]
BY Zenon DEF Score!SumFunctionOnSet, Score!FoldFunctionOnSet, Score!MapThenFoldSet, IsSum, SumStep, Picked

\* There is such a function: one for the sets of n elements makes one for those of n + 1.
LEMMA SumExists ==
  ASSUME NEW f, NEW S, IsFiniteSet(S)
  PROVE  \E g : IsSum(f, S, g)
<1> DEFINE Small(n) == {s \in SUBSET S : Cardinality(s) <= n}
           Works(g, n) == g = [s \in Small(n) |-> SumStep(f, g, s)]
           T == {n \in Nat : ~ \E g : Works(g, n)}
<1>1. \A s \in SUBSET S : IsFiniteSet(s) /\ Cardinality(s) \in Nat
  BY FS_Subset, FS_CardinalityType
<1>2. \A n \in Nat : \E g : Works(g, n)
  <2> SUFFICES ASSUME T # {} PROVE FALSE
    BY Zenon
  <2>1. PICK n \in T : \A m \in T : n <= m
    BY LeastNumber, Zenon
  <2>2. PICK g : n # 0 => Works(g, n - 1)
    <3>1. CASE n = 0
      BY <3>1
    <3>2. CASE n # 0
      <4>1. n \in Nat /\ n - 1 \in Nat /\ n - 1 < n
        BY <3>2
      <4>2. n - 1 \notin T
        <5> HIDE DEF T
        <5> QED BY <4>1, <2>1
      <4> QED
        BY <4>1, <4>2, Zenon
    <3> QED
      BY <3>1, <3>2, Zenon
  <2> DEFINE h == [s \in Small(n) |-> SumStep(f, g, s)]
  <2>3. ASSUME NEW s \in Small(n), s # {}
        PROVE  h[s \ {Picked(s)}] = g[s \ {Picked(s)}]
    <3>1. Picked(s) \in s
      BY <2>3 DEF Picked
    <3>2. /\ s \in SUBSET S /\ IsFiniteSet(s) /\ Cardinality(s) <= n
          /\ Cardinality(s) \in Nat /\ n \in Nat
      BY <1>1
    <3>3. Cardinality(s \ {Picked(s)}) = Cardinality(s) - 1
      BY <3>1, <3>2, FS_RemoveElement, Zenon
    <3>4. Cardinality(s) # 0
      BY <3>2, <2>3, FS_EmptySet
    <3>5. n # 0 /\ s \ {Picked(s)} \in Small(n - 1) /\ s \ {Picked(s)} \in Small(n)
      BY <3>2, <3>3, <3>4
    <3>6. g[s \ {Picked(s)}] = SumStep(f, g, s \ {Picked(s)})
      BY <2>2, <3>5
    <3> QED
      BY <3>5, <3>6
  <2>4. \A s \in Small(n) : SumStep(f, g, s) = SumStep(f, h, s)
    <3> SUFFICES ASSUME NEW s \in Small(n) PROVE SumStep(f, g, s) = SumStep(f, h, s)
      OBVIOUS
    <3> HIDE DEF h
    <3> QED BY <2>3, Zenon DEF SumStep
  <2>5. h = [s \in Small(n) |-> SumStep(f, h, s)]
    <3>1. h = [s \in Small(n) |-> SumStep(f, g, s)]
      BY Zenon
    <3> HIDE DEF h
    <3> QED
      BY <2>4, <3>1
  <2> QED
    BY <2>5, Zenon
<1>3. Cardinality(S) \in Nat /\ Small(Cardinality(S)) = SUBSET S
  BY <1>1, FS_Subset
<1> QED
  BY <1>2, <1>3, Zenon DEF IsSum

\* Among subsets of a finite set there is one that no longer qualifies without an element.
LEMMA LeastSubset ==
  ASSUME NEW S, IsFiniteSet(S), NEW C, C \subseteq SUBSET S, C # {}
  PROVE  \E s \in C : \A x \in s : s \ {x} \notin C
<1> DEFINE T == {Cardinality(s) : s \in C}
<1>1. \A s \in SUBSET S : IsFiniteSet(s) /\ Cardinality(s) \in Nat
  BY FS_Subset, FS_CardinalityType
<1>2. T # {} /\ T \subseteq Nat
  BY <1>1
<1>3. \E n \in T : \A m \in T : n <= m
  <2> HIDE DEF T
  <2> QED BY <1>2, LeastNumber, Zenon
<1>4. PICK s \in C : \A q \in C : Cardinality(s) <= Cardinality(q)
  BY <1>3
<1>5. ASSUME NEW x \in s
      PROVE  Cardinality(s \ {x}) < Cardinality(s)
  <2>1. Cardinality(s \ {x}) = Cardinality(s) - 1
    BY <1>1, FS_RemoveElement, Zenon
  <2> QED
    BY <2>1, <1>1
<1>6. ASSUME NEW x \in s, s \ {x} \in C
      PROVE  FALSE
  BY <1>1, <1>4, <1>5, <1>6
<1> QED
  BY <1>6, Zenon

\* A sum does not depend on the set that it is taken as a part of.
LEMMA SumsAgree ==
  ASSUME NEW f, NEW S, NEW R, NEW g, NEW h, IsFiniteSet(S), R \subseteq S,
         IsSum(f, S, g), IsSum(f, R, h)
  PROVE  g[R] = h[R]
<1> DEFINE C == {s \in SUBSET R : g[s] # h[s]}
<1> SUFFICES ASSUME C # {} PROVE FALSE
  BY Zenon
<1>1. PICK s \in C : \A x \in s : s \ {x} \notin C
  <2>1. C \subseteq SUBSET R /\ IsFiniteSet(R)
    BY FS_Subset, Zenon
  <2> HIDE DEF C
  <2> QED BY <2>1, LeastSubset, Zenon
<1>2. \A x \in s : g[s \ {x}] = h[s \ {x}]
  BY <1>1
<1>3. g[s] = SumStep(f, g, s) /\ h[s] = SumStep(f, h, s) /\ g[s] # h[s]
  BY <1>1 DEF IsSum
<1>4. s # {} => Picked(s) \in s
  BY DEF Picked
<1> QED
  BY <1>2, <1>3, <1>4, Zenon DEF SumStep

\* A sum is that of an element and of the rest.
LEMMA SumRecursion ==
  ASSUME NEW f, NEW S, IsFiniteSet(S)
  PROVE  Score!SumFunctionOnSet(f, S) =
           IF S = {} THEN 0
           ELSE f[Picked(S)] + Score!SumFunctionOnSet(f, S \ {Picked(S)})
<1> DEFINE G(R) == CHOOSE g : IsSum(f, R, g)
<1>1. \A R \in SUBSET S : IsSum(f, R, G(R)) /\ Score!SumFunctionOnSet(f, R) = G(R)[R]
  <2> TAKE R \in SUBSET S
  <2>1. \E g : IsSum(f, R, g)
    BY SumExists, FS_Subset, Zenon
  <2> QED
    BY <2>1, SumIsIterated, Zenon
<1> HIDE DEF G
<1>2. G(S)[S] = SumStep(f, G(S), S)
  BY <1>1 DEF IsSum
<1>3. CASE S = {}
  BY <1>1, <1>2, <1>3 DEF SumStep
<1>4. CASE S # {}
  <2> DEFINE R == S \ {Picked(S)}
  <2>1. G(S)[R] = G(R)[R]
    <3>1. R \subseteq S
      OBVIOUS
    <3> HIDE DEF R
    <3>2. IsSum(f, S, G(S)) /\ IsSum(f, R, G(R))
      BY <1>1, <3>1
    <3> QED
      BY <3>1, <3>2, SumsAgree, Zenon
  <2> QED
    BY <1>1, <1>2, <1>4, <2>1, Zenon DEF SumStep
<1> QED
  BY <1>3, <1>4


\* What holds of each number holds of their sums: f is at most c times g.
LEMMA SumsCompare ==
  ASSUME NEW S, IsFiniteSet(S), NEW f, NEW g, NEW c \in Nat,
         \A x \in S : f[x] \in Nat /\ g[x] \in Nat /\ f[x] <= c * g[x]
  PROVE  /\ Score!SumFunctionOnSet(f, S) \in Nat /\ Score!SumFunctionOnSet(g, S) \in Nat
         /\ Score!SumFunctionOnSet(f, S) <= c * Score!SumFunctionOnSet(g, S)
<1> DEFINE F(s) == Score!SumFunctionOnSet(f, s)
           G(s) == Score!SumFunctionOnSet(g, s)
           Holds(s) == F(s) \in Nat /\ G(s) \in Nat /\ F(s) <= c * G(s)
           C == {s \in SUBSET S : ~Holds(s)}
<1> SUFFICES ASSUME C # {} PROVE FALSE
  BY Zenon
<1>1. PICK s \in C : \A x \in s : s \ {x} \notin C
  <2>1. C \subseteq SUBSET S
    BY Zenon
  <2> HIDE DEF C
  <2> QED BY <2>1, LeastSubset, Zenon
<1>2. s \in SUBSET S /\ IsFiniteSet(s)
  BY FS_Subset
<1>3. /\ F(s) = IF s = {} THEN 0 ELSE f[Picked(s)] + F(s \ {Picked(s)})
      /\ G(s) = IF s = {} THEN 0 ELSE g[Picked(s)] + G(s \ {Picked(s)})
  BY <1>2, SumRecursion, Zenon
<1> HIDE DEF F, G
<1>4. s # {}
  BY <1>3
<1>5. Picked(s) \in s
  BY <1>4 DEF Picked
<1>6. /\ F(s \ {Picked(s)}) \in Nat /\ G(s \ {Picked(s)}) \in Nat
      /\ F(s \ {Picked(s)}) <= c * G(s \ {Picked(s)})
  BY <1>1, <1>2, <1>5
<1>7. /\ f[Picked(s)] \in Nat /\ g[Picked(s)] \in Nat
      /\ f[Picked(s)] <= c * g[Picked(s)]
  BY <1>2, <1>5
<1>8. \A a, b, p, q \in Nat : a <= c * p /\ b <= c * q => a + b <= c * (p + q)
  BY SMT
<1>9. Holds(s)
  BY <1>3, <1>4, <1>6, <1>7, <1>8
<1> QED
  BY <1>1, <1>9

-----------------------------------------------------------------------------
(* Rounding.  The products of numbers that are not constants are named, so that what is  *)
(* left is linear.                                                         *)

LEMMA TimesKeepsOrder ==
  ASSUME NEW w \in Nat \ {0}, NEW x \in Int, NEW y \in Int
  PROVE  (x < y <=> w * x < w * y) /\ (x <= y <=> w * x <= w * y)
<1>1. x < y => w * x < w * y
  OBVIOUS
<1>2. y < x => w * y < w * x
  OBVIOUS
<1>3. w * x \in Int /\ w * y \in Int
  OBVIOUS
<1> QED
  BY <1>1, <1>2, <1>3

\* d is n / (2 * w), rounded.
Rounds(w, n, d) == 2 * (w * d) <= n + w /\ n + w < 2 * (w * d) + 2 * w

\* HalfUp rounds.
LEMMA HalfUpRounds ==
  ASSUME NEW n \in Int, NEW d \in Nat \ {0}
  PROVE  /\ Score!HalfUp(n, d) \in Int
         /\ Rounds(d, 2 * n, Score!HalfUp(n, d))
<1> DEFINE q == Score!HalfUp(n, d)
<1>1. 2 * n + d \in Int /\ 2 * d \in Nat \ {0}
  OBVIOUS
<1>2. q \in Int /\ (2 * d) * q <= 2 * n + d /\ 2 * n + d < (2 * d) * q + 2 * d
  BY <1>1 DEF Score!HalfUp
<1>3. (2 * d) * q = 2 * (d * q)
  BY <1>2
<1> QED
  BY <1>2, <1>3 DEF Rounds

\* The difference is rounded once, over the product of the weights (normalizedDelta).
LEMMA DifferenceRounds ==
  ASSUME NEW w \in Nat \ {0}, NEW p \in Nat, NEW q \in Nat, q <= p
  PROVE  LET d == Score!HalfUp((p * 2 * w - q * 2 * w) * 10, w * w)
         IN d \in Nat /\ Rounds(w, 40 * (p - q), d)
<1> DEFINE n == (p * 2 * w - q * 2 * w) * 10
           d == Score!HalfUp(n, w * w)
<1>1. n \in Int /\ 2 * n = w * (40 * (p - q)) /\ w * w \in Nat \ {0}
  <2>1. p * 2 * w \in Int /\ q * 2 * w \in Int
    OBVIOUS
  <2>2. w * (40 * (p - q)) = 40 * (w * p) - 40 * (w * q)
    OBVIOUS
  <2>3. p * 2 * w = 2 * (w * p) /\ q * 2 * w = 2 * (w * q) /\ w * p \in Int /\ w * q \in Int
    OBVIOUS
  <2>4. w * w \in Nat \ {0}
    OBVIOUS
  <2> QED
    BY <2>1, <2>2, <2>3, <2>4
<1>2. /\ d \in Int
      /\ 2 * ((w * w) * d) <= 2 * n + w * w
      /\ 2 * n + w * w < 2 * ((w * w) * d) + 2 * (w * w)
  <2> HIDE DEF n
  <2> QED
    BY <1>1, HalfUpRounds DEF Rounds
<1> HIDE DEF d, n
<1>3. /\ 2 * ((w * w) * d) = w * (2 * (w * d))
      /\ w * (40 * (p - q)) + w * w = w * (40 * (p - q) + w)
      /\ 2 * ((w * w) * d) + 2 * (w * w) = w * (2 * (w * d) + 2 * w)
  BY <1>2
<1>4. /\ w * (2 * (w * d)) <= w * (40 * (p - q) + w)
      /\ w * (40 * (p - q) + w) < w * (2 * (w * d) + 2 * w)
  BY <1>1, <1>2, <1>3
<1>5. w * d \in Int /\ 40 * (p - q) + w \in Int
  BY <1>2
<1>6. Rounds(w, 40 * (p - q), d)
  BY <1>4, <1>5, TimesKeepsOrder DEF Rounds
<1>7. w * 0 < w * (2 * d + 1)
  <2>1. w * (2 * d + 1) = 2 * (w * d) + w /\ w * 0 = 0
    BY <1>2
  <2> QED
    BY <2>1, <1>5, <1>6 DEF Rounds
<1>8. 0 < 2 * d + 1
  BY <1>2, <1>7, TimesKeepsOrder
<1> QED
  BY <1>2, <1>6, <1>8 DEF d, n, Rounds

\* d is the difference of 20 * p / w and 20 * q / w, rounded.
SignedRounds(w, p, q, d) ==
  /\ d \in Int
  /\ d > 0 => q < p
  /\ d < 0 => p < q
  /\ \/ q <= p /\ Rounds(w, 40 * (p - q), d)
     \/ p <= q /\ Rounds(w, 40 * (q - p), -d)

\* The same with its sign, which is that of the difference.
LEMMA SignedDifference ==
  ASSUME NEW w \in Nat \ {0}, NEW p \in Nat, NEW q \in Nat
  PROVE  SignedRounds(w, p, q, Score!Signed(p * 2 * w - q * 2 * w, w * w))
<1> DEFINE d == Score!Signed(p * 2 * w - q * 2 * w, w * w)
<1> SUFFICES SignedRounds(w, p, q, d)
  OBVIOUS
<1> DEFINE n == p * 2 * w - q * 2 * w
<1>1. n = (2 * w) * (p - q) /\ -n = q * 2 * w - p * 2 * w /\ n \in Int
  OBVIOUS
<1>2. n >= 0 <=> q <= p
  <2>1. 2 * w \in Nat \ {0} /\ p - q \in Int /\ (2 * w) * 0 = 0
    OBVIOUS
  <2>2. 0 <= p - q <=> (2 * w) * 0 <= (2 * w) * (p - q)
    BY <2>1, TimesKeepsOrder
  <2> HIDE DEF n
  <2> QED
    BY <1>1, <2>1, <2>2
<1>3. CASE q <= p
  <2>1. d = Score!HalfUp((p * 2 * w - q * 2 * w) * 10, w * w)
    BY <1>2, <1>3 DEF Score!Signed
  <2> HIDE DEF d
  <2>2. d \in Nat /\ Rounds(w, 40 * (p - q), d)
    BY <2>1, <1>3, DifferenceRounds, Zenon
  <2>3. p = q => d = 0
    <3> SUFFICES ASSUME p = q PROVE d = 0
      OBVIOUS
    <3>1. 2 * (w * d) < 2 * w
      BY <2>2 DEF Rounds
    <3>2. w * d < w * 1
      BY <3>1, <2>2
    <3>3. d < 1
      BY <3>2, <2>2, TimesKeepsOrder
    <3> QED
      BY <3>3, <2>2
  <2>4. d \in Int /\ (d > 0 => q < p) /\ ~(d < 0)
    BY <2>2, <2>3, <1>3
  <2> QED
    BY <2>2, <2>4, <1>3, Zenon DEF SignedRounds
<1>4. CASE p < q
  <2> DEFINE e == Score!HalfUp((q * 2 * w - p * 2 * w) * 10, w * w)
  <2>1. d = -e
    BY <1>1, <1>2, <1>4 DEF Score!Signed
  <2>2. e \in Nat /\ Rounds(w, 40 * (q - p), e)
    <3>1. p <= q
      BY <1>4
    <3> QED
      BY <3>1, DifferenceRounds
  <2> HIDE DEF e
  <2>3. d \in Int /\ -d = e /\ ~(d > 0) /\ p <= q
    BY <1>4, <2>1, <2>2
  <2> HIDE DEF d
  <2> QED
    BY <1>4, <2>2, <2>3, Zenon DEF SignedRounds
<1> QED
  BY <1>3, <1>4

\* No score is displayed above 100.0.
LEMMA RoundedInRange ==
  ASSUME NEW w \in Nat \ {0}, NEW p \in Nat, p <= 50 * w, NEW d \in Int, Rounds(w, 40 * p, d)
  PROVE  d \in 0 .. 1000
<1>1. w * d \in Int
  OBVIOUS
<1>2. 2 * (w * d) + 2 * w > w /\ 2 * (w * d) < 2002 * w
  BY <1>1 DEF Rounds
<1>3. w * (-1) < w * d /\ w * d < w * 1001
  <2>1. w * (-1) = - w /\ w * 1001 = 1001 * w
    OBVIOUS
  <2> QED
    BY <1>1, <1>2, <2>1
<1>4. -1 < d /\ d < 1001
  BY <1>3, TimesKeepsOrder
<1> QED
  BY <1>4

\* Two roundings keep the order.
LEMMA RoundedKeepsOrder ==
  ASSUME NEW w \in Nat \ {0}, NEW p \in Nat, NEW q \in Nat, q <= p,
         NEW now \in Int, NEW old \in Int, Rounds(w, 40 * p, now), Rounds(w, 40 * q, old)
  PROVE  old <= now
<1>1. w * now \in Int /\ w * old \in Int /\ w * (now + 1) = w * now + w
  OBVIOUS
<1>2. w * old < w * (now + 1)
  BY <1>1 DEF Rounds
<1>3. old < now + 1
  BY <1>2, TimesKeepsOrder
<1> QED
  BY <1>3

\* Three roundings are off by less than two tenths.
LEMMA RoundedDifference ==
  ASSUME NEW w \in Nat \ {0}, NEW p \in Nat, NEW q \in Nat,
         NEW now \in Int, NEW old \in Int, Rounds(w, 40 * p, now), Rounds(w, 40 * q, old),
         NEW d, SignedRounds(w, p, q, d)
  PROVE  now - old - d \in -1 .. 1
<1>1. d \in Int
  BY DEF SignedRounds
<1>2. w * now \in Int /\ w * old \in Int /\ w * d \in Int /\ w * (-d) = -(w * d)
  BY <1>1
<1>3. w * (now - old - d) = w * now - w * old - w * d
  BY <1>1
<1>4. /\ 2 * (w * now) <= 40 * p + w /\ 40 * p + w < 2 * (w * now) + 2 * w
      /\ 2 * (w * old) <= 40 * q + w /\ 40 * q + w < 2 * (w * old) + 2 * w
      /\ \/ 2 * (w * d) <= 40 * (p - q) + w /\ 40 * (p - q) + w < 2 * (w * d) + 2 * w
         \/ 2 * (w * (-d)) <= 40 * (q - p) + w /\ 40 * (q - p) + w < 2 * (w * (-d)) + 2 * w
  BY Zenon DEF Rounds, SignedRounds
<1>5. \A a, b, c, e \in Int :
        /\ 2 * a <= 40 * p + w /\ 40 * p + w < 2 * a + 2 * w
        /\ 2 * b <= 40 * q + w /\ 40 * q + w < 2 * b + 2 * w
        /\ e = -c
        /\ \/ 2 * c <= 40 * (p - q) + w /\ 40 * (p - q) + w < 2 * c + 2 * w
           \/ 2 * e <= 40 * (q - p) + w /\ 40 * (q - p) + w < 2 * e + 2 * w
        => -2 * w < a - b - c /\ a - b - c < 2 * w
  OBVIOUS
<1>6. w * (-d) \in Int
  BY <1>2
<1>7. -2 * w < w * now - w * old - w * d /\ w * now - w * old - w * d < 2 * w
  BY <1>2, <1>4, <1>5, <1>6
<1>8. w * (-2) < w * (now - old - d) /\ w * (now - old - d) < w * 2
  <2>1. w * (-2) = -2 * w /\ w * 2 = 2 * w
    OBVIOUS
  <2> QED
    BY <1>3, <1>7, <2>1
<1>9. now - old - d \in Int
  BY <1>1
<1>10. -2 < now - old - d /\ now - old - d < 2
  BY <1>8, <1>9, TimesKeepsOrder
<1> QED
  BY <1>9, <1>10

-----------------------------------------------------------------------------
(* ScoreCalculation                                                        *)

\* The types of ScoreCalculation.
ScoreInv ==
  /\ weights \in {Standard} \cup Weights
  /\ scope \in {"repository"} \cup Major
  /\ items \subseteq Score!Item
  /\ baseline \in [ScoreMinor -> Score!Assessment]

LEMMA ScoreInit == Score!Init => ScoreInv
<1> SUFFICES ASSUME Score!Init PROVE ScoreInv
  OBVIOUS
<1>1. Score!Selected(scope) \subseteq ScoreMinor
  BY DEF Score!Selected, Score!MinorsOf
<1> QED
  BY <1>1 DEF ScoreInv, Score!Init, Score!Item

LEMMA ScoreStep == ScoreInv /\ [Score!Next]_scoreVars => ScoreInv'
<1> SUFFICES ASSUME ScoreInv, [Score!Next]_scoreVars PROVE ScoreInv'
  OBVIOUS
<1> USE DEF ScoreInv
<1>1. ASSUME NEW i \in Score!Item, Score!Put(i)
      PROVE  ScoreInv'
  BY <1>1 DEF Score!Put
<1>2. ASSUME NEW i \in Score!Item, Score!Drop(i)
      PROVE  ScoreInv'
  BY <1>2 DEF Score!Drop
<1>3. ASSUME NEW w \in Weights, Score!Reweigh(w)
      PROVE  ScoreInv'
  BY <1>3 DEF Score!Reweigh
<1>4. CASE UNCHANGED scoreVars
  BY <1>4 DEF scoreVars
<1> QED
  BY <1>1, <1>2, <1>3, <1>4 DEF Score!Next

LEMMA HalvesOf ==
  ASSUME NEW a \in Score!Assessment
  PROVE  a.halves \in 0 .. 10
<1>1. a.halves \in {0} \cup Rating
  BY DEF Score!Assessment
<1>2. Rating \subseteq 0 .. 10 /\ 0 \in 0 .. 10
  BY ScoreAssumption DEF ScoreConstants
<1> QED
  BY <1>1, <1>2, Zenon

\* A document that is accepted has an assessment for every minor selected.
LEMMA CurrentAssessments ==
  ASSUME ScoreInv, Score!Accepted
  PROVE  /\ DOMAIN Score!Current = Score!Selected(scope)
         /\ Score!Selected(scope) \subseteq ScoreMinor
         /\ \A m \in Score!Selected(scope) : Score!Current[m] \in Score!Assessment
<1>1. Score!Selected(scope) \subseteq ScoreMinor
  BY DEF Score!Selected, Score!MinorsOf
<1>2. ASSUME NEW m \in Score!Selected(scope)
      PROVE  Score!Current[m] \in Score!Assessment
  <2> DEFINE i == CHOOSE i \in items : i.minor = m
  <2>1. \E j \in items : j.minor = m
    BY DEF Score!Accepted
  <2>2. i \in items
    BY <2>1
  <2>3. i.is \in Score!Assessment
    BY <2>2 DEF ScoreInv, Score!Item
  <2> QED
    BY <2>3 DEF Score!Current
<1> QED
  BY <1>1, <1>2 DEF Score!Current

\* What is earned of the weights S, where a rates all of them.
LEMMA EarnedBounds ==
  ASSUME NEW S, S \subseteq ScoreMinor, NEW a, S \subseteq DOMAIN a,
         \A m \in S : a[m] \in Score!Assessment
  PROVE  /\ Score!Weight(Standard, Score!Scored(a, S)) \in Nat
         /\ Score!Earned(Standard, a, S) \in Nat
         /\ Score!Earned(Standard, a, S) <= 50 * Score!Weight(Standard, Score!Scored(a, S))
<1> DEFINE R == Score!Scored(a, S)
           f == Score!Units(Standard, a)
           g == Standard.minor
<1>1. R \subseteq S /\ R \subseteq ScoreMinor /\ IsFiniteSet(R)
  BY FS_Subset, ScoreAssumption DEF ScoreConstants, Score!Scored
<1>2. \A w \in Nat, h \in 0 .. 10 : w * h * 5 \in Nat /\ w * h * 5 <= 50 * w
  <2> SUFFICES ASSUME NEW w \in Nat, NEW h \in 0 .. 10
               PROVE  w * h * 5 \in Nat /\ w * h * 5 <= 50 * w
    OBVIOUS
  <2>1. w * h \in Nat /\ w * h <= w * 10
    OBVIOUS
  <2> QED
    BY <2>1
<1>3. ASSUME NEW m \in R
      PROVE  f[m] \in Nat /\ g[m] \in Nat /\ f[m] <= 50 * g[m]
  <2>1. g[m] \in Nat /\ a[m].halves \in 0 .. 10
    BY <1>1, HalvesOf, ScoreAssumption DEF ScoreConstants
  <2>2. f[m] = Standard.minor[m] * a[m].halves * 5
    BY <1>1 DEF Score!Units
  <2> QED
    BY <1>2, <2>1, <2>2
<1> HIDE DEF f, g, R
<1>4. /\ Score!SumFunctionOnSet(f, R) \in Nat /\ Score!SumFunctionOnSet(g, R) \in Nat
      /\ Score!SumFunctionOnSet(f, R) <= 50 * Score!SumFunctionOnSet(g, R)
  <2>1. 50 \in Nat
    OBVIOUS
  <2> QED
    BY <1>1, <1>3, <2>1, SumsCompare, Zenon
<1> QED
  BY <1>4, Zenon DEF f, g, R, Score!Weight, Score!Earned

\* A comparison is made with equal weights and equal statuses only.
LEMMA DeltaMeans ==
  ASSUME ScoreInv, Score!Accepted, NEW S, S \subseteq Score!Selected(scope),
         Score!Delta(S) # None
  PROVE  /\ weights = Standard
         /\ Score!Scored(Score!Current, S) = Score!Scored(baseline, S)
         /\ Score!Weight(Standard, Score!Scored(baseline, S)) \in Nat \ {0}
         /\ \A a \in {Score!Current, baseline} :
              /\ Score!Earned(Standard, a, S) \in Nat
              /\ Score!Earned(Standard, a, S)
                   <= 50 * Score!Weight(Standard, Score!Scored(baseline, S))
         /\ SignedRounds(Score!Weight(Standard, Score!Scored(baseline, S)),
                         Score!Earned(Standard, Score!Current, S),
                         Score!Earned(Standard, baseline, S), Score!Delta(S))
<1> DEFINE R == Score!Scored(baseline, S)
           w == Score!Weight(Standard, R)
           p == Score!Earned(Standard, Score!Current, S)
           q == Score!Earned(Standard, baseline, S)
<1>1. weights = Standard /\ Score!SameStatuses(S) /\ Score!NormalizedDelta(S) # None
      /\ Score!Delta(S) = Score!NormalizedDelta(S)
  BY DEF Score!Delta, Score!Compatible
<1>2. Score!Scored(Score!Current, S) = R
  BY <1>1 DEF Score!SameStatuses, Score!Scored
<1>3. S \subseteq ScoreMinor /\ S \subseteq DOMAIN Score!Current /\ S \subseteq DOMAIN baseline
      /\ \A m \in S : Score!Current[m] \in Score!Assessment /\ baseline[m] \in Score!Assessment
  BY CurrentAssessments DEF ScoreInv
<1>4. w \in Nat /\ p \in Nat /\ p <= 50 * w /\ q \in Nat /\ q <= 50 * w
  BY <1>2, <1>3, EarnedBounds, Zenon
<1>5. w # 0 /\ Score!Delta(S) = Score!Signed(p * 2 * w - q * 2 * w, w * w)
  BY <1>1, <1>2, Zenon DEF Score!NormalizedDelta
<1>6. SignedRounds(w, p, q, Score!Delta(S))
  <2> HIDE DEF w, p, q
  <2> QED
    BY <1>4, <1>5, SignedDifference
<1> QED
  BY <1>1, <1>2, <1>4, <1>5, <1>6, Zenon

\* A difference of what two assessments earn is one of a rating.
LEMMA GainOfAMinor ==
  ASSUME NEW S, S \subseteq ScoreMinor, NEW a, NEW b,
         S \subseteq DOMAIN a, S \subseteq DOMAIN b,
         \A m \in S : a[m] \in Score!Assessment /\ b[m] \in Score!Assessment,
         Score!Scored(a, S) = Score!Scored(b, S),
         Score!Earned(Standard, b, S) < Score!Earned(Standard, a, S)
  PROVE  \E m \in Score!Scored(a, S) : b[m].halves < a[m].halves
<1> SUFFICES ASSUME \A m \in Score!Scored(a, S) : ~(b[m].halves < a[m].halves)
             PROVE  FALSE
  BY Zenon
<1> DEFINE R == Score!Scored(a, S)
           f == Score!Units(Standard, a)
           g == Score!Units(Standard, b)
<1>1. R \subseteq S /\ R \subseteq ScoreMinor /\ IsFiniteSet(R)
  BY FS_Subset, ScoreAssumption DEF ScoreConstants, Score!Scored
<1>2. \A v, h, i \in Nat : h <= i => v * h * 5 \in Nat /\ v * i * 5 \in Nat
                                   /\ v * h * 5 <= 1 * (v * i * 5)
  <2> SUFFICES ASSUME NEW v \in Nat, NEW h \in Nat, NEW i \in Nat, h <= i
               PROVE  v * h * 5 \in Nat /\ v * i * 5 \in Nat /\ v * h * 5 <= 1 * (v * i * 5)
    OBVIOUS
  <2>1. v * h \in Nat /\ v * i \in Nat /\ v * h <= v * i
    OBVIOUS
  <2> QED
    BY <2>1
<1>3. ASSUME NEW m \in R
      PROVE  f[m] \in Nat /\ g[m] \in Nat /\ f[m] <= 1 * g[m]
  <2>1. Standard.minor[m] \in Nat /\ a[m].halves \in 0 .. 10 /\ b[m].halves \in 0 .. 10
    BY <1>1, HalvesOf, ScoreAssumption DEF ScoreConstants
  <2>2. /\ f[m] = Standard.minor[m] * a[m].halves * 5
        /\ g[m] = Standard.minor[m] * b[m].halves * 5
    BY <1>1 DEF Score!Units
  <2>3. a[m].halves <= b[m].halves
    BY <2>1
  <2> QED
    BY <1>2, <2>1, <2>2, <2>3
<1> HIDE DEF f, g, R
<1>4. /\ Score!SumFunctionOnSet(f, R) \in Nat /\ Score!SumFunctionOnSet(g, R) \in Nat
      /\ Score!SumFunctionOnSet(f, R) <= 1 * Score!SumFunctionOnSet(g, R)
  <2>1. 1 \in Nat
    OBVIOUS
  <2> QED
    BY <1>1, <1>3, <2>1, SumsCompare, Zenon
<1>5. /\ Score!Earned(Standard, a, S) = Score!SumFunctionOnSet(f, R)
      /\ Score!Earned(Standard, b, S) = Score!SumFunctionOnSet(g, R)
  BY Zenon DEF f, g, R, Score!Earned
<1> QED
  BY <1>4, <1>5

\* A rating that has risen is not displayed as a loss.
LEMMA MinorGains ==
  ASSUME ScoreInv, Score!Accepted, NEW m \in Score!Selected(scope), weights = Standard,
         Score!Current[m].status = "scored", baseline[m].status = "scored",
         baseline[m].halves < Score!Current[m].halves
  PROVE  Score!MinorDelta(m) # None /\ Score!MinorDelta(m) >= 0
<1> DEFINE n == (Score!Current[m].halves - baseline[m].halves) * weights.minor[m] * 5
           d == Score!HalfUp(n * 10, 500)
<1>1. /\ weights.minor[m] \in Nat
      /\ Score!Current[m].halves \in 0 .. 10 /\ baseline[m].halves \in 0 .. 10
  BY CurrentAssessments, HalvesOf, ScoreAssumption DEF ScoreConstants, ScoreInv
<1>2. n \in Nat
  <2>1. \A h, v \in Nat : h * v * 5 \in Nat
    OBVIOUS
  <2>2. Score!Current[m].halves - baseline[m].halves \in Nat
    BY <1>1
  <2> QED
    BY <1>1, <2>1, <2>2
<1>3. Score!MinorDelta(m) = d
  BY <1>2 DEF Score!MinorDelta, Score!Compatible, Score!Signed
<1>4. d \in Int /\ Rounds(500, 2 * (n * 10), d)
  <2> HIDE DEF n
  <2> QED
    BY <1>2, HalfUpRounds
<1>5. d >= 0
  <2> HIDE DEF n, d
  <2> QED
    BY <1>2, <1>4 DEF Rounds
<1> QED
  BY <1>3, <1>4, <1>5, ScoreAssumption DEF ScoreConstants

\* A positive delta has a minor that has risen.
LEMMA GainIsEarned == ScoreInv => Score!NoGainFromSilence
<1> SUFFICES ASSUME ScoreInv, Score!Accepted,
                    NEW S \in {Score!Selected(scope)} \cup
                              {Score!MinorsOf(ScoreMajorOf[m]) : m \in Score!Selected(scope)},
                    Score!Delta(S) # None, Score!Delta(S) > 0
             PROVE  \E m \in S : /\ Score!MinorDelta(m) # None /\ Score!MinorDelta(m) >= 0
                                 /\ Score!Current[m].halves > baseline[m].halves
  BY DEF Score!NoGainFromSilence
<1>1. S \subseteq Score!Selected(scope)
  BY DEF Score!Selected, Score!MinorsOf
<1> DEFINE p == Score!Earned(Standard, Score!Current, S)
           q == Score!Earned(Standard, baseline, S)
           w == Score!Weight(Standard, Score!Scored(baseline, S))
<1>2. /\ weights = Standard
      /\ Score!Scored(Score!Current, S) = Score!Scored(baseline, S)
      /\ SignedRounds(w, p, q, Score!Delta(S))
  BY <1>1, DeltaMeans, Zenon
<1>3. q < p
  BY <1>2 DEF SignedRounds
<1>4. /\ S \subseteq ScoreMinor /\ S \subseteq DOMAIN Score!Current /\ S \subseteq DOMAIN baseline
      /\ \A m \in S : Score!Current[m] \in Score!Assessment /\ baseline[m] \in Score!Assessment
  BY <1>1, CurrentAssessments DEF ScoreInv
<1>5. PICK m \in Score!Scored(Score!Current, S) : baseline[m].halves < Score!Current[m].halves
  BY <1>2, <1>3, <1>4, GainOfAMinor, Zenon
<1>6. /\ m \in S /\ Score!Current[m].status = "scored" /\ baseline[m].status = "scored"
  BY <1>2, <1>5 DEF Score!Scored
<1>7. Score!MinorDelta(m) # None /\ Score!MinorDelta(m) >= 0
  BY <1>1, <1>2, <1>5, <1>6, MinorGains, Zenon
<1>8. Score!Current[m].halves > baseline[m].halves
  BY <1>4, <1>5, <1>6, HalvesOf
<1> QED
  BY <1>6, <1>7, <1>8

\* A delta is that of the two scores.
LEMMA DeltaFits == ScoreInv => Score!DeltaFitsTheScores
<1> DEFINE S == Score!Selected(scope)
           p == Score!Earned(Standard, Score!Current, S)
           q == Score!Earned(Standard, baseline, S)
           w == Score!Weight(Standard, Score!Scored(baseline, S))
           now == Score!Normalized(weights, Score!Current, S)
           old == Score!Normalized(Standard, baseline, S)
           d == Score!Delta(S)
<1> SUFFICES ASSUME ScoreInv, Score!Accepted, d # None
             PROVE  /\ now \in 0 .. 1000 /\ old \in 0 .. 1000
                    /\ d > 0 => now >= old
                    /\ d < 0 => now <= old
                    /\ now - old - d \in -1 .. 1
  BY DEF Score!DeltaFitsTheScores
<1>1. /\ weights = Standard
      /\ Score!Scored(Score!Current, S) = Score!Scored(baseline, S)
      /\ w \in Nat \ {0}
      /\ p \in Nat /\ p <= 50 * w /\ q \in Nat /\ q <= 50 * w
      /\ SignedRounds(w, p, q, d)
  BY DeltaMeans, Zenon
<1>2. now = Score!HalfUp(p * 20, w) /\ old = Score!HalfUp(q * 20, w)
  BY <1>1, Zenon DEF Score!Normalized
<1> HIDE DEF S, p, q, w, now, old, d
<1>3. now \in Int /\ Rounds(w, 40 * p, now) /\ old \in Int /\ Rounds(w, 40 * q, old)
  <2>1. p * 20 \in Int /\ q * 20 \in Int /\ 2 * (p * 20) = 40 * p /\ 2 * (q * 20) = 40 * q
    BY <1>1
  <2> QED
    BY <1>1, <1>2, <2>1, HalfUpRounds
<1>4. now \in 0 .. 1000 /\ old \in 0 .. 1000
  BY <1>1, <1>3, RoundedInRange
<1>5. (q <= p => old <= now) /\ (p <= q => now <= old)
  BY <1>1, <1>3, RoundedKeepsOrder
<1>6. now - old - d \in -1 .. 1
  BY <1>1, <1>3, RoundedDifference
<1>7. d \in Int /\ (d > 0 => q < p) /\ (d < 0 => p < q)
  BY <1>1, Zenon DEF SignedRounds
<1>8. (d > 0 => now >= old) /\ (d < 0 => now <= old)
  BY <1>1, <1>3, <1>5, <1>7
<1> QED
  BY <1>4, <1>6, <1>8

\* The document, its weights and its baseline are of the model.
LEMMA ScoreInvariant == MCSpec => [](subject = "score" => ScoreInv)
<1> DEFINE I == subject = "score" => ScoreInv
<1>1. MCInit => I
  BY ScoreInit DEF MCInit
<1>2. I /\ [MCNext]_all => I'
  <2> SUFFICES ASSUME I, [MCNext]_all, subject' = "score"
               PROVE  ScoreInv'
    OBVIOUS
  <2>1. subject = "score" /\ [Score!Next]_scoreVars
    BY DEF MCNext, RunDoes, all, scoreVars
  <2> QED
    BY <2>1, ScoreStep
<1> QED
  BY <1>1, <1>2, PTL DEF MCSpec

\* Whatever the weights, the scope and the ratings, a document that leaves assessments out, or
\* weighs them otherwise, displays no gain over its baseline unless a rating has risen.
THEOREM SilenceGainsNothing == MCSpec => []NoGainFromSilence
<1>1. (subject = "score" => ScoreInv) => NoGainFromSilence
  BY GainIsEarned DEF NoGainFromSilence
<1> QED
  BY <1>1, ScoreInvariant, PTL

\* Whatever the weights, the scope and the ratings, the delta that is displayed has the order of
\* the two scores beside it, and is a tenth off their difference at the most.
THEOREM DeltasFit == MCSpec => []DeltaFitsTheScores
<1>1. (subject = "score" => ScoreInv) => DeltaFitsTheScores
  BY DeltaFits DEF DeltaFitsTheScores
<1> QED
  BY <1>1, ScoreInvariant, PTL
=============================================================================
