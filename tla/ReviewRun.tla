------------------------------- MODULE ReviewRun -------------------------------
(***************************************************************************)
(* One review run: review/orchestrator.ts and review/stage-output.ts.      *)
(* Runners take the stages of the plan in order; each stage reserves       *)
(* provider attempts from one budget, calls the provider, which may repair *)
(* its own answer, asks once more when the answer is not a stage output,   *)
(* and settles.  At the end the findings of the stages make the gate.      *)
(***************************************************************************)
EXTENDS Findings

CONSTANTS
  NumStages,    \* the stages of the plan
  MaxInFlight,  \* plan.maxInFlight, which planReview bounds by 2
  Budgets,      \* the values of plan.maxAttempts
  Outputs       \* the sets of candidates that a valid stage output may have

ASSUME ReviewRunAssumption ==
  /\ NumStages \in Nat \ {0}
  /\ MaxInFlight \in 1 .. 2
  /\ Budgets \subseteq Nat \ {0}
  /\ \A o \in Outputs : o \subseteq Candidate

VARIABLES
  phase,       \* where runReview stands
  aborted,     \* controller.signal.aborted
  partial,     \* the snapshot or its context is incomplete
  budget,      \* plan.maxAttempts
  next,        \* the next stage of mapPool
  pc,          \* where each runner of mapPool stands
  at,          \* the stage of each runner
  limit,       \* limit[r]: the attempts that r has reserved and not settled
  consumed,    \* consumed[r]: those that the stage of r has seen answers of
  tries,       \* tries[r]: the attempts of the running provider.review call
  available,   \* the attempts nobody has reserved
  used,        \* the attempts that were settled
  made,        \* the attempts that reached the provider
  result,      \* result[s]: what the stage came to
  found,       \* found[s]: its findings
  gate,        \* the gate of the result
  attempts     \* providerAttempts of the result

poolVars == <<available, used, limit, consumed, tries>>
stageVars == <<result, found>>
runVars == <<phase, gate, attempts>>
vars == <<phase, aborted, partial, budget, next, pc, at, limit, consumed, tries,
          available, used, made, result, found, gate, attempts>>

Stage == 1 .. NumStages
Runner == 1 .. 2   \* the second one is idle when MaxInFlight or NumStages is 1

TypeOK ==
  /\ phase \in {"open", "run", "release", "returned", "failed"}
  /\ aborted \in BOOLEAN
  /\ partial \in BOOLEAN
  /\ budget \in Budgets
  /\ next \in 1 .. NumStages + 1
  /\ pc \in [Runner -> {"free", "call", "attempt", "end"}]
  /\ at \in [Runner -> 0 .. NumStages]
  /\ limit \in [Runner -> 0 .. 2]
  /\ consumed \in [Runner -> 0 .. 2]
  /\ tries \in [Runner -> 0 .. 2]
  /\ available \in Nat
  /\ used \in Nat
  /\ made \in Nat
  /\ result \in [Stage -> {"none", "complete", "incomplete", "exhausted", "cancelled"}]
  /\ found \in [Stage -> SUBSET Finding]
  /\ gate \in {"none", "PASS", "WARN", "BLOCK", "INCOMPLETE"}
  /\ attempts \in Nat

Init ==
  /\ phase = "open"
  /\ aborted = FALSE
  /\ partial \in BOOLEAN
  /\ budget \in Budgets
  /\ next = 1
  /\ pc = [r \in Runner |-> IF r <= MaxInFlight /\ r <= NumStages THEN "free" ELSE "end"]
  /\ at = [r \in Runner |-> 0]
  /\ limit = [r \in Runner |-> 0]
  /\ consumed = [r \in Runner |-> 0]
  /\ tries = [r \in Runner |-> 0]
  /\ available = budget
  /\ used = 0
  /\ made = 0
  /\ result = [s \in Stage |-> "none"]
  /\ found = [s \in Stage |-> {}]
  /\ gate = "none"
  /\ attempts = 0

Goto(r, label) == pc' = [pc EXCEPT ![r] = label]

-----------------------------------------------------------------------------
(* runReview and its attempt allocator                                     *)

\* openReviewSession, where the provider has one, may throw.
OpenSession ==
  /\ phase = "open"
  /\ phase' \in {"run", "failed"}
  /\ UNCHANGED <<aborted, partial, budget, next, pc, at, poolVars, made, stageVars,
                 gate, attempts>>

Reserve(r) ==
  LET n == IF available = 1 THEN 1 ELSE 2 IN
  /\ limit' = [limit EXCEPT ![r] = n]
  /\ available' = available - n

Settle(r, n) ==
  /\ used' = used + n
  /\ available' = available + (limit[r] - n)
  /\ limit' = [limit EXCEPT ![r] = 0]
  /\ consumed' = [consumed EXCEPT ![r] = 0]
  /\ tries' = [tries EXCEPT ![r] = 0]

\* Mutated: the last two attempts of the budget are never reserved.
TakeStageSparingly(r) ==
  /\ phase = "run"
  /\ pc[r] = "free"
  /\ next <= NumStages
  /\ next' = next + 1
  /\ IF aborted \/ available <= 2
     THEN /\ result' = [result EXCEPT ![next] = IF aborted THEN "cancelled" ELSE "exhausted"]
          /\ UNCHANGED <<pc, at, limit, available>>
     ELSE /\ Reserve(r)
          /\ Goto(r, "call")
          /\ at' = [at EXCEPT ![r] = next]
          /\ UNCHANGED result
  /\ UNCHANGED <<runVars, aborted, partial, budget, consumed, tries, used, made, found>>

TakeStage(r) ==
  /\ phase = "run"
  /\ pc[r] = "free"
  /\ next <= NumStages
  /\ next' = next + 1
  /\ \/ /\ aborted
        /\ result' = [result EXCEPT ![next] = "cancelled"]
        /\ UNCHANGED <<pc, at, limit, available>>
     \/ /\ ~aborted
        /\ available = 0
        /\ result' = [result EXCEPT ![next] = "exhausted"]
        /\ UNCHANGED <<pc, at, limit, available>>
     \/ /\ ~aborted
        /\ available > 0
        /\ Reserve(r)
        /\ Goto(r, "call")
        /\ at' = [at EXCEPT ![r] = next]
        /\ UNCHANGED result
  /\ UNCHANGED <<runVars, aborted, partial, budget, consumed, tries, used, made, found>>

RunnerEnds(r) ==
  /\ phase = "run"
  /\ pc[r] = "free"
  /\ next > NumStages
  /\ Goto(r, "end")
  /\ UNCHANGED <<runVars, aborted, partial, budget, next, at, poolVars, made, stageVars>>

-----------------------------------------------------------------------------
(* executeReviewStage and the provider's review()                          *)

\* The first attempt of a provider call; a cancelled call throws before it.
StartAttempt(r) ==
  /\ pc[r] = "call"
  /\ ~aborted
  /\ Goto(r, "attempt")
  /\ tries' = [tries EXCEPT ![r] = 1]
  /\ made' = made + 1
  /\ UNCHANGED <<runVars, aborted, partial, budget, next, at, limit, consumed,
                 available, used, stageVars>>

\* The provider could not parse the answer: it asks again within the call's budget.
RepairAttempt(r) ==
  /\ pc[r] = "attempt"
  /\ ~aborted
  /\ tries[r] + 1 <= limit[r] - consumed[r]
  /\ tries' = [tries EXCEPT ![r] = @ + 1]
  /\ made' = made + 1
  /\ UNCHANGED <<runVars, aborted, partial, budget, next, pc, at, limit, consumed,
                 available, used, stageVars>>

\* The stage has a result and its runner is free.
StageReturns(r, outcome, findings) ==
  /\ result' = [result EXCEPT ![at[r]] = outcome]
  /\ found' = [found EXCEPT ![at[r]] = findings]
  /\ Goto(r, "free")
  /\ at' = [at EXCEPT ![r] = 0]
  /\ UNCHANGED <<runVars, aborted, partial, budget, next, made>>

AnswerValid(r) ==
  /\ pc[r] = "attempt"
  /\ \E candidates \in Outputs : StageReturns(r, "complete", VerifyCandidates(candidates))
  /\ Settle(r, consumed[r] + tries[r])

\* The answer is no stage output: one more call, if attempts are left.
AnswerInvalid(r) ==
  /\ pc[r] = "attempt"
  /\ \/ /\ consumed[r] + tries[r] < limit[r]
        /\ Goto(r, "call")
        /\ consumed' = [consumed EXCEPT ![r] = @ + tries[r]]
        /\ tries' = [tries EXCEPT ![r] = 0]
        /\ UNCHANGED <<runVars, aborted, partial, budget, next, at, limit, available, used,
                       made, stageVars>>
     \/ /\ consumed[r] + tries[r] >= limit[r]
        /\ StageReturns(r, "incomplete", {})
        /\ Settle(r, consumed[r] + tries[r])

\* Mutated: a cancelled call is left waiting.
StageFailsInAttempt(r) ==
  /\ pc[r] = "attempt"
  /\ StageReturns(r, "incomplete", {})
  /\ Settle(r, limit[r])

\* The call throws, or misreports its attempts: everything reserved counts as used.
StageFails(r) ==
  /\ pc[r] \in {"call", "attempt"}
  /\ StageReturns(r, "incomplete", {})
  /\ Settle(r, limit[r])

-----------------------------------------------------------------------------
(* The end of the run                                                      *)

AllFindings == UNION {found[s] : s \in Stage}

\* Mutated: a stage that never ran does not count as incomplete.
IncompleteByAnswer ==
  \/ partial
  \/ \E s \in Stage : result[s] = "incomplete"
  \/ Unresolved(DedupeFindings(AllFindings))

Incomplete ==
  \/ partial
  \/ \E s \in Stage : result[s] # "complete"
  \/ Unresolved(DedupeFindings(AllFindings))

Finalize ==
  /\ phase = "run"
  /\ \A r \in Runner : pc[r] = "end"
  /\ gate' = DecideGate(DedupeFindings(AllFindings), Incomplete)
  /\ attempts' = used
  /\ phase' = "release"
  /\ UNCHANGED <<aborted, partial, budget, next, pc, at, poolVars, made, stageVars>>

\* The session's cleanup may throw: then so does runReview.
ReleaseSession ==
  /\ phase = "release"
  /\ phase' \in {"returned", "failed"}
  /\ UNCHANGED <<aborted, partial, budget, next, pc, at, poolVars, made, stageVars,
                 gate, attempts>>

Abort ==
  /\ ~aborted
  /\ phase \in {"open", "run"}
  /\ aborted' = TRUE
  /\ UNCHANGED <<phase, partial, budget, next, pc, at, poolVars, made, stageVars,
                 gate, attempts>>

RunnerStep(r) ==
  \/ TakeStage(r) \/ RunnerEnds(r)
  \/ StartAttempt(r) \/ RepairAttempt(r)
  \/ AnswerValid(r) \/ AnswerInvalid(r) \/ StageFails(r)

Step == OpenSession \/ Finalize \/ ReleaseSession

Next == Step \/ Abort \/ \E r \in Runner : RunnerStep(r)

Spec == Init /\ [][Next]_vars

\* The event loop runs on, and every provider call ends by its timeout.
FairSpec == Spec /\ WF_vars(Step) /\ \A r \in Runner : WF_vars(RunnerStep(r))
-----------------------------------------------------------------------------
(* Properties                                                              *)

\* However the stages overlap, repair, fail and settle, no more attempts reach the
\* provider than the plan allows, and the result reports no fewer than were made.
\* (createAttemptAllocator, orchestrator.ts:232; settle, stage-output.ts:487-530.)
AttemptsAccounted ==
  /\ made <= budget
  /\ gate # "none" => made <= attempts /\ attempts <= budget

\* A budget of two attempts for each stage starves no stage, whichever stages run at
\* once: the full preset has 16 for 7.  (reserve, orchestrator.ts:236.)
NoStarvation ==
  budget >= 2 * NumStages => \A s \in Stage : result[s] # "exhausted"

\* Another stage gives the finding another severity.
Contradicted(f) ==
  \E s \in Stage : \E g \in found[s] : g.key = f.key /\ g.severity # f.severity

\* The review concludes only if all of its input was there and every stage of the plan
\* answered, and it passes only if every material finding that a stage confirmed, and
\* every blocker that it could not verify, is confirmed or contradicted by another one.
\* (finalizeResult, orchestrator.ts:344.)
GateIsEarned ==
  /\ gate \in {"PASS", "WARN", "BLOCK"} =>
       /\ ~partial
       /\ \A s \in Stage : result[s] = "complete"
       /\ \A f \in AllFindings : f.unresolved =>
            \/ Contradicted(f)
            \/ \E g \in AllFindings : g.key = f.key /\ g.lifecycle = "confirmed"
  /\ gate = "PASS" =>
       \A f \in AllFindings :
         f.lifecycle = "confirmed" /\ Material(f.severity) => Contradicted(f)

\* A change is blocked only for a finding that a stage confirmed against evidence, that
\* reaches the threshold, and whose severity no other stage disputes.
\* (mergedLifecycle and decideGate, findings.ts:231 and 148.)
BlockIsJustified ==
  gate = "BLOCK" =>
    \E f \in AllFindings :
      f.lifecycle = "confirmed" /\ f.severity <= BlockingRank /\ ~Contradicted(f)

\* Every review run returns or throws, also when it is cancelled between two calls.
RunEnds == <>(phase \in {"returned", "failed"})
================================================================================
