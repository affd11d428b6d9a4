----------------------------- MODULE ProgressProofs -----------------------------
(* Proofs about what MCProgress composes, for every amount of output and every  *)
(* number of publishers, processes and faults.  BoundedChild: no call settles   *)
(* before its process group is gone, and one that resolves has the whole        *)
(* result, by what is in the two pipes and what has been read of the output.    *)
(* Publication: the lane lets one publisher of a process work at a time, and    *)
(* while all publish one report the oldest comment is never deleted.            *)
EXTENDS MCProgress, FiniteSetTheorems, SequenceTheorems, TLAPS

\* The conjuncts of TypeOK: the two pipes, and the rest.
PipeTypes ==
  /\ toSup \in Seq({"start", "ack", "cancel"})
  /\ toParent \in Seq({"ready", "exit", "spawn_error"})

ParentTypes ==
  /\ parentAlive \in BOOLEAN
  /\ parent \in {"idle", "waiting_ready", "running", "result_received"}
  /\ terminal \in {"none"} \cup Reasons
  /\ settled \in {"no", "closing", "resolved", "rejected"}
  /\ monitor \in {"off", "on", "stopped"}

GroupTypes ==
  /\ sup \in {"none", "initializing", "waiting_start", "running", "waiting_ack",
              "terminating", "dead"}
  /\ prov \in {"none", "running", "exited", "failed", "gone"}
  /\ outcome \in {"none", "own", "signalled"}
  /\ kin \in BOOLEAN

OtherTypes ==
  /\ read \in 0 .. MaxWritten
  /\ written \in 0 .. MaxWritten
  /\ late \in BOOLEAN
  /\ ended \in BOOLEAN

\* What may run, by the state of the supervisor.
GroupInv ==
  /\ sup \in {"none", "initializing", "waiting_start"} => prov = "none" /\ ~kin
  /\ sup = "running" => prov \in {"running", "exited", "failed"}
  /\ sup = "waiting_ack" => prov = "gone"
  /\ sup = "dead" => prov \in {"none", "gone"} /\ ~kin
  /\ settled # "no" => sup \in {"none", "dead"}
  /\ parent = "idle" => sup = "none"

\* The exit of the provider is on its way to the parent.
ExitSent == \E i \in 1 .. Len(toParent) : toParent[i] = "exit"

\* A result that is on its way, or has come, is that of a provider that ended by itself.
OutcomeInv ==
  /\ prov = "exited" /\ sup = "running" => outcome = "own"
  /\ ExitSent => outcome = "own" /\ prov = "gone"
  /\ parent = "result_received" /\ terminal = "none" => outcome = "own" /\ prov = "gone"

\* Between close and the settling of the promise nothing more can arrive.
OutputInv ==
  /\ read <= written
  /\ terminal = "none" => read <= OutputLimit
  /\ settled \in {"closing", "resolved"} /\ terminal = "none" =>
       /\ toParent = <<>>
       /\ read = written
       /\ parent = "result_received"
  /\ settled = "resolved" => terminal = "none"

IInv ==
  /\ PipeTypes /\ ParentTypes /\ GroupTypes /\ OtherTypes
  /\ GroupInv /\ OutcomeInv /\ OutputInv

(* The pipes.                                                               *)

LEMMA PipeStep ==
  ASSUME PipeTypes, [Next]_vars
  PROVE  PipeTypes'
<1> DEFINE S == {"start", "ack", "cancel"}
<1> DEFINE P == {"ready", "exit", "spawn_error"}
<1>1. /\ toSup # <<>> => Tail(toSup) \in Seq(S)
      /\ toParent # <<>> => Tail(toParent) \in Seq(P)
  BY HeadTailProperties DEF PipeTypes
<1>2. /\ \A f \in S : Append(toSup, f) \in Seq(S)
      /\ \A f \in P : Append(toParent, f) \in Seq(P)
  BY AppendProperties DEF PipeTypes
<1>3. toSup' = toSup \/ (toSup # <<>> /\ toSup' = Tail(toSup))
        \/ \E f \in S : toSup' = Append(toSup, f)
  BY DEF Next, vars, parentVars, groupVars, pipeVars,
     SupervisorStep, ProviderStep, ParentStep, Environment,
     SupervisorMain, AcceptControlFrame, CloseControl, SupervisorDeadline, ReportResult,
     AckTimeout, GraceEnds, ProviderWrites, ProviderForks, DescendantExits, ProviderExits,
     Start, ParentTimeout, AcceptReady, AcceptResult, Collect, Close, Settle, Aborted,
     MonitorFails, SupervisorSpawnFails, InputError, SupervisorSignalled, ParentDies,
     DeadlinePasses, FailsBy, Fail, EndControl, WriteStart
<1>4. toParent' = toParent \/ (toParent # <<>> /\ toParent' = Tail(toParent))
        \/ \E f \in P : toParent' = Append(toParent, f)
  BY DEF Next, vars, parentVars, groupVars, pipeVars,
     SupervisorStep, ProviderStep, ParentStep, Environment,
     SupervisorMain, AcceptControlFrame, CloseControl, SupervisorDeadline, ReportResult,
     AckTimeout, GraceEnds, ProviderWrites, ProviderForks, DescendantExits, ProviderExits,
     Start, ParentTimeout, AcceptReady, AcceptResult, Collect, Close, Settle, Aborted,
     MonitorFails, SupervisorSpawnFails, InputError, SupervisorSignalled, ParentDies,
     DeadlinePasses, FailsBy
<1> HIDE DEF S, P
<1>5. toSup' \in Seq(S)
  BY <1>1, <1>2, <1>3 DEF PipeTypes, S
<1>6. toParent' \in Seq(P)
  BY <1>1, <1>2, <1>4 DEF PipeTypes, P
<1> QED
  BY <1>5, <1>6 DEF PipeTypes, S, P

\* What a step does to the pipe says whether the exit is on its way.
LEMMA ExitFrames ==
  ASSUME PipeTypes
  PROVE  /\ toParent = <<>> => ~ExitSent
         /\ toParent # <<>> /\ Head(toParent) = "exit" => ExitSent
         /\ toParent' = toParent => ExitSent' = ExitSent
         /\ toParent # <<>> /\ toParent' = Tail(toParent) => (ExitSent' => ExitSent)
         /\ \A f \in {"ready", "exit", "spawn_error"} :
              toParent' = Append(toParent, f) => (ExitSent' => ExitSent \/ f = "exit")
<1> DEFINE P == {"ready", "exit", "spawn_error"}
<1>1. toParent \in Seq(P) /\ Len(toParent) \in Nat
  BY LenProperties DEF PipeTypes
<1>2. toParent = <<>> => ~ExitSent
  BY DEF ExitSent
<1>3. ASSUME toParent # <<>>, Head(toParent) = "exit"
      PROVE  ExitSent
  <2>1. Len(toParent) >= 1
    BY <1>1, <1>3, EmptySeq
  <2>2. toParent[1] = "exit"
    BY <1>1, <1>3
  <2> QED
    BY <1>1, <2>1, <2>2 DEF ExitSent
<1>4. toParent' = toParent => ExitSent' = ExitSent
  BY DEF ExitSent
<1>5. ASSUME toParent # <<>>, toParent' = Tail(toParent), ExitSent'
      PROVE  ExitSent
  <2>1. /\ Len(Tail(toParent)) = Len(toParent) - 1
        /\ \A i \in 1 .. Len(Tail(toParent)) : Tail(toParent)[i] = toParent[i + 1]
    BY <1>1, <1>5, HeadTailProperties
  <2>2. PICK i \in 1 .. Len(Tail(toParent)) : Tail(toParent)[i] = "exit"
    BY <1>5 DEF ExitSent
  <2>3. i + 1 \in 1 .. Len(toParent) /\ toParent[i + 1] = "exit"
    BY <1>1, <2>1, <2>2
  <2> QED
    BY <2>3 DEF ExitSent
<1>6. ASSUME NEW f \in P, toParent' = Append(toParent, f), ExitSent', f # "exit"
      PROVE  ExitSent
  <2>1. /\ Len(Append(toParent, f)) = Len(toParent) + 1
        /\ \A i \in 1 .. Len(toParent) : Append(toParent, f)[i] = toParent[i]
        /\ Append(toParent, f)[Len(toParent) + 1] = f
    BY <1>1, AppendProperties
  <2>2. PICK i \in 1 .. Len(Append(toParent, f)) : Append(toParent, f)[i] = "exit"
    BY <1>6 DEF ExitSent
  <2>3. i \in 1 .. Len(toParent)
    BY <1>1, <1>6, <2>1, <2>2
  <2> QED
    BY <2>1, <2>2, <2>3 DEF ExitSent
<1> QED
  BY <1>2, <1>3, <1>4, <1>5, <1>6

(* The steps.                                                               *)

LEMMA InitIInv == Init => IInv
<1> SUFFICES ASSUME Init PROVE IInv
  OBVIOUS
<1>1. PipeTypes
  BY EmptySeq DEF Init, PipeTypes
<1>2. ~ExitSent
  BY <1>1, ExitFrames DEF Init
<1>3. ParentTypes /\ GroupTypes
  BY DEF Init, ParentTypes, GroupTypes
<1>4. OtherTypes
  <2>1. 0 \in 0 .. MaxWritten
    BY BoundedChildAssumption
  <2> QED
    BY <2>1 DEF Init, OtherTypes
<1>5. GroupInv
  BY DEF Init, GroupInv
<1>6. OutcomeInv
  BY <1>2 DEF Init, OutcomeInv
<1>7. OutputInv
  BY BoundedChildAssumption DEF Init, OutputInv
<1> QED
  BY <1>1, <1>3, <1>5, <1>6, <1>7, <1>4 DEF IInv

LEMMA NextIInv == IInv /\ [Next]_vars => IInv'
<1> SUFFICES ASSUME IInv, [Next]_vars PROVE IInv'
  OBVIOUS
<1>p. PipeTypes /\ PipeTypes'
  BY PipeStep DEF IInv
<1>f. /\ toParent = <<>> => ~ExitSent
      /\ toParent # <<>> /\ Head(toParent) = "exit" => ExitSent
      /\ toParent' = toParent => ExitSent' = ExitSent
      /\ toParent # <<>> /\ toParent' = Tail(toParent) => (ExitSent' => ExitSent)
      /\ \A f \in {"ready", "exit", "spawn_error"} :
           toParent' = Append(toParent, f) => (ExitSent' => ExitSent \/ f = "exit")
  BY <1>p, ExitFrames
<1> USE DEF parentVars, groupVars, pipeVars
<1>1. CASE SupervisorMain
  <2>1. ParentTypes'
    BY <1>1
    DEF IInv, ParentTypes, Reasons, SupervisorMain, FinishBeforeStart
  <2>2. GroupTypes'
    BY <1>1
    DEF IInv, GroupTypes, GroupInv, SupervisorMain, FinishBeforeStart
  <2>3. OtherTypes'
    BY <1>1, BoundedChildAssumption
    DEF IInv, OtherTypes, SupervisorMain, FinishBeforeStart
  <2>4. GroupInv'
    BY <1>1
    DEF IInv, GroupTypes, ParentTypes, GroupInv, SupervisorMain, FinishBeforeStart
  <2>5. OutcomeInv'
    BY <1>1, <1>f
    DEF IInv, GroupTypes, ParentTypes, GroupInv, OutcomeInv, SupervisorMain,
        FinishBeforeStart
  <2>6. OutputInv'
    BY <1>1, BoundedChildAssumption
    DEF IInv, GroupTypes, ParentTypes, OtherTypes, GroupInv, OutputInv, SupervisorMain,
        FinishBeforeStart
  <2> QED
    BY <1>p, <2>1, <2>2, <2>3, <2>4, <2>5, <2>6 DEF IInv
<1>2. CASE AcceptControlFrame
  <2>1. ParentTypes'
    BY <1>2
    DEF IInv, ParentTypes, Reasons, AcceptControlFrame, StartProvider, CancelOwnedWork,
        ForceKillOwnedGroup, FinishBeforeStart
  <2>2. GroupTypes'
    BY <1>2
    DEF IInv, GroupTypes, GroupInv, AcceptControlFrame, StartProvider, CancelOwnedWork,
        ForceKillOwnedGroup, FinishBeforeStart
  <2>3. OtherTypes'
    BY <1>2, BoundedChildAssumption
    DEF IInv, OtherTypes, AcceptControlFrame, StartProvider, CancelOwnedWork,
        ForceKillOwnedGroup, FinishBeforeStart
  <2>4. GroupInv'
    BY <1>2
    DEF IInv, GroupTypes, ParentTypes, GroupInv, AcceptControlFrame, StartProvider,
        CancelOwnedWork, ForceKillOwnedGroup, FinishBeforeStart
  <2>5. OutcomeInv'
    BY <1>2, <1>f
    DEF IInv, GroupTypes, ParentTypes, GroupInv, OutcomeInv, AcceptControlFrame,
        StartProvider, CancelOwnedWork, ForceKillOwnedGroup, FinishBeforeStart
  <2>6. OutputInv'
    BY <1>2, BoundedChildAssumption
    DEF IInv, GroupTypes, ParentTypes, OtherTypes, GroupInv, OutputInv,
        AcceptControlFrame, StartProvider, CancelOwnedWork, ForceKillOwnedGroup,
        FinishBeforeStart
  <2> QED
    BY <1>p, <2>1, <2>2, <2>3, <2>4, <2>5, <2>6 DEF IInv
<1>3. CASE CloseControl \/ SupervisorDeadline \/ SupervisorSignalled
  <2>1. ParentTypes'
    BY <1>3
    DEF IInv, ParentTypes, Reasons, CloseControl, SupervisorDeadline, SupervisorSignalled,
        CancelOwnedWork, ForceKillOwnedGroup, FinishBeforeStart
  <2>2. GroupTypes'
    BY <1>3
    DEF IInv, GroupTypes, GroupInv, CloseControl, SupervisorDeadline, SupervisorSignalled,
        CancelOwnedWork, ForceKillOwnedGroup, FinishBeforeStart
  <2>3. OtherTypes'
    BY <1>3, BoundedChildAssumption
    DEF IInv, OtherTypes, CloseControl, SupervisorDeadline, SupervisorSignalled,
        CancelOwnedWork, ForceKillOwnedGroup, FinishBeforeStart
  <2>4. GroupInv'
    BY <1>3
    DEF IInv, GroupTypes, ParentTypes, GroupInv, CloseControl, SupervisorDeadline,
        SupervisorSignalled, CancelOwnedWork, ForceKillOwnedGroup, FinishBeforeStart
  <2>5. OutcomeInv'
    BY <1>3, <1>f
    DEF IInv, GroupTypes, ParentTypes, GroupInv, OutcomeInv, CloseControl,
        SupervisorDeadline, SupervisorSignalled, CancelOwnedWork, ForceKillOwnedGroup,
        FinishBeforeStart
  <2>6. OutputInv'
    BY <1>3, BoundedChildAssumption
    DEF IInv, GroupTypes, ParentTypes, OtherTypes, GroupInv, OutputInv, CloseControl,
        SupervisorDeadline, SupervisorSignalled, CancelOwnedWork, ForceKillOwnedGroup,
        FinishBeforeStart
  <2> QED
    BY <1>p, <2>1, <2>2, <2>3, <2>4, <2>5, <2>6 DEF IInv
<1>4. CASE ReportResult
  <2>1. ParentTypes'
    BY <1>4
    DEF IInv, ParentTypes, Reasons, ReportResult, ForceKillOwnedGroup
  <2>2. GroupTypes'
    BY <1>4
    DEF IInv, GroupTypes, GroupInv, ReportResult, ForceKillOwnedGroup
  <2>3. OtherTypes'
    BY <1>4, BoundedChildAssumption
    DEF IInv, OtherTypes, ReportResult, ForceKillOwnedGroup
  <2>4. GroupInv'
    BY <1>4
    DEF IInv, GroupTypes, ParentTypes, GroupInv, ReportResult, ForceKillOwnedGroup
  <2>5. OutcomeInv'
    BY <1>4, <1>f
    DEF IInv, GroupTypes, ParentTypes, GroupInv, OutcomeInv, ReportResult,
        ForceKillOwnedGroup
  <2>6. OutputInv'
    BY <1>4, BoundedChildAssumption
    DEF IInv, GroupTypes, ParentTypes, OtherTypes, GroupInv, OutputInv, ReportResult,
        ForceKillOwnedGroup
  <2> QED
    BY <1>p, <2>1, <2>2, <2>3, <2>4, <2>5, <2>6 DEF IInv
<1>5. CASE AckTimeout \/ GraceEnds
  <2>1. ParentTypes'
    BY <1>5
    DEF IInv, ParentTypes, Reasons, AckTimeout, GraceEnds, ForceKillOwnedGroup
  <2>2. GroupTypes'
    BY <1>5
    DEF IInv, GroupTypes, GroupInv, AckTimeout, GraceEnds, ForceKillOwnedGroup
  <2>3. OtherTypes'
    BY <1>5, BoundedChildAssumption
    DEF IInv, OtherTypes, AckTimeout, GraceEnds, ForceKillOwnedGroup
  <2>4. GroupInv'
    BY <1>5
    DEF IInv, GroupTypes, ParentTypes, GroupInv, AckTimeout, GraceEnds, ForceKillOwnedGroup
  <2>5. OutcomeInv'
    BY <1>5, <1>f
    DEF IInv, GroupTypes, ParentTypes, GroupInv, OutcomeInv, AckTimeout, GraceEnds,
        ForceKillOwnedGroup
  <2>6. OutputInv'
    BY <1>5, BoundedChildAssumption
    DEF IInv, GroupTypes, ParentTypes, OtherTypes, GroupInv, OutputInv, AckTimeout,
        GraceEnds, ForceKillOwnedGroup
  <2> QED
    BY <1>p, <2>1, <2>2, <2>3, <2>4, <2>5, <2>6 DEF IInv
<1>6. CASE ProviderStep
  <2>1. ParentTypes'
    BY <1>6
    DEF IInv, ParentTypes, Reasons, ProviderStep, ProviderWrites, ProviderForks,
        DescendantExits, ProviderExits
  <2>2. GroupTypes'
    BY <1>6
    DEF IInv, GroupTypes, GroupInv, ProviderStep, ProviderWrites, ProviderForks,
        DescendantExits, ProviderExits
  <2>3. OtherTypes'
    BY <1>6, BoundedChildAssumption
    DEF IInv, OtherTypes, ProviderStep, ProviderWrites, ProviderForks, DescendantExits,
        ProviderExits
  <2>4. GroupInv'
    BY <1>6
    DEF IInv, GroupTypes, ParentTypes, GroupInv, ProviderStep, ProviderWrites,
        ProviderForks, DescendantExits, ProviderExits
  <2>5. OutcomeInv'
    BY <1>6, <1>f
    DEF IInv, GroupTypes, ParentTypes, GroupInv, OutcomeInv, ProviderStep, ProviderWrites,
        ProviderForks, DescendantExits, ProviderExits
  <2>6. OutputInv'
    BY <1>6, BoundedChildAssumption
    DEF IInv, GroupTypes, ParentTypes, OtherTypes, GroupInv, OutputInv, ProviderStep,
        ProviderWrites, ProviderForks, DescendantExits, ProviderExits
  <2> QED
    BY <1>p, <2>1, <2>2, <2>3, <2>4, <2>5, <2>6 DEF IInv
<1>7. CASE Start
  <2>1. ParentTypes'
    BY <1>7
    DEF IInv, ParentTypes, Reasons, Start
  <2>2. GroupTypes'
    BY <1>7
    DEF IInv, GroupTypes, GroupInv, Start
  <2>3. OtherTypes'
    BY <1>7, BoundedChildAssumption
    DEF IInv, OtherTypes, Start
  <2>4. GroupInv'
    BY <1>7
    DEF IInv, GroupTypes, ParentTypes, GroupInv, Start
  <2>5. OutcomeInv'
    BY <1>7, <1>f
    DEF IInv, GroupTypes, ParentTypes, GroupInv, OutcomeInv, Start
  <2>6. OutputInv'
    BY <1>7, BoundedChildAssumption
    DEF IInv, GroupTypes, ParentTypes, OtherTypes, GroupInv, OutputInv, Start
  <2> QED
    BY <1>p, <2>1, <2>2, <2>3, <2>4, <2>5, <2>6 DEF IInv
<1>8. CASE Aborted \/ ParentTimeout \/ MonitorFails \/ InputError
  <2>1. ParentTypes'
    BY <1>8
    DEF IInv, ParentTypes, Reasons, Aborted, ParentTimeout, MonitorFails, InputError,
        FailsBy, Fail, EndControl, Callback, Active, Settled
  <2>2. GroupTypes'
    BY <1>8
    DEF IInv, GroupTypes, GroupInv, Aborted, ParentTimeout, MonitorFails, InputError,
        FailsBy, Fail, EndControl, Callback, Active, Settled
  <2>3. OtherTypes'
    BY <1>8, BoundedChildAssumption
    DEF IInv, OtherTypes, Aborted, ParentTimeout, MonitorFails, InputError, FailsBy, Fail,
        EndControl, Callback, Active, Settled
  <2>4. GroupInv'
    BY <1>8
    DEF IInv, GroupTypes, ParentTypes, GroupInv, Aborted, ParentTimeout, MonitorFails,
        InputError, FailsBy, Fail, EndControl, Callback, Active, Settled
  <2>5. OutcomeInv'
    BY <1>8, <1>f
    DEF IInv, GroupTypes, ParentTypes, GroupInv, OutcomeInv, Aborted, ParentTimeout,
        MonitorFails, InputError, FailsBy, Fail, EndControl, Callback, Active, Settled
  <2>6. OutputInv'
    BY <1>8, BoundedChildAssumption
    DEF IInv, GroupTypes, ParentTypes, OtherTypes, GroupInv, OutputInv, Aborted,
        ParentTimeout, MonitorFails, InputError, FailsBy, Fail, EndControl, Callback, Active,
        Settled
  <2> QED
    BY <1>p, <2>1, <2>2, <2>3, <2>4, <2>5, <2>6 DEF IInv
<1>9. CASE SupervisorSpawnFails
  <2>1. ParentTypes'
    BY <1>9
    DEF IInv, ParentTypes, Reasons, SupervisorSpawnFails, Fail, EndControl, Callback,
        Active, Settled
  <2>2. GroupTypes'
    BY <1>9
    DEF IInv, GroupTypes, GroupInv, SupervisorSpawnFails, Fail, EndControl, Callback,
        Active, Settled
  <2>3. OtherTypes'
    BY <1>9, BoundedChildAssumption
    DEF IInv, OtherTypes, SupervisorSpawnFails, Fail, EndControl, Callback, Active, Settled
  <2>4. GroupInv'
    BY <1>9
    DEF IInv, GroupTypes, ParentTypes, GroupInv, SupervisorSpawnFails, Fail, EndControl,
        Callback, Active, Settled
  <2>5. OutcomeInv'
    BY <1>9, <1>f
    DEF IInv, GroupTypes, ParentTypes, GroupInv, OutcomeInv, SupervisorSpawnFails, Fail,
        EndControl, Callback, Active, Settled
  <2>6. OutputInv'
    BY <1>9, BoundedChildAssumption
    DEF IInv, GroupTypes, ParentTypes, OtherTypes, GroupInv, OutputInv,
        SupervisorSpawnFails, Fail, EndControl, Callback, Active, Settled
  <2> QED
    BY <1>p, <2>1, <2>2, <2>3, <2>4, <2>5, <2>6 DEF IInv
<1>10. CASE AcceptReady
  <2>1. ParentTypes'
    BY <1>10
    DEF IInv, ParentTypes, Reasons, AcceptReady, WriteStart, EndControl, Callback, Active,
        Settled
  <2>2. GroupTypes'
    BY <1>10
    DEF IInv, GroupTypes, GroupInv, AcceptReady, WriteStart, EndControl, Callback, Active,
        Settled
  <2>3. OtherTypes'
    BY <1>10, BoundedChildAssumption
    DEF IInv, OtherTypes, AcceptReady, WriteStart, EndControl, Callback, Active, Settled
  <2>4. GroupInv'
    BY <1>10
    DEF IInv, GroupTypes, ParentTypes, GroupInv, AcceptReady, WriteStart, EndControl,
        Callback, Active, Settled
  <2>5. OutcomeInv'
    BY <1>10, <1>f
    DEF IInv, GroupTypes, ParentTypes, GroupInv, OutcomeInv, AcceptReady, WriteStart,
        EndControl, Callback, Active, Settled
  <2>6. OutputInv'
    BY <1>10, BoundedChildAssumption
    DEF IInv, GroupTypes, ParentTypes, OtherTypes, GroupInv, OutputInv, AcceptReady,
        WriteStart, EndControl, Callback, Active, Settled
  <2> QED
    BY <1>p, <2>1, <2>2, <2>3, <2>4, <2>5, <2>6 DEF IInv
<1>11. CASE AcceptResult
  <2>1. ParentTypes'
    BY <1>11
    DEF IInv, ParentTypes, Reasons, AcceptResult, Fail, EndControl, Callback, Active,
        Settled
  <2>2. GroupTypes'
    BY <1>11
    DEF IInv, GroupTypes, GroupInv, AcceptResult, Fail, EndControl, Callback, Active,
        Settled
  <2>3. OtherTypes'
    BY <1>11, BoundedChildAssumption
    DEF IInv, OtherTypes, AcceptResult, Fail, EndControl, Callback, Active, Settled
  <2>4. GroupInv'
    BY <1>11
    DEF IInv, GroupTypes, ParentTypes, GroupInv, AcceptResult, Fail, EndControl, Callback,
        Active, Settled
  <2>5. OutcomeInv'
    BY <1>11, <1>f
    DEF IInv, GroupTypes, ParentTypes, GroupInv, OutcomeInv, AcceptResult, Fail,
        EndControl, Callback, Active, Settled
  <2>6. OutputInv'
    BY <1>11, BoundedChildAssumption
    DEF IInv, GroupTypes, ParentTypes, OtherTypes, GroupInv, OutputInv, AcceptResult,
        Fail, EndControl, Callback, Active, Settled
  <2> QED
    BY <1>p, <2>1, <2>2, <2>3, <2>4, <2>5, <2>6 DEF IInv
<1>12. CASE Collect
  <2>1. ParentTypes'
    BY <1>12
    DEF IInv, ParentTypes, Reasons, Collect, Fail, EndControl, Callback, Active, Settled
  <2>2. GroupTypes'
    BY <1>12
    DEF IInv, GroupTypes, GroupInv, Collect, Fail, EndControl, Callback, Active, Settled
  <2>3. OtherTypes'
    <3>1. read + 1 \in 0 .. MaxWritten
      BY <1>12, BoundedChildAssumption DEF IInv, OtherTypes, Collect
    <3>2. /\ read' = read + 1 /\ written' = written /\ late' = late
          /\ ended' \in {TRUE, ended}
      BY <1>12 DEF Collect, Fail, EndControl
    <3> QED
      BY <3>1, <3>2 DEF IInv, OtherTypes
  <2>4. GroupInv'
    BY <1>12
    DEF IInv, GroupTypes, ParentTypes, GroupInv, Collect, Fail, EndControl, Callback,
        Active, Settled
  <2>5. OutcomeInv'
    BY <1>12, <1>f
    DEF IInv, GroupTypes, ParentTypes, GroupInv, OutcomeInv, Collect, Fail, EndControl,
        Callback, Active, Settled
  <2>6. OutputInv'
    BY <1>12, BoundedChildAssumption
    DEF IInv, GroupTypes, ParentTypes, OtherTypes, GroupInv, OutputInv, Collect, Fail,
        EndControl, Callback, Active, Settled
  <2> QED
    BY <1>p, <2>1, <2>2, <2>3, <2>4, <2>5, <2>6 DEF IInv
<1>13. CASE Close
  <2>1. ParentTypes'
    BY <1>13
    DEF IInv, ParentTypes, Reasons, Close, Drained, Active, Settled
  <2>2. GroupTypes'
    BY <1>13
    DEF IInv, GroupTypes, GroupInv, Close, Drained, Active, Settled
  <2>3. OtherTypes'
    BY <1>13, BoundedChildAssumption
    DEF IInv, OtherTypes, Close, Drained, Active, Settled
  <2>4. GroupInv'
    BY <1>13
    DEF IInv, GroupTypes, ParentTypes, GroupInv, Close, Drained, Active, Settled
  <2>5. OutcomeInv'
    BY <1>13, <1>f
    DEF IInv, GroupTypes, ParentTypes, GroupInv, OutcomeInv, Close, Drained, Active, Settled
  <2>6. OutputInv'
    BY <1>13, BoundedChildAssumption
    DEF IInv, GroupTypes, ParentTypes, OtherTypes, GroupInv, OutputInv, Close, Drained,
        Active, Settled
  <2> QED
    BY <1>p, <2>1, <2>2, <2>3, <2>4, <2>5, <2>6 DEF IInv
<1>14. CASE Settle
  <2>1. ParentTypes'
    BY <1>14
    DEF IInv, ParentTypes, Reasons, Settle
  <2>2. GroupTypes'
    BY <1>14
    DEF IInv, GroupTypes, GroupInv, Settle
  <2>3. OtherTypes'
    BY <1>14, BoundedChildAssumption
    DEF IInv, OtherTypes, Settle
  <2>4. GroupInv'
    BY <1>14
    DEF IInv, GroupTypes, ParentTypes, GroupInv, Settle
  <2>5. OutcomeInv'
    BY <1>14, <1>f
    DEF IInv, GroupTypes, ParentTypes, GroupInv, OutcomeInv, Settle
  <2>6. OutputInv'
    BY <1>14, BoundedChildAssumption
    DEF IInv, GroupTypes, ParentTypes, OtherTypes, GroupInv, OutputInv, Settle
  <2> QED
    BY <1>p, <2>1, <2>2, <2>3, <2>4, <2>5, <2>6 DEF IInv
<1>15. CASE ParentDies \/ DeadlinePasses
  <2>1. ParentTypes'
    BY <1>15
    DEF IInv, ParentTypes, Reasons, ParentDies, DeadlinePasses
  <2>2. GroupTypes'
    BY <1>15
    DEF IInv, GroupTypes, GroupInv, ParentDies, DeadlinePasses
  <2>3. OtherTypes'
    BY <1>15, BoundedChildAssumption
    DEF IInv, OtherTypes, ParentDies, DeadlinePasses
  <2>4. GroupInv'
    BY <1>15
    DEF IInv, GroupTypes, ParentTypes, GroupInv, ParentDies, DeadlinePasses
  <2>5. OutcomeInv'
    BY <1>15, <1>f
    DEF IInv, GroupTypes, ParentTypes, GroupInv, OutcomeInv, ParentDies, DeadlinePasses
  <2>6. OutputInv'
    BY <1>15, BoundedChildAssumption
    DEF IInv, GroupTypes, ParentTypes, OtherTypes, GroupInv, OutputInv, ParentDies,
        DeadlinePasses
  <2> QED
    BY <1>p, <2>1, <2>2, <2>3, <2>4, <2>5, <2>6 DEF IInv
<1>16. CASE UNCHANGED vars
  <2>1. ParentTypes'
    BY <1>16
    DEF IInv, ParentTypes, Reasons, vars
  <2>2. GroupTypes'
    BY <1>16
    DEF IInv, GroupTypes, GroupInv, vars
  <2>3. OtherTypes'
    BY <1>16, BoundedChildAssumption
    DEF IInv, OtherTypes, vars
  <2>4. GroupInv'
    BY <1>16
    DEF IInv, GroupTypes, ParentTypes, GroupInv, vars
  <2>5. OutcomeInv'
    BY <1>16, <1>f
    DEF IInv, GroupTypes, ParentTypes, GroupInv, OutcomeInv, vars
  <2>6. OutputInv'
    BY <1>16, BoundedChildAssumption
    DEF IInv, GroupTypes, ParentTypes, OtherTypes, GroupInv, OutputInv, vars
  <2> QED
    BY <1>p, <2>1, <2>2, <2>3, <2>4, <2>5, <2>6 DEF IInv
<1> QED
  BY <1>1, <1>2, <1>3, <1>4, <1>5, <1>6, <1>7, <1>8, <1>9, <1>10, <1>11, <1>12, <1>13, <1>14,
     <1>15, <1>16
  DEF Next, SupervisorStep, ParentStep, Environment

LEMMA Invariance == Spec => []IInv
BY InitIInv, NextIInv, PTL DEF Spec

\* The states of parent, supervisor and provider, and the frames between them, keep
\* their types.
THEOREM ChildTypes == Spec => []TypeOK
<1>1. IInv => TypeOK
  BY DEF IInv, PipeTypes, ParentTypes, GroupTypes, OtherTypes, TypeOK
<1> QED
  BY <1>1, Invariance, PTL

\* No call settles while anything of its process group runs.
THEOREM NoOrphans == Spec => []NothingOutlivesTheCall
<1>1. IInv => NothingOutlivesTheCall
  BY DEF IInv, ParentTypes, GroupTypes, GroupInv, NothingOutlivesTheCall, GroupGone
<1> QED
  BY <1>1, Invariance, PTL

\* A call resolves only with the whole result of a provider that ended by itself.
THEOREM WholeResults == Spec => []ResultIsWhole
<1>1. IInv => ResultIsWhole
  BY DEF IInv, ParentTypes, OutcomeInv, OutputInv, ResultIsWhole
<1> QED
  BY <1>1, Invariance, PTL

-----------------------------------------------------------------------------
(* Publications                                                            *)

Deciding == {"check", "delete"}
Creating == {"create", "check", "recheck", "delete"}
Updating == {"update", "reupdate"}

-----------------------------------------------------------------------------
(* The invariant                                                           *)

\* Those in a lane belong to its process, once each, and only its head works.
Orderly(h) ==
  \A i \in 1 .. Len(lane[h]) :
    /\ HostOf[lane[h][i]] = h
    /\ pc[lane[h][i]] \in {"queued"} \cup Lane!Working
    /\ i > 1 => pc[lane[h][i]] = "queued"
    /\ \A j \in 1 .. Len(lane[h]) : lane[h][i] = lane[h][j] => i = j

HasPlace(p) ==
  /\ pc[p] \in {"queued"} \cup Lane!Working =>
       \E i \in 1 .. Len(lane[HostOf[p]]) : lane[HostOf[p]][i] = p
  /\ pc[p] \in Lane!Working => Head(lane[HostOf[p]]) = p

LaneInv == (\A h \in Host : Orderly(h)) /\ (\A p \in Publisher : HasPlace(p))

\* An id is given once.
IdInv ==
  /\ \A c \in comments : c.id < nextId
  /\ \A c, d \in comments : c.id = d.id => c = d
  /\ \A p \in Publisher : mine[p] < nextId

\* Comments and requests are of publications that have begun.
BegunInv ==
  /\ \A c \in comments : c.by \in Publisher => c.by \in Lane!Begun
  /\ \A r \in flying : r.by \in Lane!Begun

\* Who creates has no comment of its process before it, but for missed ones, and who looks for
\* what it has created has one only when that request is not on its way any more.
Searching(p) ==
  pc[p] \in {"create", "recheck"} =>
    \A c \in comments :
      c.by # OldMarker /\ HostOf[c.by] = HostOf[p] /\ ~c.missed =>
        /\ c.by = p
        /\ pc[p] = "recheck"
        /\ [kind |-> "create", by |-> p, attempt |-> attempt[p]] \notin flying

SearchInv == OneCommentPerProcess /\ \A p \in Publisher : Searching(p)

\* The comment of an earlier publication is the only one, and nobody creates another.
EarlierInv ==
  \A c \in comments : c.by = OldMarker =>
    /\ comments = {c}
    /\ \A p \in Publisher : pc[p] \notin Creating
    /\ \A r \in flying : r.kind = "update"

\* Who decides on its comment has it, and what is deleted, or to be, is the deleter's own.
MineInv ==
  /\ \A p \in Publisher : pc[p] \in Deciding => \E c \in comments : c.id = mine[p] /\ c.by = p
  /\ \A r \in flying : r.kind = "delete" =>
       /\ pc[r.by] \in {"failed", "crashed"}
       /\ \A c \in comments : c.id = mine[r.by] => c.by = r.by

IsFirst(id) == \E c \in comments : c.id = id /\ \A d \in comments : c.id <= d.id

\* The first comment is id, and has the marker of p.
Heads(p, id) ==
  \E c \in comments : c.id = id /\ c.mark = MarkerOf[p] /\ \A d \in comments : c.id <= d.id

HasOlder(id) == \E c \in comments : c.id < id

Doomed(p) == pc[p] = "delete" \/ \E r \in flying : r.kind = "delete" /\ r.by = p

\* The comment that was chosen is the oldest, and the one to be deleted is younger.
Chosen(p) ==
  /\ pc[p] \in Lane!Succeeded \cup {"delete"} => Heads(p, target[p])
  /\ pc[p] \in Updating => IsFirst(mine[p])
  /\ Doomed(p) => HasOlder(mine[p])

\* While all publish one report.
ChosenInv ==
  Lane!OneReport =>
    /\ \A c \in comments : c.by \in Publisher => c.mark = MarkerOf[c.by]
    /\ \A p \in Publisher : Chosen(p)

\* Without faults, whoever has created a comment will look whether it is the oldest.
AccountInv ==
  faults = 0 =>
    /\ flying = {}
    /\ \A c \in comments :
         \/ c.by = OldMarker
         \/ \E p \in Publisher :
              /\ mine[p] = c.id
              /\ pc[p] \in Deciding \/ (pc[p] = "created" /\ target[p] = c.id)

Inv ==
  /\ Lane!TypeOK /\ LaneInv /\ IdInv /\ BegunInv
  /\ SearchInv /\ EarlierInv /\ MineInv /\ ChosenInv /\ AccountInv
-----------------------------------------------------------------------------

LEMMA OldestExists ==
  ASSUME Lane!TypeOK, NEW S \in SUBSET comments, S # {}
  PROVE  /\ Lane!Oldest(S) \in S
         /\ \A d \in S : Lane!Oldest(S).id <= d.id
<1> DEFINE Below == {0 .. c.id : c \in S}
<1>1. \A c \in S : c.id \in Nat
  BY DEF Lane!TypeOK, Lane!Comment
<1>2. Below \subseteq FiniteSubsetsOf(Nat) /\ Below # {}
  <2>1. ASSUME NEW c \in S
        PROVE  0 .. c.id \in FiniteSubsetsOf(Nat)
    <3>1. IsFiniteSet(0 .. c.id)
      BY <1>1, FS_Interval
    <3>2. 0 .. c.id \subseteq Nat
      BY <1>1
    <3>3. QED
      BY <3>1, <3>2 DEF FiniteSubsetsOf
  <2>2. QED
    BY <2>1
<1>3. PICK x \in Below : \A y \in Below : <<y, x>> \notin StrictSubsetOrdering(Nat)
  BY <1>2, WFMin, FS_StrictSubsetOrderingWellFounded
<1>4. PICK c \in S : x = 0 .. c.id
  BY <1>3
<1>5. ASSUME NEW d \in S, d.id < c.id
      PROVE  FALSE
  <2>1. c.id \in Nat /\ d.id \in Nat
    BY <1>1
  <2>2. 0 .. d.id \subseteq 0 .. c.id /\ 0 .. d.id # 0 .. c.id
    BY <2>1, <1>5
  <2>3. <<0 .. d.id, 0 .. c.id>> \in StrictSubsetOrdering(Nat)
    BY <2>1, <2>2 DEF StrictSubsetOrdering
  <2>4. QED
    BY <2>3, <1>3, <1>4
<1>6. \A d \in S : c.id <= d.id
  BY <1>1, <1>5
<1>7. QED
  BY <1>6 DEF Lane!Oldest

-----------------------------------------------------------------------------
(* Types                                                                   *)

LEMMA OldestTypes ==
  ASSUME Lane!TypeOK, NEW p \in Publisher
  PROVE  /\ Lane!Exact(p) # {}
              => Lane!Oldest(Lane!Exact(p)) \in Lane!Exact(p) /\ Lane!Oldest(Lane!Exact(p)).id \in Nat
         /\ comments # {} => Lane!Oldest(comments) \in comments /\ Lane!Oldest(comments).id \in Nat
<1>1. Lane!Exact(p) \in SUBSET comments
  BY DEF Lane!Exact
<1>2. \A c \in comments : c.id \in Nat
  BY DEF Lane!TypeOK, Lane!Comment
<1>3. QED
  BY <1>1, <1>2, OldestExists

\* Who works, or has the turn, is the head of a lane.
LEMMA InLane ==
  ASSUME Lane!TypeOK, LaneInv, NEW p \in Publisher,
         Lane!HasTurn(p) \/ pc[p] \in Lane!Working
  PROVE  /\ HostOf[p] \in Host
         /\ lane[HostOf[p]] \in Seq(Publisher)
         /\ lane[HostOf[p]] # <<>>
         /\ lane[HostOf[p]][1] = p
<1>1. HostOf[p] \in Host /\ lane[HostOf[p]] \in Seq(Publisher)
  BY PublicationAssumption DEF Lane!TypeOK
<1>2. PICK i \in 1 .. Len(lane[HostOf[p]]) : lane[HostOf[p]][i] = p
  BY DEF LaneInv, HasPlace, Lane!HasTurn
<1>3. lane[HostOf[p]] # <<>>
  BY <1>1, <1>2
<1>4. Head(lane[HostOf[p]]) = p
  BY DEF LaneInv, HasPlace, Lane!HasTurn
<1>5. QED
  BY <1>1, <1>3, <1>4

LEMMA FinishTypes ==
  ASSUME Lane!TypeOK, LaneInv, NEW p \in Publisher,
         Lane!HasTurn(p) \/ pc[p] \in Lane!Working,
         NEW o \in Lane!Finished, NEW id \in Nat, Lane!Finish(p, o, id)
  PROVE  /\ pc' \in [Publisher -> {"idle", "queued"} \cup Lane!Working \cup Lane!Finished]
         /\ target' \in [Publisher -> Nat]
         /\ lane' \in [Host -> Seq(Publisher)]
<1>1. HostOf[p] \in Host /\ lane[HostOf[p]] # <<>>
  BY InLane
<1>2. Tail(lane[HostOf[p]]) \in Seq(Publisher)
  BY <1>1, HeadTailProperties DEF Lane!TypeOK
<1>3. QED
  BY <1>1, <1>2 DEF Lane!Finish, Lane!Goto, Lane!TypeOK

LEMMA AddTypes ==
  ASSUME Lane!TypeOK, NEW p \in Publisher, NEW m \in BOOLEAN, Lane!AddComment(p, m)
  PROVE  comments' \subseteq Lane!Comment /\ nextId' \in Nat \ {0}
<1>1. MarkerOf[p] \in Marker
  BY PublicationAssumption
<1>2. QED
  BY <1>1 DEF Lane!AddComment, Lane!Comment, Lane!TypeOK

LEMMA RewrittenTypes ==
  ASSUME Lane!TypeOK, NEW p \in Publisher, Lane!SetMarker(p) \/ Lane!MissOwn(p)
  PROVE  comments' \subseteq Lane!Comment
<1>1. ASSUME NEW d \in comments
      PROVE  /\ [d EXCEPT !.mark = MarkerOf[p]] \in Lane!Comment
             /\ [d EXCEPT !.missed = TRUE] \in Lane!Comment
             /\ d \in Lane!Comment
  <2>1. MarkerOf[p] \in Marker /\ d \in Lane!Comment
    BY PublicationAssumption DEF Lane!TypeOK
  <2>2. QED
    BY <2>1 DEF Lane!Comment
<1>2. QED
  BY <1>1 DEF Lane!SetMarker, Lane!MissOwn

LEMMA TypeStep ==
  ASSUME Lane!TypeOK, LaneInv, [Lane!Next]_Lane!vars
  PROVE  Lane!TypeOK'
<1>1. ASSUME NEW p \in Publisher, Lane!Enter(p)
      PROVE  Lane!TypeOK'
  <2>1. HostOf[p] \in Host
    BY PublicationAssumption
  <2>2. Append(lane[HostOf[p]], p) \in Seq(Publisher)
    BY <2>1, AppendProperties DEF Lane!TypeOK
  <2>3. pc' \in [Publisher -> {"idle", "queued"} \cup Lane!Working \cup Lane!Finished]
    BY <1>1 DEF Lane!Enter, Lane!TypeOK, Lane!Goto, Lane!Finished
  <2>4. lane' \in [Host -> Seq(Publisher)]
    BY <1>1, <2>1, <2>2 DEF Lane!Enter, Lane!TypeOK
  <2>5. QED
    BY <1>1, <2>3, <2>4 DEF Lane!Enter, Lane!TypeOK
<1>2. ASSUME NEW p \in Publisher, Lane!Step(p)
      PROVE  Lane!TypeOK'
  <2>a. Lane!HasTurn(p) \/ pc[p] \in Lane!Working
             => \A o \in Lane!Finished, id \in Nat : Lane!Finish(p, o, id) =>
          /\ pc' \in [Publisher -> {"idle", "queued"} \cup Lane!Working \cup Lane!Finished]
          /\ target' \in [Publisher -> Nat]
          /\ lane' \in [Host -> Seq(Publisher)]
    BY FinishTypes
  <2>b. HostOf[p] \in Host /\ MarkerOf[p] \in Marker /\ mine[p] \in Nat /\ target[p] \in Nat
    BY PublicationAssumption DEF Lane!TypeOK
  <2>c. {"created", "updated", "reused", "failed"} \subseteq Lane!Finished
    BY DEF Lane!Finished
  <2>d. Lane!Fault => faults' \in 0 .. MaxFaults
    BY PublicationAssumption DEF Lane!Fault, Lane!TypeOK
  <2>e. /\ Lane!Exact(p) # {}
             => Lane!Oldest(Lane!Exact(p)) \in Lane!Exact(p) /\ Lane!Oldest(Lane!Exact(p)).id \in Nat
        /\ comments # {} => Lane!Oldest(comments) \in comments /\ Lane!Oldest(comments).id \in Nat
    BY OldestTypes
  <2>f. Lane!AddComment(p, FALSE) => comments' \subseteq Lane!Comment /\ nextId' \in Nat \ {0}
    BY AddTypes
  <2>g. Lane!SetMarker(p) => comments' \subseteq Lane!Comment
    BY RewrittenTypes
  <2>m. Lane!MissOwn(p) => comments' \subseteq Lane!Comment
    BY RewrittenTypes
  <2>h. /\ pc[p] \in {"create", "update", "delete"} /\ Lane!Unanswered(p)
             => flying' \subseteq Lane!Request /\ faults' \in 0 .. MaxFaults
    BY <2>d DEF Lane!Unanswered, Lane!RequestOf, Lane!Request, Lane!TypeOK
  <2>1. CASE Lane!ListFails(p)
    <3>1. Lane!HasTurn(p) \/ pc[p] \in Lane!Working
      BY <2>1 DEF Lane!ListFails, Lane!Working
    <3>2. QED
      BY <2>1, <3>1, <2>a, <2>c, <2>d DEF Lane!ListFails, Lane!TypeOK
  <2>2. CASE Lane!PublishOnce(p)
    <3>1. CASE Lane!Exact(p) # {} /\ Lane!Finish(p, "reused", Lane!Oldest(Lane!Exact(p)).id)
               /\ mine' = mine
      BY <2>2, <3>1, <2>a, <2>c, <2>e DEF Lane!PublishOnce, Lane!TypeOK
    <3>2. CASE comments # {} /\ Lane!Goto(p, "update")
               /\ mine' = [mine EXCEPT ![p] = Lane!Oldest(comments).id]
               /\ UNCHANGED <<lane, target>>
      BY <2>2, <3>2, <2>e DEF Lane!PublishOnce, Lane!TypeOK, Lane!Goto, Lane!Working
    <3>3. CASE Lane!Goto(p, "create") /\ UNCHANGED <<lane, target, mine>>
      BY <2>2, <3>3 DEF Lane!PublishOnce, Lane!TypeOK, Lane!Goto, Lane!Working
    <3>4. QED
      BY <2>2, <3>1, <3>2, <3>3 DEF Lane!PublishOnce
  <2>3. CASE Lane!Create(p)
    <3>1. CASE Lane!AddComment(p, FALSE) /\ UNCHANGED <<flying, faults>>
      BY <2>3, <2>f, <3>1 DEF Lane!Create, Lane!TypeOK, Lane!Goto, Lane!Working
    <3>2. CASE Lane!Unanswered(p) /\ UNCHANGED <<comments, nextId, mine>>
      BY <2>3, <2>h, <3>2 DEF Lane!Create, Lane!TypeOK, Lane!Goto, Lane!Working
    <3>3. QED
      BY <2>3, <3>1, <3>2 DEF Lane!Create
  <2>4. CASE Lane!AfterCreateError(p)
    <3>1. pc[p] \in Lane!Working
      BY <2>4 DEF Lane!AfterCreateError, Lane!Working
    <3>a. comments' \subseteq Lane!Comment
      BY <2>4, <2>m DEF Lane!AfterCreateError, Lane!TypeOK
    <3>2. CASE /\ Lane!Goto(p, "create")
               /\ UNCHANGED <<lane, target>>
               /\ attempt' = [attempt EXCEPT ![p] = 2]
      BY <2>4, <3>a, <3>2 DEF Lane!AfterCreateError, Lane!TypeOK, Lane!Goto, Lane!Working
    <3>3. CASE attempt' = attempt /\ \E o \in Lane!Finished, id \in Nat : Lane!Finish(p, o, id)
      BY <2>4, <3>1, <3>a, <3>3, <2>a DEF Lane!AfterCreateError, Lane!TypeOK
    <3>4. QED
      BY <2>4, <2>c, <2>e, <3>2, <3>3 DEF Lane!AfterCreateError
  <2>5. CASE Lane!CheckWinner(p)
    <3>1. pc[p] \in Lane!Working
      BY <2>5 DEF Lane!CheckWinner, Lane!Working
    <3>2. CASE Lane!Exact(p) # {} /\ Lane!Oldest(Lane!Exact(p)).id # mine[p]
      BY <2>5, <3>2, <2>e DEF Lane!CheckWinner, Lane!TypeOK, Lane!Goto, Lane!Working
    <3>3. CASE Lane!Finish(p, "created", mine[p])
      BY <2>5, <3>1, <3>3, <2>a, <2>b, <2>c DEF Lane!CheckWinner, Lane!TypeOK
    <3>4. QED
      BY <2>5, <3>2, <3>3 DEF Lane!CheckWinner
  <2>6. CASE Lane!DeleteDuplicate(p)
    <3>1. pc[p] \in Lane!Working
      BY <2>6 DEF Lane!DeleteDuplicate, Lane!Working
    <3>2. comments' \subseteq comments /\ flying' \subseteq Lane!Request /\ faults' \in 0 .. MaxFaults
      BY <2>6, <2>h DEF Lane!DeleteDuplicate, Lane!Remove, Lane!TypeOK
    <3>3. \E o \in Lane!Finished, id \in Nat : Lane!Finish(p, o, id)
      BY <2>6, <2>b, <2>c DEF Lane!DeleteDuplicate
    <3>4. QED
      BY <2>6, <2>a, <3>1, <3>2, <3>3 DEF Lane!DeleteDuplicate, Lane!TypeOK
  <2>7. CASE Lane!Update(p)
    <3>1. pc[p] \in Lane!Working
      BY <2>7 DEF Lane!Update, Lane!Working
    <3>2. /\ comments' \subseteq Lane!Comment /\ flying' \subseteq Lane!Request
          /\ faults' \in 0 .. MaxFaults
      BY <2>7, <2>g, <2>h DEF Lane!Update, Lane!TypeOK
    <3>3. CASE Lane!Finish(p, "updated", mine[p])
      BY <2>7, <3>1, <3>2, <3>3, <2>a, <2>b, <2>c DEF Lane!Update, Lane!TypeOK
    <3>4. CASE Lane!Goto(p, "reupdate") /\ UNCHANGED <<lane, target>>
      BY <2>7, <3>2, <3>4 DEF Lane!Update, Lane!TypeOK, Lane!Goto, Lane!Working
    <3>5. QED
      BY <2>7, <3>3, <3>4 DEF Lane!Update
  <2>8. CASE Lane!AfterUpdateError(p)
    <3>1. pc[p] \in Lane!Working
      BY <2>8 DEF Lane!AfterUpdateError, Lane!Working
    <3>2. CASE /\ Lane!Goto(p, "update")
               /\ UNCHANGED <<lane, target>>
               /\ attempt' = [attempt EXCEPT ![p] = 2]
      BY <2>8, <3>2 DEF Lane!AfterUpdateError, Lane!TypeOK, Lane!Goto, Lane!Working
    <3>3. CASE attempt' = attempt /\ \E o \in Lane!Finished, id \in Nat : Lane!Finish(p, o, id)
      BY <2>8, <3>1, <3>3, <2>a DEF Lane!AfterUpdateError, Lane!TypeOK
    <3>4. QED
      BY <2>8, <2>c, <2>e, <3>2, <3>3 DEF Lane!AfterUpdateError
  <2>9. QED
    BY <1>2, <2>1, <2>2, <2>3, <2>4, <2>5, <2>6, <2>7, <2>8 DEF Lane!Step
<1>3. ASSUME NEW h \in Host, Lane!Crash(h)
      PROVE  Lane!TypeOK'
  <2>1. <<>> \in Seq(Publisher)
    BY EmptySeq
  <2>2. pc' \in [Publisher -> {"idle", "queued"} \cup Lane!Working \cup Lane!Finished]
    BY <1>3 DEF Lane!Crash, Lane!TypeOK, Lane!Finished
  <2>3. flying' \subseteq Lane!Request
    BY <1>3 DEF Lane!Crash, Lane!RequestOf, Lane!Request, Lane!TypeOK
  <2>4. QED
    BY <1>3, <2>1, <2>2, <2>3, PublicationAssumption DEF Lane!Crash, Lane!Fault, Lane!TypeOK
<1>4. ASSUME NEW r \in flying, Lane!Arrive(r)
      PROVE  Lane!TypeOK'
  <2>1. r.by \in Publisher /\ MarkerOf[r.by] \in Marker
    BY PublicationAssumption DEF Lane!TypeOK, Lane!Request
  <2>2. comments' \subseteq Lane!Comment /\ nextId' \in Nat \ {0}
    <3>1. CASE \E m \in BOOLEAN : Lane!AddComment(r.by, m)
      BY <2>1, <3>1, AddTypes
    <3>2. CASE Lane!SetMarker(r.by) /\ UNCHANGED nextId
      BY <2>1, <3>2, RewrittenTypes DEF Lane!TypeOK
    <3>3. CASE Lane!Remove(mine[r.by]) /\ UNCHANGED nextId
      BY <3>3 DEF Lane!Remove, Lane!TypeOK
    <3>4. QED
      BY <1>4, <3>1, <3>2, <3>3 DEF Lane!Arrive
  <2>3. QED
    BY <1>4, <2>2 DEF Lane!Arrive, Lane!TypeOK
<1>5. CASE UNCHANGED Lane!vars
  BY <1>5 DEF Lane!vars, Lane!TypeOK
<1>6. QED
  BY <1>1, <1>2, <1>3, <1>4, <1>5 DEF Lane!Next
-----------------------------------------------------------------------------
(* The lane                                                                *)

\* A step of a publication leaves the lane as it is, or leaves it.
LEMMA StepShape ==
  ASSUME NEW p \in Publisher, Lane!Step(p)
  PROVE  /\ Lane!HasTurn(p) \/ pc[p] \in Lane!Working
         /\ \/ \E l \in Lane!Working : Lane!Goto(p, l) /\ lane' = lane
            \/ \E o \in Lane!Finished : Lane!Goto(p, o) /\ lane' = [lane EXCEPT ![HostOf[p]] = Tail(@)]
<1> USE DEF Lane!Working, Lane!Finished, Lane!Finish
<1>1. CASE Lane!ListFails(p)
  BY <1>1 DEF Lane!ListFails
<1>2. CASE Lane!PublishOnce(p)
  BY <1>2 DEF Lane!PublishOnce
<1>3. CASE Lane!Create(p)
  BY <1>3 DEF Lane!Create
<1>4. CASE Lane!AfterCreateError(p)
  BY <1>4 DEF Lane!AfterCreateError
<1>5. CASE Lane!CheckWinner(p)
  BY <1>5 DEF Lane!CheckWinner
<1>6. CASE Lane!DeleteDuplicate(p)
  BY <1>6 DEF Lane!DeleteDuplicate
<1>7. CASE Lane!Update(p)
  BY <1>7 DEF Lane!Update
<1>8. CASE Lane!AfterUpdateError(p)
  BY <1>8 DEF Lane!AfterUpdateError
<1>9. QED
  BY <1>1, <1>2, <1>3, <1>4, <1>5, <1>6, <1>7, <1>8 DEF Lane!Step

\* One publisher of a process works at a time.
LEMMA OneWorks ==
  ASSUME Lane!TypeOK, LaneInv,
         NEW p \in Publisher, NEW q \in Publisher, HostOf[p] = HostOf[q],
         Lane!HasTurn(p) \/ pc[p] \in Lane!Working, Lane!HasTurn(q) \/ pc[q] \in Lane!Working
  PROVE  p = q
  BY InLane

LEMMA LaneStep ==
  ASSUME Lane!TypeOK, LaneInv, [Lane!Next]_Lane!vars
  PROVE  LaneInv'
<1>a. /\ Lane!Working \cap Lane!Finished = {} /\ "queued" \notin Lane!Working \cup Lane!Finished
      /\ "idle" \notin Lane!Working /\ {"crashed", "never"} \subseteq Lane!Finished
  BY DEF Lane!Working, Lane!Finished
<1>b. lane \in [Host -> Seq(Publisher)] /\ HostOf \in [Publisher -> Host]
  BY PublicationAssumption DEF Lane!TypeOK
<1>c. pc \in [Publisher -> {"idle", "queued"} \cup Lane!Working \cup Lane!Finished]
  BY DEF Lane!TypeOK
<1>d. \A h \in Host : \A i \in 1 .. Len(lane[h]) : lane[h][i] \in Publisher
  BY <1>b
<1>1. ASSUME NEW p \in Publisher, Lane!Enter(p)
      PROVE  LaneInv'
  <2> DEFINE h == HostOf[p]
  <2>1. pc[p] = "idle" /\ h \in Host /\ lane[h] \in Seq(Publisher)
    BY <1>1, <1>b DEF Lane!Enter
  <2>2. \A k \in Host : \A i \in 1 .. Len(lane[k]) : lane[k][i] # p
    BY <1>a, <2>1 DEF LaneInv, Orderly
  <2>3. CASE lane' = lane /\ \E o \in Lane!Finished : Lane!Goto(p, o)
    <3>1. pc'[p] \in Lane!Finished /\ \A q \in Publisher : q # p => pc'[q] = pc[q]
      BY <2>3, <1>c DEF Lane!Goto
    <3>2. ASSUME NEW k \in Host
          PROVE  Orderly(k)'
      BY <1>d, <2>2, <2>3, <3>1 DEF LaneInv, Orderly
    <3>3. ASSUME NEW q \in Publisher
          PROVE  HasPlace(q)'
      BY <1>a, <2>3, <3>1 DEF LaneInv, HasPlace
    <3>4. QED
      BY <3>2, <3>3 DEF LaneInv
  <2>4. CASE Lane!Goto(p, "queued") /\ lane' = [lane EXCEPT ![h] = Append(@, p)]
    <3>1. /\ lane'[h] = Append(lane[h], p)
          /\ \A k \in Host : k # h => lane'[k] = lane[k]
      BY <2>4, <2>1, <1>b
    <3>2. pc'[p] = "queued" /\ \A q \in Publisher : q # p => pc'[q] = pc[q]
      BY <2>4, <1>c DEF Lane!Goto
    <3>3. /\ Len(lane'[h]) = Len(lane[h]) + 1
          /\ lane'[h][Len(lane[h]) + 1] = p
          /\ \A i \in 1 .. Len(lane[h]) : lane'[h][i] = lane[h][i]
          /\ Len(lane[h]) \in Nat
      BY <2>1, <3>1, AppendProperties
    <3>4. ASSUME NEW k \in Host, k # h
          PROVE  Orderly(k)'
      BY <1>d, <2>2, <3>1, <3>2, <3>4 DEF LaneInv, Orderly
    <3>5. Orderly(h)'
      <4>1. ASSUME NEW i \in 1 .. Len(lane'[h])
            PROVE  /\ HostOf[lane'[h][i]] = h
                   /\ pc'[lane'[h][i]] \in {"queued"} \cup Lane!Working
                   /\ i > 1 => pc'[lane'[h][i]] = "queued"
                   /\ \A j \in 1 .. Len(lane'[h]) : lane'[h][i] = lane'[h][j] => i = j
        <5>1. CASE i \in 1 .. Len(lane[h])
          <6>1. /\ HostOf[lane[h][i]] = h
                /\ pc[lane[h][i]] \in {"queued"} \cup Lane!Working
                /\ i > 1 => pc[lane[h][i]] = "queued"
                /\ \A j \in 1 .. Len(lane[h]) : lane[h][i] = lane[h][j] => i = j
            BY <2>1, <5>1 DEF LaneInv, Orderly
          <6>2. lane'[h][i] = lane[h][i] /\ lane[h][i] \in Publisher /\ lane[h][i] # p
            BY <1>d, <2>1, <2>2, <3>3, <5>1
          <6>3. \A j \in 1 .. Len(lane'[h]) :
                  \/ j \in 1 .. Len(lane[h]) /\ lane'[h][j] = lane[h][j]
                  \/ lane'[h][j] = p
            BY <3>3
          <6>4. QED
            BY <3>2, <6>1, <6>2, <6>3
        <5>2. CASE i = Len(lane[h]) + 1
          <6>1. lane'[h][i] = p /\ HostOf[p] = h /\ pc'[p] = "queued"
            BY <3>2, <3>3, <5>2
          <6>2. \A j \in 1 .. Len(lane[h]) : lane'[h][j] # p
            BY <2>1, <2>2, <3>3
          <6>3. \A j \in 1 .. Len(lane'[h]) : j \in 1 .. Len(lane[h]) \/ j = i
            BY <3>3, <5>2
          <6>4. QED
            BY <6>1, <6>2, <6>3
        <5>3. QED
          BY <3>3, <4>1, <5>1, <5>2
      <4>2. QED
        BY <4>1 DEF Orderly
    <3>6. ASSUME NEW q \in Publisher
          PROVE  HasPlace(q)'
      <4>1. CASE q = p
        BY <1>a, <3>2, <3>3, <4>1 DEF HasPlace
      <4>2. CASE q # p /\ HostOf[q] # h
        BY <1>b, <3>1, <3>2, <4>2 DEF LaneInv, HasPlace
      <4>3. CASE q # p /\ HostOf[q] = h
        <5>1. lane[h] # <<>> => Head(lane'[h]) = Head(lane[h])
          BY <2>1, <3>1, <3>3
        <5>2. pc'[q] = pc[q] /\ HasPlace(q)
          BY <3>2, <4>3 DEF LaneInv
        <5>3. CASE pc[q] \in {"queued"} \cup Lane!Working
          <6>1. PICK i \in 1 .. Len(lane[h]) : lane[h][i] = q
            BY <4>3, <5>2, <5>3 DEF HasPlace
          <6>2. i \in 1 .. Len(lane'[h]) /\ lane'[h][i] = q
            BY <3>3, <6>1
          <6>3. lane[h] # <<>>
            BY <2>1, <6>1
          <6>4. pc[q] \in Lane!Working => Head(lane'[h]) = q
            BY <4>3, <5>1, <5>2, <6>3 DEF HasPlace
          <6>5. QED
            BY <4>3, <5>2, <6>2, <6>4 DEF HasPlace
        <5>4. CASE pc[q] \notin {"queued"} \cup Lane!Working
          BY <5>2, <5>4 DEF HasPlace
        <5>5. QED
          BY <5>3, <5>4
      <4>4. QED
        BY <4>1, <4>2, <4>3
    <3>7. QED
      BY <3>4, <3>5, <3>6 DEF LaneInv
  <2>5. QED
    BY <1>1, <2>3, <2>4 DEF Lane!Enter, Lane!Finished
<1>2. ASSUME NEW p \in Publisher, Lane!Step(p)
      PROVE  LaneInv'
  <2> DEFINE h == HostOf[p]
  <2>1. /\ h \in Host /\ lane[h] \in Seq(Publisher) /\ lane[h] # <<>> /\ lane[h][1] = p
    BY <1>2, StepShape, InLane
  <2>2. \A k \in Host : k # h => \A i \in 1 .. Len(lane[k]) : lane[k][i] # p
    BY DEF LaneInv, Orderly
  <2>3. CASE \E l \in Lane!Working : Lane!Goto(p, l) /\ lane' = lane
    <3>1. pc'[p] \in Lane!Working /\ \A q \in Publisher : q # p => pc'[q] = pc[q]
      BY <2>3, <1>c DEF Lane!Goto
    <3>2. ASSUME NEW k \in Host
          PROVE  Orderly(k)'
      BY <1>d, <2>1, <2>2, <2>3, <3>1 DEF LaneInv, Orderly
    <3>3. ASSUME NEW q \in Publisher
          PROVE  HasPlace(q)'
      BY <1>a, <2>1, <2>3, <3>1 DEF LaneInv, HasPlace
    <3>4. QED
      BY <3>2, <3>3 DEF LaneInv
  <2>4. CASE \E o \in Lane!Finished : Lane!Goto(p, o) /\ lane' = [lane EXCEPT ![h] = Tail(@)]
    <3>1. pc'[p] \in Lane!Finished /\ \A q \in Publisher : q # p => pc'[q] = pc[q]
      BY <2>4, <1>c DEF Lane!Goto
    <3>2. /\ lane'[h] = Tail(lane[h])
          /\ \A k \in Host : k # h => lane'[k] = lane[k]
      BY <2>4, <2>1, <1>b
    <3>3. /\ Len(lane[h]) \in Nat \ {0} /\ Len(lane'[h]) = Len(lane[h]) - 1
          /\ \A i \in 1 .. Len(lane'[h]) : lane'[h][i] = lane[h][i + 1]
      BY <2>1, <3>2
    <3>4. ASSUME NEW k \in Host, k # h
          PROVE  Orderly(k)'
      BY <1>d, <2>2, <3>1, <3>2, <3>4 DEF LaneInv, Orderly
    <3>5. Orderly(h)'
      <4>1. \A i \in 1 .. Len(lane'[h]) : i + 1 \in 1 .. Len(lane[h]) /\ i + 1 > 1
        BY <3>3
      <4>2. \A i \in 1 .. Len(lane'[h]) : lane'[h][i] # p /\ lane'[h][i] \in Publisher
        BY <1>d, <2>1, <3>3, <4>1 DEF LaneInv, Orderly
      <4>3. ASSUME NEW i \in 1 .. Len(lane'[h]), NEW j \in 1 .. Len(lane'[h]),
                   lane'[h][i] = lane'[h][j]
            PROVE  i = j
        <5>1. Orderly(h)
          BY <2>1 DEF LaneInv
        <5>2. i + 1 \in 1 .. Len(lane[h]) /\ j + 1 \in 1 .. Len(lane[h])
          BY <4>1
        <5>3. lane[h][i + 1] = lane[h][j + 1]
          BY <3>3, <4>3
        <5>4. i + 1 = j + 1
          BY <5>1, <5>2, <5>3 DEF Orderly
        <5>5. i \in Int /\ j \in Int
          OBVIOUS
        <5>6. QED
          BY <5>4, <5>5
      <4>4. ASSUME NEW i \in 1 .. Len(lane'[h])
            PROVE  HostOf[lane'[h][i]] = h /\ pc'[lane'[h][i]] = "queued"
        <5>1. HostOf[lane[h][i + 1]] = h /\ pc[lane[h][i + 1]] = "queued"
          BY <2>1, <4>1 DEF LaneInv, Orderly
        <5>2. QED
          BY <3>1, <3>3, <4>2, <5>1
      <4>5. QED
        BY <4>3, <4>4 DEF Orderly
    <3>6. ASSUME NEW q \in Publisher
          PROVE  HasPlace(q)'
      <4>1. CASE q = p
        BY <1>a, <3>1, <4>1 DEF HasPlace
      <4>2. CASE q # p /\ HostOf[q] # h
        BY <1>b, <3>1, <3>2, <4>2 DEF LaneInv, HasPlace
      <4>3. CASE q # p /\ HostOf[q] = h
        <5>1. pc'[q] \notin Lane!Working
          BY <2>1, <3>1, <4>3 DEF LaneInv, HasPlace
        <5>2. ASSUME pc'[q] = "queued"
              PROVE  \E i \in 1 .. Len(lane'[h]) : lane'[h][i] = q
          <6>1. PICK i \in 1 .. Len(lane[h]) : lane[h][i] = q
            BY <3>1, <4>3, <5>2 DEF LaneInv, HasPlace
          <6>2. i # 1
            BY <2>1, <4>3, <6>1
          <6>3. i - 1 \in 1 .. Len(lane'[h]) /\ lane'[h][i - 1] = q
            BY <3>3, <6>1, <6>2
          <6>4. QED
            BY <6>3
        <5>3. QED
          BY <4>3, <5>1, <5>2 DEF HasPlace
      <4>4. QED
        BY <4>1, <4>2, <4>3
    <3>7. QED
      BY <3>4, <3>5, <3>6 DEF LaneInv
  <2>5. QED
    BY <1>2, <2>3, <2>4, StepShape
<1>3. ASSUME NEW h \in Host, Lane!Crash(h)
      PROVE  LaneInv'
  <2>1. lane'[h] = <<>> /\ \A k \in Host : k # h => lane'[k] = lane[k]
    BY <1>3, <1>b DEF Lane!Crash
  <2>2. \A q \in Publisher : /\ HostOf[q] # h => pc'[q] = pc[q]
                             /\ HostOf[q] = h => pc'[q] \in Lane!Finished
    BY <1>3, <1>a DEF Lane!Crash
  <2>3. ASSUME NEW k \in Host
        PROVE  Orderly(k)'
    BY <1>d, <2>1, <2>2 DEF LaneInv, Orderly
  <2>4. ASSUME NEW q \in Publisher
        PROVE  HasPlace(q)'
    BY <1>a, <1>b, <2>1, <2>2 DEF LaneInv, HasPlace
  <2>5. QED
    BY <2>3, <2>4 DEF LaneInv
<1>4. CASE UNCHANGED <<lane, pc>>
  BY <1>4 DEF LaneInv, Orderly, HasPlace
<1>5. QED
  BY <1>1, <1>2, <1>3, <1>4 DEF Lane!Next, Lane!Arrive, Lane!vars
-----------------------------------------------------------------------------
(* The comments                                                            *)

\* What a step of one publication may touch, and what it sends that is not answered.
LEMMA StepEffects ==
  ASSUME Lane!TypeOK, NEW p \in Publisher, Lane!Step(p)
  PROVE  /\ pc[p] \in {"queued"} \cup Lane!Working
         /\ pc'[p] \in Lane!Working \cup {"created", "updated", "reused", "failed"}
         /\ \A q \in Publisher : q # p =>
              /\ pc'[q] = pc[q] /\ mine'[q] = mine[q]
              /\ target'[q] = target[q] /\ attempt'[q] = attempt[q]
         /\ \/ flying' = flying
            \/ /\ flying' = flying \cup {Lane!RequestOf(p)}
               /\ comments' = comments /\ mine' = mine /\ Lane!Fault
               /\ \/ pc[p] = "create" /\ pc'[p] = "recheck" /\ attempt' = attempt
                  \/ pc[p] = "delete" /\ pc'[p] = "failed"
                  \/ pc[p] = "update" /\ pc'[p] = "reupdate"
         /\ mine' = mine \/ mine'[p] = nextId \/ (comments # {} /\ mine'[p] = Lane!Oldest(comments).id)
<1> USE DEF Lane!TypeOK, Lane!Goto, Lane!Finish, Lane!Working
<1>1. CASE Lane!ListFails(p)
  BY <1>1 DEF Lane!ListFails, Lane!HasTurn
<1>2. CASE Lane!PublishOnce(p)
  BY <1>2 DEF Lane!PublishOnce, Lane!HasTurn
<1>3. CASE Lane!Create(p)
  BY <1>3 DEF Lane!Create, Lane!Unanswered
<1>4. CASE Lane!AfterCreateError(p)
  BY <1>4 DEF Lane!AfterCreateError
<1>5. CASE Lane!CheckWinner(p)
  BY <1>5 DEF Lane!CheckWinner
<1>6. CASE Lane!DeleteDuplicate(p)
  BY <1>6 DEF Lane!DeleteDuplicate, Lane!Unanswered
<1>7. CASE Lane!Update(p)
  BY <1>7 DEF Lane!Update, Lane!Unanswered
<1>8. CASE Lane!AfterUpdateError(p)
  BY <1>8 DEF Lane!AfterUpdateError
<1>9. QED
  BY <1>1, <1>2, <1>3, <1>4, <1>5, <1>6, <1>7, <1>8 DEF Lane!Step

\* What a step of one publication does with the comments of the change.
LEMMA CommentShape ==
  ASSUME NEW p \in Publisher, Lane!Step(p)
  PROVE  \/ UNCHANGED <<comments, nextId>>
         \/ Lane!Create(p) /\ Lane!AddComment(p, FALSE) /\ UNCHANGED flying
         \/ Lane!AfterCreateError(p) /\ Lane!MissOwn(p) /\ UNCHANGED <<nextId, mine, flying>>
         \/ Lane!DeleteDuplicate(p) /\ Lane!Remove(mine[p]) /\ UNCHANGED <<nextId, mine, flying>>
         \/ Lane!Update(p) /\ Lane!SetMarker(p) /\ UNCHANGED <<nextId, mine, flying>>
<1>1. CASE Lane!ListFails(p)
  BY <1>1 DEF Lane!ListFails
<1>2. CASE Lane!PublishOnce(p)
  BY <1>2 DEF Lane!PublishOnce
<1>3. CASE Lane!Create(p)
  BY <1>3 DEF Lane!Create
<1>4. CASE Lane!AfterCreateError(p)
  BY <1>4 DEF Lane!AfterCreateError
<1>5. CASE Lane!CheckWinner(p)
  BY <1>5 DEF Lane!CheckWinner
<1>6. CASE Lane!DeleteDuplicate(p)
  BY <1>6 DEF Lane!DeleteDuplicate
<1>7. CASE Lane!Update(p)
  BY <1>7 DEF Lane!Update
<1>8. CASE Lane!AfterUpdateError(p)
  BY <1>8 DEF Lane!AfterUpdateError
<1>9. QED
  BY <1>1, <1>2, <1>3, <1>4, <1>5, <1>6, <1>7, <1>8 DEF Lane!Step

\* Each comment after c is one before c with its id, its creator, and its miss.
Same(c, d) == c.id = d.id /\ c.by = d.by /\ (d.missed => c.missed)

LEMMA Rewritten ==
  ASSUME Lane!TypeOK, NEW p \in Publisher, Lane!SetMarker(p) \/ Lane!MissOwn(p)
  PROVE  /\ \A c \in comments' : \E d \in comments : Same(c, d)
         /\ \A d \in comments : \E c \in comments' : Same(c, d)
<1>1. CASE Lane!SetMarker(p)
  <2>1. ASSUME NEW d \in comments
        PROVE  Same(IF d.id = mine[p] THEN [d EXCEPT !.mark = MarkerOf[p]] ELSE d, d)
    BY DEF Same, Lane!TypeOK, Lane!Comment
  <2>2. QED
    BY <1>1, <2>1 DEF Lane!SetMarker
<1>2. CASE Lane!MissOwn(p)
  <2>1. ASSUME NEW d \in comments
        PROVE  Same(IF d.by = p THEN [d EXCEPT !.missed = TRUE] ELSE d, d)
    BY DEF Same, Lane!TypeOK, Lane!Comment
  <2>2. QED
    BY <1>2, <2>1 DEF Lane!MissOwn
<1>3. QED
  BY <1>1, <1>2

\* What is rewritten is so by a function of the comment.
LEMMA RewrittenOnce ==
  ASSUME Lane!TypeOK, IdInv, NEW p \in Publisher, Lane!SetMarker(p) \/ Lane!MissOwn(p)
  PROVE  \A c, d \in comments' : c.id = d.id => c = d
<1>1. CASE Lane!SetMarker(p)
  <2>1. \A c \in comments' : \E e \in comments :
          c = (IF e.id = mine[p] THEN [e EXCEPT !.mark = MarkerOf[p]] ELSE e) /\ c.id = e.id
    BY <1>1 DEF Lane!SetMarker, Lane!TypeOK, Lane!Comment
  <2>2. ASSUME NEW c \in comments', NEW d \in comments', c.id = d.id
        PROVE  c = d
    <3>1. PICK e \in comments :
            c = (IF e.id = mine[p] THEN [e EXCEPT !.mark = MarkerOf[p]] ELSE e) /\ c.id = e.id
      BY <2>1
    <3>2. PICK f \in comments :
            d = (IF f.id = mine[p] THEN [f EXCEPT !.mark = MarkerOf[p]] ELSE f) /\ d.id = f.id
      BY <2>1
    <3>3. e = f
      BY <2>2, <3>1, <3>2 DEF IdInv
    <3>4. QED
      BY <3>1, <3>2, <3>3
  <2>3. QED
    BY <2>2
<1>2. CASE Lane!MissOwn(p)
  <2>1. \A c \in comments' : \E e \in comments :
          c = (IF e.by = p THEN [e EXCEPT !.missed = TRUE] ELSE e) /\ c.id = e.id
    BY <1>2 DEF Lane!MissOwn, Lane!TypeOK, Lane!Comment
  <2>2. ASSUME NEW c \in comments', NEW d \in comments', c.id = d.id
        PROVE  c = d
    <3>1. PICK e \in comments :
            c = (IF e.by = p THEN [e EXCEPT !.missed = TRUE] ELSE e) /\ c.id = e.id
      BY <2>1
    <3>2. PICK f \in comments :
            d = (IF f.by = p THEN [f EXCEPT !.missed = TRUE] ELSE f) /\ d.id = f.id
      BY <2>1
    <3>3. e = f
      BY <2>2, <3>1, <3>2 DEF IdInv
    <3>4. QED
      BY <3>1, <3>2, <3>3
  <2>3. QED
    BY <2>2
<1>3. QED
  BY <1>1, <1>2

\* The comments after any step: those before it, or less one that is deleted, or rewritten, or
\* with a new one.
LEMMA AnyShape ==
  ASSUME Lane!TypeOK, [Lane!Next]_Lane!vars
  PROVE  \/ UNCHANGED <<comments, nextId>>
         \/ \E p \in Publisher, m \in BOOLEAN : Lane!AddComment(p, m)
         \/ \E p \in Publisher : (Lane!SetMarker(p) \/ Lane!MissOwn(p)) /\ UNCHANGED nextId
         \/ \E id \in Nat : Lane!Remove(id) /\ UNCHANGED nextId
<1>1. ASSUME NEW p \in Publisher, Lane!Step(p)
      PROVE  \/ UNCHANGED <<comments, nextId>>
             \/ Lane!AddComment(p, FALSE)
             \/ (Lane!SetMarker(p) \/ Lane!MissOwn(p)) /\ UNCHANGED nextId
             \/ \E id \in Nat : Lane!Remove(id) /\ UNCHANGED nextId
  BY <1>1, CommentShape DEF Lane!TypeOK
<1>2. ASSUME NEW r \in flying, Lane!Arrive(r)
      PROVE  \E p \in Publisher :
               \/ \E m \in BOOLEAN : Lane!AddComment(p, m)
               \/ Lane!SetMarker(p) /\ UNCHANGED nextId
               \/ \E id \in Nat : Lane!Remove(id) /\ UNCHANGED nextId
  <2>1. r.by \in Publisher /\ mine[r.by] \in Nat
    BY DEF Lane!TypeOK, Lane!Request
  <2>2. QED
    BY <1>2, <2>1 DEF Lane!Arrive
<1>3. CASE \/ \E p \in Publisher : Lane!Enter(p)
           \/ \E h \in Host : Lane!Crash(h)
           \/ UNCHANGED Lane!vars
  BY <1>3 DEF Lane!Enter, Lane!Crash, Lane!vars
<1>4. QED
  BY <1>1, <1>2, <1>3 DEF Lane!Next

LEMMA IdStep ==
  ASSUME Lane!TypeOK, IdInv, [Lane!Next]_Lane!vars
  PROVE  IdInv'
<1>a. \A c \in comments : c.id \in Nat
  BY DEF Lane!TypeOK, Lane!Comment
<1>b. nextId \in Nat /\ mine \in [Publisher -> Nat]
  BY DEF Lane!TypeOK
<1>1. (\A c \in comments' : c.id < nextId') /\ (\A c, d \in comments' : c.id = d.id => c = d)
  <2>1. CASE UNCHANGED <<comments, nextId>>
    BY <2>1 DEF IdInv
  <2>2. ASSUME NEW p \in Publisher, NEW m \in BOOLEAN, Lane!AddComment(p, m)
        PROVE  (\A c \in comments' : c.id < nextId') /\ (\A c, d \in comments' : c.id = d.id => c = d)
    BY <1>a, <1>b, <2>2 DEF IdInv, Lane!AddComment
  <2>3. ASSUME NEW p \in Publisher, Lane!SetMarker(p) \/ Lane!MissOwn(p), UNCHANGED nextId
        PROVE  (\A c \in comments' : c.id < nextId') /\ (\A c, d \in comments' : c.id = d.id => c = d)
    BY <2>3, Rewritten, RewrittenOnce DEF IdInv, Same
  <2>4. CASE \E id \in Nat : Lane!Remove(id) /\ UNCHANGED nextId
    BY <2>4 DEF IdInv, Lane!Remove
  <2>5. QED
    BY <2>1, <2>2, <2>3, <2>4, AnyShape
<1>2. nextId' \in Nat /\ nextId <= nextId'
  BY <1>b, AnyShape DEF Lane!AddComment
<1>3. \A p \in Publisher : mine'[p] < nextId'
  <2>1. ASSUME NEW p \in Publisher, Lane!Step(p), NEW q \in Publisher
        PROVE  mine'[q] < nextId'
    <3>1. CASE mine' = mine
      BY <1>b, <1>2, <3>1 DEF IdInv
    <3>2. CASE q # p
      BY <1>b, <1>2, <2>1, <3>2, StepEffects DEF IdInv
    <3>3. CASE q = p /\ Lane!Create(p) /\ mine' # mine
      BY <1>b, <3>3 DEF Lane!Create, Lane!AddComment
    <3>4. CASE q = p /\ Lane!PublishOnce(p) /\ mine' # mine
      <4>1. comments # {} /\ mine'[p] = Lane!Oldest(comments).id
        BY <1>b, <3>4 DEF Lane!PublishOnce
      <4>2. QED
        BY <1>a, <1>b, <1>2, <3>4, <4>1, OldestTypes DEF IdInv
    <3>5. QED
      BY <2>1, <3>1, <3>2, <3>3, <3>4 DEF Lane!Step, Lane!ListFails, Lane!AfterCreateError,
        Lane!CheckWinner, Lane!DeleteDuplicate, Lane!Update, Lane!AfterUpdateError
  <2>2. CASE mine' = mine
    BY <1>b, <1>2, <2>2 DEF IdInv
  <2>3. QED
    BY <2>1, <2>2 DEF Lane!Next, Lane!Enter, Lane!Crash, Lane!Arrive, Lane!vars
<1>4. QED
  BY <1>1, <1>3 DEF IdInv
-----------------------------------------------------------------------------
(* Who has begun                                                           *)

LEMMA BegunGrows ==
  ASSUME Lane!TypeOK, [Lane!Next]_Lane!vars
  PROVE  Lane!Begun \subseteq Lane!Begun'
<1> USE DEF Lane!Begun
<1>1. ASSUME NEW p \in Publisher, Lane!Step(p)
      PROVE  Lane!Begun \subseteq Lane!Begun'
  BY <1>1, StepEffects DEF Lane!Working
<1>2. ASSUME NEW p \in Publisher, Lane!Enter(p)
      PROVE  Lane!Begun \subseteq Lane!Begun'
  BY <1>2 DEF Lane!Enter, Lane!Goto, Lane!TypeOK
<1>3. ASSUME NEW h \in Host, Lane!Crash(h)
      PROVE  Lane!Begun \subseteq Lane!Begun'
  BY <1>3 DEF Lane!Crash
<1>4. CASE pc' = pc
  BY <1>4
<1>5. QED
  BY <1>1, <1>2, <1>3, <1>4 DEF Lane!Next, Lane!Arrive, Lane!vars

LEMMA BegunStep ==
  ASSUME Lane!TypeOK, BegunInv, [Lane!Next]_Lane!vars
  PROVE  BegunInv'
<1>a. \A r \in flying : r.by \in Publisher
  BY DEF Lane!TypeOK, Lane!Request
<1>b. /\ \A c \in comments : c.by \in Publisher => c.by \in Lane!Begun'
      /\ \A r \in flying : r.by \in Lane!Begun'
  BY BegunGrows DEF BegunInv
<1>1. ASSUME NEW p \in Publisher, Lane!Step(p)
      PROVE  BegunInv'
  <2>1. p \in Lane!Begun'
    BY <1>1, StepEffects DEF Lane!Begun, Lane!Working
  <2>2. \A r \in flying' : r.by \in Lane!Begun'
    BY <1>1, <1>b, <2>1, StepEffects DEF Lane!RequestOf
  <2>3. \A c \in comments' : c.by \in Publisher => c.by \in Lane!Begun'
    <3>1. CASE comments' = comments
      BY <1>b, <3>1
    <3>2. CASE Lane!AddComment(p, FALSE)
      BY <1>b, <2>1, <3>2 DEF Lane!AddComment
    <3>3. CASE Lane!SetMarker(p) \/ Lane!MissOwn(p)
      BY <1>b, <3>3, Rewritten DEF Same
    <3>4. CASE Lane!Remove(mine[p])
      BY <1>b, <3>4 DEF Lane!Remove
    <3>5. QED
      BY <1>1, <3>1, <3>2, <3>3, <3>4, CommentShape
  <2>4. QED
    BY <2>2, <2>3 DEF BegunInv
<1>2. ASSUME NEW r \in flying, Lane!Arrive(r)
      PROVE  BegunInv'
  <2>1. r.by \in Publisher /\ r.by \in Lane!Begun'
    BY <1>a, <1>b
  <2>2. CASE \E m \in BOOLEAN : Lane!AddComment(r.by, m)
    BY <1>2, <1>b, <2>1, <2>2 DEF Lane!AddComment, Lane!Arrive, BegunInv
  <2>3. CASE Lane!SetMarker(r.by)
    BY <1>2, <1>b, <2>1, <2>3, Rewritten DEF Same, Lane!Arrive, BegunInv
  <2>4. CASE Lane!Remove(mine[r.by])
    BY <1>2, <1>b, <2>4 DEF Lane!Remove, Lane!Arrive, BegunInv
  <2>5. QED
    BY <1>2, <2>2, <2>3, <2>4 DEF Lane!Arrive
<1>3. ASSUME NEW h \in Host, Lane!Crash(h)
      PROVE  BegunInv'
  <2>1. \A q \in Publisher : pc[q] \in {"create", "update", "delete"} => q \in Lane!Begun'
    BY BegunGrows DEF Lane!Begun
  <2>2. \A r \in flying' : r.by \in Lane!Begun'
    BY <1>3, <1>b, <2>1 DEF Lane!Crash, Lane!RequestOf
  <2>3. QED
    BY <1>3, <1>b, <2>2 DEF Lane!Crash, BegunInv
<1>4. CASE UNCHANGED <<comments, flying>>
  BY <1>4, <1>b DEF BegunInv
<1>5. QED
  BY <1>1, <1>2, <1>3, <1>4 DEF Lane!Next, Lane!Enter, Lane!vars
-----------------------------------------------------------------------------
(* One comment of a process                                                *)

LEMMA SearchStep ==
  ASSUME Lane!TypeOK, LaneInv, IdInv, BegunInv, SearchInv, [Lane!Next]_Lane!vars
  PROVE  SearchInv'
<1> DEFINE Whose(c, q) == c.by # OldMarker /\ HostOf[c.by] = HostOf[q] /\ ~c.missed
           Asked(q) == [kind |-> "create", by |-> q, attempt |-> attempt[q]]
<1>a. \A c \in comments : c.by \in Publisher \cup {OldMarker} /\ c.missed \in BOOLEAN
  BY DEF Lane!TypeOK, Lane!Comment
<1>b. \A q \in Publisher : Searching(q)
  BY DEF SearchInv
<1>c. \A c, d \in comments :
        c.by # OldMarker /\ ~c.missed /\ d.by # OldMarker /\ ~d.missed /\ HostOf[c.by] = HostOf[d.by]
          => c = d
  BY DEF SearchInv, OneCommentPerProcess, Lane!OneCommentPerProcess
<1>d. ASSUME \A c, d \in comments' :
               c.by # OldMarker /\ ~c.missed /\ d.by # OldMarker /\ ~d.missed
                 /\ HostOf[c.by] = HostOf[d.by] => c = d
      PROVE  OneCommentPerProcess'
  BY <1>d DEF OneCommentPerProcess, Lane!OneCommentPerProcess
<1>e. OldMarker \notin Publisher
  BY PublicationAssumption
\* Nothing is new, and what was missed is missed.
<1>f. ASSUME \A c \in comments' : \E d \in comments : Same(c, d),
             \A c, d \in comments' : c.id = d.id => c = d
      PROVE  OneCommentPerProcess'
  <2>1. ASSUME NEW c \in comments', NEW d \in comments',
               c.by # OldMarker, ~c.missed, d.by # OldMarker, ~d.missed, HostOf[c.by] = HostOf[d.by]
        PROVE  c = d
    <3>1. PICK x \in comments : Same(c, x)
      BY <1>f
    <3>2. PICK y \in comments : Same(d, y)
      BY <1>f
    <3>3. x = y
      BY <1>c, <2>1, <3>1, <3>2 DEF Same
    <3>4. QED
      BY <1>f, <3>1, <3>2, <3>3 DEF Same
  <2>2. QED
    BY <1>d, <2>1
<1>g. ASSUME NEW q \in Publisher, pc'[q] = pc[q], attempt'[q] = attempt[q],
             \A c \in comments' : \E d \in comments : Same(c, d),
             Asked(q) \in flying' => Asked(q) \in flying
      PROVE  Searching(q)'
  BY <1>b, <1>g DEF Searching, Same
<1>1. ASSUME NEW p \in Publisher, Lane!Step(p)
      PROVE  SearchInv'
  <2>a. \A q \in Publisher : q # p => pc'[q] = pc[q] /\ attempt'[q] = attempt[q]
    BY <1>1, StepEffects
  <2>b. \A q \in Publisher : q # p /\ Asked(q) \in flying' => Asked(q) \in flying
    <3>1. Lane!RequestOf(p).by = p /\ \A q \in Publisher : Asked(q).by = q
      BY DEF Lane!RequestOf
    <3>2. QED
      BY <1>1, <3>1, StepEffects
  <2>1. CASE /\ \A c \in comments' : \E d \in comments : Same(c, d)
             /\ \A c, d \in comments' : c.id = d.id => c = d
             /\ pc'[p] \notin {"create", "recheck"}
    <3>1. \A q \in Publisher : Searching(q)'
      BY <1>g, <2>a, <2>b, <2>1 DEF Searching
    <3>2. QED
      BY <1>f, <2>1, <3>1 DEF SearchInv
  <2>2. CASE Lane!Create(p) /\ Lane!AddComment(p, FALSE)
    <3> DEFINE new == [id |-> nextId, mark |-> MarkerOf[p], by |-> p, missed |-> FALSE]
    <3>1. comments' = comments \cup {new} /\ pc[p] = "create" /\ pc'[p] # "create" /\ new.by = p
      BY <2>2 DEF Lane!AddComment, Lane!Create, Lane!Goto, Lane!TypeOK
    <3>2. \A c \in comments : ~Whose(c, p)
      BY <1>b, <3>1 DEF Searching
    <3>3. OneCommentPerProcess'
      BY <1>c, <1>d, <3>1, <3>2
    <3>4. pc'[p] # "recheck"
      <4>1. new \notin comments
        <5>1. new.id = nextId /\ nextId \in Nat
          BY DEF Lane!TypeOK
        <5>2. \A c \in comments : c.id # nextId
          BY <5>1 DEF IdInv, Lane!TypeOK, Lane!Comment
        <5>3. QED
          BY <5>1, <5>2
      <4>2. comments' # comments
        BY <3>1, <4>1
      <4>3. QED
        BY <2>2, <4>2 DEF Lane!Create, Lane!Goto, Lane!TypeOK
    <3>5. ASSUME NEW q \in Publisher
          PROVE  Searching(q)'
      <4>1. CASE q = p
        BY <3>1, <3>4, <4>1 DEF Searching
      <4>2. CASE q # p /\ HostOf[q] = HostOf[p]
        <5>1. pc[q] \notin Lane!Working
          BY <3>1, <4>2, OneWorks DEF Lane!Working
        <5>2. QED
          BY <2>a, <4>2, <5>1 DEF Searching, Lane!Working
      <4>3. CASE q # p /\ HostOf[q] # HostOf[p]
        BY <1>b, <2>a, <2>b, <3>1, <4>3 DEF Searching
      <4>4. QED
        BY <4>1, <4>2, <4>3
    <3>6. QED
      BY <3>3, <3>5 DEF SearchInv
  <2>3. CASE Lane!Create(p) /\ comments' = comments
    <3>1. pc[p] = "create" /\ \A c \in comments : ~Whose(c, p)
      BY <1>b, <2>3 DEF Searching, Lane!Create
    <3>2. \A q \in Publisher : q # p => Searching(q)'
      BY <1>b, <2>a, <2>b, <2>3 DEF Searching
    <3>3. Searching(p)'
      BY <2>3, <3>1 DEF Searching
    <3>4. QED
      BY <1>c, <1>d, <2>3, <3>2, <3>3 DEF SearchInv
  <2>4. CASE Lane!AfterCreateError(p) /\ Lane!MissOwn(p)
    <3>1. /\ \A c \in comments' : \E d \in comments : Same(c, d)
          /\ \A c, d \in comments' : c.id = d.id => c = d
      BY <2>4, Rewritten, RewrittenOnce
    <3>2. pc[p] = "recheck" /\ pc'[p] # "recheck"
      BY <2>4 DEF Lane!AfterCreateError, Lane!Goto, Lane!Finish, Lane!TypeOK
    <3>3. ASSUME NEW c \in comments', Whose(c, p)
          PROVE  FALSE
      <4>1. PICK d \in comments : c = IF d.by = p THEN [d EXCEPT !.missed = TRUE] ELSE d
        BY <2>4, <3>3 DEF Lane!MissOwn
      <4>2. CASE d.by = p
        BY <3>3, <4>1, <4>2 DEF Lane!TypeOK, Lane!Comment
      <4>3. CASE d.by # p
        BY <1>b, <3>2, <3>3, <4>1, <4>3 DEF Searching
      <4>4. QED
        BY <4>2, <4>3
    <3>4. Searching(p)'
      BY <3>3 DEF Searching
    <3>5. \A q \in Publisher : q # p => Searching(q)'
      BY <1>g, <2>a, <2>b, <3>1
    <3>6. QED
      BY <1>f, <3>1, <3>4, <3>5 DEF SearchInv
  <2>5. CASE Lane!PublishOnce(p) /\ pc'[p] = "create"
    <3>1. comments' = comments /\ comments = {}
      BY <2>5 DEF Lane!PublishOnce, Lane!Goto, Lane!Finish, Lane!TypeOK
    <3>2. QED
      BY <1>d, <3>1 DEF SearchInv, Searching
  <2>6. QED
    <3>1. \A c, d \in comments : c.id = d.id => c = d
      BY DEF IdInv
    <3>2. \A c \in comments : Same(c, c)
      BY DEF Same
    <3>3. CASE UNCHANGED <<comments, nextId>>
      <4>1. \/ pc'[p] \notin {"create", "recheck"}
            \/ Lane!Create(p)
            \/ Lane!AfterCreateError(p) /\ Lane!MissOwn(p)
            \/ Lane!PublishOnce(p) /\ pc'[p] = "create"
        BY <1>1 DEF Lane!Step, Lane!ListFails, Lane!PublishOnce, Lane!AfterCreateError,
          Lane!CheckWinner, Lane!DeleteDuplicate, Lane!Update, Lane!AfterUpdateError,
          Lane!Goto, Lane!Finish, Lane!TypeOK
      <4>2. QED
        BY <2>1, <2>3, <2>4, <2>5, <3>1, <3>2, <3>3, <4>1
    <3>4. CASE Lane!DeleteDuplicate(p) /\ Lane!Remove(mine[p])
      <4>1. pc'[p] \notin {"create", "recheck"} /\ comments' \subseteq comments
        BY <3>4 DEF Lane!DeleteDuplicate, Lane!Remove, Lane!Goto, Lane!Finish, Lane!TypeOK
      <4>2. QED
        BY <2>1, <3>1, <3>2, <4>1
    <3>5. CASE Lane!Update(p) /\ Lane!SetMarker(p)
      <4>1. pc'[p] \notin {"create", "recheck"}
        BY <3>5 DEF Lane!Update, Lane!Goto, Lane!Finish, Lane!TypeOK
      <4>2. QED
        BY <2>1, <3>5, <4>1, Rewritten, RewrittenOnce
    <3>6. QED
      BY <1>1, <2>2, <2>4, <3>3, <3>4, <3>5, CommentShape
<1>2. ASSUME NEW r \in flying, Lane!Arrive(r)
      PROVE  SearchInv'
  <2> DEFINE p == r.by
  <2>1. p \in Publisher /\ flying' = flying \ {r} /\ UNCHANGED <<pc, attempt>>
    BY <1>2 DEF Lane!Arrive, Lane!TypeOK, Lane!Request
  <2>2. CASE /\ \A c \in comments' : \E d \in comments : Same(c, d)
             /\ \A c, d \in comments' : c.id = d.id => c = d
    <3>1. \A q \in Publisher : Searching(q)'
      BY <1>g, <2>1, <2>2
    <3>2. QED
      BY <1>f, <2>2, <3>1 DEF SearchInv
  <2>3. ASSUME r.kind = "create", NEW m \in BOOLEAN, m = (pc[p] # "recheck" \/ attempt[p] # r.attempt),
               Lane!AddComment(p, m)
        PROVE  SearchInv'
    <3> DEFINE new == [id |-> nextId, mark |-> MarkerOf[p], by |-> p, missed |-> m]
    <3>1. comments' = comments \cup {new} /\ new.by = p /\ new.missed = m
      BY <2>3 DEF Lane!AddComment
    <3> HIDE DEF new
    <3>2. CASE m = TRUE
      <4>1. OneCommentPerProcess'
        BY <1>c, <1>d, <3>1, <3>2
      <4>2. \A q \in Publisher : Searching(q)'
        BY <1>b, <2>1, <3>1, <3>2 DEF Searching
      <4>3. QED
        BY <4>1, <4>2 DEF SearchInv
    <3>3. CASE m = FALSE
      <4>1. pc[p] = "recheck" /\ attempt[p] = r.attempt
        BY <2>3, <3>3
      <4>2. r = Asked(p)
        BY <2>3, <4>1 DEF Lane!TypeOK, Lane!Request
      <4>3. \A c \in comments : ~Whose(c, p)
        BY <1>b, <2>1, <4>1, <4>2 DEF Searching
      <4>4. OneCommentPerProcess'
        BY <1>c, <1>d, <3>1, <4>3
      <4>5. ASSUME NEW q \in Publisher
            PROVE  Searching(q)'
        <5>1. CASE q = p
          BY <2>1, <3>1, <4>1, <4>2, <4>3, <5>1 DEF Searching
        <5>2. CASE q # p /\ HostOf[q] = HostOf[p]
          <6>1. pc[q] \notin Lane!Working
            BY <2>1, <4>1, <5>2, OneWorks DEF Lane!Working
          <6>2. QED
            BY <2>1, <6>1 DEF Searching, Lane!Working
        <5>3. CASE q # p /\ HostOf[q] # HostOf[p]
          BY <1>b, <2>1, <3>1, <5>3 DEF Searching
        <5>4. QED
          BY <5>1, <5>2, <5>3
      <4>6. QED
        BY <4>4, <4>5 DEF SearchInv
    <3>4. QED
      BY <3>2, <3>3
  <2>4. CASE Lane!SetMarker(p)
    BY <2>1, <2>2, <2>4, Rewritten, RewrittenOnce
  <2>5. CASE Lane!Remove(mine[p])
    <3>1. comments' \subseteq comments
      BY <2>5 DEF Lane!Remove
    <3>2. QED
      BY <2>2, <3>1 DEF IdInv, Same
  <2>6. QED
    BY <1>2, <2>3, <2>4, <2>5 DEF Lane!Arrive
<1>3. ASSUME comments' = comments, UNCHANGED attempt,
             \A q \in Publisher : pc'[q] \in {"create", "recheck"} =>
               pc'[q] = pc[q] /\ (Asked(q) \in flying' => Asked(q) \in flying)
      PROVE  SearchInv'
  <2>1. \A q \in Publisher : Searching(q)'
    BY <1>b, <1>3 DEF Searching
  <2>2. QED
    BY <1>c, <1>d, <1>3, <2>1 DEF SearchInv
<1>4. ASSUME NEW h \in Host, Lane!Crash(h)
      PROVE  SearchInv'
  <2>1. ASSUME NEW q \in Publisher, pc'[q] \in {"create", "recheck"}
        PROVE  pc'[q] = pc[q] /\ HostOf[q] # h
    BY <1>4, <2>1 DEF Lane!Crash, Lane!Finished
  <2>2. ASSUME NEW q \in Publisher, HostOf[q] # h, Asked(q) \in flying'
        PROVE  Asked(q) \in flying
    <3>1. \A x \in Publisher : Lane!RequestOf(x).by = x
      BY DEF Lane!RequestOf
    <3>2. Asked(q).by = q
      OBVIOUS
    <3>3. QED
      BY <1>4, <2>2, <3>1, <3>2 DEF Lane!Crash
  <2>3. QED
    BY <1>3, <1>4, <2>1, <2>2 DEF Lane!Crash
<1>5. ASSUME NEW p \in Publisher, Lane!Enter(p)
      PROVE  SearchInv'
  BY <1>3, <1>5 DEF Lane!Enter, Lane!Goto, Lane!TypeOK
<1>6. CASE UNCHANGED Lane!vars
  BY <1>3, <1>6 DEF Lane!vars
<1>7. QED
  BY <1>1, <1>2, <1>4, <1>5, <1>6 DEF Lane!Next
-----------------------------------------------------------------------------
(* The comment of an earlier publication, and those to be deleted          *)

LEMMA EarlierStep ==
  ASSUME Lane!TypeOK, EarlierInv, [Lane!Next]_Lane!vars
  PROVE  EarlierInv'
<1>a. OldMarker \notin Publisher
  BY PublicationAssumption
<1>b. \A c \in comments' : c.by = OldMarker => \E d \in comments : d.by = OldMarker
  <2>1. ASSUME NEW p \in Publisher, NEW m \in BOOLEAN, Lane!AddComment(p, m)
        PROVE  \A c \in comments' : c.by = OldMarker => c \in comments
    BY <1>a, <2>1 DEF Lane!AddComment
  <2>2. ASSUME NEW p \in Publisher, Lane!SetMarker(p) \/ Lane!MissOwn(p)
        PROVE  \A c \in comments' : \E d \in comments : c.by = d.by
    BY <2>2, Rewritten DEF Same
  <2>3. ASSUME NEW id \in Nat, Lane!Remove(id)
        PROVE  comments' \subseteq comments
    BY <2>3 DEF Lane!Remove
  <2>4. QED
    BY <2>1, <2>2, <2>3, AnyShape
<1>1. SUFFICES ASSUME NEW c \in comments, c.by = OldMarker
               PROVE  EarlierInv'
  BY <1>b DEF EarlierInv
<1>2. comments = {c} /\ (\A p \in Publisher : pc[p] \notin Creating) /\ \A r \in flying : r.kind = "update"
  BY <1>1 DEF EarlierInv
<1>3. ASSUME NEW p \in Publisher, Lane!SetMarker(p)
      PROVE  \E d : comments' = {d}
  <2>1. comments' = {IF c.id = mine[p] THEN [c EXCEPT !.mark = MarkerOf[p]] ELSE c}
    BY <1>2, <1>3 DEF Lane!SetMarker
  <2>2. QED
    BY <2>1
<1>4. ASSUME NEW p \in Publisher, Lane!Step(p)
      PROVE  EarlierInv'
  <2>1. Lane!ListFails(p) \/ Lane!PublishOnce(p) \/ Lane!Update(p) \/ Lane!AfterUpdateError(p)
    BY <1>2, <1>4 DEF Lane!Step, Creating, Lane!Create, Lane!AfterCreateError, Lane!CheckWinner,
      Lane!DeleteDuplicate
  <2>2. pc'[p] \notin Creating
    BY <1>2, <2>1 DEF Lane!ListFails, Lane!PublishOnce, Lane!Update, Lane!AfterUpdateError, Creating,
      Lane!Goto, Lane!Finish, Lane!TypeOK
  <2>3. \A q \in Publisher : pc'[q] \notin Creating
    BY <1>2, <1>4, <2>2, StepEffects
  <2>4. comments' = comments \/ Lane!SetMarker(p)
    BY <2>1 DEF Lane!ListFails, Lane!PublishOnce, Lane!Update, Lane!AfterUpdateError
  <2>5. \A r \in flying' : r.kind = "update"
    <3>1. flying' = flying \/ (flying' = flying \cup {Lane!RequestOf(p)} /\ pc[p] = "update")
      BY <1>2, <1>4, StepEffects DEF Creating
    <3>2. QED
      BY <1>2, <3>1 DEF Lane!RequestOf
  <2>6. QED
    BY <1>2, <1>3, <2>3, <2>4, <2>5 DEF EarlierInv
<1>5. ASSUME NEW r \in flying, Lane!Arrive(r)
      PROVE  EarlierInv'
  <2>1. r.kind = "update" /\ r.by \in Publisher
    BY <1>2 DEF Lane!TypeOK, Lane!Request
  <2>2. Lane!SetMarker(r.by) /\ flying' \subseteq flying /\ pc' = pc
    BY <1>5, <2>1 DEF Lane!Arrive
  <2>3. QED
    BY <1>2, <1>3, <2>1, <2>2 DEF EarlierInv
<1>6. ASSUME NEW h \in Host, Lane!Crash(h)
      PROVE  EarlierInv'
  <2>1. \A q \in Publisher : pc'[q] \notin Creating
    BY <1>2, <1>6 DEF Lane!Crash, Creating
  <2>2. \A r \in flying' : r.kind = "update"
    BY <1>2, <1>6 DEF Lane!Crash, Lane!RequestOf, Creating
  <2>3. QED
    BY <1>2, <1>6, <2>1, <2>2 DEF EarlierInv, Lane!Crash
<1>7. ASSUME NEW p \in Publisher, Lane!Enter(p)
      PROVE  EarlierInv'
  BY <1>2, <1>7 DEF Lane!Enter, EarlierInv, Creating, Lane!Goto, Lane!TypeOK
<1>8. CASE UNCHANGED Lane!vars
  BY <1>2, <1>8 DEF EarlierInv, Lane!vars
<1>9. QED
  BY <1>4, <1>5, <1>6, <1>7, <1>8 DEF Lane!Next

LEMMA MineStep ==
  ASSUME Lane!TypeOK, LaneInv, IdInv, MineInv, [Lane!Next]_Lane!vars
  PROVE  MineInv'
<1>a. /\ \A c \in comments : c.id \in Nat /\ c.id < nextId
      /\ nextId \in Nat /\ mine \in [Publisher -> Nat]
      /\ \A q \in Publisher : mine[q] < nextId
      /\ \A r \in flying : r.by \in Publisher
  BY DEF Lane!TypeOK, Lane!Comment, Lane!Request, IdInv
<1>b. /\ \A q \in Publisher : pc[q] \in Deciding => \E c \in comments : c.id = mine[q] /\ c.by = q
      /\ \A r \in flying : r.kind = "delete" =>
           /\ pc[r.by] \in {"failed", "crashed"}
           /\ \A c \in comments : c.id = mine[r.by] => c.by = r.by
  BY DEF MineInv
<1>c. \A q, x \in Publisher :
        pc[q] \in Deciding /\ (\A c \in comments : c.id = mine[x] => c.by = x) /\ mine[q] = mine[x] => q = x
  BY <1>b
\* Of the ids and creators: all stand, but for one, or with a new one.
<1>d. ASSUME NEW q \in Publisher, pc[q] \in Deciding, mine'[q] = mine[q],
             \A d \in comments : d.id = mine[q] => \E c \in comments' : Same(c, d)
      PROVE  \E c \in comments' : c.id = mine'[q] /\ c.by = q
  BY <1>b, <1>d DEF Same
<1>e. ASSUME NEW r \in flying, r.kind = "delete", pc'[r.by] = pc[r.by], mine'[r.by] = mine[r.by],
             \A c \in comments' : c.id = nextId \/ \E d \in comments : Same(c, d)
      PROVE  /\ pc'[r.by] \in {"failed", "crashed"}
             /\ \A c \in comments' : c.id = mine'[r.by] => c.by = r.by
  <2>1. mine[r.by] # nextId
    BY <1>a
  <2>2. QED
    BY <1>b, <1>e, <2>1 DEF Same
<1>f. \A c \in comments : Same(c, c)
  BY DEF Same
<1>1. ASSUME NEW p \in Publisher, Lane!Step(p)
      PROVE  MineInv'
  <2>a. \A q \in Publisher : q # p => pc'[q] = pc[q] /\ mine'[q] = mine[q]
    BY <1>1, StepEffects
  <2>b. \A r \in flying : r.kind = "delete" => r.by # p
    BY <1>1, <1>b, StepEffects DEF Lane!Working
  <2>1. \A c \in comments' : c.id = nextId \/ \E d \in comments : Same(c, d)
    <3>1. CASE Lane!AddComment(p, FALSE)
      BY <1>f, <3>1 DEF Lane!AddComment
    <3>2. CASE Lane!Remove(mine[p])
      BY <1>f, <3>2 DEF Lane!Remove
    <3>3. QED
      BY <1>1, <1>f, <3>1, <3>2, CommentShape, Rewritten
  <2>2. \A r \in flying : r.kind = "delete" =>
          /\ pc'[r.by] \in {"failed", "crashed"}
          /\ \A c \in comments' : c.id = mine'[r.by] => c.by = r.by
    BY <1>a, <1>e, <2>a, <2>b, <2>1
  <2>3. ASSUME NEW r \in flying', r \notin flying, r.kind = "delete"
        PROVE  /\ pc'[r.by] \in {"failed", "crashed"}
               /\ \A c \in comments' : c.id = mine'[r.by] => c.by = r.by
    <3>1. r = Lane!RequestOf(p) /\ comments' = comments /\ mine' = mine
      BY <1>1, <2>3, StepEffects
    <3>2. r.by = p /\ pc[p] = "delete"
      BY <2>3, <3>1 DEF Lane!RequestOf
    <3>3. pc'[p] = "failed"
      BY <1>1, <2>3, <3>2, StepEffects
    <3>4. \A c \in comments : c.id = mine[p] => c.by = p
      BY <1>b, <3>2 DEF IdInv, Deciding
    <3>5. QED
      BY <3>1, <3>2, <3>3, <3>4
  <2>4. ASSUME NEW q \in Publisher, q # p, pc'[q] \in Deciding
        PROVE  \E c \in comments' : c.id = mine'[q] /\ c.by = q
    <3>1. \A d \in comments : d.id = mine[q] => \E c \in comments' : Same(c, d)
      <4>1. CASE Lane!DeleteDuplicate(p) /\ Lane!Remove(mine[p])
        <5>1. \A c \in comments : c.id = mine[p] => c.by = p
          BY <1>b, <4>1 DEF IdInv, Deciding, Lane!DeleteDuplicate
        <5>2. mine[q] # mine[p]
          BY <1>c, <2>a, <2>4, <5>1
        <5>3. QED
          BY <1>f, <4>1, <5>2 DEF Lane!Remove
      <4>2. CASE Lane!AddComment(p, FALSE)
        BY <1>f, <4>2 DEF Lane!AddComment
      <4>3. QED
        BY <1>1, <1>f, <4>1, <4>2, CommentShape, Rewritten
    <3>2. QED
      BY <1>d, <2>a, <2>4, <3>1
  <2>5. ASSUME pc'[p] \in Deciding
        PROVE  \E c \in comments' : c.id = mine'[p] /\ c.by = p
    <3>1. CASE Lane!Create(p)
      <4>1. pc'[p] # "recheck"
        BY <2>5 DEF Deciding
      <4>2. Lane!AddComment(p, FALSE) /\ mine'[p] = nextId
        BY <3>1, <4>1 DEF Lane!Create, Lane!Goto, Lane!TypeOK
      <4>3. [id |-> nextId, mark |-> MarkerOf[p], by |-> p, missed |-> FALSE] \in comments'
        BY <4>2 DEF Lane!AddComment
      <4>4. QED
        BY <4>2, <4>3
    <3>2. CASE Lane!CheckWinner(p)
      BY <1>b, <3>2 DEF Lane!CheckWinner, Deciding
    <3>3. QED
      BY <1>1, <2>5, <3>1, <3>2 DEF Lane!Step, Lane!ListFails, Lane!PublishOnce,
        Lane!AfterCreateError, Lane!DeleteDuplicate, Lane!Update, Lane!AfterUpdateError,
        Lane!Goto, Lane!Finish, Lane!TypeOK, Deciding
  <2>6. QED
    BY <2>2, <2>3, <2>4, <2>5 DEF MineInv
<1>2. ASSUME NEW r \in flying, Lane!Arrive(r)
      PROVE  MineInv'
  <2> DEFINE p == r.by
  <2>1. p \in Publisher /\ flying' \subseteq flying /\ UNCHANGED <<pc, mine>>
    BY <1>2, <1>a DEF Lane!Arrive
  <2>2. \A c \in comments' : c.id = nextId \/ \E d \in comments : Same(c, d)
    <3>1. CASE \E m \in BOOLEAN : Lane!AddComment(p, m)
      BY <1>f, <3>1 DEF Lane!AddComment
    <3>2. CASE Lane!Remove(mine[p])
      BY <1>f, <3>2 DEF Lane!Remove
    <3>3. QED
      BY <1>2, <2>1, <3>1, <3>2, Rewritten DEF Lane!Arrive
  <2>3. \A x \in flying' : x.kind = "delete" =>
          /\ pc'[x.by] \in {"failed", "crashed"}
          /\ \A c \in comments' : c.id = mine'[x.by] => c.by = x.by
    BY <1>e, <2>1, <2>2
  <2>4. ASSUME NEW q \in Publisher, pc[q] \in Deciding, NEW d \in comments, d.id = mine[q]
        PROVE  \E c \in comments' : Same(c, d)
    <3>1. CASE r.kind = "create"
      BY <1>2, <1>f, <2>1, <3>1 DEF Lane!Arrive, Lane!AddComment
    <3>2. CASE r.kind = "update"
      BY <1>2, <2>1, <3>2, Rewritten DEF Lane!Arrive
    <3>3. CASE r.kind = "delete"
      <4>1. q # p
        BY <1>b, <2>4, <3>3 DEF Deciding
      <4>2. mine[q] # mine[p]
        BY <1>b, <1>c, <2>1, <2>4, <3>3, <4>1
      <4>3. comments' = {c \in comments : c.id # mine[p]}
        BY <1>2, <3>3 DEF Lane!Arrive, Lane!Remove
      <4>4. QED
        BY <1>f, <2>4, <4>2, <4>3
    <3>4. QED
      BY <1>2, <3>1, <3>2, <3>3 DEF Lane!Arrive
  <2>5. QED
    BY <1>d, <2>1, <2>3, <2>4 DEF MineInv
<1>3. ASSUME NEW h \in Host, Lane!Crash(h)
      PROVE  MineInv'
  <2>1. comments' = comments /\ mine' = mine
    BY <1>3 DEF Lane!Crash
  <2>2. ASSUME NEW q \in Publisher
        PROVE  pc'[q] = pc[q] \/ pc'[q] \in {"crashed", "never"}
    BY <1>3 DEF Lane!Crash
  <2>3. ASSUME NEW r \in flying', r.kind = "delete"
        PROVE  /\ pc'[r.by] \in {"failed", "crashed"}
               /\ \A c \in comments : c.id = mine[r.by] => c.by = r.by
    <3>1. CASE r \in flying
      <4>1. pc[r.by] \in Lane!Finished /\ r.by \in Publisher
        BY <1>a, <1>b, <2>3, <3>1 DEF Lane!Finished
      <4>2. pc'[r.by] = pc[r.by]
        BY <1>3, <4>1 DEF Lane!Crash
      <4>3. QED
        BY <1>b, <2>3, <3>1, <4>2
    <3>2. CASE r \notin flying
      <4>1. PICK q \in Publisher : HostOf[q] = h /\ r = Lane!RequestOf(q)
        BY <1>3, <3>2 DEF Lane!Crash
      <4>2. r.by = q /\ pc[q] = "delete"
        BY <2>3, <4>1 DEF Lane!RequestOf
      <4>3. pc'[q] = "crashed"
        BY <1>3, <4>1, <4>2 DEF Lane!Crash, Lane!Finished
      <4>4. \A c \in comments : c.id = mine[q] => c.by = q
        BY <1>b, <4>2 DEF IdInv, Deciding
      <4>5. QED
        BY <4>2, <4>3, <4>4
    <3>3. QED
      BY <3>1, <3>2
  <2>4. QED
    BY <1>b, <2>1, <2>2, <2>3 DEF MineInv, Deciding
<1>4. ASSUME NEW p \in Publisher, Lane!Enter(p)
      PROVE  MineInv'
  <2>1. pc[p] = "idle" /\ pc'[p] \in {"refused", "queued"} /\ \A q \in Publisher : q # p => pc'[q] = pc[q]
    BY <1>4 DEF Lane!Enter, Lane!Goto, Lane!TypeOK
  <2>2. UNCHANGED <<comments, mine, flying>>
    BY <1>4 DEF Lane!Enter
  <2>3. \A r \in flying : r.kind = "delete" => pc'[r.by] = pc[r.by]
    BY <1>a, <1>b, <2>1
  <2>4. \A q \in Publisher : pc'[q] \in Deciding => pc[q] \in Deciding
    BY <2>1 DEF Deciding
  <2>5. QED
    BY <1>b, <2>2, <2>3, <2>4 DEF MineInv
<1>5. CASE UNCHANGED Lane!vars
  BY <1>b, <1>5 DEF MineInv, Lane!vars
<1>6. QED
  BY <1>1, <1>2, <1>3, <1>4, <1>5 DEF Lane!Next
-----------------------------------------------------------------------------
(* The first comment, while all publish one report                         *)

LEMMA OldestOfAll ==
  ASSUME Lane!TypeOK, BegunInv, EarlierInv, Lane!OneReport, NEW p \in Lane!Begun,
         \A c \in comments : c.by \in Publisher => c.mark = MarkerOf[c.by],
         Lane!Exact(p) # {}
  PROVE  Heads(p, Lane!Oldest(Lane!Exact(p)).id)
<1>0. p \in Publisher
  BY DEF Lane!Begun
<1>1. Lane!Exact(p) \in SUBSET comments
  BY DEF Lane!Exact
<1>2. /\ Lane!Oldest(Lane!Exact(p)) \in Lane!Exact(p)
      /\ \A d \in Lane!Exact(p) : Lane!Oldest(Lane!Exact(p)).id <= d.id
  BY <1>1, OldestExists
<1>3. ASSUME NEW d \in comments
      PROVE  Lane!Oldest(Lane!Exact(p)).id <= d.id
  <2>1. CASE d.by \in Publisher
    <3>1. d.mark = MarkerOf[p]
      BY <2>1 DEF BegunInv, Lane!OneReport
    <3>2. QED
      BY <1>2, <3>1 DEF Lane!Exact
  <2>2. CASE d.by = OldMarker
    <3>1. Lane!Oldest(Lane!Exact(p)) = d
      BY <1>1, <1>2, <2>2 DEF EarlierInv
    <3>2. QED
      BY <1>2, <3>1
  <2>3. QED
    BY <2>1, <2>2 DEF Lane!TypeOK, Lane!Comment
<1>4. QED
  BY <1>2, <1>3 DEF Lane!Exact, Heads

\* What is deleted is not the first.
LEMMA NoFirstDeleted ==
  ASSUME Lane!TypeOK, NEW id \in Nat, HasOlder(id), Lane!Remove(id)
  PROVE  /\ \A i \in Nat : HasOlder(i) => HasOlder(i)'
         /\ \A c \in comments : (\A d \in comments : c.id <= d.id) => c \in comments'
<1>1. \A c \in comments : c.id \in Nat
  BY DEF Lane!TypeOK, Lane!Comment
<1>2. PICK e \in comments : e.id < id
  BY DEF HasOlder
<1>3. comments' = {c \in comments : c.id # id}
  BY DEF Lane!Remove
<1>4. ASSUME NEW i \in Nat, HasOlder(i)
      PROVE  HasOlder(i)'
  <2>1. PICK c \in comments : c.id < i
    BY <1>4 DEF HasOlder
  <2>2. CASE c.id = id
    <3>1. e \in comments' /\ e.id < i
      BY <1>1, <1>2, <1>3, <2>1, <2>2
    <3>2. QED
      BY <3>1 DEF HasOlder
  <2>3. CASE c.id # id
    <3>1. c \in comments'
      BY <1>3, <2>3
    <3>2. QED
      BY <2>1, <3>1 DEF HasOlder
  <2>4. QED
    BY <2>2, <2>3
<1>5. ASSUME NEW c \in comments, \A d \in comments : c.id <= d.id
      PROVE  c \in comments'
  <2>1. c.id <= e.id /\ c.id \in Nat /\ e.id \in Nat
    BY <1>1, <1>5
  <2>2. c.id # id
    BY <1>2, <2>1
  <2>3. QED
    BY <1>3, <2>2
<1>6. QED
  BY <1>4, <1>5

\* What a step leaves of the first comment and of those with an older one.
Stands ==
  /\ \A q \in Lane!Begun : \A id \in Nat : Heads(q, id) => Heads(q, id)'
  /\ \A id \in Nat : IsFirst(id) => IsFirst(id)'
  /\ \A id \in Nat : HasOlder(id) => HasOlder(id)'

LEMMA StandsStep ==
  ASSUME Lane!TypeOK, IdInv, Lane!OneReport,
         \/ comments' = comments
         \/ \E p \in Publisher, m \in BOOLEAN : Lane!AddComment(p, m)
         \/ \E p \in Publisher : Lane!MissOwn(p)
         \/ \E p \in Lane!Begun : Lane!SetMarker(p)
         \/ \E id \in Nat : HasOlder(id) /\ Lane!Remove(id)
  PROVE  Stands
<1>a. \A c \in comments : c.id \in Nat /\ c.id < nextId
  BY DEF Lane!TypeOK, Lane!Comment, IdInv
<1>b. nextId \in Nat
  BY DEF Lane!TypeOK
<1>1. CASE comments' = comments
  BY <1>1 DEF Stands, Heads, IsFirst, HasOlder
<1>2. ASSUME NEW p \in Publisher, NEW m \in BOOLEAN, Lane!AddComment(p, m)
      PROVE  Stands
  <2> DEFINE new == [id |-> nextId, mark |-> MarkerOf[p], by |-> p, missed |-> m]
  <2>1. comments' = comments \cup {new} /\ new.id = nextId
    BY <1>2 DEF Lane!AddComment
  <2> HIDE DEF new
  <2>2. \A c \in comments : c \in comments' /\ c.id <= new.id
    BY <1>a, <1>b, <2>1
  <2>3. \A c \in comments : (\A d \in comments : c.id <= d.id) => \A d \in comments' : c.id <= d.id
    BY <2>1, <2>2
  <2>4. QED
    BY <2>2, <2>3 DEF Stands, Heads, IsFirst, HasOlder
<1>3. ASSUME NEW p \in Publisher, Lane!MissOwn(p)
      PROVE  Stands
  <2>1. \A d \in comments : \E c \in comments' : c.id = d.id /\ c.mark = d.mark
    <3>1. ASSUME NEW d \in comments
          PROVE  LET c == IF d.by = p THEN [d EXCEPT !.missed = TRUE] ELSE d IN
                 c.id = d.id /\ c.mark = d.mark
      BY DEF Lane!TypeOK, Lane!Comment
    <3>2. QED
      BY <1>3, <3>1 DEF Lane!MissOwn
  <2>2. \A c \in comments' : \E d \in comments : c.id = d.id
    BY <1>3, Rewritten DEF Same
  <2>3. QED
    BY <2>1, <2>2 DEF Stands, Heads, IsFirst, HasOlder
<1>4. ASSUME NEW p \in Lane!Begun, Lane!SetMarker(p)
      PROVE  Stands
  <2>0. p \in Publisher
    BY DEF Lane!Begun
  <2>1. \A d \in comments : \E c \in comments' : c.id = d.id /\ (c.mark = d.mark \/ c.mark = MarkerOf[p])
    <3>1. ASSUME NEW d \in comments
          PROVE  LET c == IF d.id = mine[p] THEN [d EXCEPT !.mark = MarkerOf[p]] ELSE d IN
                 c.id = d.id /\ (c.mark = d.mark \/ c.mark = MarkerOf[p])
      BY DEF Lane!TypeOK, Lane!Comment
    <3>2. QED
      BY <1>4, <3>1 DEF Lane!SetMarker
  <2>2. \A c \in comments' : \E d \in comments : c.id = d.id
    BY <1>4, <2>0, Rewritten DEF Same
  <2>3. \A q \in Lane!Begun : MarkerOf[q] = MarkerOf[p]
    BY DEF Lane!OneReport
  <2>4. QED
    BY <2>1, <2>2, <2>3 DEF Stands, Heads, IsFirst, HasOlder
<1>5. ASSUME NEW id \in Nat, HasOlder(id), Lane!Remove(id)
      PROVE  Stands
  <2>1. comments' \subseteq comments
    BY <1>5 DEF Lane!Remove
  <2>2. QED
    BY <1>5, <2>1, NoFirstDeleted DEF Stands, Heads, IsFirst
<1>6. QED
  BY <1>1, <1>2, <1>3, <1>4, <1>5
-----------------------------------------------------------------------------
LEMMA ChosenShape ==
  ASSUME Lane!TypeOK, BegunInv, Lane!OneReport, \A q \in Publisher : Chosen(q),
         [Lane!Next]_Lane!vars
  PROVE  \/ comments' = comments
         \/ \E p \in Publisher, m \in BOOLEAN : Lane!AddComment(p, m)
         \/ \E p \in Publisher : Lane!MissOwn(p)
         \/ \E p \in Lane!Begun : Lane!SetMarker(p)
         \/ \E id \in Nat : HasOlder(id) /\ Lane!Remove(id)
<1>1. ASSUME NEW p \in Publisher, Lane!Step(p)
      PROVE  \/ comments' = comments
             \/ Lane!AddComment(p, FALSE)
             \/ Lane!MissOwn(p)
             \/ p \in Lane!Begun /\ Lane!SetMarker(p)
             \/ mine[p] \in Nat /\ HasOlder(mine[p]) /\ Lane!Remove(mine[p])
  <2>1. p \in Lane!Begun /\ mine[p] \in Nat
    BY <1>1, StepEffects DEF Lane!Begun, Lane!Working, Lane!TypeOK
  <2>2. Lane!DeleteDuplicate(p) => HasOlder(mine[p])
    BY DEF Lane!DeleteDuplicate, Chosen, Doomed
  <2>3. QED
    BY <1>1, <2>1, <2>2, CommentShape
<1>2. ASSUME NEW r \in flying, Lane!Arrive(r)
      PROVE  \E p \in Publisher :
               \/ \E m \in BOOLEAN : Lane!AddComment(p, m)
               \/ p \in Lane!Begun /\ Lane!SetMarker(p)
               \/ mine[p] \in Nat /\ HasOlder(mine[p]) /\ Lane!Remove(mine[p])
  <2>1. r.by \in Publisher /\ r.by \in Lane!Begun /\ mine[r.by] \in Nat
    BY DEF Lane!TypeOK, Lane!Request, BegunInv
  <2>2. r.kind = "delete" => HasOlder(mine[r.by])
    BY <2>1 DEF Chosen, Doomed
  <2>3. QED
    BY <1>2, <2>1, <2>2 DEF Lane!Arrive
<1>3. QED
  BY <1>1, <1>2 DEF Lane!Next, Lane!Enter, Lane!Crash, Lane!vars

LEMMA MarksStep ==
  ASSUME Lane!TypeOK, BegunInv, Lane!OneReport,
         \A c \in comments : c.by \in Publisher => c.mark = MarkerOf[c.by],
         \/ comments' = comments
         \/ \E p \in Publisher, m \in BOOLEAN : Lane!AddComment(p, m)
         \/ \E p \in Publisher : Lane!MissOwn(p)
         \/ \E p \in Lane!Begun : Lane!SetMarker(p)
         \/ \E id \in Nat : Lane!Remove(id)
  PROVE  \A c \in comments' : c.by \in Publisher => c.mark = MarkerOf[c.by]
<1>1. CASE \E p \in Publisher, m \in BOOLEAN : Lane!AddComment(p, m)
  BY <1>1 DEF Lane!AddComment
<1>2. ASSUME NEW p \in Publisher, Lane!MissOwn(p)
      PROVE  \A c \in comments' : c.by \in Publisher => c.mark = MarkerOf[c.by]
  <2>1. ASSUME NEW d \in comments
        PROVE  LET c == IF d.by = p THEN [d EXCEPT !.missed = TRUE] ELSE d IN
               c.by = d.by /\ c.mark = d.mark
    BY DEF Lane!TypeOK, Lane!Comment
  <2>2. QED
    BY <1>2, <2>1 DEF Lane!MissOwn
<1>3. ASSUME NEW p \in Lane!Begun, Lane!SetMarker(p)
      PROVE  \A c \in comments' : c.by \in Publisher => c.mark = MarkerOf[c.by]
  <2>1. ASSUME NEW d \in comments
        PROVE  LET c == IF d.id = mine[p] THEN [d EXCEPT !.mark = MarkerOf[p]] ELSE d IN
               c.by = d.by /\ (c.mark = d.mark \/ c.mark = MarkerOf[p])
    BY DEF Lane!TypeOK, Lane!Comment
  <2>2. \A d \in comments : d.by \in Publisher => MarkerOf[d.by] = MarkerOf[p]
    BY DEF BegunInv, Lane!OneReport
  <2>3. ASSUME NEW c \in comments', c.by \in Publisher
        PROVE  c.mark = MarkerOf[c.by]
    <3>1. PICK d \in comments : c = IF d.id = mine[p] THEN [d EXCEPT !.mark = MarkerOf[p]] ELSE d
      BY <1>3 DEF Lane!SetMarker
    <3>2. c.by = d.by /\ (c.mark = d.mark \/ c.mark = MarkerOf[p])
      BY <2>1, <3>1
    <3>3. QED
      BY <2>2, <2>3, <3>2
  <2>4. QED
    BY <2>3
<1>4. CASE \E id \in Nat : Lane!Remove(id)
  BY <1>4 DEF Lane!Remove
<1>5. QED
  BY <1>1, <1>2, <1>3, <1>4

\* Of a publication that chooses, deletes or updates, what it has then.
LEMMA OwnChoice ==
  ASSUME Lane!TypeOK, BegunInv, EarlierInv, MineInv, Lane!OneReport, Stands,
         \A c \in comments : c.by \in Publisher => c.mark = MarkerOf[c.by],
         NEW p \in Publisher, Lane!Step(p), Chosen(p)
  PROVE  Chosen(p)'
<1> USE DEF Lane!Goto, Lane!Finish, Lane!TypeOK, Updating, Lane!Succeeded
<1>a. p \in Lane!Begun
  BY StepEffects DEF Lane!Begun, Lane!Working
<1>b. Lane!Exact(p) # {} => Heads(p, Lane!Oldest(Lane!Exact(p)).id)
  BY <1>a, OldestOfAll
<1>c. \A c \in comments : c.id \in Nat
  BY DEF Lane!Comment
<1>d. mine[p] \in Nat /\ target[p] \in Nat
  OBVIOUS
<1>e. comments' = comments =>
        /\ \A id \in Nat : Heads(p, id) => Heads(p, id)'
        /\ \A id \in Nat : IsFirst(id) => IsFirst(id)'
  BY <1>a DEF Stands
<1>f. Lane!Exact(p) # {} => Lane!Oldest(Lane!Exact(p)).id \in Nat
  BY OldestTypes
\* A request to delete is the one that is given up now.
<1>g. ASSUME pc'[p] # "delete", Doomed(p)'
      PROVE  HasOlder(mine[p])'
  <2>1. PICK r \in flying' : r.kind = "delete" /\ r.by = p
    BY <1>g DEF Doomed
  <2>2. r \notin flying
    BY <2>1, StepEffects DEF MineInv, Lane!Working
  <2>3. r = Lane!RequestOf(p) /\ comments' = comments /\ mine' = mine
    BY <2>2, StepEffects
  <2>4. HasOlder(mine[p])
    BY <2>1, <2>3 DEF Chosen, Doomed, Lane!RequestOf
  <2>5. QED
    BY <2>3, <2>4 DEF HasOlder
<1>1. ASSUME pc'[p] \notin {"created", "updated", "reused", "delete", "update", "reupdate"}
      PROVE  Chosen(p)'
  BY <1>1, <1>g DEF Chosen
<1>2. ASSUME pc'[p] \in {"created", "updated", "reused"}, NEW id \in Nat, target'[p] = id, Heads(p, id)'
      PROVE  Chosen(p)'
  BY <1>2, <1>g DEF Chosen, Heads
<1>3. CASE Lane!ListFails(p)
  BY <1>1, <1>3 DEF Lane!ListFails
<1>4. CASE Lane!PublishOnce(p)
  <2>1. comments' = comments
    BY <1>4 DEF Lane!PublishOnce
  <2>2. CASE Lane!Exact(p) # {} /\ Lane!Finish(p, "reused", Lane!Oldest(Lane!Exact(p)).id)
    BY <1>b, <1>e, <1>f, <1>2, <2>1, <2>2
  <2>3. CASE comments # {} /\ Lane!Goto(p, "update") /\ mine' = [mine EXCEPT ![p] = Lane!Oldest(comments).id]
    <3>1. pc'[p] = "update" /\ mine'[p] = Lane!Oldest(comments).id
      BY <2>3
    <3>2. IsFirst(Lane!Oldest(comments).id)
      BY <2>3, OldestExists DEF IsFirst
    <3>3. IsFirst(mine[p])'
      BY <2>1, <3>1, <3>2 DEF IsFirst
    <3>4. QED
      BY <1>g, <3>1, <3>3 DEF Chosen
  <2>4. CASE Lane!Goto(p, "create")
    BY <1>1, <2>4
  <2>5. QED
    BY <1>4, <2>2, <2>3, <2>4 DEF Lane!PublishOnce
<1>5. CASE Lane!Create(p)
  BY <1>1, <1>5 DEF Lane!Create
<1>6. CASE Lane!AfterCreateError(p)
  <2>1. CASE Lane!Exact(p) # {} /\ Lane!Finish(p, "reused", Lane!Oldest(Lane!Exact(p)).id) /\ comments' = comments
    BY <1>b, <1>e, <1>f, <1>2, <2>1
  <2>2. CASE pc'[p] \in {"create", "failed"}
    BY <1>1, <2>2
  <2>3. QED
    BY <1>6, <2>1, <2>2 DEF Lane!AfterCreateError
<1>7. CASE Lane!CheckWinner(p)
  <2>0. comments' = comments /\ mine' = mine /\ pc[p] = "check"
    BY <1>7 DEF Lane!CheckWinner
  <2>1. PICK e \in comments : e.id = mine[p] /\ e.by = p
    BY <2>0 DEF MineInv, Deciding
  <2>2. e \in Lane!Exact(p)
    BY <2>1 DEF Lane!Exact
  <2>3. CASE Lane!Oldest(Lane!Exact(p)).id # mine[p]
    <3>1. pc'[p] = "delete" /\ target'[p] = Lane!Oldest(Lane!Exact(p)).id
      BY <1>7, <2>2, <2>3 DEF Lane!CheckWinner
    <3>2. PICK c \in comments : c.id = Lane!Oldest(Lane!Exact(p)).id /\ \A d \in comments : c.id <= d.id
      BY <1>b, <2>2 DEF Heads
    <3>3. c.id < mine[p]
      BY <1>c, <1>d, <2>1, <2>3, <3>2
    <3>4. HasOlder(mine[p])'
      BY <2>0, <3>3 DEF HasOlder
    <3>5. Heads(p, target[p])'
      BY <2>0, <1>b, <2>2, <3>1 DEF Heads
    <3>6. QED
      BY <3>1, <3>4, <3>5 DEF Chosen
  <2>4. CASE Lane!Oldest(Lane!Exact(p)).id = mine[p]
    <3>1. pc'[p] = "created" /\ target'[p] = mine[p]
      BY <1>7, <2>4 DEF Lane!CheckWinner
    <3>2. QED
      BY <1>b, <1>d, <1>e, <1>2, <2>0, <2>2, <2>4, <3>1
  <2>5. QED
    BY <2>3, <2>4
<1>8. CASE Lane!DeleteDuplicate(p)
  <2>1. CASE Lane!Finish(p, "reused", target[p])
    <3>1. Heads(p, target[p])
      BY <1>8 DEF Lane!DeleteDuplicate, Chosen
    <3>2. pc'[p] = "reused" /\ target'[p] = target[p]
      BY <2>1
    <3>a. PICK id \in Nat : id = target[p] /\ Heads(p, id)
      BY <1>d, <3>1 DEF Heads
    <3>b. Heads(p, id)'
      BY <1>a, <3>a DEF Stands
    <3>3. Heads(p, target[p])'
      BY <3>2, <3>a, <3>b DEF Heads
    <3>4. QED
      BY <1>g, <3>2, <3>3 DEF Chosen
  <2>2. CASE pc'[p] = "failed"
    BY <1>1, <2>2
  <2>3. QED
    BY <1>8, <2>1, <2>2 DEF Lane!DeleteDuplicate
<1>9. CASE Lane!Update(p)
  <2>1. pc[p] = "update" /\ mine' = mine /\ IsFirst(mine[p])
    BY <1>9 DEF Lane!Update, Chosen
  <2>2. CASE pc'[p] = "reupdate"
    <3>1. IsFirst(mine[p])'
      BY <1>d, <2>1 DEF Stands, IsFirst
    <3>2. QED
      BY <1>g, <2>2, <3>1 DEF Chosen
  <2>3. CASE Lane!SetMarker(p) /\ Lane!Finish(p, "updated", mine[p])
    <3>1. pc'[p] = "updated" /\ target'[p] = mine[p]
      BY <2>3
    <3>2. PICK c \in comments : c.id = mine[p] /\ \A d \in comments : c.id <= d.id
      BY <2>1 DEF IsFirst
    <3>3. [c EXCEPT !.mark = MarkerOf[p]] \in comments'
      BY <2>3, <3>2 DEF Lane!SetMarker
    <3>4. [c EXCEPT !.mark = MarkerOf[p]].id = mine[p] /\ [c EXCEPT !.mark = MarkerOf[p]].mark = MarkerOf[p]
      BY <3>2 DEF Lane!Comment
    <3>5. \A d \in comments' : \E e \in comments : d.id = e.id
      BY <2>3, Rewritten DEF Same
    <3>6. \A d \in comments' : mine[p] <= d.id
      BY <3>2, <3>5
    <3>7. Heads(p, target[p])'
      BY <3>1, <3>3, <3>4, <3>6 DEF Heads
    <3>8. QED
      BY <1>g, <3>1, <3>7 DEF Chosen
  <2>4. QED
    BY <1>9, <2>2, <2>3 DEF Lane!Update
<1>10. CASE Lane!AfterUpdateError(p)
  <2>0. comments' = comments /\ mine' = mine /\ pc[p] = "reupdate"
    BY <1>10 DEF Lane!AfterUpdateError
  <2>1. CASE Lane!Exact(p) # {} /\ Lane!Finish(p, "updated", Lane!Oldest(Lane!Exact(p)).id)
    BY <1>b, <1>e, <1>f, <1>2, <2>0, <2>1
  <2>2. CASE pc'[p] = "update"
    <3>1. IsFirst(mine[p])'
      BY <2>0 DEF Chosen, IsFirst
    <3>2. QED
      BY <1>g, <2>2, <3>1 DEF Chosen
  <2>3. CASE pc'[p] = "failed"
    BY <1>1, <2>3
  <2>4. QED
    BY <1>10, <2>1, <2>2, <2>3 DEF Lane!AfterUpdateError
<1>11. QED
  BY <1>3, <1>4, <1>5, <1>6, <1>7, <1>8, <1>9, <1>10 DEF Lane!Step

LEMMA ChosenStep ==
  ASSUME Lane!TypeOK, IdInv, BegunInv, EarlierInv, MineInv, ChosenInv, [Lane!Next]_Lane!vars
  PROVE  ChosenInv'
<1>1. SUFFICES ASSUME Lane!OneReport'
               PROVE  /\ \A c \in comments' : c.by \in Publisher => c.mark = MarkerOf[c.by]
                      /\ \A p \in Publisher : Chosen(p)'
  BY DEF ChosenInv
<1>2. Lane!OneReport
  BY <1>1, BegunGrows DEF Lane!OneReport
<1>3. /\ \A c \in comments : c.by \in Publisher => c.mark = MarkerOf[c.by]
      /\ \A p \in Publisher : Chosen(p)
  BY <1>2 DEF ChosenInv
<1>4. Stands
  BY <1>2, <1>3, ChosenShape, StandsStep
<1>5. \A c \in comments' : c.by \in Publisher => c.mark = MarkerOf[c.by]
  BY <1>2, <1>3, ChosenShape, MarksStep
<1>a. \A q \in Publisher : mine[q] \in Nat /\ target[q] \in Nat
  BY DEF Lane!TypeOK
\* Of a publication that does nothing.
<1>6. ASSUME NEW q \in Publisher, pc'[q] = pc[q], mine'[q] = mine[q], target'[q] = target[q],
             Doomed(q)' => Doomed(q)
      PROVE  Chosen(q)'
  <2>1. pc[q] \in Lane!Succeeded \cup {"delete"} => Heads(q, target[q])'
    <3>1. pc[q] \in Lane!Succeeded \cup {"delete"} => q \in Lane!Begun /\ Heads(q, target[q])
      BY <1>3 DEF Chosen, Lane!Begun, Lane!Succeeded
    <3>2. QED
      BY <1>4, <1>6, <1>a, <3>1 DEF Stands, Heads
  <2>2. pc[q] \in Updating => IsFirst(mine[q])'
    BY <1>3, <1>4, <1>6, <1>a DEF Chosen, Stands, IsFirst
  <2>3. Doomed(q)' => HasOlder(mine[q])'
    BY <1>3, <1>4, <1>6, <1>a DEF Chosen, Stands, HasOlder
  <2>4. QED
    BY <1>6, <2>1, <2>2, <2>3 DEF Chosen
<1>7. ASSUME NEW p \in Publisher, Lane!Step(p), NEW q \in Publisher
      PROVE  Chosen(q)'
  <2>1. CASE q = p
    BY <1>2, <1>3, <1>4, <1>7, <2>1, OwnChoice
  <2>2. CASE q # p
    <3>1. \A r \in flying' : r.by = q => r \in flying
      BY <1>7, <2>2, StepEffects DEF Lane!RequestOf
    <3>2. pc'[q] = pc[q] /\ mine'[q] = mine[q] /\ target'[q] = target[q]
      BY <1>7, <2>2, StepEffects
    <3>3. Doomed(q)' => Doomed(q)
      BY <3>1, <3>2 DEF Doomed
    <3>4. QED
      BY <1>6, <3>2, <3>3
  <2>3. QED
    BY <2>1, <2>2
<1>8. ASSUME NEW r \in flying, Lane!Arrive(r), NEW q \in Publisher
      PROVE  Chosen(q)'
  <2>1. UNCHANGED <<pc, mine, target>> /\ flying' \subseteq flying
    BY <1>8 DEF Lane!Arrive
  <2>2. Doomed(q)' => Doomed(q)
    BY <2>1 DEF Doomed
  <2>3. QED
    BY <1>6, <2>1, <2>2
<1>9. ASSUME NEW h \in Host, Lane!Crash(h), NEW q \in Publisher
      PROVE  Chosen(q)'
  <2>1. UNCHANGED <<comments, mine, target>> /\ (pc'[q] = pc[q] \/ pc'[q] \in {"crashed", "never"})
    BY <1>9 DEF Lane!Crash
  <2>2. Doomed(q)' => Doomed(q)
    <3>1. ASSUME NEW r \in flying', r.kind = "delete", r.by = q
          PROVE  Doomed(q)
      BY <1>9, <3>1 DEF Lane!Crash, Lane!RequestOf, Doomed
    <3>2. QED
      BY <2>1, <3>1 DEF Doomed
  <2>3. CASE pc'[q] = pc[q]
    BY <1>6, <2>1, <2>2, <2>3
  <2>4. CASE pc'[q] \in {"crashed", "never"}
    <3>1. Doomed(q)' => HasOlder(mine[q])'
      BY <1>3, <2>1, <2>2 DEF Chosen, HasOlder
    <3>2. QED
      BY <2>4, <3>1 DEF Chosen, Lane!Succeeded, Updating
  <2>5. QED
    BY <2>1, <2>3, <2>4
<1>10. ASSUME NEW p \in Publisher, Lane!Enter(p), NEW q \in Publisher
       PROVE  Chosen(q)'
  <2>1. UNCHANGED <<comments, mine, target, flying>> /\ (pc'[q] = pc[q] \/ pc'[q] \in {"queued", "refused"})
    BY <1>10 DEF Lane!Enter, Lane!Goto, Lane!TypeOK
  <2>2. CASE pc'[q] = pc[q]
    BY <1>6, <2>1, <2>2 DEF Doomed
  <2>3. CASE pc'[q] \in {"queued", "refused"}
    <3>1. Doomed(q)' => HasOlder(mine[q])'
      BY <1>3, <2>1, <2>3 DEF Chosen, HasOlder, Doomed
    <3>2. QED
      BY <2>3, <3>1 DEF Chosen, Lane!Succeeded, Updating
  <2>4. QED
    BY <2>1, <2>2, <2>3
<1>11. ASSUME UNCHANGED Lane!vars, NEW q \in Publisher
       PROVE  Chosen(q)'
  <2>1. UNCHANGED <<pc, mine, target, flying>>
    BY <1>11 DEF Lane!vars
  <2>2. QED
    BY <1>6, <2>1 DEF Doomed
<1>12. QED
  BY <1>5, <1>7, <1>8, <1>9, <1>10, <1>11 DEF Lane!Next
-----------------------------------------------------------------------------
(* Where all goes well                                                     *)

Accounted(c) ==
  \/ c.by = OldMarker
  \/ \E p \in Publisher :
       /\ mine[p] = c.id
       /\ pc[p] \in Deciding \/ (pc[p] = "created" /\ target[p] = c.id)

LEMMA AccountStep ==
  ASSUME Lane!TypeOK, AccountInv, [Lane!Next]_Lane!vars
  PROVE  AccountInv'
<1> USE DEF Lane!Goto, Lane!Finish, Deciding
<1>1. SUFFICES ASSUME faults' = 0
               PROVE  flying' = {} /\ \A c \in comments' : Accounted(c)'
  BY DEF AccountInv, Accounted
<1>2. faults = 0 /\ ~Lane!Fault
  <2>1. faults' = faults \/ Lane!Fault
    BY DEF Lane!Next, Lane!Enter, Lane!Step, Lane!Crash, Lane!Arrive, Lane!vars, Lane!ListFails,
    Lane!PublishOnce, Lane!Create, Lane!AfterCreateError, Lane!Unanswered,
           Lane!CheckWinner, Lane!DeleteDuplicate, Lane!Update, Lane!AfterUpdateError
  <2>2. QED
    BY <1>1, <2>1 DEF Lane!Fault, Lane!TypeOK
<1>3. flying = {} /\ \A c \in comments : Accounted(c)
  BY <1>2 DEF AccountInv, Accounted
<1>4. ASSUME NEW p \in Publisher, Lane!Step(p)
      PROVE  flying' = {} /\ \A c \in comments' : Accounted(c)'
  <2>0. flying' = {}
    BY <1>2, <1>3, <1>4, StepEffects
  <2>a. \A q \in Publisher : q # p =>
          pc'[q] = pc[q] /\ mine'[q] = mine[q] /\ target'[q] = target[q]
    BY <1>4, StepEffects
  <2>b. /\ p \in DOMAIN pc /\ p \in DOMAIN mine /\ p \in DOMAIN target
        /\ pc = [q \in DOMAIN pc |-> pc[q]]
    BY DEF Lane!TypeOK
  <2>1. CASE pc[p] \notin {"create", "check", "delete"} /\ pc[p] # "created"
    <3>1. \A c \in comments' : \E d \in comments : c.id = d.id /\ c.by = d.by
      <4>1. CASE comments' = comments
        BY <4>1
      <4>2. CASE Lane!SetMarker(p) \/ Lane!MissOwn(p)
        BY <4>2, Rewritten DEF Same
      <4>3. QED
        BY <1>4, <2>1, <4>1, <4>2, CommentShape DEF Lane!Create, Lane!DeleteDuplicate
    <3>2. QED
      BY <1>3, <2>0, <2>1, <2>a, <3>1 DEF Accounted
  <2>2. CASE Lane!Create(p)
    <3>1. pc[p] = "create" /\ pc'[p] = "check" /\ mine'[p] = nextId
      BY <1>2, <2>2, <2>b DEF Lane!Create, Lane!Unanswered
    <3>2. comments' = comments
            \cup {[id |-> nextId, mark |-> MarkerOf[p], by |-> p, missed |-> FALSE]}
      BY <1>2, <2>2 DEF Lane!Create, Lane!AddComment, Lane!Unanswered
    <3>3. QED
      BY <1>3, <2>0, <2>a, <3>1, <3>2 DEF Accounted
  <2>3. CASE Lane!CheckWinner(p)
    <3>1. pc[p] = "check" /\ mine'[p] = mine[p] /\ comments' = comments
      BY <2>3 DEF Lane!CheckWinner
    <3>2. pc'[p] = "delete" \/ (pc'[p] = "created" /\ target'[p] = mine[p])
      BY <2>3, <2>b DEF Lane!CheckWinner
    <3>3. QED
      BY <1>3, <2>0, <2>a, <3>1, <3>2 DEF Accounted
  <2>4. CASE Lane!DeleteDuplicate(p)
    <3>1. pc[p] = "delete" /\ comments' = {c \in comments : c.id # mine[p]}
      BY <1>2, <2>4 DEF Lane!DeleteDuplicate, Lane!Remove, Lane!Unanswered
    <3>2. QED
      BY <1>3, <2>0, <2>a, <3>1 DEF Accounted
  <2>5. QED
    BY <1>2, <1>4, <2>1, <2>2, <2>3, <2>4
    DEF Lane!Step, Lane!ListFails, Lane!PublishOnce, Lane!HasTurn, Lane!AfterCreateError,
    Lane!Update, Lane!AfterUpdateError
<1>5. CASE \/ \E p \in Publisher : Lane!Enter(p)
           \/ UNCHANGED Lane!vars
  <2>1. comments' = comments /\ mine' = mine /\ target' = target /\ flying' = flying
    BY <1>5 DEF Lane!Enter, Lane!vars
  <2>2. \A q \in Publisher : pc'[q] = pc[q] \/ pc[q] = "idle"
    BY <1>5 DEF Lane!Enter, Lane!vars, Lane!TypeOK
  <2>3. QED
    BY <1>3, <2>1, <2>2 DEF Accounted
<1>6. CASE \E h \in Host : Lane!Crash(h)
  BY <1>2, <1>6 DEF Lane!Crash
<1>7. CASE \E r \in flying : Lane!Arrive(r)
  BY <1>3, <1>7
<1>8. QED
  BY <1>4, <1>5, <1>6, <1>7 DEF Lane!Next
-----------------------------------------------------------------------------
(* Theorems                                                                *)

\* A behaviour of the composition is one of the publications, which may stay as they are.
LEMMA APublication == MCSpec => Lane!Init /\ [][Lane!Next]_Lane!vars
<1>1. MCInit => Lane!Init
  BY DEF MCInit
<1>2. [MCNext]_all => [Lane!Next]_Lane!vars
  BY DEF MCNext, ChildDoes, FlightDoes, LaneDoes, all, publication, Lane!vars
<1>3. QED
  BY <1>1, <1>2, PTL DEF MCSpec

LEMMA PublicationInvariant == MCSpec => []Inv
<1>1. Lane!Init => Inv
  <2> SUFFICES ASSUME Lane!Init PROVE Inv
    OBVIOUS
  <2> DEFINE old == [id |-> 1, mark |-> OldMarker, by |-> OldMarker, missed |-> FALSE]
  <2>a. (comments = {} \/ comments = {old}) /\ old.id = 1 /\ old.by = OldMarker /\ old \in Lane!Comment
    BY DEF Lane!Init, Lane!Comment
  <2> HIDE DEF old
  <2>b. \A c \in comments : c.id = 1 /\ c.by = OldMarker /\ comments = {c}
    BY <2>a
  <2>c. /\ flying = {} /\ nextId = 2 /\ lane = [h \in Host |-> <<>>] /\ faults = 0
        /\ pc = [p \in Publisher |-> "idle"] /\ mine = [p \in Publisher |-> 0]
    BY DEF Lane!Init
  <2>1. Lane!TypeOK
    BY <2>a, <2>c, PublicationAssumption, EmptySeq DEF Lane!Init, Lane!TypeOK
  <2>2. LaneInv
    BY <2>c, PublicationAssumption DEF LaneInv, Orderly, HasPlace, Lane!Working
  <2>3. IdInv
    BY <2>b, <2>c DEF IdInv
  <2>4. BegunInv
    BY <2>b, <2>c, PublicationAssumption DEF BegunInv
  <2>5. SearchInv
    BY <2>b, <2>c DEF SearchInv, Searching, OneCommentPerProcess, Lane!OneCommentPerProcess
  <2>6. EarlierInv
    BY <2>b, <2>c DEF EarlierInv, Creating
  <2>7. MineInv
    BY <2>c DEF MineInv, Deciding
  <2>8. ChosenInv
    BY <2>b, <2>c, PublicationAssumption DEF ChosenInv, Chosen, Doomed, Updating, Lane!Succeeded
  <2>9. AccountInv
    BY <2>b, <2>c DEF AccountInv
  <2>10. QED
    BY <2>1, <2>2, <2>3, <2>4, <2>5, <2>6, <2>7, <2>8, <2>9 DEF Inv
<1>2. Inv /\ [Lane!Next]_Lane!vars => Inv'
  BY TypeStep, LaneStep, IdStep, BegunStep, SearchStep, EarlierStep, MineStep, ChosenStep, AccountStep
  DEF Inv
<1>3. QED
  BY <1>1, <1>2, APublication, PTL

\* Every variable has its type, in every reachable state.
THEOREM PublicationTypes == MCSpec => []Lane!TypeOK
  BY PublicationInvariant, PTL DEF Inv

\* A process makes a second comment only where the publication that made the first missed it,
\* whatever it publishes, whichever of its requests fail, are handled after all, or late, and
\* whatever the other processes do: the lane of publication-lane.ts:18 and the reconciliation
\* of publish.ts:117 suffice within a process.
THEOREM ProcessHasOneComment == MCSpec => []OneCommentPerProcess
<1>1. Inv => OneCommentPerProcess
  BY DEF Inv, SearchInv
<1>2. QED
  BY <1>1, PublicationInvariant, PTL

\* The comment that a publication has returned stands while all publish one report: whatever
\* is deleted as a duplicate (publish.ts:157), now or late, is younger.
THEOREM ReturnedCommentStands == MCSpec => []PublishedCommentStands
<1>1. Inv => PublishedCommentStands
  BY DEF Inv, ChosenInv, Chosen, Heads, PublishedCommentStands, Lane!PublishedCommentStands, Lane!Exact
<1>2. QED
  BY <1>1, PublicationInvariant, PTL

\* Where no request fails and no process dies, publications of one report leave one
\* comment, however many processes publish at once.
THEOREM FaultlessLeavesOne == MCSpec => []OneCommentIfAllGoesWell
<1>1. Inv => OneCommentIfAllGoesWell
  <2> SUFFICES ASSUME Inv, Lane!OneReport, faults = 0, \A p \in Publisher : pc[p] \in Lane!Finished,
                      NEW c \in comments, NEW d \in comments, c.mark = d.mark
               PROVE  c = d
    BY DEF OneCommentIfAllGoesWell, Lane!OneCommentIfAllGoesWell
  <2>1. CASE c.by = OldMarker \/ d.by = OldMarker
    BY <2>1 DEF Inv, EarlierInv
  <2>2. ASSUME NEW e \in comments, e.by # OldMarker
        PROVE  \A x \in comments : e.id <= x.id
    <3>1. PICK p \in Publisher : pc[p] = "created" /\ target[p] = e.id
      BY <2>2 DEF Inv, AccountInv, Deciding, Lane!Finished
    <3>2. QED
      BY <3>1 DEF Inv, ChosenInv, Chosen, Heads, Lane!Succeeded
  <2>3. CASE c.by # OldMarker /\ d.by # OldMarker
    <3>1. c.id = d.id
      BY <2>2, <2>3 DEF Inv, Lane!TypeOK, Lane!Comment
    <3>2. QED
      BY <3>1 DEF Inv, IdInv
  <2>4. QED
    BY <2>1, <2>3
<1>2. QED
  BY <1>1, PublicationInvariant, PTL
================================================================================
