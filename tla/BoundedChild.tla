------------------------------ MODULE BoundedChild ------------------------------
(***************************************************************************)
(* One provider process and the three parties that run it: the parent      *)
(* (BoundedChildExecution in providers/bounded-child-process.ts), the      *)
(* supervisor it spawns as the leader of a process group                   *)
(* (providers/process-supervisor.ts), and the provider that the supervisor *)
(* starts in that group.  Parent and supervisor talk over two pipes and    *)
(* have a deadline each; the provider may do as it likes.                  *)
(***************************************************************************)
EXTENDS Naturals, Sequences

CONSTANTS
  MaxWritten,  \* bound: the chunks of output that the provider may write
  OutputLimit  \* the chunks that the parent accepts

ASSUME BoundedChildAssumption == MaxWritten \in Nat /\ OutputLimit \in Nat

VARIABLES
  parentAlive,
  parent,      \* "idle", then supervisorState
  terminal,    \* the reason of the failure, or "none"
  settled,     \* how far the promise is
  monitor,     \* the external monitor
  read,        \* the chunks that were collected
  late,        \* Date.now() >= deadline
  toSup,       \* control frames to the supervisor
  ended,       \* ... and that pipe has been ended
  toParent,    \* frames to the parent
  sup,         \* state of the supervisor; "dead" after "done"
  prov,        \* the provider; "exited" and "failed" are still unseen by the supervisor
  outcome,     \* whether the provider ended by itself
  kin,         \* the provider has left a descendant in the group
  written      \* the chunks that the group has written

parentVars == <<parentAlive, parent, terminal, settled, monitor, read>>
groupVars == <<sup, prov, outcome, kin, written>>
pipeVars == <<toSup, ended, toParent>>
vars == <<parentVars, late, pipeVars, groupVars>>

Reasons == {"aborted", "timeout", "output_limit", "supervisor", "spawn", "stdin", "monitor"}

TypeOK ==
  /\ parentAlive \in BOOLEAN
  /\ parent \in {"idle", "waiting_ready", "running", "result_received"}
  /\ terminal \in {"none"} \cup Reasons
  /\ settled \in {"no", "closing", "resolved", "rejected"}
  /\ monitor \in {"off", "on", "stopped"}
  /\ read \in 0 .. MaxWritten
  /\ late \in BOOLEAN
  /\ toSup \in Seq({"start", "ack", "cancel"})
  /\ ended \in BOOLEAN
  /\ toParent \in Seq({"ready", "exit", "spawn_error"})
  /\ sup \in {"none", "initializing", "waiting_start", "running", "waiting_ack",
              "terminating", "dead"}
  /\ prov \in {"none", "running", "exited", "failed", "gone"}
  /\ outcome \in {"none", "own", "signalled"}
  /\ kin \in BOOLEAN
  /\ written \in 0 .. MaxWritten

Init ==
  /\ parentAlive = TRUE
  /\ parent = "idle"
  /\ terminal = "none"
  /\ settled = "no"
  /\ monitor = "off"
  /\ read = 0
  /\ late = FALSE
  /\ toSup = <<>>
  /\ ended = FALSE
  /\ toParent = <<>>
  /\ sup = "none"
  /\ prov = "none"
  /\ outcome = "none"
  /\ kin = FALSE
  /\ written = 0

Settled == settled \in {"resolved", "rejected"}

Active == ~Settled /\ terminal = "none"

\* Of the supervisor and all that it owns, nothing runs.
GroupGone == sup \in {"none", "dead"} /\ prov # "running" /\ ~kin

-----------------------------------------------------------------------------
(* The supervisor                                                          *)

\* Mutated: the supervisor kills only itself.
ForceKillOwnedGroupAlone ==
  /\ sup' = "dead"
  /\ UNCHANGED <<prov, outcome, kin, written>>

\* forceKillOwnedGroup: SIGKILL to the group, of which the supervisor is the leader.
ForceKillOwnedGroup ==
  /\ sup' = "dead"
  /\ kin' = FALSE
  /\ prov' = IF prov = "none" THEN "none" ELSE "gone"
  /\ outcome' = IF prov = "running" THEN "signalled" ELSE outcome
  /\ UNCHANGED written

FinishBeforeStart == sup' = "dead" /\ UNCHANGED <<prov, outcome, kin, written>>

\* SIGTERM to the group; the provider may ignore it.
CancelOwnedWork ==
  \/ /\ sup \in {"initializing", "waiting_start"}
     /\ FinishBeforeStart
  \/ /\ sup = "waiting_ack"
     /\ ForceKillOwnedGroup
  \/ /\ sup = "running"
     /\ sup' = "terminating"
     /\ UNCHANGED <<prov, outcome, kin, written>>
  \/ /\ sup = "terminating"
     /\ UNCHANGED groupVars

\* main(): a frame to a dead parent cannot be written.
SupervisorMain ==
  /\ sup = "initializing"
  /\ IF late \/ ~parentAlive
     THEN FinishBeforeStart /\ UNCHANGED toParent
     ELSE /\ sup' = "waiting_start"
          /\ toParent' = Append(toParent, "ready")
          /\ UNCHANGED <<prov, outcome, kin, written>>
  /\ UNCHANGED <<parentVars, late, toSup, ended>>

StartProvider ==
  IF late
  THEN CancelOwnedWork
  ELSE /\ sup' = "running"
       /\ prov' \in {"running", "failed"}
       /\ UNCHANGED <<outcome, kin, written>>

AcceptControlFrame ==
  /\ sup \in {"waiting_start", "running", "waiting_ack", "terminating"}
  /\ toSup # <<>>
  /\ toSup' = Tail(toSup)
  /\ CASE Head(toSup) = "start" /\ sup = "waiting_start" -> StartProvider
       [] Head(toSup) = "ack" /\ sup = "waiting_ack" -> ForceKillOwnedGroup
       [] OTHER -> CancelOwnedWork
  /\ UNCHANGED <<parentVars, late, ended, toParent>>

\* Mutated: the end of the control pipe matters only where a start is awaited.
CloseControlBeforeStart ==
  /\ toSup = <<>>
  /\ ended
  /\ sup = "waiting_start"
  /\ CancelOwnedWork
  /\ UNCHANGED <<parentVars, late, pipeVars>>

\* The control pipe has ended: the parent cancelled, acknowledged or died.
CloseControl ==
  /\ toSup = <<>>
  /\ ended
  /\ sup \in {"waiting_start", "running", "waiting_ack"}
  /\ CancelOwnedWork
  /\ UNCHANGED <<parentVars, late, pipeVars>>

SupervisorDeadline ==
  /\ late
  /\ sup \in {"waiting_start", "running", "waiting_ack"}
  /\ CancelOwnedWork
  /\ UNCHANGED <<parentVars, late, pipeVars>>

\* Mutated: a result is reported although the provider was being terminated.
ReportResultOfTheKilled ==
  /\ sup \in {"running", "terminating"}
  /\ prov \in {"exited", "failed"}
  /\ sup' = "waiting_ack"
  /\ prov' = "gone"
  /\ toParent' = Append(toParent, IF prov = "exited" THEN "exit" ELSE "spawn_error")
  /\ UNCHANGED <<outcome, kin, written, parentVars, late, toSup, ended>>

\* The provider's exit or error event.
ReportResult ==
  /\ prov \in {"exited", "failed"}
  /\ \/ /\ sup = "running"
        /\ IF parentAlive
           THEN /\ sup' = "waiting_ack"
                /\ prov' = "gone"
                /\ toParent' = Append(toParent, IF prov = "exited" THEN "exit" ELSE "spawn_error")
                /\ UNCHANGED <<outcome, kin, written>>
           ELSE ForceKillOwnedGroup /\ UNCHANGED toParent
     \/ /\ sup = "terminating"
        /\ prov' = "gone"
        /\ UNCHANGED <<sup, outcome, kin, written, toParent>>
  /\ UNCHANGED <<parentVars, late, toSup, ended>>

AckTimeout ==
  /\ sup = "waiting_ack"
  /\ ForceKillOwnedGroup
  /\ UNCHANGED <<parentVars, late, pipeVars>>

\* Mutated: the group is killed only if the provider obeyed SIGTERM.
GraceEndsPolitely ==
  /\ sup = "terminating"
  /\ prov # "running"
  /\ ForceKillOwnedGroup
  /\ UNCHANGED <<parentVars, late, pipeVars>>

GraceEnds ==
  /\ sup = "terminating"
  /\ ForceKillOwnedGroup
  /\ UNCHANGED <<parentVars, late, pipeVars>>

\* Someone sends SIGTERM to the supervisor.
SupervisorSignalled ==
  /\ sup \in {"initializing", "waiting_start", "running", "waiting_ack"}
  /\ CancelOwnedWork
  /\ UNCHANGED <<parentVars, late, pipeVars>>

-----------------------------------------------------------------------------
(* The provider                                                            *)

ProviderWrites ==
  /\ prov = "running" \/ kin
  /\ written < MaxWritten
  /\ written' = written + 1
  /\ UNCHANGED <<parentVars, late, pipeVars, sup, prov, outcome, kin>>

ProviderForks ==
  /\ prov = "running"
  /\ kin' = TRUE
  /\ UNCHANGED <<parentVars, late, pipeVars, sup, prov, outcome, written>>

DescendantExits ==
  /\ kin
  /\ kin' = FALSE
  /\ UNCHANGED <<parentVars, late, pipeVars, sup, prov, outcome, written>>

ProviderExits ==
  /\ prov = "running"
  /\ prov' = "exited"
  /\ outcome' = IF sup = "terminating" THEN "signalled" ELSE "own"
  /\ UNCHANGED <<parentVars, late, pipeVars, sup, kin, written>>

-----------------------------------------------------------------------------
(* The parent: every action is one callback of its event loop              *)

\* runBoundedChild and start().
Start ==
  /\ parentAlive
  /\ parent = "idle"
  /\ settled = "no"
  /\ \/ /\ terminal' \in IF late THEN {"timeout"} ELSE {"aborted", "spawn"}
        /\ settled' = "rejected"
        /\ UNCHANGED <<parent, sup>>
     \/ /\ ~late
        /\ parent' = "waiting_ready"
        /\ sup' = "initializing"
        /\ UNCHANGED <<terminal, settled>>
  /\ UNCHANGED <<parentAlive, monitor, read, late, pipeVars, prov, outcome, kin, written>>

\* endSupervisorControl: not twice.
EndControl(frame) ==
  /\ toSup' = IF ended THEN toSup ELSE Append(toSup, frame)
  /\ ended' = TRUE

\* fail(): the streams are destroyed and the supervisor is told.
Fail(reason) ==
  /\ terminal' = reason
  /\ monitor' = IF monitor = "on" THEN "stopped" ELSE monitor
  /\ EndControl("cancel")

\* A callback of a child that was started and has not failed.
Callback == parentAlive /\ parent # "idle" /\ Active

FailsBy(reason) ==
  /\ Callback
  /\ Fail(reason)
  /\ UNCHANGED <<parentAlive, parent, settled, read, late, toParent, groupVars>>

Aborted == FailsBy("aborted")

ParentTimeout == late /\ FailsBy("timeout")

MonitorFails == monitor = "on" /\ FailsBy("monitor")

\* The supervisor could not be spawned.
SupervisorSpawnFails ==
  /\ Callback
  /\ sup = "initializing"
  /\ sup' = "dead"
  /\ Fail("spawn")
  /\ UNCHANGED <<parentAlive, parent, settled, read, late, toParent, prov, outcome, kin, written>>

\* EPIPE: nobody reads what was written to the supervisor, or to the provider's stdin.
InputError ==
  \/ /\ sup = "dead"
     /\ toSup # <<>>
     /\ parent # "result_received"
     /\ FailsBy("supervisor")
  \/ /\ GroupGone
     /\ parent \in {"running", "result_received"}
     /\ FailsBy("stdin")

\* The start frame; the provider's stdin goes with it.
WriteStart ==
  /\ parent' = "running"
  /\ toSup' = Append(toSup, "start")
  /\ UNCHANGED <<terminal, ended>>

\* The ready frame: start the monitor, look at the clock, and send start.
AcceptReady ==
  /\ Callback
  /\ toParent # <<>>
  /\ Head(toParent) = "ready"
  /\ toParent' = Tail(toParent)
  /\ \/ /\ monitor' \in {"off", "stopped"}   \* it throws, or fails while it starts
        /\ terminal' = "monitor"
        /\ EndControl("cancel")
        /\ UNCHANGED parent
     \/ /\ monitor' \in {"off", "stopped"}   \* there is none, or it is stopped again
        /\ \/ late /\ terminal' = "timeout"
           \/ sup = "dead" /\ terminal' = "supervisor"
        /\ EndControl("cancel")
        /\ UNCHANGED parent
     \/ /\ ~late
        /\ monitor' \in {"off", "on"}
        /\ WriteStart
  /\ UNCHANGED <<parentAlive, settled, read, late, groupVars>>

\* The result frame: keep the exit code and acknowledge, if the supervisor still lives.
AcceptResult ==
  /\ Callback
  /\ toParent # <<>>
  /\ Head(toParent) \in {"exit", "spawn_error"}
  /\ toParent' = Tail(toParent)
  /\ IF parent = "running"
     THEN /\ parent' = "result_received"
          /\ \/ /\ EndControl("ack")
                /\ terminal' = IF Head(toParent) = "exit" THEN "none" ELSE "spawn"
             \/ /\ sup = "dead"
                /\ terminal' = IF Head(toParent) = "exit" THEN "supervisor" ELSE "spawn"
                /\ UNCHANGED <<toSup, ended>>
          /\ UNCHANGED monitor
     ELSE Fail("supervisor") /\ UNCHANGED parent
  /\ UNCHANGED <<parentAlive, settled, read, late, groupVars>>

\* A chunk of stdout or stderr.
Collect ==
  /\ Callback
  /\ read < written
  /\ read' = read + 1
  /\ IF read' > OutputLimit
     THEN Fail("output_limit")
     ELSE UNCHANGED <<terminal, monitor, toSup, ended>>
  /\ UNCHANGED <<parentAlive, parent, settled, late, toParent, groupVars>>

\* Node emits close when the supervisor has exited and every pipe is drained.
Drained == toParent = <<>> /\ read = written

\* close(), up to the end of the extra output.
Close ==
  /\ parentAlive
  /\ parent # "idle"
  /\ settled = "no"
  /\ sup = "dead"
  /\ Active => Drained /\ prov # "running" /\ ~kin
  /\ settled' = "closing"
  /\ terminal' = IF terminal = "none" /\ parent # "result_received"
                 THEN IF late THEN "timeout" ELSE "supervisor"
                 ELSE terminal
  /\ UNCHANGED <<parentAlive, parent, monitor, read, late, pipeVars, groupVars>>

\* ... and after it: the promise settles.
Settle ==
  /\ parentAlive
  /\ settled = "closing"
  /\ settled' = IF terminal = "none" THEN "resolved" ELSE "rejected"
  /\ monitor' = IF monitor = "on" THEN "stopped" ELSE monitor
  /\ UNCHANGED <<parentAlive, parent, terminal, read, late, pipeVars, groupVars>>

ParentDies ==
  /\ parentAlive
  /\ parentAlive' = FALSE
  /\ ended' = TRUE
  /\ UNCHANGED <<parent, terminal, settled, monitor, read, late, toSup, toParent, groupVars>>

DeadlinePasses ==
  /\ ~late
  /\ late' = TRUE
  /\ UNCHANGED <<parentVars, pipeVars, groupVars>>

-----------------------------------------------------------------------------

SupervisorStep ==
  \/ SupervisorMain \/ AcceptControlFrame \/ CloseControl \/ SupervisorDeadline
  \/ ReportResult \/ AckTimeout \/ GraceEnds

ProviderStep == ProviderWrites \/ ProviderForks \/ DescendantExits \/ ProviderExits

ParentStep ==
  \/ Start \/ ParentTimeout \/ AcceptReady \/ AcceptResult \/ Collect \/ Close \/ Settle

Environment ==
  \/ Aborted \/ MonitorFails \/ SupervisorSpawnFails \/ InputError
  \/ SupervisorSignalled \/ ParentDies \/ DeadlinePasses

Next == SupervisorStep \/ ProviderStep \/ ParentStep \/ Environment

Spec == Init /\ [][Next]_vars

\* Both event loops run on and their timers fire; the provider need not do anything.
FairSpec == Spec /\ WF_vars(SupervisorStep) /\ WF_vars(ParentStep)
-----------------------------------------------------------------------------
(* Properties                                                              *)

\* When the call has settled nothing of the provider's process group runs any more,
\* whichever of the two sides gave up first.  (close, bounded-child-process.ts:416;
\* forceKillOwnedGroup, process-supervisor.ts:20.)
NothingOutlivesTheCall == settled # "no" => GroupGone

\* A call resolves only with the exit code of a provider that ended by itself and with
\* all that the group has written.  (reportResult, process-supervisor.ts:83; close.)
ResultIsWhole ==
  settled = "resolved" =>
    /\ outcome = "own"
    /\ parent = "result_received"
    /\ read = written
    /\ read <= OutputLimit

\* After the deadline the call settles, whatever the provider does.
\* (start, bounded-child-process.ts:144; main, process-supervisor.ts:202.)
DeadlineSettles == (late /\ parentAlive) ~> (Settled \/ ~parentAlive)

\* Once the call has failed or its process has died, the group ends without waiting for
\* the deadline.  (fail, bounded-child-process.ts:399; closeControl.)
CancelEndsTheWork == (terminal # "none" \/ ~parentAlive) ~> GroupGone
================================================================================
