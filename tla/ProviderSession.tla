---------------------------- MODULE ProviderSession ----------------------------
(***************************************************************************)
(* The sessions of a process provider: one private copy of the provider's  *)
(* executable for each review run (providers/executable-snapshot.ts),      *)
(* shared by the calls of the run and counted by them                      *)
(* (providers/process-provider-session.ts).  A call acquires a lease, runs *)
(* the copy, and releases the lease; the last one removes the copy.        *)
(*                                                                         *)
(* A session entry is named after the call that created it.  A step is     *)
(* what runs between two turns of the event loop: the settling of a        *)
(* promise and the continuation of a call that waits for it are two.       *)
(***************************************************************************)
EXTENDS Naturals, FiniteSets

CONSTANTS
  Call,          \* calls of acquire, each with its lease
  Run,           \* run ids
  None,
  MaxSessions,   \* MAX_PROVIDER_RUN_SESSIONS
  MaxSnapshots,  \* MAX_ACTIVE_EXECUTABLE_SNAPSHOTS
  MaxFaults      \* bound: removals that fail

ASSUME ProviderSessionAssumption ==
  /\ IsFiniteSet(Call)
  /\ None \notin Call \cup Run
  /\ MaxSessions \in Nat
  /\ MaxSnapshots \in Nat
  /\ MaxFaults \in Nat

VARIABLES
  sessions,  \* the map of the manager: the entry of a run, or None
  run,       \* run[c]: the run that call c names
  pc,        \* pc[c]: where c stands
  at,        \* at[c]: the entry that c waits for or has a lease of
  state,     \* state[e]: of the entry, "none" before it is made
  aborted,   \* aborted[e]: the controller of its creation
  waiters,
  leases,
  cleanup,   \* cleanup[e]: the promise of its removal
  stage,     \* stage[e]: where the creation of its resource stands
  disk,      \* disk[e]: its private directory exists
  active,    \* activeSnapshots of the process
  secrets,   \* the references to the credentials that are to be redacted
  faults

callVars == <<run, pc, at>>
entryVars == <<sessions, state, aborted, waiters, leases, cleanup>>
diskVars == <<stage, disk, active, secrets>>
vars == <<callVars, entryVars, diskVars, faults>>

\* "ready" and "lost" wait for their turn with a resource, or with an error.
Waiting == {"waiting", "ready", "lost"}

TypeOK ==
  /\ sessions \in [Run -> Call \cup {None}]
  /\ run \in [Call -> Run \cup {None}]
  /\ pc \in [Call -> {"idle", "leased", "releasing", "stuck", "released", "failed"}
                     \cup Waiting]
  /\ at \in [Call -> Call \cup {None}]
  /\ state \in [Call -> {"none", "pending", "resolved", "rejected"}]
  /\ aborted \in [Call -> BOOLEAN]
  /\ waiters \in [Call -> Nat]
  /\ leases \in [Call -> Nat]
  /\ cleanup \in [Call -> {"none", "running", "done"}]
  /\ stage \in [Call -> {"none", "checks", "reserved", "copying",
                         "discarding", "made", "threw"}]
  /\ disk \in [Call -> BOOLEAN]
  /\ active \in Nat
  /\ secrets \in Nat
  /\ faults \in 0 .. MaxFaults

Init ==
  /\ sessions = [r \in Run |-> None]
  /\ run = [c \in Call |-> None]
  /\ pc = [c \in Call |-> "idle"]
  /\ at = [c \in Call |-> None]
  /\ state = [e \in Call |-> "none"]
  /\ aborted = [e \in Call |-> FALSE]
  /\ waiters = [e \in Call |-> 0]
  /\ leases = [e \in Call |-> 0]
  /\ cleanup = [e \in Call |-> "none"]
  /\ stage = [e \in Call |-> "none"]
  /\ disk = [e \in Call |-> FALSE]
  /\ active = 0
  /\ secrets = 0
  /\ faults = 0

Goto(c, label) == pc' = [pc EXCEPT ![c] = label]

\* Every call of S that stands at from goes to label.
GotoAll(e, from, label) ==
  pc' = [c \in Call |-> IF at[c] = e /\ pc[c] = from THEN label ELSE pc[c]]

Fault == faults < MaxFaults /\ faults' = faults + 1

-----------------------------------------------------------------------------
(* ProcessProviderSessionManager                                           *)

Forget(e) ==
  sessions' = [sessions EXCEPT ![run[e]] = IF @ = e THEN None ELSE @]

\* Mutated: the last lease removes the copy although calls wait for one.
RetireUnleased(e, s, w, l) ==
  \/ /\ l > 0
     /\ UNCHANGED <<sessions, aborted, cleanup>>
  \/ /\ l = 0
     /\ Forget(e)
     /\ aborted' = [aborted EXCEPT ![e] = @ \/ s = "pending"]
     /\ cleanup' = [cleanup EXCEPT ![e] = IF s = "resolved" /\ @ = "none" THEN "running" ELSE @]

\* retireIfUnused, for an entry in state s with w waiters and l leases.
RetireIfUnused(e, s, w, l) ==
  \/ /\ w > 0 \/ l > 0
     /\ UNCHANGED <<sessions, aborted, cleanup>>
  \/ /\ w = 0 /\ l = 0
     /\ Forget(e)
     /\ aborted' = [aborted EXCEPT ![e] = @ \/ s = "pending"]
     /\ cleanup' = [cleanup EXCEPT ![e] = IF s = "resolved" /\ @ = "none" THEN "running" ELSE @]

\* An aborted or late call, or one beyond the limit of sessions, is refused.
Refuse(c) ==
  /\ pc[c] = "idle"
  /\ Goto(c, "failed")
  /\ UNCHANGED <<run, at, entryVars, diskVars, faults>>

\* The first call of a run makes its entry.
CreateEntry(c) ==
  /\ pc[c] = "idle"
  /\ Cardinality({r \in Run : sessions[r] # None}) < MaxSessions
  /\ \E r \in Run :
       /\ sessions[r] = None
       /\ sessions' = [sessions EXCEPT ![r] = c]
       /\ run' = [run EXCEPT ![c] = r]
  /\ state' = [state EXCEPT ![c] = "pending"]
  /\ stage' = [stage EXCEPT ![c] = "checks"]
  /\ waiters' = [waiters EXCEPT ![c] = 1]
  /\ at' = [at EXCEPT ![c] = c]
  /\ Goto(c, "waiting")
  /\ UNCHANGED <<aborted, leases, cleanup, disk, active, secrets, faults>>

JoinEntry(c) ==
  /\ pc[c] = "idle"
  /\ \E r \in Run, e \in Call :
       /\ sessions[r] = e
       /\ run' = [run EXCEPT ![c] = r]
       /\ at' = [at EXCEPT ![c] = e]
       /\ \/ /\ state[e] = "resolved"
             /\ leases' = [leases EXCEPT ![e] = @ + 1]
             /\ Goto(c, "leased")
             /\ UNCHANGED waiters
          \/ /\ state[e] # "resolved"
             /\ waiters' = [waiters EXCEPT ![e] = @ + 1]
             /\ Goto(c, "waiting")
             /\ UNCHANGED leases
  /\ UNCHANGED <<sessions, state, aborted, cleanup, diskVars, faults>>

\* The signal of the call is aborted, or its deadline passes.
GiveUp(c) ==
  /\ pc[c] = "waiting"
  /\ Goto(c, "lost")
  /\ UNCHANGED <<run, at, entryVars, diskVars, faults>>

TakeLease(c) ==
  /\ pc[c] = "ready"
  /\ waiters' = [waiters EXCEPT ![at[c]] = @ - 1]
  /\ leases' = [leases EXCEPT ![at[c]] = @ + 1]
  /\ Goto(c, "leased")
  /\ UNCHANGED <<run, at, sessions, state, aborted, cleanup, diskVars, faults>>

\* The wait was rejected: the call throws, and nobody waits for what it may retire.
Leave(c) ==
  /\ pc[c] = "lost"
  /\ waiters' = [waiters EXCEPT ![at[c]] = @ - 1]
  /\ RetireIfUnused(at[c], state[at[c]], waiters[at[c]] - 1, leases[at[c]])
  /\ Goto(c, "failed")
  /\ UNCHANGED <<run, at, state, leases, diskVars, faults>>

\* release() of a lease waits for the removal if it was the last one.
Release(c) ==
  LET e == at[c] IN
  /\ pc[c] = "leased"
  /\ leases' = [leases EXCEPT ![e] = @ - 1]
  /\ RetireIfUnused(e, state[e], waiters[e], leases[e] - 1)
  /\ Goto(c, IF waiters[e] = 0 /\ leases[e] = 1 THEN "releasing" ELSE "released")
  /\ UNCHANGED <<run, at, state, waiters, diskVars, faults>>

\* A release() that threw is called again.
ReleaseAgain(c) ==
  LET e == at[c] IN
  /\ pc[c] = "stuck"
  /\ RetireIfUnused(e, state[e], waiters[e], leases[e])
  /\ Goto(c, IF waiters[e] = 0 /\ leases[e] = 0 THEN "releasing" ELSE "released")
  /\ UNCHANGED <<run, at, state, waiters, leases, diskVars, faults>>

-----------------------------------------------------------------------------
(* createSessionResource and createExecutableSnapshot                      *)

MoveTo(e, label) == stage' = [stage EXCEPT ![e] = label]

\* The configuration or the executable is refused, the creation is aborted, or two copies
\* exist already.
CheckFails(e) ==
  /\ stage[e] = "checks"
  /\ MoveTo(e, "threw")
  /\ UNCHANGED <<callVars, entryVars, disk, active, secrets, faults>>

\* reserveSnapshot; the limit of bytes is that of two copies of the largest size.
Reserve(e) ==
  /\ stage[e] = "checks"
  /\ ~aborted[e]
  /\ active < MaxSnapshots
  /\ active' = active + 1
  /\ MoveTo(e, "reserved")
  /\ UNCHANGED <<callVars, entryVars, disk, secrets, faults>>

MakeDirectory(e) ==
  /\ stage[e] = "reserved"
  /\ \/ /\ disk' = [disk EXCEPT ![e] = TRUE]
        /\ MoveTo(e, "copying")
        /\ UNCHANGED active
     \/ /\ active' = active - 1
        /\ MoveTo(e, "threw")
        /\ UNCHANGED disk
  /\ UNCHANGED <<callVars, entryVars, secrets, faults>>

\* The executable is copied and probed, which changes nothing that others see; either may
\* fail or be aborted, and an abort may come too late.
CopyAndProbe(e) ==
  /\ stage[e] = "copying"
  /\ \/ /\ MoveTo(e, "made")
        /\ secrets' = secrets + 1
     \/ /\ MoveTo(e, "discarding")
        /\ UNCHANGED secrets
  /\ UNCHANGED <<callVars, entryVars, disk, active, faults>>

\* A failed creation removes its directory; if that fails too the copy stays counted.
Discard(e) ==
  /\ stage[e] = "discarding"
  /\ \/ /\ disk' = [disk EXCEPT ![e] = FALSE]
        /\ active' = active - 1
        /\ UNCHANGED faults
     \/ /\ Fault
        /\ UNCHANGED <<disk, active>>
  /\ MoveTo(e, "threw")
  /\ UNCHANGED <<callVars, entryVars, secrets>>

\* The creation timer of the entry.
TimeOut(e) ==
  /\ state[e] = "pending"
  /\ ~aborted[e]
  /\ aborted' = [aborted EXCEPT ![e] = TRUE]
  /\ UNCHANGED <<callVars, sessions, state, waiters, leases, cleanup, diskVars, faults>>

\* Mutated: a resource that comes too late for every call is left alone.
ResolveForCalls(e) ==
  /\ stage[e] = "made"
  /\ state[e] = "pending"
  /\ state' = [state EXCEPT ![e] = "resolved"]
  /\ GotoAll(e, "waiting", "ready")
  /\ UNCHANGED <<run, at, sessions, aborted, cleanup, waiters, leases, diskVars, faults>>

\* The calls that gave up are not served, and if all did the copy is removed.
Resolve(e) ==
  /\ stage[e] = "made"
  /\ state[e] = "pending"
  /\ state' = [state EXCEPT ![e] = "resolved"]
  /\ GotoAll(e, "waiting", "ready")
  /\ RetireIfUnused(e, "resolved", waiters[e], leases[e])
  /\ UNCHANGED <<run, at, waiters, leases, diskVars, faults>>

Reject(e) ==
  /\ stage[e] = "threw"
  /\ state[e] = "pending"
  /\ state' = [state EXCEPT ![e] = "rejected"]
  /\ Forget(e)
  /\ GotoAll(e, "waiting", "lost")
  /\ UNCHANGED <<run, at, aborted, waiters, leases, cleanup, diskVars, faults>>

\* Mutated: a removal that fails ends like one that succeeds.
RemovalFailsQuietly(e) ==
  /\ cleanup[e] = "running"
  /\ Fault
  /\ cleanup' = [cleanup EXCEPT ![e] = "done"]
  /\ GotoAll(e, "releasing", "released")
  /\ UNCHANGED <<run, at, sessions, state, aborted, waiters, leases, diskVars>>

\* The promise of the removal is forgotten, so that it can be tried again.
RemovalFails(e) ==
  /\ cleanup[e] = "running"
  /\ Fault
  /\ cleanup' = [cleanup EXCEPT ![e] = "none"]
  /\ GotoAll(e, "releasing", "stuck")
  /\ UNCHANGED <<run, at, sessions, state, aborted, waiters, leases, diskVars>>

\* release() of the resource: the directory, the capacity and the credentials.
Remove(e) ==
  /\ cleanup[e] = "running"
  /\ disk' = [disk EXCEPT ![e] = FALSE]
  /\ active' = active - 1
  /\ secrets' = secrets - 1
  /\ cleanup' = [cleanup EXCEPT ![e] = "done"]
  /\ GotoAll(e, "releasing", "released")
  /\ UNCHANGED <<run, at, sessions, state, aborted, waiters, leases, stage, faults>>

-----------------------------------------------------------------------------

Creation(e) ==
  \/ CheckFails(e) \/ Reserve(e) \/ MakeDirectory(e) \/ CopyAndProbe(e)
  \/ Discard(e) \/ Resolve(e) \/ Reject(e)

Removal(e) == Remove(e) \/ RemovalFails(e)

Continue(c) == TakeLease(c) \/ Leave(c) \/ Release(c) \/ ReleaseAgain(c)

Enter(c) == Refuse(c) \/ CreateEntry(c) \/ JoinEntry(c)

Next ==
  \/ \E c \in Call : Enter(c) \/ GiveUp(c) \/ Continue(c)
  \/ \E e \in Call : Creation(e) \/ TimeOut(e) \/ Removal(e)

Spec == Init /\ [][Next]_vars

\* The event loop runs on, file operations and the use of a lease come to an end, and a
\* release that threw is tried again.
FairSpec ==
  /\ Spec
  /\ \A c \in Call : WF_vars(Continue(c)) /\ WF_vars(Creation(c)) /\ WF_vars(Removal(c))
-----------------------------------------------------------------------------
(* Properties                                                              *)

\* The copy that a call runs stays on disk while the call has its lease: no other call of
\* the run that gives up, releases or comes late takes it away, and its credentials stay
\* redacted.  (retireIfUnused, process-provider-session.ts:194.)
LeaseKeepsTheCopy ==
  \A c \in Call : pc[c] = "leased" =>
    /\ disk[at[c]]
    /\ cleanup[at[c]] = "none"
    /\ secrets > 0

\* The calls of one run share one copy, also when an earlier creation for that run was
\* given up and fails while the next one is in use.  (createEntry,
\* process-provider-session.ts:163.)
OneCopyPerRun ==
  \A c, d \in Call :
    pc[c] = "leased" /\ pc[d] = "leased" /\ run[c] = run[d] => at[c] = at[d]

\* Every copy on disk is counted, and no more than the limit exist, whatever fails while
\* one is made or removed.  (reserveSnapshot, executable-snapshot.ts:42, and release, line 182.)
CopiesAreCounted ==
  /\ Cardinality({e \in Call : disk[e]}) <= active
  /\ active <= MaxSnapshots

\* When every call that waited for a copy has released it without an error, the copy is
\* gone.  (release, process-provider-session.ts:181.)
ReleasedIsRemoved ==
  \A e \in Call :
    /\ \E c \in Call : at[c] = e
    /\ \A c \in Call : at[c] = e => pc[c] = "released"
    => ~disk[e]

\* In the end no session is left, and no copy counts but those whose removal failed,
\* although creations outlive the calls that asked for them.  (createEntry,
\* process-provider-session.ts:157, and createExecutableSnapshot, line 204.)
NothingLeaks == <>[]((\A r \in Run : sessions[r] = None) /\ active <= faults)
================================================================================
