------------------------------ MODULE LockStore ------------------------------
(***************************************************************************)
(* The host-local lock of storage/locks.ts and storage/lock-lease.ts, for  *)
(* one key, at the granularity of its file-system calls.                   *)
(*                                                                         *)
(* A lock is the directory <key>.lock with an "owner" directory in it; an  *)
(* operation on the owner of generation g holds the guard .operation-g;    *)
(* acquiring, and the bookkeeping of the other operations, happens under   *)
(* the .maintenance directory that all the keys share.  A random token     *)
(* names the process that drew it: every token that another process can    *)
(* still refer to is the last one its process drew.                        *)
(***************************************************************************)
EXTENDS Naturals, FiniteSets

CONSTANTS
  Proc,               \* the processes of one host; also pids and tokens
  None,               \* nobody
  Absent,             \* no .maintenance directory
  Unwritten,          \* a .maintenance without guard.json that is past its grace
  MaintenanceCrashes  \* whether a process may die inside the maintenance section

ASSUME LockStoreAssumption ==
  /\ None \notin Proc
  /\ Absent \notin Proc \cup {None}
  /\ Unwritten \notin Proc \cup {None, Absent}
  /\ MaintenanceCrashes \in BOOLEAN

VARIABLES
  alive,        \* the processes kill(pid, 0) finds
  maint,        \* .maintenance: Absent, a token, or no guard.json: None, or Unwritten
                \* once the directory is LOCK_ARTIFACT_GRACE_MS old
  container,    \* whether <key>.lock exists
  owner,        \* the payload of owner/lease.json, or None
  guard,        \* guard[g]: the token in .operation-g, or None
  quarantined,  \* the directories .operation-<gen>.quarantine-<name>
  scratch,      \* the processes with prepared or retired directories in <key>.lock
  handle,       \* handle[p]: acquireLock returned a LockHandle p has not released
  pc, op, obs, seen, cont, result   \* the locals of the running call

locals == <<pc, op, obs, seen, cont, result>>
files == <<maint, container, owner, guard, quarantined, scratch>>
vars == <<alive, files, handle, locals>>

Quarantine == [gen : Proc, name : Proc, by : Proc]

\* Where a call stands: the labels at which p is inside the maintenance section.
CreateSteps == {"recheck", "prepare", "install", "reread"}
GuardSteps == {"guard", "readGuard", "stealGuard", "reinstallGuard"}
OwnedSteps == {"check", "displace", "replace", "retire", "renew",
               "readOwnGuard", "dropGuard", "tidy"}
SectionSteps == CreateSteps \cup {"reserve", "ownReserve", "rmdir",
                                  "readMaint", "dropMaint"}
EntrySteps == {"mkdir", "write", "unwrite", "observe", "steal"}
Labels == {"idle", "dead", "read"} \cup EntrySteps \cup SectionSteps
            \cup GuardSteps \cup OwnedSteps

\* reclaimDeadOwner holds .maintenance around its guard; renew and release do not.
InSection(p) ==
  \/ pc[p] \in SectionSteps
  \/ pc[p] \in GuardSteps \cup OwnedSteps /\ op[p] = "acquire"

TypeOK ==
  /\ alive \subseteq Proc
  /\ maint \in Proc \cup {None, Absent, Unwritten}
  /\ container \in BOOLEAN
  /\ owner \in Proc \cup {None}
  /\ guard \in [Proc -> Proc \cup {None}]
  /\ quarantined \subseteq Quarantine
  /\ scratch \subseteq Proc
  /\ handle \in [Proc -> BOOLEAN]
  /\ pc \in [Proc -> Labels]
  /\ op \in [Proc -> {"acquire", "renew", "release"}]
  /\ obs \in [Proc -> Proc \cup {None}]
  /\ seen \in [Proc -> Proc \cup {None}]
  /\ cont \in [Proc -> {"recheck", "reserve", "ownReserve", "rmdir"}]
  /\ result \in [Proc -> {"none", "ok", "busy", "failed"}]

Init ==
  /\ alive = Proc
  /\ maint = Absent
  /\ container = FALSE
  /\ owner = None
  /\ guard = [g \in Proc |-> None]
  /\ quarantined = {}
  /\ scratch = {}
  /\ handle = [p \in Proc |-> FALSE]
  /\ pc = [p \in Proc |-> "idle"]
  /\ op = [p \in Proc |-> "acquire"]
  /\ obs = [p \in Proc |-> None]
  /\ seen = [p \in Proc |-> None]
  /\ cont = [p \in Proc |-> "recheck"]
  /\ result = [p \in Proc |-> "none"]

Dead(p) == p \in Proc \ alive

At(p, label) == p \in alive /\ pc[p] = label
Goto(p, label) == pc' = [pc EXCEPT ![p] = label]
Return(p, r) == result' = [result EXCEPT ![p] = r]

-----------------------------------------------------------------------------
(* The calls: acquireLock, renewLock and releaseLock read the owner first.  *)

Call(p, o) ==
  /\ At(p, "idle")
  /\ handle[p] <=> o # "acquire"
  /\ op' = [op EXCEPT ![p] = o]
  /\ handle' = IF o = "release" THEN [handle EXCEPT ![p] = FALSE] ELSE handle
  /\ obs' = [obs EXCEPT ![p] = None]
  /\ seen' = [seen EXCEPT ![p] = None]
  /\ Return(p, "none")
  /\ Goto(p, "read")
  /\ UNCHANGED <<alive, files, cont>>

EnterMaintenance(p, next) ==
  /\ Goto(p, "mkdir")
  /\ cont' = [cont EXCEPT ![p] = next]

\* A live owner makes the acquirer busy; a dead one is observed and reclaimed.
ReadOwner(p) ==
  /\ At(p, "read")
  /\ op[p] = "acquire"
  /\ \/ owner = None /\ EnterMaintenance(p, "recheck") /\ UNCHANGED <<obs, result>>
     \/ Dead(owner) /\ EnterMaintenance(p, "reserve")
          /\ obs' = [obs EXCEPT ![p] = owner] /\ UNCHANGED result
     \/ owner \in alive /\ Goto(p, "idle") /\ Return(p, "busy")
          /\ UNCHANGED <<obs, cont>>
  /\ UNCHANGED <<alive, files, handle, op, seen>>

\* Release of a lock that is gone returns; anything else that is not one's own throws.
ReadOwnLock(p) ==
  /\ At(p, "read")
  /\ op[p] # "acquire"
  /\ \/ owner = p /\ EnterMaintenance(p, "ownReserve")
          /\ obs' = [obs EXCEPT ![p] = p] /\ UNCHANGED result
     \/ owner # p /\ Goto(p, "idle")
          /\ Return(p, IF owner = None /\ op[p] = "release" THEN "ok" ELSE "failed")
          /\ UNCHANGED <<obs, cont>>
  /\ UNCHANGED <<alive, files, handle, op, seen>>

-----------------------------------------------------------------------------
(* acquireDirectoryMaintenance                                             *)

MakeMaintenance(p) ==
  /\ At(p, "mkdir")
  /\ IF maint = Absent THEN maint' = None /\ Goto(p, "write")
                       ELSE UNCHANGED maint /\ Goto(p, "observe")
  /\ UNCHANGED <<alive, container, owner, guard, quarantined, scratch, handle,
                 op, obs, seen, cont, result>>

\* writeFile(flag "wx"): fails when the directory is gone or already has a guard.json.
WriteMaintenance(p) ==
  /\ At(p, "write")
  /\ IF maint \in {None, Unwritten} THEN maint' = p /\ Goto(p, cont[p])
                                    ELSE UNCHANGED maint /\ Goto(p, "unwrite")
  /\ UNCHANGED <<alive, container, owner, guard, quarantined, scratch, handle,
                 op, obs, seen, cont, result>>

\* The catch block removes the path, whoever made it, and rethrows.
UndoMaintenance(p) ==
  /\ At(p, "unwrite")
  /\ maint' = Absent
  /\ Goto(p, "idle")
  /\ Return(p, "failed")
  /\ UNCHANGED <<alive, container, owner, guard, quarantined, scratch, handle,
                 op, obs, seen, cont>>

\* LOCK_ARTIFACT_GRACE_MS go by, which is 30 times as long as a call waits for the
\* directory.  A live process writes guard.json within that time of its mkdir, so a
\* directory that has aged was made by a process that died.
PastGrace ==
  /\ maint = None
  /\ \A q \in alive : pc[q] # "write"
  /\ maint' = Unwritten
  /\ UNCHANGED <<alive, container, owner, guard, quarantined, scratch, handle, locals>>

\* Mutated: a directory whose maker died before writing guard.json is never stale.
OnlyWrittenReclaimable == Dead(maint)

MaintenanceReclaimable == Dead(maint) \/ maint = Unwritten

\* What acquireLock, renewLock and releaseLock do when the wait for it times out.
MaintenanceUnavailable(p) ==
  /\ Goto(p, "idle")
  /\ Return(p, IF cont[p] = "rmdir" THEN result[p] ELSE "busy")

ObserveMaintenance(p) ==
  /\ At(p, "observe")
  /\ Goto(p, IF MaintenanceReclaimable THEN "steal" ELSE "mkdir")
  /\ UNCHANGED <<alive, files, handle, op, obs, seen, cont, result>>

\* The deadline passes while .maintenance is not reclaimable.
TimeoutMaintenance(p) ==
  /\ At(p, "observe")
  /\ ~MaintenanceReclaimable
  /\ MaintenanceUnavailable(p)
  /\ UNCHANGED <<alive, files, handle, op, obs, seen, cont>>

\* The rename moves whatever is at the path now, not what was observed.
StealMaintenance(p) ==
  /\ At(p, "steal")
  /\ maint' = Absent
  /\ \/ Goto(p, "mkdir") /\ UNCHANGED result
     \/ maint = Absent /\ MaintenanceUnavailable(p)
  /\ UNCHANGED <<alive, container, owner, guard, quarantined, scratch, handle,
                 op, obs, seen, cont>>

(* releaseGenerationGuard on .maintenance: a check, then a rename.         *)

ReadOwnMaintenance(p) ==
  /\ At(p, "readMaint")
  /\ IF maint = p THEN Goto(p, "dropMaint") /\ UNCHANGED result
                  ELSE Goto(p, "idle") /\ Return(p, "failed")
  /\ UNCHANGED <<alive, files, handle, op, obs, seen, cont>>

\* Mutated: whatever did not throw is taken for success.
AfterMaintenanceUnchecked(p) ==
  /\ Goto(p, IF cont[p] = "ownReserve" /\ result[p] = "none" THEN "guard" ELSE "idle")
  /\ handle' = IF op[p] = "acquire" /\ result[p] # "failed"
               THEN [handle EXCEPT ![p] = TRUE] ELSE handle

\* Where the call goes on: to its own guard, or back to the caller.
AfterMaintenance(p) ==
  /\ Goto(p, IF cont[p] = "ownReserve" /\ result[p] = "none" THEN "guard" ELSE "idle")
  /\ handle' = IF op[p] = "acquire" /\ result[p] = "ok"
               THEN [handle EXCEPT ![p] = TRUE] ELSE handle

DropMaintenance(p) ==
  /\ At(p, "dropMaint")
  /\ maint' = Absent
  /\ IF maint # Absent THEN AfterMaintenance(p) /\ UNCHANGED result
                       ELSE Goto(p, "idle") /\ Return(p, "failed") /\ UNCHANGED handle
  /\ UNCHANGED <<alive, container, owner, guard, quarantined, scratch,
                 op, obs, seen, cont>>

-----------------------------------------------------------------------------
(* acquireLock under .maintenance, when there was no owner                 *)

LeaveWith(p, r) == Goto(p, "readMaint") /\ Return(p, r)

Recheck(p) ==
  /\ \/ At(p, "recheck") \/ At(p, "reread")
  /\ \/ owner = None /\ pc[p] = "recheck" /\ Goto(p, "prepare")
          /\ UNCHANGED <<obs, result>>
     \/ Dead(owner) /\ Goto(p, "reserve")
          /\ obs' = [obs EXCEPT ![p] = owner] /\ UNCHANGED result
     \/ (owner \in alive \/ (owner = None /\ pc[p] = "reread"))
          /\ LeaveWith(p, "busy") /\ UNCHANGED obs
  /\ UNCHANGED <<alive, files, handle, op, seen, cont>>

\* cleanupDeadLocalArtifacts, then mkdir of the preparation directories.
CleanupAndReserve(p) ==
  /\ quarantined' = {q \in quarantined : q.by \in alive}
  /\ scratch' = (scratch \cap alive) \cup {p}

PrepareOwner(p) ==
  /\ At(p, "prepare")
  /\ container' = TRUE
  /\ CleanupAndReserve(p)
  /\ Goto(p, "install")
  /\ UNCHANGED <<alive, maint, owner, guard, handle, op, obs, seen, cont, result>>

\* A rename onto a directory that is not empty fails.
InstallOwner(p) ==
  /\ At(p, "install")
  /\ IF owner = None
     THEN owner' = p /\ LeaveWith(p, "ok")
     ELSE UNCHANGED <<owner, result>> /\ Goto(p, "reread")
  /\ scratch' = scratch \ {p}
  /\ UNCHANGED <<alive, maint, container, guard, quarantined, handle,
                 op, obs, seen, cont>>

-----------------------------------------------------------------------------
(* The reservation of reclaimDeadOwner, renewLock and releaseLock          *)

Reserve(p) ==
  /\ At(p, "reserve") \/ At(p, "ownReserve")
  /\ IF container
     THEN /\ CleanupAndReserve(p)
          /\ Goto(p, IF pc[p] = "reserve" THEN "guard" ELSE "readMaint")
          /\ UNCHANGED result
     ELSE LeaveWith(p, "failed") /\ UNCHANGED <<quarantined, scratch>>
  /\ UNCHANGED <<alive, maint, container, owner, guard, handle, op, obs, seen, cont>>

(* acquireGenerationGuard on the generation obs[p]                          *)

\* No guard: reclaimDeadOwner leaves .maintenance, renew and release just throw.
GuardUnavailable(p) ==
  /\ scratch' = scratch \ {p}
  /\ Return(p, "busy")
  /\ Goto(p, IF op[p] = "acquire" THEN "readMaint" ELSE "idle")

InstallGuard(p) ==
  /\ At(p, "guard")
  /\ IF guard[obs[p]] = None
     THEN guard' = [guard EXCEPT ![obs[p]] = p] /\ Goto(p, "check")
     ELSE UNCHANGED guard /\ Goto(p, "readGuard")
  /\ UNCHANGED <<alive, maint, container, owner, quarantined, scratch, handle,
                 op, obs, seen, cont, result>>

ReadGuard(p) ==
  /\ At(p, "readGuard")
  /\ IF Dead(guard[obs[p]])
     THEN /\ seen' = [seen EXCEPT ![p] = guard[obs[p]]]
          /\ Goto(p, "stealGuard")
          /\ UNCHANGED <<scratch, result>>
     ELSE GuardUnavailable(p) /\ UNCHANGED seen
  /\ UNCHANGED <<alive, maint, container, owner, guard, quarantined, handle,
                 op, obs, cont>>

QuarantineExists(gen, name) == \E q \in quarantined : q.gen = gen /\ q.name = name

\* The quarantine is named after the guard that was read: while it exists, no
\* process that read the same dead guard can displace its successor.
StealGuard(p) ==
  /\ At(p, "stealGuard")
  /\ LET g == obs[p] IN
     IF guard[g] # None /\ ~QuarantineExists(g, seen[p])
     THEN /\ quarantined' = quarantined
                \cup {[gen |-> g, name |-> seen[p], by |-> guard[g]]}
          /\ guard' = [guard EXCEPT ![g] = None]
          /\ Goto(p, "reinstallGuard")
          /\ UNCHANGED <<scratch, result>>
     ELSE GuardUnavailable(p) /\ UNCHANGED <<quarantined, guard>>
  /\ UNCHANGED <<alive, maint, container, owner, handle, op, obs, seen, cont>>

ReinstallGuard(p) ==
  /\ At(p, "reinstallGuard")
  /\ IF guard[obs[p]] = None
     THEN /\ guard' = [guard EXCEPT ![obs[p]] = p]
          /\ Goto(p, "check")
          /\ UNCHANGED <<scratch, result>>
     ELSE GuardUnavailable(p) /\ UNCHANGED guard
  /\ UNCHANGED <<alive, maint, container, owner, quarantined, handle,
                 op, obs, seen, cont>>

-----------------------------------------------------------------------------
(* Under the generation guard                                              *)

LeaveGuardWith(p, r) == Goto(p, "readOwnGuard") /\ Return(p, r)

\* Mutated: the owner that was observed before the guard is not read again.
CheckOwnerStale(p) ==
  /\ At(p, "check")
  /\ Goto(p, CASE op[p] = "acquire" -> "displace"
               [] op[p] = "renew" -> "renew"
               [] op[p] = "release" -> "retire")
  /\ UNCHANGED <<alive, files, handle, op, obs, seen, cont, result>>

\* The owner is read again under the guard.
CheckOwner(p) ==
  /\ At(p, "check")
  /\ IF owner = obs[p] /\ (op[p] = "acquire" => Dead(owner))
     THEN /\ Goto(p, CASE op[p] = "acquire" -> "displace"
                       [] op[p] = "renew" -> "renew"
                       [] op[p] = "release" -> "retire")
          /\ UNCHANGED result
     ELSE LeaveGuardWith(p, CASE op[p] = "acquire" -> "busy"
                              [] op[p] = "renew" -> "failed"
                              [] op[p] = "release" ->
                                   IF owner = None THEN "ok" ELSE "failed")
  /\ UNCHANGED <<alive, files, handle, op, obs, seen, cont>>

\* reclaimDeadOwner renames owner/ away, whatever is there now.
DisplaceOwner(p) ==
  /\ At(p, "displace")
  /\ owner' = None
  /\ IF owner # None THEN Goto(p, "replace") /\ UNCHANGED result
                     ELSE LeaveGuardWith(p, "failed")
  /\ UNCHANGED <<alive, maint, container, guard, quarantined, scratch, handle,
                 op, obs, seen, cont>>

ReplaceOwner(p) ==
  /\ At(p, "replace")
  /\ IF owner = None THEN owner' = p /\ LeaveGuardWith(p, "ok")
                     ELSE UNCHANGED owner /\ LeaveGuardWith(p, "busy")
  /\ UNCHANGED <<alive, maint, container, guard, quarantined, scratch, handle,
                 op, obs, seen, cont>>

\* replaceLockPayload puts its own lease into whatever owner/ is there now.
RenewLease(p) ==
  /\ At(p, "renew")
  /\ owner' = IF owner = None THEN None ELSE p
  /\ LeaveGuardWith(p, IF owner = None THEN "failed" ELSE "ok")
  /\ UNCHANGED <<alive, maint, container, guard, quarantined, scratch, handle,
                 op, obs, seen, cont>>

RetireOwner(p) ==
  /\ At(p, "retire")
  /\ owner' = None
  /\ LeaveGuardWith(p, IF owner = None THEN "failed" ELSE "ok")
  /\ UNCHANGED <<alive, maint, container, guard, quarantined, scratch, handle,
                 op, obs, seen, cont>>

(* releaseGenerationGuard on .operation-obs[p]                              *)

\* It threw: the caller's own finally blocks still run, the quarantine stays.
GuardLost(p) ==
  /\ Return(p, "failed")
  /\ scratch' = scratch \ {p}
  /\ Goto(p, IF op[p] = "acquire" THEN "readMaint" ELSE "idle")

ReadOwnGuard(p) ==
  /\ At(p, "readOwnGuard")
  /\ IF guard[obs[p]] = p THEN Goto(p, "dropGuard") /\ UNCHANGED <<result, scratch>>
                          ELSE GuardLost(p)
  /\ UNCHANGED <<alive, maint, container, owner, guard, quarantined, handle,
                 op, obs, seen, cont>>

DropGuard(p) ==
  /\ At(p, "dropGuard")
  /\ guard' = [guard EXCEPT ![obs[p]] = None]
  /\ IF guard[obs[p]] # None THEN Goto(p, "tidy") /\ UNCHANGED <<result, scratch>>
                             ELSE GuardLost(p)
  /\ UNCHANGED <<alive, maint, container, owner, quarantined, handle,
                 op, obs, seen, cont>>

\* Mutated: the preparation directories are not removed.
TidyQuarantineOnly(p) ==
  /\ At(p, "tidy")
  /\ quarantined' = {q \in quarantined : q.gen # obs[p] \/ q.name # seen[p]}
  /\ IF op[p] = "release"
     THEN EnterMaintenance(p, "rmdir")
     ELSE Goto(p, IF op[p] = "acquire" THEN "readMaint" ELSE "idle") /\ UNCHANGED cont
  /\ UNCHANGED <<alive, maint, container, owner, guard, scratch, handle,
                 op, obs, seen, result>>

\* The quarantine of the displaced guard goes last, then the private directories.
Tidy(p) ==
  /\ At(p, "tidy")
  /\ quarantined' = {q \in quarantined : q.gen # obs[p] \/ q.name # seen[p]}
  /\ scratch' = scratch \ {p}
  /\ IF op[p] = "release"
     THEN EnterMaintenance(p, "rmdir")
     ELSE Goto(p, IF op[p] = "acquire" THEN "readMaint" ELSE "idle") /\ UNCHANGED cont
  /\ UNCHANGED <<alive, maint, container, owner, guard, handle, op, obs, seen, result>>

\* removeEmptyContainer: rmdir of a directory that is not empty fails, quietly.
RemoveContainer(p) ==
  /\ At(p, "rmdir")
  /\ container' = (container /\ ~( /\ owner = None
                                   /\ \A g \in Proc : guard[g] = None
                                   /\ quarantined = {}
                                   /\ scratch = {} ))
  /\ Goto(p, "readMaint")
  /\ UNCHANGED <<alive, maint, owner, guard, quarantined, scratch, handle,
                 op, obs, seen, cont, result>>

-----------------------------------------------------------------------------
\* A process dies, at any step; its files stay.
Crash(p) ==
  /\ p \in alive
  /\ MaintenanceCrashes \/ ~(InSection(p) \/ pc[p] = "write")
  /\ alive' = alive \ {p}
  /\ Goto(p, "dead")
  /\ handle' = [handle EXCEPT ![p] = FALSE]
  /\ op' = [op EXCEPT ![p] = "acquire"]
  /\ obs' = [obs EXCEPT ![p] = None]
  /\ seen' = [seen EXCEPT ![p] = None]
  /\ cont' = [cont EXCEPT ![p] = "recheck"]
  /\ Return(p, "none")
  /\ UNCHANGED files

MaintenanceStep(p) ==
  \/ MakeMaintenance(p) \/ WriteMaintenance(p) \/ UndoMaintenance(p)
  \/ ObserveMaintenance(p) \/ TimeoutMaintenance(p) \/ StealMaintenance(p)
  \/ ReadOwnMaintenance(p) \/ DropMaintenance(p)

LockStep(p) ==
  \/ ReadOwner(p) \/ ReadOwnLock(p)
  \/ Recheck(p) \/ PrepareOwner(p) \/ InstallOwner(p) \/ Reserve(p)
  \/ InstallGuard(p) \/ ReadGuard(p) \/ StealGuard(p) \/ ReinstallGuard(p)
  \/ CheckOwner(p) \/ DisplaceOwner(p) \/ ReplaceOwner(p)
  \/ RenewLease(p) \/ RetireOwner(p)
  \/ ReadOwnGuard(p) \/ DropGuard(p) \/ Tidy(p) \/ RemoveContainer(p)

Step(p) == MaintenanceStep(p) \/ LockStep(p)

Next ==
  \/ \E p \in Proc :
       \/ \E o \in {"acquire", "renew", "release"} : Call(p, o)
       \/ Step(p)
       \/ Crash(p)
  \/ PastGrace

Spec == Init /\ [][Next]_vars

\* A live process goes on with its call.
FairSpec == Spec /\ \A p \in Proc : WF_vars(Step(p))

-----------------------------------------------------------------------------
(* Properties                                                              *)

\* Two live processes are never both inside the maintenance section.
\* (acquireDirectoryMaintenance, locks.ts:212.)
MaintenanceExclusive ==
  \A p, q \in alive : InSection(p) /\ InSection(q) => p = q

\* A process that has a handle runs, and its lease is the one on disk: no other process
\* took the lock away, whatever interleaving of reclaims, renewals and releases.  So no
\* two processes have the handle.  (acquireLock, locks.ts:64; renewLock, locks.ts:183.)
HandleIsOwner == \A p \in Proc : handle[p] => p \in alive /\ owner = p

\* At most one process has a handle.
MutualExclusion == \A p, q \in Proc : handle[p] /\ handle[q] => p = q

\* A live process between two calls has left no guard, no maintenance directory and
\* no private directory behind, whether its last call won, lost or failed.
\* (The finally blocks of locks.ts:164-181 and 273-343.)
LoserLeavesNothing ==
  \A p \in alive : pc[p] = "idle" =>
    /\ maint # p
    /\ p \notin scratch
    /\ \A g \in Proc : guard[g] # p

\* An acquireLock that throws has not left the lock to its caller's process.
\* (The finally block of locks.ts:137-139.)
FailedAcquireLeavesNoLock ==
  \A p \in alive :
    pc[p] = "idle" /\ op[p] = "acquire" /\ result[p] = "failed" => owner # p

\* However the others died, a process that is left alone gets the lock: no crash
\* wedges it.  Within the grace of a .maintenance without guard.json the attempt ends
\* with LOCK_BUSY; one that begins after it succeeds.
\* (The stale cases of locks.ts:231-244 and lock-lease.ts:192-203.)
SurvivorAcquires ==
  \A p \in Proc :
    (alive = {p} /\ pc[p] = "read" /\ op[p] = "acquire" /\ owner # p /\ maint # None)
      ~> (handle[p] \/ p \notin alive)

\* The file protocol implements the promise of HostLock.
Promise == INSTANCE HostLock WITH alive <- alive, owner <- owner, handle <- handle
KeepsPromise == Promise!LockSpec
==============================================================================
