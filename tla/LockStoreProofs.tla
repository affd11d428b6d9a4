--------------------------- MODULE LockStoreProofs ---------------------------
(***************************************************************************)
(* Proofs about LockStore, for any number of processes.                    *)
(*                                                                         *)
(* Mutual exclusion rests on the maintenance section alone: while no two   *)
(* live processes are inside it, what a process read of the owner inside   *)
(* it stays true until it acts on it.  The section itself is exclusive as  *)
(* long as nobody dies inside it.                                          *)
(***************************************************************************)
EXTENDS LockStore, TLAPS

USE DEF At, Goto, Return, Dead, files, locals

\* A call that works on a generation has observed one.
ObservedInv ==
  \A p \in Proc :
    /\ pc[p] \notin {"idle", "read", "dead"} /\ cont[p] # "recheck" => obs[p] \in Proc
    /\ pc[p] \in {"reserve"} \cup GuardSteps \cup OwnedSteps => obs[p] \in Proc
    /\ pc[p] = "stealGuard" => seen[p] \in Proc

\* The program counter and the kind of call agree.
ControlInv ==
  \A p \in alive :
    /\ pc[p] # "dead"
    /\ pc[p] \in CreateSteps \cup {"reserve", "displace", "replace"} => op[p] = "acquire"
    /\ pc[p] \in {"ownReserve", "rmdir", "renew", "retire"} => op[p] # "acquire"
    /\ pc[p] \notin {"idle", "read"} =>
         (op[p] = "acquire" <=> cont[p] \in {"recheck", "reserve"})
    /\ pc[p] = "retire" => op[p] = "release"
    /\ pc[p] \notin {"idle", "read"} /\ op[p] # "acquire" => obs[p] = p

\* The directory .maintenance belongs to the process inside the section, and nobody
\* is about to remove it who is not.
MaintInv ==
  /\ \A p \in alive : InSection(p) => maint = p
  /\ \A p \in alive : pc[p] = "write" => maint = None
  /\ maint = None => \E p \in alive : pc[p] = "write"
  /\ \A p, q \in alive : pc[p] = "write" /\ pc[q] = "write" => p = q
  /\ maint \in Proc => maint \in alive /\ InSection(maint)
  /\ maint # Unwritten
  /\ \A p \in alive : pc[p] \notin {"steal", "unwrite"}

\* What a process knows of the owner stays true until it acts on it.
OwnerInv ==
  /\ \A p \in Proc : handle[p] => p \in alive /\ owner = p
  /\ \A p \in alive : pc[p] # "idle" /\ op[p] # "renew" => ~handle[p]
  /\ \A p \in alive : pc[p] = "displace" => Dead(owner)
  /\ \A p \in alive : pc[p] \in {"renew", "retire"} => owner = p
  /\ \A p \in alive : pc[p] # "idle" /\ op[p] = "acquire" /\ result[p] = "ok" => owner = p

\* A live process has a private directory, or a guard, only while it needs it.
LeaveInv ==
  \A p \in alive :
    /\ p \in scratch =>
         \/ pc[p] \in {"install"} \cup GuardSteps \cup OwnedSteps
         \/ pc[p] \in {"readMaint", "dropMaint"} /\ cont[p] = "ownReserve" /\ result[p] = "none"
    /\ pc[p] = "ownReserve" => cont[p] = "ownReserve"
    /\ pc[p] \in EntrySteps \cup {"ownReserve"} /\ cont[p] = "ownReserve" => result[p] = "none"
    /\ pc[p] = "read" => result[p] = "none"
    /\ \A g \in Proc : guard[g] = p => g = obs[p] /\ pc[p] \in OwnedSteps \ {"tidy"}

-----------------------------------------------------------------------------
\* Every variable keeps its type: the calls, the section and the guard.
LEMMA TypeStep == TypeOK /\ ObservedInv /\ [Next]_vars => TypeOK' /\ ObservedInv'
<1> SUFFICES ASSUME TypeOK, ObservedInv, [Next]_vars PROVE TypeOK' /\ ObservedInv'
    OBVIOUS
<1> USE LockStoreAssumption DEF TypeOK, ObservedInv, Labels, EntrySteps, SectionSteps, CreateSteps,
                                GuardSteps, OwnedSteps
<1>1. ASSUME NEW p \in Proc, NEW o \in {"acquire", "renew", "release"}, Call(p, o)
      PROVE  TypeOK' /\ ObservedInv'
  <2>1. TypeOK' BY <1>1 DEF Call
  <2>2. ObservedInv' BY <1>1 DEF Call
  <2> QED BY <2>1, <2>2
<1>2. ASSUME NEW p \in Proc, MaintenanceStep(p) PROVE TypeOK' /\ ObservedInv'
  <2>1. CASE MakeMaintenance(p) BY <2>1 DEF MakeMaintenance
  <2>2. CASE WriteMaintenance(p) BY <2>2 DEF WriteMaintenance
  <2>3. CASE UndoMaintenance(p) BY <2>3 DEF UndoMaintenance
  <2>4. CASE ObserveMaintenance(p) BY <2>4 DEF ObserveMaintenance
  <2>5. CASE TimeoutMaintenance(p)
    BY <2>5 DEF TimeoutMaintenance, MaintenanceUnavailable
  <2>6. CASE StealMaintenance(p) BY <2>6 DEF StealMaintenance, MaintenanceUnavailable
  <2>7. CASE ReadOwnMaintenance(p) BY <2>7 DEF ReadOwnMaintenance
  <2>8. CASE DropMaintenance(p)
    <3>1. TypeOK' BY <2>8 DEF DropMaintenance, AfterMaintenance
    <3>2. ObservedInv' BY <2>8 DEF DropMaintenance, AfterMaintenance
    <3> QED BY <3>1, <3>2
  <2> QED BY <1>2, <2>1, <2>2, <2>3, <2>4, <2>5, <2>6, <2>7, <2>8 DEF MaintenanceStep
<1>3. ASSUME NEW p \in Proc, LockStep(p) PROVE TypeOK' /\ ObservedInv'
  <2>1. CASE ReadOwner(p) BY <2>1 DEF ReadOwner, EnterMaintenance
  <2>2. CASE ReadOwnLock(p) BY <2>2 DEF ReadOwnLock, EnterMaintenance
  <2>3. CASE Recheck(p) BY <2>3 DEF Recheck, LeaveWith
  <2>4. CASE PrepareOwner(p) BY <2>4 DEF PrepareOwner, CleanupAndReserve
  <2>5. CASE InstallOwner(p) BY <2>5 DEF InstallOwner, LeaveWith
  <2>6. CASE Reserve(p) BY <2>6 DEF Reserve, CleanupAndReserve, LeaveWith
  <2>7. CASE InstallGuard(p) BY <2>7 DEF InstallGuard
  <2>8. CASE ReadGuard(p) BY <2>8 DEF ReadGuard, GuardUnavailable
  <2>9. CASE StealGuard(p) BY <2>9 DEF StealGuard, GuardUnavailable, Quarantine
  <2>10. CASE ReinstallGuard(p) BY <2>10 DEF ReinstallGuard, GuardUnavailable
  <2>11. CASE CheckOwner(p) BY <2>11 DEF CheckOwner, LeaveGuardWith
  <2>12. CASE DisplaceOwner(p) BY <2>12 DEF DisplaceOwner, LeaveGuardWith
  <2>13. CASE ReplaceOwner(p) BY <2>13 DEF ReplaceOwner, LeaveGuardWith
  <2>14. CASE RenewLease(p) BY <2>14 DEF RenewLease, LeaveGuardWith
  <2>15. CASE RetireOwner(p) BY <2>15 DEF RetireOwner, LeaveGuardWith
  <2>16. CASE ReadOwnGuard(p) BY <2>16 DEF ReadOwnGuard, GuardLost
  <2>17. CASE DropGuard(p) BY <2>17 DEF DropGuard, GuardLost
  <2>18. CASE Tidy(p) BY <2>18 DEF Tidy, EnterMaintenance
  <2>19. CASE RemoveContainer(p) BY <2>19 DEF RemoveContainer
  <2> QED BY <1>3, <2>1, <2>2, <2>3, <2>4, <2>5, <2>6, <2>7, <2>8, <2>9, <2>10, <2>11,
             <2>12, <2>13, <2>14, <2>15, <2>16, <2>17, <2>18, <2>19 DEF LockStep
<1>4. ASSUME NEW p \in Proc, Crash(p) PROVE TypeOK' /\ ObservedInv'
  BY <1>4 DEF Crash
<1>5. CASE PastGrace BY <1>5 DEF PastGrace
<1>6. CASE UNCHANGED vars BY <1>6 DEF vars
<1> QED BY <1>1, <1>2, <1>3, <1>4, <1>5, <1>6 DEF Next, Step

-----------------------------------------------------------------------------
\* The program counter goes on agreeing with the kind of call.
LEMMA ControlStep == TypeOK /\ ControlInv /\ [Next]_vars => ControlInv'
<1> SUFFICES ASSUME TypeOK, ControlInv, [Next]_vars PROVE ControlInv'
    OBVIOUS
<1> USE LockStoreAssumption DEF TypeOK, Labels, EntrySteps, SectionSteps, CreateSteps,
                                GuardSteps, OwnedSteps, ControlInv
<1>1. ASSUME NEW p \in Proc, NEW o \in {"acquire", "renew", "release"}, Call(p, o)
      PROVE  ControlInv'
  BY <1>1 DEF Call
<1>2. ASSUME NEW p \in Proc, MaintenanceStep(p) PROVE ControlInv'
  <2>1. CASE MakeMaintenance(p) BY <2>1 DEF MakeMaintenance
  <2>2. CASE WriteMaintenance(p) BY <2>2 DEF WriteMaintenance
  <2>3. CASE UndoMaintenance(p) BY <2>3 DEF UndoMaintenance
  <2>4. CASE ObserveMaintenance(p) BY <2>4 DEF ObserveMaintenance
  <2>5. CASE TimeoutMaintenance(p)
    BY <2>5 DEF TimeoutMaintenance, MaintenanceUnavailable
  <2>6. CASE StealMaintenance(p) BY <2>6 DEF StealMaintenance, MaintenanceUnavailable
  <2>7. CASE ReadOwnMaintenance(p) BY <2>7 DEF ReadOwnMaintenance
  <2>8. CASE DropMaintenance(p) BY <2>8 DEF DropMaintenance, AfterMaintenance
  <2> QED BY <1>2, <2>1, <2>2, <2>3, <2>4, <2>5, <2>6, <2>7, <2>8 DEF MaintenanceStep
<1>3. ASSUME NEW p \in Proc, LockStep(p) PROVE ControlInv'
  <2>1. CASE ReadOwner(p) BY <2>1 DEF ReadOwner, EnterMaintenance
  <2>2. CASE ReadOwnLock(p) BY <2>2 DEF ReadOwnLock, EnterMaintenance
  <2>3. CASE Recheck(p) BY <2>3 DEF Recheck, LeaveWith
  <2>4. CASE PrepareOwner(p) BY <2>4 DEF PrepareOwner, CleanupAndReserve
  <2>5. CASE InstallOwner(p) BY <2>5 DEF InstallOwner, LeaveWith
  <2>6. CASE Reserve(p) BY <2>6 DEF Reserve, CleanupAndReserve, LeaveWith
  <2>7. CASE InstallGuard(p) BY <2>7 DEF InstallGuard
  <2>8. CASE ReadGuard(p) BY <2>8 DEF ReadGuard, GuardUnavailable
  <2>9. CASE StealGuard(p) BY <2>9 DEF StealGuard, GuardUnavailable
  <2>10. CASE ReinstallGuard(p) BY <2>10 DEF ReinstallGuard, GuardUnavailable
  <2>11. CASE CheckOwner(p) BY <2>11 DEF CheckOwner, LeaveGuardWith
  <2>12. CASE DisplaceOwner(p) BY <2>12 DEF DisplaceOwner, LeaveGuardWith
  <2>13. CASE ReplaceOwner(p) BY <2>13 DEF ReplaceOwner, LeaveGuardWith
  <2>14. CASE RenewLease(p) BY <2>14 DEF RenewLease, LeaveGuardWith
  <2>15. CASE RetireOwner(p) BY <2>15 DEF RetireOwner, LeaveGuardWith
  <2>16. CASE ReadOwnGuard(p) BY <2>16 DEF ReadOwnGuard, GuardLost
  <2>17. CASE DropGuard(p) BY <2>17 DEF DropGuard, GuardLost
  <2>18. CASE Tidy(p) BY <2>18 DEF Tidy, EnterMaintenance
  <2>19. CASE RemoveContainer(p) BY <2>19 DEF RemoveContainer
  <2> QED BY <1>3, <2>1, <2>2, <2>3, <2>4, <2>5, <2>6, <2>7, <2>8, <2>9, <2>10,
             <2>11, <2>12, <2>13, <2>14, <2>15, <2>16, <2>17, <2>18, <2>19 DEF LockStep
<1>4. ASSUME NEW p \in Proc, Crash(p) PROVE ControlInv'
  BY <1>4 DEF Crash
<1>5. CASE PastGrace BY <1>5 DEF PastGrace
<1>6. CASE UNCHANGED vars BY <1>6 DEF vars
<1> QED BY <1>1, <1>2, <1>3, <1>4, <1>5, <1>6 DEF Next, Step

\* While no process dies inside the section, .maintenance stays with the one inside.
LEMMA MaintStep ==
  ASSUME ~MaintenanceCrashes, TypeOK, ControlInv, MaintInv, [Next]_vars
  PROVE  MaintInv'
<1> USE LockStoreAssumption DEF TypeOK, Labels, EntrySteps, SectionSteps, CreateSteps,
                                GuardSteps, OwnedSteps, MaintInv, InSection
<1>1. ASSUME NEW p \in Proc, NEW o \in {"acquire", "renew", "release"}, Call(p, o)
      PROVE  MaintInv'
  BY <1>1 DEF Call
<1>2. ASSUME NEW p \in Proc, MaintenanceStep(p) PROVE MaintInv'
  <2>1. CASE MakeMaintenance(p) BY <2>1 DEF MakeMaintenance
  <2>2. CASE WriteMaintenance(p) BY <2>2 DEF WriteMaintenance, ControlInv
  <2>3. CASE UndoMaintenance(p) BY <2>3 DEF UndoMaintenance
  <2>4. CASE ObserveMaintenance(p)
    BY <2>4 DEF ObserveMaintenance, MaintenanceReclaimable
  <2>5. CASE TimeoutMaintenance(p)
    BY <2>5 DEF TimeoutMaintenance, MaintenanceUnavailable
  <2>6. CASE StealMaintenance(p) BY <2>6 DEF StealMaintenance, MaintenanceUnavailable
  <2>7. CASE ReadOwnMaintenance(p) BY <2>7 DEF ReadOwnMaintenance
  <2>8. CASE DropMaintenance(p)
    BY <2>8 DEF DropMaintenance, AfterMaintenance, ControlInv
  <2> QED BY <1>2, <2>1, <2>2, <2>3, <2>4, <2>5, <2>6, <2>7, <2>8 DEF MaintenanceStep
<1>3. ASSUME NEW p \in Proc, LockStep(p) PROVE MaintInv'
  <2>1. CASE ReadOwner(p) BY <2>1 DEF ReadOwner, EnterMaintenance
  <2>2. CASE ReadOwnLock(p) BY <2>2 DEF ReadOwnLock, EnterMaintenance
  <2>3. CASE Recheck(p) BY <2>3 DEF Recheck, LeaveWith
  <2>4. CASE PrepareOwner(p) BY <2>4 DEF PrepareOwner, CleanupAndReserve
  <2>5. CASE InstallOwner(p) BY <2>5 DEF InstallOwner, LeaveWith
  <2>6. CASE Reserve(p) BY <2>6 DEF Reserve, CleanupAndReserve, LeaveWith, ControlInv
  <2>7. CASE InstallGuard(p) BY <2>7 DEF InstallGuard
  <2>8. CASE ReadGuard(p) BY <2>8 DEF ReadGuard, GuardUnavailable
  <2>9. CASE StealGuard(p) BY <2>9 DEF StealGuard, GuardUnavailable
  <2>10. CASE ReinstallGuard(p) BY <2>10 DEF ReinstallGuard, GuardUnavailable
  <2>11. CASE CheckOwner(p) BY <2>11 DEF CheckOwner, LeaveGuardWith
  <2>12. CASE DisplaceOwner(p) BY <2>12 DEF DisplaceOwner, LeaveGuardWith
  <2>13. CASE ReplaceOwner(p) BY <2>13 DEF ReplaceOwner, LeaveGuardWith
  <2>14. CASE RenewLease(p) BY <2>14 DEF RenewLease, LeaveGuardWith
  <2>15. CASE RetireOwner(p) BY <2>15 DEF RetireOwner, LeaveGuardWith
  <2>16. CASE ReadOwnGuard(p) BY <2>16 DEF ReadOwnGuard, GuardLost
  <2>17. CASE DropGuard(p) BY <2>17 DEF DropGuard, GuardLost
  <2>18. CASE Tidy(p) BY <2>18 DEF Tidy, EnterMaintenance
  <2>19. CASE RemoveContainer(p) BY <2>19 DEF RemoveContainer
  <2> QED BY <1>3, <2>1, <2>2, <2>3, <2>4, <2>5, <2>6, <2>7, <2>8, <2>9, <2>10,
             <2>11, <2>12, <2>13, <2>14, <2>15, <2>16, <2>17, <2>18, <2>19 DEF LockStep
<1>4. ASSUME NEW p \in Proc, Crash(p) PROVE MaintInv'
  BY <1>4 DEF Crash
<1>5. CASE PastGrace BY <1>5 DEF PastGrace
<1>6. CASE UNCHANGED vars BY <1>6 DEF vars
<1> QED BY <1>1, <1>2, <1>3, <1>4, <1>5, <1>6 DEF Next, Step

\* While the section is exclusive, nobody but its process takes a lock away.
LEMMA OwnerStep ==
  ASSUME TypeOK, ControlInv, MaintenanceExclusive, OwnerInv, [Next]_vars
  PROVE  OwnerInv'
<1> USE LockStoreAssumption DEF TypeOK, Labels, EntrySteps, SectionSteps, CreateSteps,
                                GuardSteps, OwnedSteps, OwnerInv
<1>1. ASSUME NEW p \in Proc, NEW o \in {"acquire", "renew", "release"}, Call(p, o)
      PROVE  OwnerInv'
  BY <1>1 DEF Call
<1>2. ASSUME NEW p \in Proc, MaintenanceStep(p) PROVE OwnerInv'
  <2>1. CASE MakeMaintenance(p)
    BY <2>1 DEF MakeMaintenance, MaintenanceExclusive, InSection, ControlInv
  <2>2. CASE WriteMaintenance(p)
    BY <2>2 DEF WriteMaintenance, MaintenanceExclusive, InSection, ControlInv
  <2>3. CASE UndoMaintenance(p)
    BY <2>3 DEF UndoMaintenance, MaintenanceExclusive, InSection, ControlInv
  <2>4. CASE ObserveMaintenance(p)
    BY <2>4 DEF ObserveMaintenance, MaintenanceExclusive, InSection, ControlInv
  <2>5. CASE TimeoutMaintenance(p)
    BY <2>5 DEF TimeoutMaintenance, MaintenanceUnavailable, MaintenanceExclusive,
           InSection, ControlInv
  <2>6. CASE StealMaintenance(p)
    BY <2>6 DEF StealMaintenance, MaintenanceUnavailable, MaintenanceExclusive,
           InSection, ControlInv
  <2>7. CASE ReadOwnMaintenance(p)
    BY <2>7 DEF ReadOwnMaintenance, MaintenanceExclusive, InSection, ControlInv
  <2>8. CASE DropMaintenance(p)
    BY <2>8 DEF DropMaintenance, AfterMaintenance, MaintenanceExclusive, InSection,
           ControlInv
  <2> QED BY <1>2, <2>1, <2>2, <2>3, <2>4, <2>5, <2>6, <2>7, <2>8 DEF MaintenanceStep
<1>3. ASSUME NEW p \in Proc, LockStep(p) PROVE OwnerInv'
  <2>1. CASE ReadOwner(p)
    BY <2>1 DEF ReadOwner, EnterMaintenance, MaintenanceExclusive, InSection, ControlInv
  <2>2. CASE ReadOwnLock(p)
    BY <2>2 DEF ReadOwnLock, EnterMaintenance, MaintenanceExclusive, InSection,
           ControlInv
  <2>3. CASE Recheck(p)
    BY <2>3 DEF Recheck, LeaveWith, MaintenanceExclusive, InSection, ControlInv
  <2>4. CASE PrepareOwner(p)
    BY <2>4 DEF PrepareOwner, CleanupAndReserve, MaintenanceExclusive, InSection,
           ControlInv
  <2>5. CASE InstallOwner(p)
    BY <2>5 DEF InstallOwner, LeaveWith, MaintenanceExclusive, InSection, ControlInv
  <2>6. CASE Reserve(p)
    BY <2>6 DEF Reserve, CleanupAndReserve, LeaveWith, MaintenanceExclusive, InSection,
           ControlInv
  <2>7. CASE InstallGuard(p)
    BY <2>7 DEF InstallGuard, MaintenanceExclusive, InSection, ControlInv
  <2>8. CASE ReadGuard(p)
    BY <2>8 DEF ReadGuard, GuardUnavailable, MaintenanceExclusive, InSection, ControlInv
  <2>9. CASE StealGuard(p)
    BY <2>9 DEF StealGuard, GuardUnavailable, MaintenanceExclusive, InSection,
           ControlInv
  <2>10. CASE ReinstallGuard(p)
    BY <2>10 DEF ReinstallGuard, GuardUnavailable, MaintenanceExclusive, InSection,
           ControlInv
  <2>11. CASE CheckOwner(p)
    BY <2>11 DEF CheckOwner, LeaveGuardWith, MaintenanceExclusive, InSection, ControlInv
  <2>12. CASE DisplaceOwner(p)
    BY <2>12 DEF DisplaceOwner, LeaveGuardWith, MaintenanceExclusive, InSection,
           ControlInv
  <2>13. CASE ReplaceOwner(p)
    BY <2>13 DEF ReplaceOwner, LeaveGuardWith, MaintenanceExclusive, InSection,
           ControlInv
  <2>14. CASE RenewLease(p)
    BY <2>14 DEF RenewLease, LeaveGuardWith, MaintenanceExclusive, InSection, ControlInv
  <2>15. CASE RetireOwner(p)
    BY <2>15 DEF RetireOwner, LeaveGuardWith, MaintenanceExclusive, InSection,
           ControlInv
  <2>16. CASE ReadOwnGuard(p)
    BY <2>16 DEF ReadOwnGuard, GuardLost, MaintenanceExclusive, InSection, ControlInv
  <2>17. CASE DropGuard(p)
    BY <2>17 DEF DropGuard, GuardLost, MaintenanceExclusive, InSection, ControlInv
  <2>18. CASE Tidy(p)
    BY <2>18 DEF Tidy, EnterMaintenance, MaintenanceExclusive, InSection, ControlInv
  <2>19. CASE RemoveContainer(p)
    BY <2>19 DEF RemoveContainer, MaintenanceExclusive, InSection, ControlInv
  <2> QED BY <1>3, <2>1, <2>2, <2>3, <2>4, <2>5, <2>6, <2>7, <2>8, <2>9, <2>10,
             <2>11, <2>12, <2>13, <2>14, <2>15, <2>16, <2>17, <2>18, <2>19 DEF LockStep
<1>4. ASSUME NEW p \in Proc, Crash(p) PROVE OwnerInv'
  BY <1>4 DEF Crash
<1>5. CASE PastGrace BY <1>5 DEF PastGrace
<1>6. CASE UNCHANGED vars BY <1>6 DEF vars
<1> QED BY <1>1, <1>2, <1>3, <1>4, <1>5, <1>6 DEF Next, Step

\* Whoever leaves a call has removed what it made.
LEMMA LeaveStep ==
  ASSUME TypeOK, ObservedInv, ControlInv, MaintInv, LeaveInv, [Next]_vars
  PROVE  LeaveInv'
<1> USE LockStoreAssumption DEF TypeOK, Labels, EntrySteps, SectionSteps, CreateSteps,
                                GuardSteps, OwnedSteps, LeaveInv
<1>1. ASSUME NEW p \in Proc, NEW o \in {"acquire", "renew", "release"}, Call(p, o)
      PROVE  LeaveInv'
  BY <1>1 DEF Call
<1>2. ASSUME NEW p \in Proc, MaintenanceStep(p) PROVE LeaveInv'
  <2>1. CASE MakeMaintenance(p) BY <2>1 DEF MakeMaintenance
  <2>2. CASE WriteMaintenance(p) BY <2>2 DEF WriteMaintenance
  <2>3. CASE UndoMaintenance(p) BY <2>3 DEF UndoMaintenance
  <2>4. CASE ObserveMaintenance(p) BY <2>4 DEF ObserveMaintenance
  <2>5. CASE TimeoutMaintenance(p) BY <2>5 DEF TimeoutMaintenance, MaintenanceUnavailable
  <2>6. CASE StealMaintenance(p) BY <2>6 DEF StealMaintenance, MaintenanceUnavailable
  <2>7. CASE ReadOwnMaintenance(p) BY <2>7 DEF ReadOwnMaintenance, InSection, MaintInv
  <2>8. CASE DropMaintenance(p) BY <2>8 DEF DropMaintenance, AfterMaintenance, InSection,
                                   MaintInv, ControlInv
  <2> QED BY <1>2, <2>1, <2>2, <2>3, <2>4, <2>5, <2>6, <2>7, <2>8 DEF MaintenanceStep
<1>3. ASSUME NEW p \in Proc, LockStep(p) PROVE LeaveInv'
  <2>1. CASE ReadOwner(p) BY <2>1 DEF ReadOwner, EnterMaintenance
  <2>2. CASE ReadOwnLock(p) BY <2>2 DEF ReadOwnLock, EnterMaintenance
  <2>3. CASE Recheck(p) BY <2>3 DEF Recheck, LeaveWith
  <2>4. CASE PrepareOwner(p) BY <2>4 DEF PrepareOwner, CleanupAndReserve
  <2>5. CASE InstallOwner(p) BY <2>5 DEF InstallOwner, LeaveWith
  <2>6. CASE Reserve(p) BY <2>6 DEF Reserve, ControlInv, ObservedInv, CleanupAndReserve, LeaveWith
  <2>7. CASE InstallGuard(p) BY <2>7 DEF InstallGuard
  <2>8. CASE ReadGuard(p) BY <2>8 DEF ReadGuard, GuardUnavailable
  <2>9. CASE StealGuard(p) BY <2>9 DEF StealGuard, GuardUnavailable
  <2>10. CASE ReinstallGuard(p) BY <2>10 DEF ReinstallGuard, GuardUnavailable
  <2>11. CASE CheckOwner(p) BY <2>11 DEF CheckOwner, LeaveGuardWith
  <2>12. CASE DisplaceOwner(p) BY <2>12 DEF DisplaceOwner, LeaveGuardWith
  <2>13. CASE ReplaceOwner(p) BY <2>13 DEF ReplaceOwner, LeaveGuardWith
  <2>14. CASE RenewLease(p) BY <2>14 DEF RenewLease, LeaveGuardWith
  <2>15. CASE RetireOwner(p) BY <2>15 DEF RetireOwner, LeaveGuardWith
  <2>16. CASE ReadOwnGuard(p) BY <2>16 DEF ReadOwnGuard, GuardLost
  <2>17. CASE DropGuard(p) BY <2>17 DEF DropGuard, GuardLost
  <2>18. CASE Tidy(p) BY <2>18 DEF Tidy, EnterMaintenance
  <2>19. CASE RemoveContainer(p) BY <2>19 DEF RemoveContainer
  <2> QED BY <1>3, <2>1, <2>2, <2>3, <2>4, <2>5, <2>6, <2>7, <2>8, <2>9, <2>10, <2>11, <2>12,
             <2>13, <2>14, <2>15, <2>16, <2>17, <2>18, <2>19 DEF LockStep
<1>4. ASSUME NEW p \in Proc, Crash(p) PROVE LeaveInv'
  BY <1>4 DEF Crash
<1>5. CASE PastGrace BY <1>5 DEF PastGrace
<1>6. CASE UNCHANGED vars BY <1>6 DEF vars
<1> QED BY <1>1, <1>2, <1>3, <1>4, <1>5, <1>6 DEF Next, Step

-----------------------------------------------------------------------------
\* The files and the locals start out as the invariants say.
LEMMA InitInvs ==
  Init => TypeOK /\ ObservedInv /\ ControlInv /\ MaintInv /\ OwnerInv /\ LeaveInv
<1> SUFFICES ASSUME Init
             PROVE  TypeOK /\ ObservedInv /\ ControlInv /\ MaintInv /\ OwnerInv /\ LeaveInv
    OBVIOUS
<1> USE LockStoreAssumption
    DEF Init, Labels, EntrySteps, SectionSteps, CreateSteps, GuardSteps, OwnedSteps
<1>1. TypeOK BY DEF TypeOK
<1>2. ObservedInv BY DEF ObservedInv
<1>3. ControlInv BY DEF ControlInv
<1>4. MaintInv BY DEF MaintInv, InSection
<1>5. OwnerInv BY DEF OwnerInv
<1>6. LeaveInv BY DEF LeaveInv
<1> QED BY <1>1, <1>2, <1>3, <1>4, <1>5, <1>6

\* Every variable of the lock protocol keeps its type.
THEOREM TypeCorrect == Spec => []TypeOK
<1>1. TypeOK /\ ObservedInv /\ [Next]_vars => (TypeOK /\ ObservedInv)'
  BY TypeStep
<1> QED BY <1>1, InitInvs, PTL DEF Spec

\* The control invariant holds on every behaviour.
LEMMA ControlCorrect == Spec => [](TypeOK /\ ControlInv)
<1>1. TypeOK /\ ControlInv /\ [Next]_vars => ControlInv'
  BY ControlStep
<1> QED BY <1>1, InitInvs, TypeCorrect, PTL DEF Spec

\* If no process dies inside the maintenance section, no two live processes are ever in
\* it: acquireDirectoryMaintenance is a lock, for any number of contenders.
THEOREM SectionExclusive ==
  ASSUME ~MaintenanceCrashes
  PROVE  Spec => []MaintenanceExclusive
<1>1. TypeOK /\ ControlInv /\ MaintInv /\ [Next]_vars => MaintInv'
  BY MaintStep
<1>2. MaintInv => MaintenanceExclusive
  BY DEF MaintInv, MaintenanceExclusive
<1> QED BY <1>1, <1>2, InitInvs, ControlCorrect, PTL DEF Spec

\* If no process dies inside the maintenance section, a live process between two calls
\* has left no guard, no maintenance directory and no private directory behind, whether
\* its last call won, lost or failed.
THEOREM LoserLeaves ==
  ASSUME ~MaintenanceCrashes
  PROVE  Spec => []LoserLeavesNothing
<1>1. TypeOK /\ ControlInv /\ MaintInv /\ [Next]_vars => MaintInv'
  BY MaintStep
<1>2. TypeOK /\ ObservedInv /\ ControlInv /\ MaintInv /\ LeaveInv /\ [Next]_vars => LeaveInv'
  BY LeaveStep
<1>3. TypeOK /\ ObservedInv /\ [Next]_vars => (TypeOK /\ ObservedInv)'
  BY TypeStep
<1>4. TypeOK /\ MaintInv /\ LeaveInv => LoserLeavesNothing
  BY LockStoreAssumption DEF TypeOK, MaintInv, LeaveInv, LoserLeavesNothing, InSection,
     EntrySteps, SectionSteps,
         CreateSteps, GuardSteps, OwnedSteps
<1> QED BY <1>1, <1>2, <1>3, <1>4, InitInvs, ControlCorrect, PTL DEF Spec

\* Whoever crashes: as long as the maintenance section is exclusive, a process that
\* has a handle runs and owns the lease on disk.
THEOREM HandleSafeInExclusiveSection ==
  Spec /\ []MaintenanceExclusive => []HandleIsOwner
<1>1. TypeOK /\ ControlInv /\ MaintenanceExclusive /\ OwnerInv /\ [Next]_vars => OwnerInv'
  BY OwnerStep
<1>2. OwnerInv => HandleIsOwner
  BY DEF OwnerInv, HandleIsOwner
<1> QED BY <1>1, <1>2, InitInvs, ControlCorrect, PTL DEF Spec

\* If no process dies inside the maintenance section, a handle is never taken from a
\* live process.
THEOREM HandleSafe ==
  ASSUME ~MaintenanceCrashes
  PROVE  Spec => []HandleIsOwner
BY SectionExclusive, HandleSafeInExclusiveSection, PTL

\* Then no two processes have a handle.
COROLLARY LockExcludes ==
  ASSUME ~MaintenanceCrashes
  PROVE  Spec => []MutualExclusion
<1>1. HandleIsOwner => MutualExclusion
  BY DEF HandleIsOwner, MutualExclusion
<1> QED BY <1>1, HandleSafe, PTL

-----------------------------------------------------------------------------
\* Every step of the file protocol is a step that HostLock promises, or none at all.
LEMMA PromiseStep ==
  ASSUME TypeOK, ControlInv, OwnerInv, [Next]_vars
  PROVE  [Promise!LockNext]_(Promise!lockVars)
<1> USE LockStoreAssumption DEF TypeOK, Promise!LockNext, Promise!lockVars
<1>1. ASSUME NEW p \in Proc, NEW o \in {"acquire", "renew", "release"}, Call(p, o)
      PROVE  [Promise!LockNext]_(Promise!lockVars)
  BY <1>1 DEF Call, Promise!Yield
<1>2. ASSUME NEW p \in Proc, MaintenanceStep(p)
      PROVE  [Promise!LockNext]_(Promise!lockVars)
  <2>1. CASE MakeMaintenance(p) BY <2>1 DEF MakeMaintenance
  <2>2. CASE WriteMaintenance(p) BY <2>2 DEF WriteMaintenance
  <2>3. CASE UndoMaintenance(p) BY <2>3 DEF UndoMaintenance
  <2>4. CASE ObserveMaintenance(p) BY <2>4 DEF ObserveMaintenance
  <2>5. CASE TimeoutMaintenance(p)
    BY <2>5 DEF TimeoutMaintenance, MaintenanceUnavailable
  <2>6. CASE StealMaintenance(p) BY <2>6 DEF StealMaintenance, MaintenanceUnavailable
  <2>7. CASE ReadOwnMaintenance(p) BY <2>7 DEF ReadOwnMaintenance
  <2>8. CASE DropMaintenance(p)
    BY <2>8 DEF DropMaintenance, AfterMaintenance, Promise!Grant, OwnerInv
  <2> QED BY <1>2, <2>1, <2>2, <2>3, <2>4, <2>5, <2>6, <2>7, <2>8 DEF MaintenanceStep
<1>3. ASSUME NEW p \in Proc, LockStep(p)
      PROVE  [Promise!LockNext]_(Promise!lockVars)
  <2>1. CASE ReadOwner(p) BY <2>1 DEF ReadOwner, EnterMaintenance
  <2>2. CASE ReadOwnLock(p) BY <2>2 DEF ReadOwnLock, EnterMaintenance
  <2>3. CASE Recheck(p) BY <2>3 DEF Recheck, LeaveWith
  <2>4. CASE PrepareOwner(p) BY <2>4 DEF PrepareOwner, CleanupAndReserve
  <2>5. CASE InstallOwner(p) BY <2>5 DEF InstallOwner, LeaveWith, Promise!Take
  <2>6. CASE Reserve(p) BY <2>6 DEF Reserve, CleanupAndReserve, LeaveWith
  <2>7. CASE InstallGuard(p) BY <2>7 DEF InstallGuard
  <2>8. CASE ReadGuard(p) BY <2>8 DEF ReadGuard, GuardUnavailable
  <2>9. CASE StealGuard(p) BY <2>9 DEF StealGuard, GuardUnavailable
  <2>10. CASE ReinstallGuard(p) BY <2>10 DEF ReinstallGuard, GuardUnavailable
  <2>11. CASE CheckOwner(p) BY <2>11 DEF CheckOwner, LeaveGuardWith
  <2>12. CASE DisplaceOwner(p)
    BY <2>12 DEF DisplaceOwner, LeaveGuardWith, Promise!Reap, OwnerInv
  <2>13. CASE ReplaceOwner(p) BY <2>13 DEF ReplaceOwner, LeaveGuardWith, Promise!Take
  <2>14. CASE RenewLease(p) BY <2>14 DEF RenewLease, LeaveGuardWith, OwnerInv
  <2>15. CASE RetireOwner(p)
    BY <2>15 DEF RetireOwner, LeaveGuardWith, Promise!Drop, OwnerInv, ControlInv
  <2>16. CASE ReadOwnGuard(p) BY <2>16 DEF ReadOwnGuard, GuardLost
  <2>17. CASE DropGuard(p) BY <2>17 DEF DropGuard, GuardLost
  <2>18. CASE Tidy(p) BY <2>18 DEF Tidy, EnterMaintenance
  <2>19. CASE RemoveContainer(p) BY <2>19 DEF RemoveContainer
  <2> QED BY <1>3, <2>1, <2>2, <2>3, <2>4, <2>5, <2>6, <2>7, <2>8, <2>9, <2>10,
             <2>11, <2>12, <2>13, <2>14, <2>15, <2>16, <2>17, <2>18, <2>19 DEF LockStep
<1>4. ASSUME NEW p \in Proc, Crash(p)
      PROVE  [Promise!LockNext]_(Promise!lockVars)
  BY <1>4 DEF Crash, Promise!Die
<1>5. CASE PastGrace BY <1>5 DEF PastGrace
<1>6. CASE UNCHANGED vars BY <1>6 DEF vars
<1> QED BY <1>1, <1>2, <1>3, <1>4, <1>5, <1>6 DEF Next, Step

\* The lock that the other modules rely on is what the file protocol provides, as long
\* as no process dies inside the maintenance section.
THEOREM LockStoreKeepsPromise ==
  ASSUME ~MaintenanceCrashes
  PROVE  Spec => KeepsPromise
<1>1. Init => Promise!LockInit
  BY DEF Init, Promise!LockInit
<1>2. TypeOK /\ ControlInv /\ OwnerInv /\ [Next]_vars
        => [Promise!LockNext]_(Promise!lockVars)
  BY PromiseStep
<1>3. TypeOK /\ ControlInv /\ MaintenanceExclusive /\ OwnerInv /\ [Next]_vars => OwnerInv'
  BY OwnerStep
<1> QED BY <1>1, <1>2, <1>3, InitInvs, ControlCorrect, SectionExclusive, PTL
        DEF Spec, KeepsPromise, Promise!LockSpec


==============================================================================
