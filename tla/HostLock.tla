------------------------------- MODULE HostLock -------------------------------
(***************************************************************************)
(* What the host-local lock of storage/locks.ts promises for one key: one  *)
(* live process at most has the handle, it keeps the lock until it lets go *)
(* or dies, and only the lock of a dead process passes to another.  Being  *)
(* busy is not part of the promise: acquireLock may always say so.         *)
(***************************************************************************)
CONSTANTS Proc, None

ASSUME HostLockAssumption == None \notin Proc

VARIABLES
  alive,   \* the processes of the host that run
  owner,   \* the process whose lease is on disk, or None
  handle   \* the processes to which acquireLock returned a handle

lockVars == <<alive, owner, handle>>

LockInit ==
  /\ alive = Proc
  /\ owner = None
  /\ handle = [p \in Proc |-> FALSE]

\* acquireLock installs the lease of p where there is none.
Take(p) ==
  /\ p \in alive
  /\ owner = None
  /\ owner' = p
  /\ UNCHANGED <<alive, handle>>

\* A contender moves the lease of a dead process aside.
Reap ==
  /\ owner \in Proc \ alive
  /\ owner' = None
  /\ UNCHANGED <<alive, handle>>

\* acquireLock returns.
Grant(p) ==
  /\ p \in alive
  /\ owner = p
  /\ handle' = [handle EXCEPT ![p] = TRUE]
  /\ UNCHANGED <<alive, owner>>

\* releaseLock is called: the caller is out of its critical section.
Yield(p) ==
  /\ handle[p]
  /\ handle' = [handle EXCEPT ![p] = FALSE]
  /\ UNCHANGED <<alive, owner>>

\* releaseLock moves the lease of its own process aside.
Drop(p) ==
  /\ p \in alive
  /\ owner = p
  /\ ~handle[p]
  /\ owner' = None
  /\ UNCHANGED <<alive, handle>>

Die(p) ==
  /\ p \in alive
  /\ alive' = alive \ {p}
  /\ handle' = [handle EXCEPT ![p] = FALSE]
  /\ UNCHANGED owner

LockNext ==
  \/ Reap
  \/ \E p \in Proc : Take(p) \/ Grant(p) \/ Yield(p) \/ Drop(p) \/ Die(p)

LockSpec == LockInit /\ [][LockNext]_lockVars

===============================================================================
