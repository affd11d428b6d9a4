----------------------------- MODULE SingleFlight -----------------------------
(***************************************************************************)
(* review/single-flight.ts for one review key: contenders on one host, the *)
(* winner that runs the review, persists it and publishes it to the cache, *)
(* its lease heartbeat, and the losers that wait for the cache entry in a  *)
(* bounded number of slots.  The review lock is HostLock, the promise that *)
(* LockStore implements.  A process makes one call of runWithSingleFlight. *)
(***************************************************************************)
EXTENDS HostLock, Naturals, FiniteSets

CONSTANT MaxWaiters   \* MAX_LOCAL_WAITERS_PER_KEY

ASSUME SingleFlightAssumption == MaxWaiters \in Nat \ {0}

Slots == 1 .. MaxWaiters

VARIABLES
  cache,      \* the process whose record is the cache entry of the key, or None
  stored,     \* stored[p]: whether the result of p is not, still or no longer a stored run
  slots,      \* slots[i]: the process that holds waiter slot i, or None
  pc,         \* where the call of each process stands
  beat,       \* whether the lease heartbeat of p has not failed
  review,     \* what the review run of p came to
  probe,      \* the waiter slot p tries next, or holds
  outcome     \* what runWithSingleFlight returns or throws

flightVars == <<stored, slots, pc, beat, review, probe, outcome>>
vars == <<alive, owner, handle, cache, stored, slots, pc, beat, review, probe, outcome>>

WinnerSteps == {"granted", "recheck", "run", "persist", "publish", "stop", "release"}
WaiterSteps == {"read", "active", "final", "leave"}
Labels == {"start", "acquire", "slot", "done", "dead"} \cup WinnerSteps \cup WaiterSteps

Outcomes == {"none", "executed", "cached", "unavailable", "limit", "timeout",
             "unstored", "uncached", "failed"}

TypeOK ==
  /\ alive \subseteq Proc
  /\ owner \in Proc \cup {None}
  /\ handle \in [Proc -> BOOLEAN]
  /\ cache \in Proc \cup {None}
  /\ stored \in [Proc -> {"never", "kept", "retired"}]
  /\ slots \in [Slots -> Proc \cup {None}]
  /\ pc \in [Proc -> Labels]
  /\ beat \in [Proc -> BOOLEAN]
  /\ review \in [Proc -> {"none", "complete", "incomplete"}]
  /\ probe \in [Proc -> 1 .. MaxWaiters + 1]
  /\ outcome \in [Proc -> Outcomes]

Init ==
  /\ LockInit
  /\ cache = None
  /\ stored = [p \in Proc |-> "never"]
  /\ slots = [i \in Slots |-> None]
  /\ pc = [p \in Proc |-> "start"]
  /\ beat = [p \in Proc |-> TRUE]
  /\ review = [p \in Proc |-> "none"]
  /\ probe = [p \in Proc |-> 1]
  /\ outcome = [p \in Proc |-> "none"]

At(p, label) == p \in alive /\ pc[p] = label
Goto(p, label) == pc' = [pc EXCEPT ![p] = label]
Result(p, o) == outcome' = [outcome EXCEPT ![p] = o]
Return(p, o) == Goto(p, "done") /\ Result(p, o)

-----------------------------------------------------------------------------
(* runWithSingleFlight                                                     *)

FirstRead(p) ==
  /\ At(p, "start")
  /\ IF cache # None THEN Return(p, "cached") ELSE Goto(p, "acquire") /\ UNCHANGED outcome
  /\ UNCHANGED <<lockVars, cache, stored, slots, beat, review, probe>>

AcquireLock(p) ==
  /\ At(p, "acquire")
  /\ \/ Reap /\ UNCHANGED <<pc, outcome>>
     \/ Take(p) /\ Goto(p, "granted") /\ UNCHANGED outcome
     \/ UNCHANGED <<lockVars, outcome>> /\ Goto(p, "slot")      \* LOCK_BUSY
     \/ UNCHANGED lockVars /\ Return(p, "failed")               \* any other error
  /\ UNCHANGED <<cache, stored, slots, beat, review, probe>>

\* acquireLock returns the handle, or throws in the finally block that lets go of
\* .maintenance: then the lock stays with the process.
LockGranted(p) ==
  /\ At(p, "granted")
  /\ \/ Grant(p) /\ Goto(p, "recheck") /\ UNCHANGED outcome
     \/ UNCHANGED lockVars /\ Return(p, "failed")
  /\ UNCHANGED <<cache, stored, slots, beat, review, probe>>

-----------------------------------------------------------------------------
(* executeAsWinner and executeOwnedReview                                  *)

\* Mutated: the read before the lock is trusted.
OwnedReadSkipped(p) ==
  /\ At(p, "recheck")
  /\ Goto(p, "run")
  /\ UNCHANGED <<lockVars, cache, stored, slots, beat, review, probe, outcome>>

\* The cache is read again under the lock.
OwnedRead(p) ==
  /\ At(p, "recheck")
  /\ IF cache # None THEN Goto(p, "stop") /\ Result(p, "cached")
                     ELSE Goto(p, "run") /\ UNCHANGED outcome
  /\ UNCHANGED <<lockVars, cache, stored, slots, beat, review, probe>>

\* A failed renewal is noticed after the review run and after its persistence.
IfBeating(p, next) ==
  IF beat[p] THEN Goto(p, next) /\ UNCHANGED outcome
             ELSE Goto(p, "stop") /\ Result(p, "failed")

\* options.run(): complete, not cacheable, or an error.
RunReview(p) ==
  /\ At(p, "run")
  /\ \/ \E r \in {"complete", "incomplete"} :
          review' = [review EXCEPT ![p] = r] /\ IfBeating(p, "persist")
     \/ Goto(p, "stop") /\ Result(p, "failed") /\ UNCHANGED review
  /\ UNCHANGED <<lockVars, cache, stored, slots, beat, probe>>

\* Mutated: an error of the run storage is swallowed.
PersistResultBestEffort(p) ==
  /\ At(p, "persist")
  /\ stored' \in {stored, [stored EXCEPT ![p] = "kept"]}
  /\ IfBeating(p, "publish")
  /\ UNCHANGED <<lockVars, cache, slots, beat, review, probe>>

\* storeRun: a RunStorageError comes before the rename; another error may come after it,
\* from the release of the storage lock.
PersistResult(p) ==
  /\ At(p, "persist")
  /\ LET kept == [stored EXCEPT ![p] = "kept"] IN
     \/ stored' = kept /\ IfBeating(p, "publish")
     \/ UNCHANGED stored /\ Goto(p, "stop") /\ Result(p, "unstored")
     \/ stored' \in {stored, kept} /\ Goto(p, "stop") /\ Result(p, "failed")
  /\ UNCHANGED <<lockVars, cache, slots, beat, review, probe>>

\* publishCacheEntry: a CacheCapacityError comes before the rename; another error may
\* come after it, from the release of the maintenance lock, and the entry is there.
PublishResult(p) ==
  /\ At(p, "publish")
  /\ \/ cache' = (IF review[p] = "complete" THEN p ELSE cache) /\ Result(p, "executed")
     \/ review[p] = "complete" /\ UNCHANGED cache /\ Result(p, "uncached")
     \/ review[p] = "complete" /\ cache' \in {cache, p} /\ Result(p, "failed")
  /\ Goto(p, "stop")
  /\ UNCHANGED <<lockVars, stored, slots, beat, review, probe>>

\* maintainLease runs beside the review, and ends at its first failure.
HeartbeatFails(p) ==
  /\ p \in alive
  /\ pc[p] \in {"recheck", "run", "persist", "publish", "stop"}
  /\ beat[p]
  /\ beat' = [beat EXCEPT ![p] = FALSE]
  /\ UNCHANGED <<lockVars, cache, stored, slots, pc, review, probe, outcome>>

\* The heartbeat has ended: releaseLock is called.
StopHeartbeat(p) ==
  /\ At(p, "stop")
  /\ Yield(p)
  /\ Goto(p, "release")
  /\ UNCHANGED <<cache, stored, slots, beat, review, probe, outcome>>

\* Mutated: an error of releaseLock is swallowed.
ReleaseReviewLockQuietly(p) ==
  /\ At(p, "release")
  /\ Drop(p) \/ UNCHANGED lockVars
  /\ Return(p, IF beat[p] THEN outcome[p] ELSE "failed")
  /\ UNCHANGED <<cache, stored, slots, beat, review, probe>>

\* A renewal that failed, then a release that failed, hide what the review came to.
ReleaseReviewLock(p) ==
  /\ At(p, "release")
  /\ \/ Drop(p) /\ Return(p, IF beat[p] THEN outcome[p] ELSE "failed")
     \/ UNCHANGED lockVars /\ Return(p, "failed")
  /\ UNCHANGED <<cache, stored, slots, beat, review, probe>>

-----------------------------------------------------------------------------
(* acquireWaiterSlot and waitForCachedResult                                *)

\* Each slot is a lock: free, left by a dead process, or busy.  Its acquisition may
\* also be busy for want of .maintenance, or throw.
ProbeSlot(p) ==
  /\ At(p, "slot")
  /\ \/ /\ probe[p] \in Slots
        /\ slots[probe[p]] \in {None} \cup (Proc \ alive)
        /\ slots' = [slots EXCEPT ![probe[p]] = p]
        /\ Goto(p, "read")
        /\ UNCHANGED <<probe, outcome>>
     \/ /\ probe[p] \in Slots
        /\ probe' = [probe EXCEPT ![p] = @ + 1]
        /\ UNCHANGED <<slots, pc, outcome>>
     \/ /\ probe[p] \notin Slots
        /\ Return(p, "limit")
        /\ UNCHANGED <<slots, probe>>
     \/ Return(p, "failed") /\ UNCHANGED <<slots, probe>>
  /\ UNCHANGED <<lockVars, cache, stored, beat, review>>

WaitRead(p) ==
  /\ At(p, "read")
  /\ IF cache # None THEN Goto(p, "leave") /\ Result(p, "cached")
                     ELSE Goto(p, "active") /\ UNCHANGED outcome
  /\ UNCHANGED <<lockVars, cache, stored, slots, beat, review, probe>>

\* Mutated: no read after the lock is seen to be free.
WaitActiveWithoutFinalRead(p) ==
  /\ At(p, "active")
  /\ IF owner \in alive
     THEN Goto(p, "read") /\ UNCHANGED outcome
     ELSE Goto(p, "leave") /\ Result(p, "unavailable")
  /\ UNCHANGED <<lockVars, cache, stored, slots, beat, review, probe>>

\* isLockActive, then the sleep, after which the deadline may have passed.
WaitActive(p) ==
  /\ At(p, "active")
  /\ Goto(p, IF owner \in alive THEN "read" ELSE "final")
  /\ UNCHANGED <<lockVars, cache, stored, slots, beat, review, probe, outcome>>

WaitFinal(p) ==
  /\ At(p, "final")
  /\ Result(p, IF cache # None THEN "cached" ELSE "unavailable")
  /\ Goto(p, "leave")
  /\ UNCHANGED <<lockVars, cache, stored, slots, beat, review, probe>>

\* Mutated: the loop has no deadline.
WaitNeverEnds(p) == FALSE

\* The deadline is looked at, and the abort signal with it, before the cache is read.
WaitEnds(p) ==
  /\ At(p, "read")
  /\ \E o \in {"timeout", "failed"} : Result(p, o)
  /\ Goto(p, "leave")
  /\ UNCHANGED <<lockVars, cache, stored, slots, beat, review, probe>>

\* The slot is released in a finally block: an error there hides the outcome.
LeaveSlot(p) ==
  /\ At(p, "leave")
  /\ \/ slots' = [slots EXCEPT ![probe[p]] = None] /\ Return(p, outcome[p])
     \/ UNCHANGED slots /\ Return(p, "failed")
  /\ UNCHANGED <<lockVars, cache, stored, beat, review, probe>>

-----------------------------------------------------------------------------
\* A process dies or exits; a call that threw ends its process this way too.  Where it
\* was with its heartbeat and its slots dies with it.
Crash(p) ==
  /\ Die(p)
  /\ Goto(p, "dead")
  /\ beat' = [beat EXCEPT ![p] = TRUE] /\ probe' = [probe EXCEPT ![p] = 1]
  /\ UNCHANGED <<cache, stored, slots, review, outcome>>

\* The publication of another key makes room by retiring this entry.
Evict ==
  /\ cache # None
  /\ cache' = None
  /\ UNCHANGED <<lockVars, flightVars>>

\* makeRunCapacity: another run is stored and takes the place of this one, the oldest.
RetireRun(p) ==
  /\ stored[p] = "kept"
  /\ stored' = [stored EXCEPT ![p] = "retired"]
  /\ UNCHANGED <<lockVars, cache, slots, pc, beat, review, probe, outcome>>

WinnerStep(p) ==
  \/ LockGranted(p) \/ OwnedRead(p) \/ RunReview(p) \/ PersistResult(p)
  \/ PublishResult(p) \/ StopHeartbeat(p) \/ ReleaseReviewLock(p)

WaiterStep(p) ==
  \/ ProbeSlot(p) \/ WaitRead(p) \/ WaitActive(p) \/ WaitFinal(p)
  \/ WaitEnds(p) \/ LeaveSlot(p)

Step(p) == FirstRead(p) \/ AcquireLock(p) \/ WinnerStep(p) \/ WaiterStep(p)

Next ==
  \/ \E p \in Proc : Step(p) \/ HeartbeatFails(p) \/ RetireRun(p) \/ Crash(p)
  \/ Evict

Spec == Init /\ [][Next]_vars

\* A call that runs goes on; a waiter's deadline passes.
Fairness == \A p \in Proc : WF_vars(Step(p)) /\ SF_vars(WaitEnds(p))

FairSpec == Spec /\ Fairness
-----------------------------------------------------------------------------
(* Properties                                                              *)

\* One provider at most works on a key: no two live calls are in options.run() at once.
\* (executeAsWinner, single-flight.ts:230.)
OneProviderPerKey ==
  \A p, q \in alive : pc[p] = "run" /\ pc[q] = "run" => p = q

\* While a winner reviews, persists or publishes, the key has no cache entry: nobody
\* pays for a review whose result was already there, and no publication overwrites
\* the entry of another winner.  (The second cache read, single-flight.ts:295.)
ReviewIsNeeded ==
  \A p \in alive : pc[p] \in {"run", "persist", "publish"} => cache = None

\* Nothing is published, or returned as executed, that has not been a stored run: whoever
\* crashes, loses the lock or fails, no other process takes from the cache a review that
\* no run was ever kept of.  A stored run may have gone since, for want of room.  And what
\* is published is complete.  (Persist before publish, single-flight.ts:303-319.)
StoredBeforePublished ==
  /\ cache # None => stored[cache] # "never" /\ review[cache] = "complete"
  /\ \A p \in Proc : pc[p] = "done" /\ outcome[p] = "executed" => stored[p] # "never"

\* A call that returns, rather than throws, holds neither the review lock nor a waiter
\* slot any more: no loser leaves an orphan lock behind.
ReturnLeavesNoLock ==
  \A p \in alive : pc[p] = "done" /\ outcome[p] # "failed" =>
    /\ owner # p
    /\ \A i \in Slots : slots[i] # p

\* No more than MaxWaiters live calls wait for the key at once.
WaitersBounded ==
  Cardinality({p \in alive : pc[p] \in WaiterSteps}) <= MaxWaiters

\* A waiter is told that the winner left no result only while there is none in the
\* cache, also when the winner publishes and releases between the waiter's reads.
\* (The cache read after isLockActive, single-flight.ts:169-181.)
UnavailableOnlyWithoutResult ==
  [][\A p \in Proc : outcome'[p] = "unavailable" /\ outcome[p] # "unavailable"
       => cache = None]_vars

\* Every call returns or dies with its process, whoever crashes, holds the lock or
\* never publishes.
EveryCallReturns ==
  \A p \in Proc : <>(pc[p] \in {"done", "dead"})

\* For the calls of one key, single flight is what ReviewFlight promises: reviews begin one
\* at a time and only without an entry, and what a call is told of the entry is true.
\* (runWithSingleFlight, single-flight.ts:92.)
Working == {p \in alive : pc[p] \in {"run", "persist", "publish"}}
AnswerOf(o) ==
  IF o = "none" THEN "none" ELSE IF o = "cached" THEN "given"
  ELSE IF o = "unavailable" THEN "missed" ELSE IF o = "executed" THEN "reviewed" ELSE "failed"
Promised == INSTANCE ReviewFlight
  WITH reviewing <- Working, entry <- cache # None,
       answer <- [p \in Proc |-> AnswerOf(outcome[p])]
KeepsFlightPromise == Promised!FlightSpec
===============================================================================
