------------------------------ MODULE StoresProofs ------------------------------
(* Proofs about what MCStores composes, for any number of contenders, slots,   *)
(* processes, items and faults.  SingleFlight: what the lock of HostLock       *)
(* promises is enough for one provider to work on a key at a time, and only    *)
(* while the cache has no entry for it.  ResultStore: who has the maintenance  *)
(* lock is alone in the directory, so that what its scan counted is still      *)
(* there when it writes.                                                       *)
EXTENDS MCStores, FiniteSetTheorems, TLAPS

USE DEF At, Goto, Result, Return, lockVars, flightVars

\* A winner holds the lock from its grant to the end of the call, a waiter its slot.
HoldInv ==
  \A p \in Proc :
    /\ p \in alive /\ pc[p] \in {"recheck", "run", "persist", "publish", "stop"}
         => owner = p /\ handle[p]
    /\ p \in alive /\ pc[p] \in {"granted", "release"} => owner = p
    /\ handle[p] => p \in alive /\ pc[p] \in {"recheck", "run", "persist", "publish", "stop"}
    /\ p \in alive /\ owner = p
         => pc[p] \in WinnerSteps \/ (pc[p] = "done" /\ outcome[p] = "failed")
    /\ \A i \in Slots : p \in alive /\ slots[i] = p
         => \/ pc[p] \in WaiterSteps /\ probe[p] = i
            \/ pc[p] = "done" /\ outcome[p] = "failed"
    /\ p \in alive /\ pc[p] \in WaiterSteps => probe[p] \in Slots /\ slots[probe[p]] = p
    /\ pc[p] = "dead" => p \notin alive

\* While a winner works on the review the cache has no entry; what it publishes, and
\* what it returns as executed, it has stored before.
ResultInv ==
  /\ ReviewIsNeeded
  /\ cache # None => stored[cache] # "never" /\ review[cache] = "complete"
  /\ \A p \in Proc : outcome[p] = "executed" => stored[p] # "never"
  /\ \A p \in alive : pc[p] = "publish" => stored[p] # "never"
  /\ \A p \in alive : pc[p] \in {"start", "acquire", "granted", "recheck", "run"}
       => cache # p

FlightInv == TypeOK /\ HoldInv /\ ResultInv

-----------------------------------------------------------------------------
LEMMA FlightInit == Init => FlightInv
<1> SUFFICES ASSUME Init PROVE FlightInv
    OBVIOUS
<1> USE HostLockAssumption, SingleFlightAssumption
    DEF Init, LockInit, Labels, Outcomes, WinnerSteps, WaiterSteps, Slots
<1>1. TypeOK BY DEF TypeOK
<1>2. HoldInv BY DEF HoldInv
<1>3. ResultInv BY DEF ResultInv, ReviewIsNeeded
<1> QED BY <1>1, <1>2, <1>3 DEF FlightInv

\* Every variable keeps its type.
LEMMA TypeStep == ASSUME TypeOK, [Next]_vars PROVE TypeOK'
<1> USE HostLockAssumption, SingleFlightAssumption
    DEF TypeOK, Labels, Outcomes, WinnerSteps, WaiterSteps, Slots
<1>1. ASSUME NEW p \in Proc, FirstRead(p) PROVE TypeOK'
  BY <1>1 DEF FirstRead
<1>2. ASSUME NEW p \in Proc, AcquireLock(p) PROVE TypeOK'
  BY <1>2 DEF AcquireLock, Reap, Take
<1>3. ASSUME NEW p \in Proc, LockGranted(p) PROVE TypeOK'
  BY <1>3 DEF LockGranted, Grant
<1>4. ASSUME NEW p \in Proc, OwnedRead(p) PROVE TypeOK'
  BY <1>4 DEF OwnedRead
<1>5. ASSUME NEW p \in Proc, RunReview(p) PROVE TypeOK'
  <2>1. review' \in [Proc -> {"none", "complete", "incomplete"}]
    BY <1>5 DEF RunReview
  <2>2. pc' \in [Proc -> Labels] /\ outcome' \in [Proc -> Outcomes]
    BY <1>5 DEF RunReview, IfBeating
  <2> QED BY <1>5, <2>1, <2>2 DEF RunReview
<1>6. ASSUME NEW p \in Proc, PersistResult(p) PROVE TypeOK'
  BY <1>6 DEF PersistResult, IfBeating
<1>7. ASSUME NEW p \in Proc, PublishResult(p) PROVE TypeOK'
  BY <1>7 DEF PublishResult
<1>8. ASSUME NEW p \in Proc, StopHeartbeat(p) PROVE TypeOK'
  BY <1>8 DEF StopHeartbeat, Yield
<1>9. ASSUME NEW p \in Proc, ReleaseReviewLock(p) PROVE TypeOK'
  BY <1>9 DEF ReleaseReviewLock, Drop
<1>10. ASSUME NEW p \in Proc, ProbeSlot(p) PROVE TypeOK'
  <2>1. probe' \in [Proc -> 1 .. MaxWaiters + 1]
    BY <1>10 DEF ProbeSlot
  <2>2. slots' \in [Slots -> Proc \cup {None}]
    <3>1. slots' = slots \/ slots' = [slots EXCEPT ![probe[p]] = p]
      BY <1>10 DEF ProbeSlot
    <3>2. slots \in [Slots -> Proc \cup {None}] /\ p \in Proc OBVIOUS
    <3> QED BY <3>1, <3>2
  <2>3. /\ pc' = pc \/ \E label \in {"read", "done"} : Goto(p, label)
        /\ outcome' = outcome \/ \E o \in {"limit", "failed"} : Result(p, o)
    BY <1>10 DEF ProbeSlot
  <2> QED BY <1>10, <2>1, <2>2, <2>3 DEF ProbeSlot
<1>11. ASSUME NEW p \in Proc, WaitRead(p) PROVE TypeOK'
  BY <1>11 DEF WaitRead
<1>12. ASSUME NEW p \in Proc, WaitActive(p) PROVE TypeOK'
  BY <1>12 DEF WaitActive
<1>13. ASSUME NEW p \in Proc, WaitFinal(p) PROVE TypeOK'
  BY <1>13 DEF WaitFinal
<1>14. ASSUME NEW p \in Proc, WaitEnds(p) PROVE TypeOK'
  BY <1>14 DEF WaitEnds
<1>15. ASSUME NEW p \in Proc, LeaveSlot(p) PROVE TypeOK'
  BY <1>15 DEF LeaveSlot
<1>16. ASSUME NEW p \in Proc, HeartbeatFails(p) PROVE TypeOK'
  BY <1>16 DEF HeartbeatFails
<1>17. ASSUME NEW p \in Proc, Crash(p) PROVE TypeOK'
  BY <1>17 DEF Crash, Die
<1>18. ASSUME NEW p \in Proc, RetireRun(p) PROVE TypeOK'
  BY <1>18 DEF RetireRun
<1>19. CASE Evict BY <1>19 DEF Evict
<1>20. CASE UNCHANGED vars BY <1>20 DEF vars
<1> QED BY <1>1, <1>2, <1>3, <1>4, <1>5, <1>6, <1>7, <1>8, <1>9, <1>10, <1>11,
           <1>12, <1>13, <1>14, <1>15, <1>16, <1>17, <1>18, <1>19, <1>20
       DEF Next, Step, WinnerStep, WaiterStep

\* Winners go on holding the lock, and waiters their slots.
LEMMA HoldStep == ASSUME TypeOK, HoldInv, [Next]_vars PROVE HoldInv'
<1> USE HostLockAssumption, SingleFlightAssumption
    DEF TypeOK, Labels, Outcomes, WinnerSteps, WaiterSteps, Slots, HoldInv
<1>1. ASSUME NEW p \in Proc, FirstRead(p) PROVE HoldInv'
  <2>1. /\ UNCHANGED <<alive, owner, handle, slots, probe>>
        /\ p \in alive /\ pc[p] = "start" /\ pc'[p] \in {"done", "acquire"}
        /\ \A q \in Proc \ {p} : pc'[q] = pc[q] /\ outcome'[q] = outcome[q]
    BY <1>1 DEF FirstRead
  <2> QED BY <2>1
<1>2. ASSUME NEW p \in Proc, AcquireLock(p) PROVE HoldInv'
  BY <1>2 DEF AcquireLock, Reap, Take
<1>3. ASSUME NEW p \in Proc, LockGranted(p) PROVE HoldInv'
  BY <1>3 DEF LockGranted, Grant
<1>4. ASSUME NEW p \in Proc, OwnedRead(p) PROVE HoldInv'
  <2>1. /\ UNCHANGED <<alive, owner, handle, slots, probe>>
        /\ p \in alive /\ pc[p] = "recheck" /\ pc'[p] \in {"stop", "run"}
        /\ \A q \in Proc \ {p} : pc'[q] = pc[q] /\ outcome'[q] = outcome[q]
    BY <1>4 DEF OwnedRead
  <2> QED BY <2>1
<1>5. ASSUME NEW p \in Proc, RunReview(p) PROVE HoldInv'
  BY <1>5 DEF RunReview, IfBeating
<1>6. ASSUME NEW p \in Proc, PersistResult(p) PROVE HoldInv'
  BY <1>6 DEF PersistResult, IfBeating
<1>7. ASSUME NEW p \in Proc, PublishResult(p) PROVE HoldInv'
  BY <1>7 DEF PublishResult
<1>8. ASSUME NEW p \in Proc, StopHeartbeat(p) PROVE HoldInv'
  BY <1>8 DEF StopHeartbeat, Yield
<1>9. ASSUME NEW p \in Proc, ReleaseReviewLock(p) PROVE HoldInv'
  BY <1>9 DEF ReleaseReviewLock, Drop
<1>10. ASSUME NEW p \in Proc, ProbeSlot(p) PROVE HoldInv'
  BY <1>10 DEF ProbeSlot
<1>11. ASSUME NEW p \in Proc, WaitRead(p) PROVE HoldInv'
  <2>1. /\ UNCHANGED <<alive, owner, handle, slots, probe>>
        /\ p \in alive /\ pc[p] = "read" /\ pc'[p] \in {"leave", "active"}
        /\ \A q \in Proc \ {p} : pc'[q] = pc[q] /\ outcome'[q] = outcome[q]
    BY <1>11 DEF WaitRead
  <2> QED BY <2>1
<1>12. ASSUME NEW p \in Proc, WaitActive(p) PROVE HoldInv'
  BY <1>12 DEF WaitActive
<1>13. ASSUME NEW p \in Proc, WaitFinal(p) PROVE HoldInv'
  BY <1>13 DEF WaitFinal
<1>14. ASSUME NEW p \in Proc, WaitEnds(p) PROVE HoldInv'
  BY <1>14 DEF WaitEnds
<1>15. ASSUME NEW p \in Proc, LeaveSlot(p) PROVE HoldInv'
  BY <1>15 DEF LeaveSlot
<1>16. ASSUME NEW p \in Proc, HeartbeatFails(p) PROVE HoldInv'
  BY <1>16 DEF HeartbeatFails
<1>17. ASSUME NEW p \in Proc, Crash(p) PROVE HoldInv'
  BY <1>17 DEF Crash, Die
<1>18. ASSUME NEW p \in Proc, RetireRun(p) PROVE HoldInv'
  BY <1>18 DEF RetireRun
<1>19. CASE Evict BY <1>19 DEF Evict
<1>20. CASE UNCHANGED vars BY <1>20 DEF vars
<1> QED BY <1>1, <1>2, <1>3, <1>4, <1>5, <1>6, <1>7, <1>8, <1>9, <1>10, <1>11,
           <1>12, <1>13, <1>14, <1>15, <1>16, <1>17, <1>18, <1>19, <1>20
       DEF Next, Step, WinnerStep, WaiterStep

\* Results go on being stored before they are published.
LEMMA ResultStep == ASSUME TypeOK, HoldInv, ResultInv, [Next]_vars PROVE ResultInv'
<1> USE HostLockAssumption, SingleFlightAssumption
    DEF TypeOK, Labels, Outcomes, WinnerSteps, WaiterSteps, Slots,
        HoldInv, ResultInv, ReviewIsNeeded
<1>1. ASSUME NEW p \in Proc, FirstRead(p) PROVE ResultInv'
  BY <1>1 DEF FirstRead
<1>2. ASSUME NEW p \in Proc, AcquireLock(p) PROVE ResultInv'
  BY <1>2 DEF AcquireLock, Reap, Take
<1>3. ASSUME NEW p \in Proc, LockGranted(p) PROVE ResultInv'
  BY <1>3 DEF LockGranted, Grant
<1>4. ASSUME NEW p \in Proc, OwnedRead(p) PROVE ResultInv'
  BY <1>4 DEF OwnedRead
<1>5. ASSUME NEW p \in Proc, RunReview(p) PROVE ResultInv'
  BY <1>5 DEF RunReview, IfBeating
<1>6. ASSUME NEW p \in Proc, PersistResult(p) PROVE ResultInv'
  <2>1. \A q \in Proc : stored[q] # "never" => stored'[q] # "never"
    BY <1>6 DEF PersistResult
  <2>2. /\ UNCHANGED <<alive, cache, review>>
        /\ pc[p] = "persist" /\ pc'[p] \in {"publish", "stop"}
        /\ pc'[p] = "publish" => stored'[p] # "never"
        /\ outcome'[p] = outcome[p] \/ outcome'[p] \in {"unstored", "failed"}
        /\ \A q \in Proc \ {p} : pc'[q] = pc[q] /\ outcome'[q] = outcome[q]
    BY <1>6 DEF PersistResult, IfBeating
  <2> QED BY <2>1, <2>2
<1>7. ASSUME NEW p \in Proc, PublishResult(p) PROVE ResultInv'
  BY <1>7 DEF PublishResult
<1>8. ASSUME NEW p \in Proc, StopHeartbeat(p) PROVE ResultInv'
  BY <1>8 DEF StopHeartbeat, Yield
<1>9. ASSUME NEW p \in Proc, ReleaseReviewLock(p) PROVE ResultInv'
  BY <1>9 DEF ReleaseReviewLock, Drop
<1>10. ASSUME NEW p \in Proc, ProbeSlot(p) PROVE ResultInv'
  BY <1>10 DEF ProbeSlot
<1>11. ASSUME NEW p \in Proc, WaitRead(p) PROVE ResultInv'
  BY <1>11 DEF WaitRead
<1>12. ASSUME NEW p \in Proc, WaitActive(p) PROVE ResultInv'
  BY <1>12 DEF WaitActive
<1>13. ASSUME NEW p \in Proc, WaitFinal(p) PROVE ResultInv'
  BY <1>13 DEF WaitFinal
<1>14. ASSUME NEW p \in Proc, WaitEnds(p) PROVE ResultInv'
  BY <1>14 DEF WaitEnds
<1>15. ASSUME NEW p \in Proc, LeaveSlot(p) PROVE ResultInv'
  BY <1>15 DEF LeaveSlot
<1>16. ASSUME NEW p \in Proc, HeartbeatFails(p) PROVE ResultInv'
  BY <1>16 DEF HeartbeatFails
<1>17. ASSUME NEW p \in Proc, Crash(p) PROVE ResultInv'
  BY <1>17 DEF Crash, Die
<1>18. ASSUME NEW p \in Proc, RetireRun(p) PROVE ResultInv'
  BY <1>18 DEF RetireRun
<1>19. CASE Evict BY <1>19 DEF Evict
<1>20. CASE UNCHANGED vars BY <1>20 DEF vars
<1> QED BY <1>1, <1>2, <1>3, <1>4, <1>5, <1>6, <1>7, <1>8, <1>9, <1>10, <1>11,
           <1>12, <1>13, <1>14, <1>15, <1>16, <1>17, <1>18, <1>19, <1>20
       DEF Next, Step, WinnerStep, WaiterStep

-----------------------------------------------------------------------------
\* The inductive invariant holds throughout.
THEOREM FlightInvariant == Spec => []FlightInv
<1>1. FlightInv /\ [Next]_vars => FlightInv'
  BY TypeStep, HoldStep, ResultStep DEF FlightInv
<1> QED BY <1>1, FlightInit, PTL DEF Spec

\* Every variable of the single flight keeps its type.
THEOREM FlightTypes == Spec => []TypeOK
<1>1. FlightInv => TypeOK
  BY DEF FlightInv
<1> QED BY <1>1, FlightInvariant, PTL

\* One provider at most works on a key, for any number of contenders, crashes, failed
\* renewals and evictions.
THEOREM SingleProvider == Spec => []OneProviderPerKey
<1>1. FlightInv => OneProviderPerKey
  BY DEF FlightInv, TypeOK, HoldInv, OneProviderPerKey
<1> QED BY <1>1, FlightInvariant, PTL

\* While a winner works on its review nobody else has published one.
THEOREM ReviewOnlyIfNeeded == Spec => []ReviewIsNeeded
<1>1. FlightInv => ReviewIsNeeded
  BY DEF FlightInv, ResultInv
<1> QED BY <1>1, FlightInvariant, PTL

\* Whatever the cache or a call hands out was stored before.
THEOREM StoredFirst == Spec => []StoredBeforePublished
<1>1. FlightInv => StoredBeforePublished
  BY DEF FlightInv, ResultInv, StoredBeforePublished
<1> QED BY <1>1, FlightInvariant, PTL

\* A call that returns has let go of the lock and of its slot.
THEOREM ReturnedWithoutLock == Spec => []ReturnLeavesNoLock
<1>1. FlightInv => ReturnLeavesNoLock
  BY DEF FlightInv, TypeOK, HoldInv, ReturnLeavesNoLock, WinnerSteps, WaiterSteps
<1> QED BY <1>1, FlightInvariant, PTL

\* No more live calls wait than there are slots: their slots differ.
THEOREM BoundedWaiters == Spec => []WaitersBounded
<1>1. FlightInv => WaitersBounded
  <2> SUFFICES ASSUME FlightInv PROVE WaitersBounded
      OBVIOUS
  <2> DEFINE W == {p \in alive : pc[p] \in WaiterSteps}
             slotOf == [p \in W |-> probe[p]]
  <2>1. slotOf \in Injection(W, Slots)
    <3>1. slotOf \in [W -> Slots]
      BY DEF FlightInv, TypeOK, HoldInv
    <3>2. ASSUME NEW p \in W, NEW q \in W, slotOf[p] = slotOf[q] PROVE p = q
      BY <3>2 DEF FlightInv, TypeOK, HoldInv
    <3> HIDE DEF slotOf, W
    <3> QED BY <3>1, <3>2 DEF Injection, IsInjective
  <2>2. IsFiniteSet(Slots) /\ Cardinality(Slots) = MaxWaiters
    BY SingleFlightAssumption, FS_Interval DEF Slots
  <2>3. Cardinality(W) <= Cardinality(Slots)
    <3> HIDE DEF slotOf, W
    <3> QED BY <2>1, <2>2, FS_Injection
  <2> QED BY <2>2, <2>3 DEF WaitersBounded
<1> QED BY <1>1, FlightInvariant, PTL

\* A waiter is told that there is no result only while there is none.
THEOREM UnavailableIsTrue == Spec => UnavailableOnlyWithoutResult
<1> DEFINE Told == \A p \in Proc :
             outcome'[p] = "unavailable" /\ outcome[p] # "unavailable" => cache = None
<1>1. TypeOK /\ [Next]_vars => [Told]_vars
  <2> SUFFICES ASSUME TypeOK, [Next]_vars PROVE Told \/ UNCHANGED vars
      OBVIOUS
  <2> USE DEF TypeOK
  <2>1. ASSUME NEW p \in Proc, Step(p) PROVE Told
    <3>1. CASE FirstRead(p) \/ AcquireLock(p)
      BY <3>1 DEF FirstRead, AcquireLock
    <3>2. CASE WinnerStep(p)
      BY <3>2 DEF WinnerStep, LockGranted, OwnedRead, RunReview, PersistResult, IfBeating,
                  PublishResult, StopHeartbeat, ReleaseReviewLock
    <3>3. CASE WaiterStep(p)
      BY <3>3 DEF WaiterStep, ProbeSlot, WaitRead, WaitActive, WaitFinal, WaitEnds, LeaveSlot
    <3> QED BY <2>1, <3>1, <3>2, <3>3 DEF Step
  <2>2. ASSUME NEW p \in Proc, HeartbeatFails(p) \/ RetireRun(p) \/ Crash(p) PROVE Told
    BY <2>2 DEF HeartbeatFails, RetireRun, Crash
  <2>3. CASE Evict BY <2>3 DEF Evict
  <2> QED BY <2>1, <2>2, <2>3 DEF Next
<1> QED BY <1>1, FlightTypes, PTL DEF Spec, UnavailableOnlyWithoutResult


-----------------------------------------------------------------------------
(* The refinement of ReviewFlight                                          *)

\* A call has no answer before it has done its work.
Unanswered ==
  \A p \in alive :
    pc[p] \in {"start", "acquire", "granted", "recheck", "run", "persist", "publish",
              "slot", "read", "active", "final"} => outcome[p] = "none"

LEMMA UnansweredStep == ASSUME TypeOK, Unanswered, [Next]_vars PROVE Unanswered'
<1> USE DEF TypeOK, Unanswered
<1>1. ASSUME NEW p \in Proc, FirstRead(p) PROVE Unanswered'
  BY <1>1 DEF FirstRead
<1>2. ASSUME NEW p \in Proc, AcquireLock(p) PROVE Unanswered'
  BY <1>2 DEF AcquireLock, Reap, Take
<1>3. ASSUME NEW p \in Proc, LockGranted(p) PROVE Unanswered'
  BY <1>3 DEF LockGranted, Grant
<1>4. ASSUME NEW p \in Proc, OwnedRead(p) PROVE Unanswered'
  BY <1>4 DEF OwnedRead
<1>5. ASSUME NEW p \in Proc, RunReview(p) PROVE Unanswered'
  BY <1>5 DEF RunReview, IfBeating
<1>6. ASSUME NEW p \in Proc, PersistResult(p) PROVE Unanswered'
  BY <1>6 DEF PersistResult, IfBeating
<1>7. ASSUME NEW p \in Proc, PublishResult(p) PROVE Unanswered'
  BY <1>7 DEF PublishResult
<1>8. ASSUME NEW p \in Proc, StopHeartbeat(p) PROVE Unanswered'
  BY <1>8 DEF StopHeartbeat, Yield
<1>9. ASSUME NEW p \in Proc, ReleaseReviewLock(p) PROVE Unanswered'
  BY <1>9 DEF ReleaseReviewLock, Drop
<1>10. ASSUME NEW p \in Proc, WaiterStep(p) PROVE Unanswered'
  BY <1>10 DEF WaiterStep, ProbeSlot, WaitRead, WaitActive, WaitFinal, WaitEnds, LeaveSlot
<1>11. ASSUME NEW p \in Proc, HeartbeatFails(p) PROVE Unanswered'
  BY <1>11 DEF HeartbeatFails
<1>12. ASSUME NEW p \in Proc, Crash(p) PROVE Unanswered'
  BY <1>12 DEF Crash, Die
<1>13. ASSUME NEW p \in Proc, RetireRun(p) PROVE Unanswered'
  BY <1>13 DEF RetireRun
<1>14. CASE Evict BY <1>14 DEF Evict
<1>15. CASE UNCHANGED vars BY <1>15 DEF vars
<1> QED BY <1>1, <1>2, <1>3, <1>4, <1>5, <1>6, <1>7, <1>8, <1>9, <1>10, <1>11,
           <1>12, <1>13, <1>14, <1>15
       DEF Next, Step, WinnerStep

Answered == [p \in Proc |-> AnswerOf(outcome[p])]

\* A step that changes what is seen of p alone.
LEMMA AnswerOfOne ==
  ASSUME TypeOK, NEW p \in Proc, NEW o \in Outcomes, Result(p, o)
  PROVE  Promised!Answer(p, AnswerOf(o))
<1>1. outcome' = [outcome EXCEPT ![p] = o] /\ outcome \in [Proc -> Outcomes]
  BY DEF TypeOK
<1>2. Answered' = [q \in Proc |-> IF q = p THEN AnswerOf(o) ELSE AnswerOf(outcome[q])]
  BY <1>1 DEF Answered
<1>3. Answered' = [Answered EXCEPT ![p] = AnswerOf(o)]
  BY <1>2 DEF Answered
<1> QED BY <1>3 DEF Promised!Answer, Answered

\* A step that is not seen.
LEMMA Unseen ==
  ASSUME UNCHANGED cache, Working' = Working,
         \A q \in Proc : AnswerOf(outcome'[q]) = AnswerOf(outcome[q])
  PROVE  UNCHANGED Promised!flight
<1>1. Answered' = Answered BY DEF Answered
<1> QED BY <1>1 DEF Promised!flight, Answered

\* Who does not go to work, and does not stop working, leaves the workers as they are.
LEMMA SameWorkers ==
  ASSUME TypeOK, NEW p \in Proc, NEW label \in Labels, UNCHANGED alive, Goto(p, label),
         pc[p] \in {"run", "persist", "publish"} <=> label \in {"run", "persist", "publish"}
  PROVE  Working' = Working
BY DEF TypeOK, Working

\* Who stops working is one worker less.
LEMMA OneWorkerLess ==
  ASSUME TypeOK, NEW p \in Proc, NEW label \in Labels \ {"run", "persist", "publish"},
         UNCHANGED alive, Goto(p, label), p \in Working
  PROVE  Working' = Working \ {p}
BY DEF TypeOK, Working

\* A call that fails, is refused or is late.
LEMMA SeenFailing ==
  ASSUME TypeOK, NEW p \in Proc, NEW o \in {"limit", "timeout", "unstored", "uncached", "failed"},
         Result(p, o), UNCHANGED cache,
         \/ p \notin Working /\ Working' = Working
         \/ p \in Working /\ Working' = Working \ {p}
  PROVE  Promised!FlightNext
<1>1. o \in Outcomes /\ AnswerOf(o) = "failed" BY DEF Outcomes, AnswerOf
<1>2. Promised!Answer(p, "failed") BY <1>1, AnswerOfOne
<1> QED BY <1>2 DEF Promised!FlightNext, Promised!Fail, Promised!GiveUp

\* Who reads the cache, outside of the work, is told what is there.
LEMMA SeenReading ==
  ASSUME TypeOK, NEW p \in Proc, NEW o \in {"cached", "unavailable"}, Result(p, o),
         UNCHANGED cache, p \notin Working, Working' = Working, outcome[p] = "none",
         o = "cached" <=> cache # None
  PROVE  Promised!FlightNext
<1>1. o \in Outcomes /\ AnswerOf(o) = IF o = "cached" THEN "given" ELSE "missed"
  BY DEF Outcomes, AnswerOf
<1>2. Promised!Answer(p, AnswerOf(o)) BY <1>1, AnswerOfOne
<1>3. AnswerOf(outcome[p]) = "none" BY DEF AnswerOf
<1> QED BY <1>1, <1>2, <1>3 DEF Promised!FlightNext, Promised!Take, Promised!Miss

\* Every step of single flight is one of what it promises, or is not seen.
LEMMA FlightStepKeepsPromise ==
  ASSUME FlightInv, Unanswered, [Next]_vars
  PROVE  [Promised!FlightNext]_(Promised!flight)
<1> SUFFICES ASSUME Next PROVE Promised!FlightNext \/ UNCHANGED Promised!flight
  <2>1. CASE UNCHANGED vars BY <2>1, Unseen DEF vars, Working
  <2> QED BY <2>1
<1> USE HostLockAssumption, SingleFlightAssumption
    DEF Labels, WinnerSteps, WaiterSteps
<1>types. TypeOK BY DEF FlightInv
<1>1. ASSUME NEW p \in Proc, FirstRead(p) PROVE Promised!FlightNext \/ UNCHANGED Promised!flight
  <2>1. /\ p \notin Working /\ outcome[p] = "none" /\ UNCHANGED cache
        /\ \/ cache # None /\ Goto(p, "done") /\ Result(p, "cached")
           \/ Goto(p, "acquire") /\ UNCHANGED outcome
    BY <1>1 DEF FirstRead, Working, Unanswered
  <2>2. Working' = Working BY <1>1, <1>types, <2>1, SameWorkers DEF FirstRead
  <2> QED BY <1>types, <2>1, <2>2, SeenReading, Unseen
<1>2. ASSUME NEW p \in Proc, AcquireLock(p) PROVE Promised!FlightNext \/ UNCHANGED Promised!flight
  <2>1. p \notin Working /\ UNCHANGED <<alive, cache>>
    BY <1>2 DEF AcquireLock, Reap, Take, Working
  <2>2. \/ UNCHANGED <<pc, outcome>>
        \/ Goto(p, "granted") /\ UNCHANGED outcome
        \/ Goto(p, "slot") /\ UNCHANGED outcome
        \/ Goto(p, "done") /\ Result(p, "failed")
    BY <1>2 DEF AcquireLock
  <2>3. Working' = Working
    <3>1. CASE UNCHANGED <<pc, outcome>> BY <2>1, <3>1 DEF Working
    <3> QED BY <1>2, <1>types, <2>1, <2>2, <3>1, SameWorkers DEF AcquireLock
  <2> QED BY <1>types, <2>1, <2>2, <2>3, SeenFailing, Unseen
<1>3. ASSUME NEW p \in Proc, LockGranted(p) PROVE Promised!FlightNext \/ UNCHANGED Promised!flight
  <2>1. /\ p \notin Working /\ UNCHANGED <<alive, cache>>
        /\ \/ Goto(p, "recheck") /\ UNCHANGED outcome
           \/ Goto(p, "done") /\ Result(p, "failed")
    BY <1>3 DEF LockGranted, Grant, Working
  <2>2. Working' = Working BY <1>3, <1>types, <2>1, SameWorkers DEF LockGranted
  <2> QED BY <1>types, <2>1, <2>2, SeenFailing, Unseen
<1>4. ASSUME NEW p \in Proc, OwnedRead(p) PROVE Promised!FlightNext \/ UNCHANGED Promised!flight
  <2>1. /\ p \in alive /\ pc[p] = "recheck" /\ p \notin Working /\ outcome[p] = "none"
        /\ UNCHANGED <<alive, cache>>
    BY <1>4 DEF OwnedRead, Working, Unanswered
  <2>2. CASE cache # None
    <3>1. Goto(p, "stop") /\ Result(p, "cached") BY <1>4, <2>2 DEF OwnedRead
    <3>2. Working' = Working BY <1>types, <2>1, <3>1, SameWorkers
    <3> QED BY <1>types, <2>1, <2>2, <3>1, <3>2, SeenReading
  <2>3. CASE cache = None
    <3>1. Goto(p, "run") /\ UNCHANGED outcome BY <1>4, <2>3 DEF OwnedRead
    <3>2. Working = {} BY <2>1 DEF FlightInv, HoldInv, TypeOK, Working
    <3>3. Working' = {p} BY <1>types, <2>1, <3>1, <3>2 DEF TypeOK, Working
    <3>4. AnswerOf(outcome[p]) = "none" /\ Answered' = Answered
      BY <2>1, <3>1 DEF AnswerOf, Answered
    <3> QED BY <2>1, <2>3, <3>2, <3>3, <3>4 DEF Promised!FlightNext, Promised!Begin, Answered
  <2> QED BY <2>2, <2>3
<1>5. ASSUME NEW p \in Proc, RunReview(p) PROVE Promised!FlightNext \/ UNCHANGED Promised!flight
  <2>1. /\ p \in Working /\ pc[p] = "run" /\ UNCHANGED <<alive, cache>>
        /\ \/ Goto(p, "persist") /\ UNCHANGED outcome
           \/ Goto(p, "stop") /\ Result(p, "failed")
    BY <1>5 DEF RunReview, IfBeating, Working
  <2>2. CASE Goto(p, "persist") /\ UNCHANGED outcome
    BY <1>types, <2>1, <2>2, SameWorkers, Unseen
  <2>3. CASE Goto(p, "stop") /\ Result(p, "failed")
    BY <1>types, <2>1, <2>3, OneWorkerLess, SeenFailing
  <2> QED BY <2>1, <2>2, <2>3
<1>6. ASSUME NEW p \in Proc, PersistResult(p) PROVE Promised!FlightNext \/ UNCHANGED Promised!flight
  <2>1. /\ p \in Working /\ pc[p] = "persist" /\ UNCHANGED <<alive, cache>>
        /\ \/ Goto(p, "publish") /\ UNCHANGED outcome
           \/ Goto(p, "stop") /\ \E o \in {"unstored", "failed"} : Result(p, o)
    BY <1>6 DEF PersistResult, IfBeating, Working
  <2>2. CASE Goto(p, "publish") /\ UNCHANGED outcome
    BY <1>types, <2>1, <2>2, SameWorkers, Unseen
  <2>3. ASSUME Goto(p, "stop"), NEW o \in {"unstored", "failed"}, Result(p, o)
        PROVE  Promised!FlightNext
    BY <1>types, <2>1, <2>3, OneWorkerLess, SeenFailing
  <2> QED BY <2>1, <2>2, <2>3
<1>7. ASSUME NEW p \in Proc, PublishResult(p) PROVE Promised!FlightNext \/ UNCHANGED Promised!flight
  <2>1. p \in Working /\ UNCHANGED alive /\ Goto(p, "stop")
    BY <1>7 DEF PublishResult, Working
  <2>2. Working' = Working \ {p} BY <1>types, <2>1, OneWorkerLess
  <2>3. (cache # None)' \in {cache # None, TRUE}
    BY <1>7, <1>types, <2>1 DEF PublishResult, Working, TypeOK
  <2>4. ASSUME NEW o \in {"executed", "failed"}, Result(p, o) PROVE Promised!FlightNext
    <3>1. o \in Outcomes /\ AnswerOf(o) \in {"reviewed", "failed"} BY DEF Outcomes, AnswerOf
    <3>2. Promised!Answer(p, AnswerOf(o)) BY <1>types, <2>4, <3>1, AnswerOfOne
    <3> QED BY <2>1, <2>2, <2>3, <3>1, <3>2 DEF Promised!FlightNext, Promised!Finish
  <2>5. CASE UNCHANGED cache /\ Result(p, "uncached")
    BY <1>types, <2>1, <2>2, <2>5, SeenFailing
  <2> QED BY <1>7, <2>4, <2>5 DEF PublishResult
<1>8. ASSUME NEW p \in Proc, StopHeartbeat(p) PROVE Promised!FlightNext \/ UNCHANGED Promised!flight
  <2>1. pc[p] = "stop" /\ Goto(p, "release") /\ UNCHANGED <<alive, cache, outcome>>
    BY <1>8 DEF StopHeartbeat, Yield
  <2>2. Working' = Working BY <1>types, <2>1, SameWorkers
  <2> QED BY <2>1, <2>2, Unseen
<1>9. ASSUME NEW p \in Proc, ReleaseReviewLock(p) PROVE Promised!FlightNext \/ UNCHANGED Promised!flight
  <2>1. /\ p \notin Working /\ pc[p] = "release" /\ UNCHANGED <<alive, cache>> /\ Goto(p, "done")
        /\ Result(p, outcome[p]) \/ Result(p, "failed")
    BY <1>9 DEF ReleaseReviewLock, Drop, Working
  <2>2. Working' = Working BY <1>types, <2>1, SameWorkers
  <2>3. CASE Result(p, outcome[p]) BY <1>types, <2>1, <2>2, <2>3, Unseen DEF TypeOK
  <2>4. CASE Result(p, "failed") BY <1>types, <2>1, <2>2, <2>4, SeenFailing
  <2> QED BY <2>1, <2>3, <2>4
<1>10. ASSUME NEW p \in Proc, WaiterStep(p) PROVE Promised!FlightNext \/ UNCHANGED Promised!flight
  <2>1. /\ p \notin Working /\ UNCHANGED <<alive, cache>>
        /\ pc[p] \in {"slot", "read", "active", "final", "leave"}
        /\ UNCHANGED pc \/ \E label \in {"done", "read", "leave", "active", "final"} : Goto(p, label)
    BY <1>10 DEF WaiterStep, ProbeSlot, WaitRead, WaitActive, WaitFinal, WaitEnds, LeaveSlot,
                 Working
  <2>2. Working' = Working
    <3>1. CASE UNCHANGED pc BY <2>1, <3>1 DEF Working
    <3> QED BY <1>types, <2>1, <3>1, SameWorkers
  <2>3. CASE ProbeSlot(p) \/ WaitEnds(p)
    <3>1. UNCHANGED outcome \/ \E o \in {"limit", "timeout", "failed"} : Result(p, o)
      BY <2>3 DEF ProbeSlot, WaitEnds
    <3> QED BY <1>types, <2>1, <2>2, <3>1, SeenFailing, Unseen
  <2>4. CASE WaitRead(p) \/ WaitFinal(p)
    <3>1. /\ outcome[p] = "none"
          /\ \/ UNCHANGED outcome
             \/ cache # None /\ Result(p, "cached")
             \/ cache = None /\ Result(p, "unavailable")
      BY <2>4 DEF WaitRead, WaitFinal, Unanswered
    <3> QED BY <1>types, <2>1, <2>2, <3>1, SeenReading, Unseen
  <2>5. CASE WaitActive(p) BY <2>1, <2>2, <2>5, Unseen DEF WaitActive
  <2>6. CASE LeaveSlot(p)
    <3>1. Result(p, outcome[p]) \/ Result(p, "failed") BY <2>6 DEF LeaveSlot
    <3>2. CASE Result(p, outcome[p]) BY <1>types, <2>1, <2>2, <3>2, Unseen DEF TypeOK
    <3>3. CASE Result(p, "failed") BY <1>types, <2>1, <2>2, <3>3, SeenFailing
    <3> QED BY <3>1, <3>2, <3>3
  <2> QED BY <1>10, <2>3, <2>4, <2>5, <2>6 DEF WaiterStep
<1>11. ASSUME NEW p \in Proc, HeartbeatFails(p) PROVE UNCHANGED Promised!flight
  BY <1>11, Unseen DEF HeartbeatFails, Working
<1>12. ASSUME NEW p \in Proc, Crash(p) PROVE Promised!FlightNext \/ UNCHANGED Promised!flight
  <2>1. UNCHANGED <<cache, outcome>> /\ Working' = Working \ {p}
    BY <1>12, <1>types DEF Crash, Die, TypeOK, Working
  <2>2. Answered' = Answered BY <2>1 DEF Answered
  <2>3. CASE p \in Working
    BY <2>1, <2>2, <2>3 DEF Promised!FlightNext, Promised!GiveUp, Answered
  <2>4. CASE p \notin Working
    BY <2>1, <2>4, Unseen
  <2> QED BY <2>3, <2>4
<1>13. ASSUME NEW p \in Proc, RetireRun(p) PROVE UNCHANGED Promised!flight
  BY <1>13, Unseen DEF RetireRun, Working
<1>14. CASE Evict
  <2>1. cache # None /\ cache' = None /\ Working' = Working /\ Answered' = Answered
    BY <1>14 DEF Evict, Working, Answered
  <2> QED BY <2>1 DEF Promised!FlightNext, Promised!Forget, Answered
<1> QED BY <1>1, <1>2, <1>3, <1>4, <1>5, <1>6, <1>7, <1>8, <1>9, <1>10, <1>11, <1>12, <1>13,
           <1>14
       DEF Next, Step, WinnerStep

\* Single flight keeps what ReviewFlight promises the calls of a key, however many there
\* are, and whoever crashes, is refused or loses its lease.
THEOREM FlightPromiseKept == Spec => KeepsFlightPromise
<1>1. Init => Promised!FlightInit /\ Unanswered
  <2> SUFFICES ASSUME Init PROVE Promised!FlightInit /\ Unanswered
      OBVIOUS
  <2>1. Unanswered BY DEF Init, LockInit, Unanswered
  <2>2. Working = {} /\ cache = None BY DEF Init, LockInit, Working
  <2>3. [p \in Proc |-> AnswerOf(outcome[p])] = [p \in Proc |-> "none"]
    BY DEF Init, AnswerOf
  <2> QED BY <2>1, <2>2, <2>3 DEF Promised!FlightInit
<1>2. FlightInv /\ Unanswered /\ [Next]_vars
        => Unanswered' /\ [Promised!FlightNext]_(Promised!flight)
  BY UnansweredStep, FlightStepKeepsPromise DEF FlightInv
<1> QED BY <1>1, <1>2, FlightInvariant, PTL
       DEF Spec, KeepsFlightPromise, Promised!FlightSpec

-----------------------------------------------------------------------------
(* The directories                                                         *)

\* Where a process has the maintenance lock.
Section == {"scan", "evict", "write", "rename", "unlock",
            "check", "quarantine", "remove", "forget"}
Writing == {"lock", "scan", "evict", "write", "rename"}
Reading == {"content", "verify", "discard", "check", "quarantine"}

Useless(f) == ~Store!IsUsableCacheFile(f) \/ ~Store!IsStoredRunRecord(f)

-----------------------------------------------------------------------------
(* The invariant                                                           *)

\* At most one process that lives is in the section.
LockInv == \A p \in Writer : at[p] \in Section => maint = p

\* What p counted is what is there, less what it removed; when it writes there is room.
Account(p) ==
  /\ at[p] \in Writing => item[p] \in Item /\ new[p] \in Store!File
  /\ at[p] \in Reading => item[p] \in Item
  /\ at[p] = "evict" =>
       /\ todo[p] \subseteq Store!Present(Store!Name \ {item[p]})
       /\ ~room[p].overflow =>
            /\ room[p].entries = Store!Cardinality(Store!Present(Store!Name \ {item[p]})) + 1
            /\ room[p].bytes = Store!Bytes(Store!Name \ {item[p]}) + new[p].size
  /\ at[p] \in {"write", "rename"} =>
       /\ Store!Cardinality(Store!Present(Item \ {item[p]})) + 1 <= MaxEntries
       /\ store = "cache" => Store!Bytes(Item \ {item[p]}) + new[p].size <= MaxBytes
  /\ at[p] = "rename" => file[p] = new[p]
  /\ at[p] = "quarantine" => Useless(file[item[p]])

AccountInv == \A p \in Writer : Account(p)

StoreInv == Store!TypeOK /\ LockInv /\ AccountInv /\ Store!LimitsKept

-----------------------------------------------------------------------------
(* Counting                                                                *)

Big(S) == {n \in Store!Present(S) : file[n].size = 2}

\* The count of ResultStore is that of the theorems about it.
LEMMA SameCount ==
  /\ \A S : Store!IsFiniteSet(S) <=> IsFiniteSet(S)
  /\ \A S : Store!Cardinality(S) = Cardinality(S)
BY DEF Store!IsFiniteSet, IsFiniteSet, Store!Cardinality, Cardinality

LEMMA NameIsFinite ==
  ASSUME NamesAreDistinct, NEW S \in SUBSET Store!Name
  PROVE  Store!IsFiniteSet(S) /\ Store!Cardinality(S) \in Nat
<1>1. Store!IsFiniteSet(Item \cup Writer) BY SameCount, FS_Union DEF NamesAreDistinct
<1>2. Store!IsFiniteSet(Item \cup Writer \cup Leftover) BY <1>1, SameCount, FS_Union
   DEF NamesAreDistinct
<1>3. Store!IsFiniteSet(Store!Name) BY <1>2, SameCount, FS_AddElement DEF Store!Name
<1>4. Store!IsFiniteSet(S) BY <1>3, SameCount, FS_Subset
<1> QED BY <1>4, SameCount, FS_CardinalityType

\* Fewer names hold no more entries and no more bytes.
LEMMA CountMono ==
  ASSUME NamesAreDistinct, NEW S \in SUBSET Store!Name, NEW T \in SUBSET S
  PROVE  /\ Store!Cardinality(Store!Present(T)) <= Store!Cardinality(Store!Present(S))
         /\ Store!Bytes(T) <= Store!Bytes(S)
         /\ Store!Cardinality(Store!Present(S)) \in Nat
         /\ Store!Bytes(S) \in Nat
         /\ Store!Cardinality(Store!Present(T)) \in Nat
         /\ Store!Bytes(T) \in Nat
<1>1. /\ Store!Present(S) \in SUBSET Store!Name /\ Store!Present(T) \in SUBSET Store!Present(S)
      /\ Store!Present(T) \in SUBSET Store!Name
      /\ Big(S) \in SUBSET Store!Name /\ Big(T) \in SUBSET Big(S) /\ Big(T) \in SUBSET Store!Name
  BY DEF Store!Present, Big
<1>2. /\ Store!Cardinality(Store!Present(T)) <= Store!Cardinality(Store!Present(S))
      /\ Store!Cardinality(Big(T)) <= Store!Cardinality(Big(S))
  BY <1>1, NameIsFinite, SameCount, FS_Subset
<1>3. /\ Store!Cardinality(Store!Present(T)) \in Nat /\ Store!Cardinality(Store!Present(S)) \in Nat
      /\ Store!Cardinality(Big(T)) \in Nat /\ Store!Cardinality(Big(S)) \in Nat
  BY <1>1, NameIsFinite
<1> QED BY <1>2, <1>3 DEF Store!Bytes, Big

\* A file that is removed is one entry less, and its bytes.
LEMMA CountRemoved ==
  ASSUME NamesAreDistinct, Store!TypeOK, NEW S \in SUBSET Store!Name, NEW n \in Store!Present(S),
         Store!Write(n, None)
  PROVE  /\ Store!Cardinality(Store!Present(S)') = Store!Cardinality(Store!Present(S)) - 1
         /\ Store!Bytes(S)' = Store!Bytes(S) - file[n].size
<1>1. /\ Store!Present(S)' = Store!Present(S) \ {n} /\ Big(S)' = Big(S) \ {n}
      /\ Store!Present(S) \in SUBSET Store!Name /\ Big(S) \in SUBSET Store!Name
      /\ n \in Big(S) <=> file[n].size = 2
      /\ file[n].size \in 1 .. 2
  BY DEF Store!Present, Big, Store!Write, Store!TypeOK, NamesAreDistinct, Store!File
<1>2. /\ Store!Cardinality(Store!Present(S)') = Store!Cardinality(Store!Present(S)) - 1
      /\ Store!Cardinality(Big(S)') =
           IF n \in Big(S) THEN Store!Cardinality(Big(S)) - 1 ELSE Store!Cardinality(Big(S))
  BY <1>1, NameIsFinite, SameCount, FS_RemoveElement
<1>3. Store!Cardinality(Store!Present(S)) \in Nat /\ Store!Cardinality(Big(S)) \in Nat
  BY <1>1, NameIsFinite
<1> QED BY <1>1, <1>2, <1>3 DEF Store!Bytes, Big

\* An entry that is put into the directory is one more at most, beside the others.
LEMMA CountPut ==
  ASSUME NamesAreDistinct, Store!TypeOK, NEW i \in Item, file'[i] \in Store!File,
         \A j \in Item \ {i} : file'[j] = file[j]
  PROVE  /\ Store!Cardinality(Store!Present(Item)') <= Store!Cardinality(Store!Present(Item \ {i})) + 1
         /\ Store!Bytes(Item)' <= Store!Bytes(Item \ {i}) + file'[i].size
<1>1. /\ Store!Present(Item)' = Store!Present(Item \ {i}) \cup {i}
      /\ Big(Item)' = IF file'[i].size = 2 THEN Big(Item \ {i}) \cup {i} ELSE Big(Item \ {i})
      /\ i \notin Store!Present(Item \ {i}) /\ i \notin Big(Item \ {i})
      /\ Store!Present(Item \ {i}) \in SUBSET Store!Name /\ Big(Item \ {i}) \in SUBSET Store!Name
      /\ file'[i].size \in 1 .. 2
  BY DEF Store!Present, Big, NamesAreDistinct, Store!File, Store!Name
<1>2. /\ Store!Cardinality(Store!Present(Item)') = Store!Cardinality(Store!Present(Item \ {i})) + 1
      /\ Store!Cardinality(Big(Item)') = IF file'[i].size = 2
                                   THEN Store!Cardinality(Big(Item \ {i})) + 1
                                   ELSE Store!Cardinality(Big(Item \ {i}))
  BY <1>1, NameIsFinite, SameCount, FS_AddElement
<1>3. Store!Cardinality(Store!Present(Item \ {i})) \in Nat /\ Store!Cardinality(Big(Item \ {i})) \in Nat
  BY <1>1, NameIsFinite
<1>4. /\ Store!Bytes(Item)' = Store!Cardinality(Store!Present(Item)') + Store!Cardinality(Big(Item)')
      /\ Store!Bytes(Item \ {i}) = Store!Cardinality(Store!Present(Item \ {i})) + Store!Cardinality(Big(Item \ {i}))
  BY DEF Store!Bytes, Big
<1> QED BY <1>1, <1>2, <1>3, <1>4

\* Entries that are removed, or left alone, leave the limits kept.
LEMMA LimitsStay ==
  ASSUME NamesAreDistinct, Store!TypeOK, Store!LimitsKept, UNCHANGED store,
         \A j \in Item : file'[j] = file[j] \/ file'[j] = None
  PROVE  Store!LimitsKept'
<1> DEFINE Kept == {j \in Item : file'[j] # None}
<1>1. /\ Kept \in SUBSET Item /\ Item \in SUBSET Store!Name
      /\ \A j \in Kept : file'[j] = file[j]
      /\ Store!Present(Item)' = Store!Present(Kept) /\ Big(Item)' = Big(Kept)
  BY DEF Store!Present, Big, Store!Name
<1>2. Store!Bytes(Item)' = Store!Bytes(Kept) BY <1>1 DEF Store!Bytes, Big
<1>3. /\ Store!Cardinality(Store!Present(Kept)) <= Store!Cardinality(Store!Present(Item))
      /\ Store!Bytes(Kept) <= Store!Bytes(Item)
      /\ Store!Cardinality(Store!Present(Kept)) \in Nat
      /\ Store!Cardinality(Store!Present(Item)) \in Nat
      /\ Store!Bytes(Kept) \in Nat /\ Store!Bytes(Item) \in Nat
  BY <1>1, CountMono
<1> HIDE DEF Kept
<1> QED BY <1>1, <1>2, <1>3 DEF Store!LimitsKept, NamesAreDistinct

-----------------------------------------------------------------------------
(* Types                                                                   *)

\* What is written into the directory is a file, or nothing.
LEMMA StoreTypeStep ==
  ASSUME NamesAreDistinct, Store!TypeOK, AccountInv, NEW p \in Writer,
         \/ Store!StartWrite(p) \/ Store!StartRead(p) \/ Store!WriteStep(p)
         \/ Store!ReadStep(p) \/ Store!Crash(p)
  PROVE  Store!TypeOK'
<1>a. Account(p) BY DEF AccountInv
<1> USE <1>a DEF NamesAreDistinct, Store!TypeOK, Store!Goto, Store!Write, Store!readVars,
Store!Ended, Store!Name, Store!Artifact
<1>1. CASE Store!StartWrite(p) BY <1>1 DEF Store!StartWrite, Store!File, Store!Defect
<1>2. CASE Store!StartRead(p) BY <1>2 DEF Store!StartRead
<1>3. CASE Store!Crash(p) BY <1>3 DEF Store!Crash, Store!Fault
<1>4. CASE Store!AcquireMaintenance(p)
  BY <1>4 DEF Store!AcquireMaintenance, Store!TakeLock, Account, Writing, Reading, Store!Fault
<1>5. CASE Store!MaintenanceBusy(p)
  BY <1>5 DEF Store!MaintenanceBusy, Account, Writing, Reading, Store!Fault
<1>6. CASE Store!Scan(p)
  <2>1. new[p].size \in 1 .. 2 BY <1>6 DEF Store!Scan, Account, Writing, Store!File
  <2>2. PICK S \in SUBSET Store!Present(Store!Name) :
          /\ todo' = [todo EXCEPT ![p] = S \ {item[p]}]
          /\ room' = [room EXCEPT ![p] =
               [entries |-> Store!Cardinality(S \ {item[p]}) + 1,
                bytes |-> Store!Bytes(S \ {item[p]}) + new[p].size,
                left |-> MaxCleanup,
                overflow |-> S # Store!Present(Store!Name)]]
    BY <1>6 DEF Store!Scan
  <2>3. S \ {item[p]} \in SUBSET Store!Name BY DEF Store!Present
  <2>4. Store!Cardinality(S \ {item[p]}) \in Nat /\ Store!Bytes(S \ {item[p]}) \in Nat
    BY <2>3, NameIsFinite, CountMono
  <2>5. [entries |-> Store!Cardinality(S \ {item[p]}) + 1,
         bytes |-> Store!Bytes(S \ {item[p]}) + new[p].size,
         left |-> MaxCleanup,
         overflow |-> S # Store!Present(Store!Name)] \in Store!Room
    BY <2>1, <2>4 DEF Store!Room
  <2>6. room' \in [Writer -> Store!Room] BY <2>2, <2>5
  <2>7. todo' \in [Writer -> SUBSET Store!Name] BY <2>2, <2>3
  <2> QED BY <1>6, <2>6, <2>7 DEF Store!Scan
<1>7. CASE Store!Evict(p)
  <2>1. PICK n \in todo[p] :
          /\ Store!Victim(p, n)
          /\ file' = [file EXCEPT ![n] = None]
          /\ todo' = [todo EXCEPT ![p] = IF store = "cache"
                        THEN {m \in @ \ {n} : file[m].time >= file[n].time}
                        ELSE @ \ {n}]
          /\ room' = [room EXCEPT ![p].entries = @ - 1,
                                  ![p].bytes = @ - file[n].size,
                                  ![p].left = @ - 1]
    BY <1>7 DEF Store!Evict
  <2>2. file[n].size \in 1 .. 2 BY <1>7 DEF Store!Evict, Account, Store!Present, Store!File
  <2>3. room' = [room EXCEPT ![p] = [entries |-> room[p].entries - 1,
                                     bytes |-> room[p].bytes - file[n].size,
                                     left |-> room[p].left - 1,
                                     overflow |-> room[p].overflow]]
    BY <2>1 DEF Store!Room
  <2>4. room' \in [Writer -> Store!Room]
    <3>1. room[p].left > 0 BY <2>1 DEF Store!Victim
    <3> QED BY <2>2, <2>3, <3>1 DEF Store!Room
  <2>5. todo' \in [Writer -> SUBSET Store!Name]
    <3>1. todo'[p] \subseteq todo[p] BY <2>1
    <3> QED BY <2>1, <3>1
  <2>6. file' \in [Store!Name -> Store!File \cup {None}] BY <2>1
  <2> QED BY <1>7, <2>4, <2>5, <2>6 DEF Store!Evict
<1>8. CASE Store!Decide(p)
  BY <1>8 DEF Store!Decide, Account, Writing, Reading, Store!Fault
<1>9. CASE Store!WriteTemporary(p)
  <2>1. new[p] \in Store!File BY <1>9 DEF Store!WriteTemporary, Account, Writing
  <2>2. new'[p] \in Store!File /\ new' \in [Writer -> Store!File \cup {None}] /\ clock' \in Nat
    BY <1>9, <2>1 DEF Store!WriteTemporary, Store!File
  <2> QED BY <1>9, <2>2 DEF Store!WriteTemporary
<1>10. CASE Store!RenameTemporary(p)
  BY <1>10 DEF Store!RenameTemporary, Account, Writing, Reading, Store!Fault
<1>11. CASE Store!Unlock(p)
  BY <1>11 DEF Store!Unlock, Account, Writing, Reading, Store!Fault
<1>12. CASE Store!OpenContent(p)
  BY <1>12 DEF Store!OpenContent, Store!Unread, Account, Writing, Reading, Store!Fault
<1>13. CASE Store!VerifyContent(p)
  BY <1>13 DEF Store!VerifyContent, Store!Unread, Account, Writing, Reading, Store!Fault
<1>14. CASE Store!DiscardOrNot(p)
  BY <1>14 DEF Store!DiscardOrNot, Store!TakeLock, Account, Writing, Reading, Store!Fault
<1>15. CASE Store!CheckAgain(p)
  BY <1>15 DEF Store!CheckAgain, Store!Discardable, Account, Writing, Reading, Store!Fault
<1>16. CASE Store!Quarantine(p)
  BY <1>16 DEF Store!Quarantine, Account, Writing, Reading, Store!Fault
<1>17. CASE Store!RemoveQuarantine(p)
  BY <1>17 DEF Store!RemoveQuarantine, Account, Writing, Reading, Store!Fault
<1>18. CASE Store!ReleaseDiscard(p)
  BY <1>18 DEF Store!ReleaseDiscard, Account, Writing, Reading, Store!Fault
<1> QED BY <1>1, <1>2, <1>3, <1>4, <1>5, <1>6, <1>7, <1>8, <1>9, <1>10, <1>11, <1>12, <1>13,
           <1>14, <1>15, <1>16, <1>17, <1>18 DEF Store!WriteStep, Store!ReadStep

-----------------------------------------------------------------------------
(* The steps                                                               *)

\* A step of p leaves the others alone, and the directory unless p has the lock.
Frame(p) ==
  /\ UNCHANGED store
  /\ \A q \in Writer \ {p} :
       /\ at'[q] = at[q] /\ item'[q] = item[q] /\ new'[q] = new[q]
       /\ todo'[q] = todo[q] /\ room'[q] = room[q]
  /\ UNCHANGED file \/ at[p] \in Section

LEMMA FrameStep ==
  ASSUME Store!TypeOK, NEW p \in Writer,
         \/ Store!StartWrite(p) \/ Store!StartRead(p) \/ Store!WriteStep(p)
         \/ Store!ReadStep(p) \/ Store!Crash(p)
  PROVE  Frame(p)
<1> USE DEF Store!TypeOK, Frame, Section, Store!Goto, Store!readVars
<1>1. CASE Store!StartWrite(p) BY <1>1 DEF Store!StartWrite
<1>2. CASE Store!StartRead(p) BY <1>2 DEF Store!StartRead
<1>3. CASE Store!Crash(p) BY <1>3 DEF Store!Crash
<1>4. CASE Store!AcquireMaintenance(p) BY <1>4 DEF Store!AcquireMaintenance, Store!TakeLock
<1>5. CASE Store!MaintenanceBusy(p) BY <1>5 DEF Store!MaintenanceBusy
<1>6. CASE Store!Scan(p) BY <1>6 DEF Store!Scan
<1>7. CASE Store!Evict(p) BY <1>7 DEF Store!Evict
<1>8. CASE Store!Decide(p) BY <1>8 DEF Store!Decide
<1>9. CASE Store!WriteTemporary(p) BY <1>9 DEF Store!WriteTemporary
<1>10. CASE Store!RenameTemporary(p) BY <1>10 DEF Store!RenameTemporary
<1>11. CASE Store!Unlock(p) BY <1>11 DEF Store!Unlock
<1>12. CASE Store!OpenContent(p) BY <1>12 DEF Store!OpenContent, Store!Unread
<1>13. CASE Store!VerifyContent(p) BY <1>13 DEF Store!VerifyContent, Store!Unread
<1>14. CASE Store!DiscardOrNot(p) BY <1>14 DEF Store!DiscardOrNot, Store!TakeLock
<1>15. CASE Store!CheckAgain(p) BY <1>15 DEF Store!CheckAgain, Store!Discardable
<1>16. CASE Store!Quarantine(p) BY <1>16 DEF Store!Quarantine
<1>17. CASE Store!RemoveQuarantine(p) BY <1>17 DEF Store!RemoveQuarantine
<1>18. CASE Store!ReleaseDiscard(p) BY <1>18 DEF Store!ReleaseDiscard
<1> QED BY <1>1, <1>2, <1>3, <1>4, <1>5, <1>6, <1>7, <1>8, <1>9, <1>10, <1>11, <1>12, <1>13,
           <1>14, <1>15, <1>16, <1>17, <1>18 DEF Store!WriteStep, Store!ReadStep

\* The lock excludes.
LEMMA StoreLockStep ==
  ASSUME NamesAreDistinct, Store!TypeOK, LockInv, NEW p \in Writer,
         \/ Store!StartWrite(p) \/ Store!StartRead(p) \/ Store!WriteStep(p)
         \/ Store!ReadStep(p) \/ Store!Crash(p)
  PROVE  LockInv'
<1>a. Frame(p) BY FrameStep
<1> USE <1>a DEF NamesAreDistinct, Store!TypeOK, Frame, LockInv, Section, Store!Goto,
Store!readVars
<1>1. CASE Store!StartWrite(p) BY <1>1 DEF Store!StartWrite
<1>2. CASE Store!StartRead(p) BY <1>2 DEF Store!StartRead
<1>3. CASE Store!Crash(p) BY <1>3 DEF Store!Crash
<1>4. CASE Store!AcquireMaintenance(p) BY <1>4 DEF Store!AcquireMaintenance, Store!TakeLock
<1>5. CASE Store!MaintenanceBusy(p) BY <1>5 DEF Store!MaintenanceBusy
<1>6. CASE Store!Scan(p) BY <1>6 DEF Store!Scan
<1>7. CASE Store!Evict(p) BY <1>7 DEF Store!Evict
<1>8. CASE Store!Decide(p) BY <1>8 DEF Store!Decide
<1>9. CASE Store!WriteTemporary(p) BY <1>9 DEF Store!WriteTemporary
<1>10. CASE Store!RenameTemporary(p) BY <1>10 DEF Store!RenameTemporary
<1>11. CASE Store!Unlock(p) BY <1>11 DEF Store!Unlock
<1>12. CASE Store!OpenContent(p) BY <1>12 DEF Store!OpenContent, Store!Unread
<1>13. CASE Store!VerifyContent(p) BY <1>13 DEF Store!VerifyContent, Store!Unread
<1>14. CASE Store!DiscardOrNot(p) BY <1>14 DEF Store!DiscardOrNot, Store!TakeLock
<1>15. CASE Store!CheckAgain(p) BY <1>15 DEF Store!CheckAgain, Store!Discardable
<1>16. CASE Store!Quarantine(p) BY <1>16 DEF Store!Quarantine
<1>17. CASE Store!RemoveQuarantine(p) BY <1>17 DEF Store!RemoveQuarantine
<1>18. CASE Store!ReleaseDiscard(p) BY <1>18 DEF Store!ReleaseDiscard
<1> QED BY <1>1, <1>2, <1>3, <1>4, <1>5, <1>6, <1>7, <1>8, <1>9, <1>10, <1>11, <1>12, <1>13,
           <1>14, <1>15, <1>16, <1>17, <1>18 DEF Store!WriteStep, Store!ReadStep

\* What the others counted stays true: who is in the section is alone.
LEMMA OthersKeep ==
  ASSUME LockInv, AccountInv, NEW p \in Writer, Frame(p), NEW q \in Writer \ {p}
  PROVE  Account(q)'
<1>a. Account(q) BY DEF AccountInv
<1>1. at[q] \in Section => UNCHANGED file BY DEF LockInv, Frame
<1>2. /\ at'[q] = at[q] /\ item'[q] = item[q] /\ new'[q] = new[q]
      /\ todo'[q] = todo[q] /\ room'[q] = room[q] /\ store' = store
  BY DEF Frame
<1>3. CASE at[q] \in Section
  <2>1. UNCHANGED file BY <1>1, <1>3
  <2>3. /\ Store!Present(Store!Name \ {item[q]})' = Store!Present(Store!Name \ {item[q]})
        /\ Store!Bytes(Store!Name \ {item[q]})' = Store!Bytes(Store!Name \ {item[q]})
        /\ Store!Present(Item \ {item[q]})' = Store!Present(Item \ {item[q]})
        /\ Store!Bytes(Item \ {item[q]})' = Store!Bytes(Item \ {item[q]})
    BY <2>1, <1>2 DEF Store!Present, Store!Bytes
  <2>4. (at[q] = "quarantine" => Useless(file[item[q]]))'
    BY <1>a, <1>2, <2>1
       DEF Account, Useless, Store!IsUsableCacheFile, Store!IsStoredRunRecord,
       Store!MatchesStoredRun,
           Store!HasCacheKey, Store!IsWhole, Store!HasRunDocument, Store!HasValidMetadata
  <2> QED BY <1>a, <1>2, <2>1, <2>3, <2>4 DEF Account
<1>4. CASE at[q] \notin Section
  BY <1>a, <1>2, <1>4 DEF Account, Section
<1> QED BY <1>3, <1>4

\* What p itself counted stays true.
LEMMA OwnStep ==
  ASSUME NamesAreDistinct, Store!TypeOK, AccountInv, NEW p \in Writer,
         \/ Store!StartWrite(p) \/ Store!StartRead(p) \/ Store!WriteStep(p)
         \/ Store!ReadStep(p) \/ Store!Crash(p)
  PROVE  Account(p)'
<1>a. Account(p) BY DEF AccountInv
<1>b. Store!Name \ {item[p]} \in SUBSET Store!Name /\ Item \ {item[p]} \in SUBSET (Store!Name \ {item[p]})
  BY DEF Store!Name
<1>c. new[p] \in Store!File => new[p].size \in 1 .. 2 BY DEF Store!File
<1>d. (Store!Name \ {item[p]})' = Store!Name \ {item'[p]} /\ (Item \ {item[p]})' = Item \ {item'[p]}
  OBVIOUS
<1> USE <1>a DEF NamesAreDistinct, Store!TypeOK, Account, Store!Goto, Store!Write,
Store!readVars, Writing, Reading
<1>1. CASE Store!StartWrite(p) BY <1>1 DEF Store!StartWrite, Store!File, Store!Defect
<1>2. CASE Store!StartRead(p) BY <1>2 DEF Store!StartRead
<1>3. CASE Store!Crash(p) BY <1>3 DEF Store!Crash
<1>4. CASE Store!AcquireMaintenance(p) BY <1>4 DEF Store!AcquireMaintenance
<1>5. CASE Store!MaintenanceBusy(p) BY <1>5 DEF Store!MaintenanceBusy
<1>6. CASE Store!Scan(p)
  <2>1. PICK S \in SUBSET Store!Present(Store!Name) :
          /\ todo' = [todo EXCEPT ![p] = S \ {item[p]}]
          /\ room' = [room EXCEPT ![p] =
               [entries |-> Store!Cardinality(S \ {item[p]}) + 1,
                bytes |-> Store!Bytes(S \ {item[p]}) + new[p].size,
                left |-> MaxCleanup,
                overflow |-> S # Store!Present(Store!Name)]]
    BY <1>6 DEF Store!Scan
  <2>2. UNCHANGED <<file, item, new>> /\ at' = [at EXCEPT ![p] = "evict"] /\ at[p] = "scan"
    BY <1>6 DEF Store!Scan
  <2>3. S \ {item[p]} \subseteq Store!Present(Store!Name \ {item[p]})
    BY DEF Store!Present
  <2>4. S = Store!Present(Store!Name) => S \ {item[p]} = Store!Present(Store!Name \ {item[p]})
    BY DEF Store!Present
  <2>5. Store!Bytes(Store!Present(Store!Name \ {item[p]})) = Store!Bytes(Store!Name \ {item[p]})
    <3>1. Store!Present(Store!Present(Store!Name \ {item[p]})) = Store!Present(Store!Name \ {item[p]})
      BY DEF Store!Present
    <3> QED BY <3>1 DEF Store!Bytes
  <2>6. /\ Store!Present(Store!Name \ {item[p]})' = Store!Present(Store!Name \ {item[p]})
        /\ Store!Bytes(Store!Name \ {item[p]})' = Store!Bytes(Store!Name \ {item[p]})
    BY <2>2 DEF Store!Present, Store!Bytes
  <2>7. /\ room'[p].entries = Store!Cardinality(S \ {item[p]}) + 1
        /\ room'[p].bytes = Store!Bytes(S \ {item[p]}) + new[p].size
        /\ room'[p].overflow = (S # Store!Present(Store!Name))
        /\ todo'[p] = S \ {item[p]}
    BY <2>1
  <2>8. ~room'[p].overflow => /\ room'[p].entries = Store!Cardinality(Store!Present(Store!Name \ {item[p]})) + 1
                              /\ room'[p].bytes = Store!Bytes(Store!Name \ {item[p]}) + new[p].size
    BY <2>4, <2>5, <2>7
  <2>9. at'[p] = "evict" /\ item'[p] \in Item /\ new'[p] \in Store!File BY <2>2
  <2>10. (todo[p] \subseteq Store!Present(Store!Name \ {item[p]}))' BY <2>3, <2>6, <2>7
  <2>11. (~room[p].overflow =>
            /\ room[p].entries = Store!Cardinality(Store!Present(Store!Name \ {item[p]})) + 1
            /\ room[p].bytes = Store!Bytes(Store!Name \ {item[p]}) + new[p].size)'
    BY <2>2, <2>6, <2>8
  <2> QED BY ONLY <2>9, <2>10, <2>11 DEF Account, Writing, Reading
<1>7. CASE Store!Evict(p)
  <2>1. PICK n \in todo[p] :
          /\ Store!Write(n, None)
          /\ todo' = [todo EXCEPT ![p] = IF store = "cache"
                        THEN {m \in @ \ {n} : file[m].time >= file[n].time}
                        ELSE @ \ {n}]
          /\ room' = [room EXCEPT ![p].entries = @ - 1,
                                  ![p].bytes = @ - file[n].size,
                                  ![p].left = @ - 1]
    BY <1>7 DEF Store!Evict
  <2>2. UNCHANGED <<at, item, new>> /\ at[p] = "evict" BY <1>7 DEF Store!Evict
  <2>3. n \in Store!Present(Store!Name \ {item[p]}) BY <2>2
  <2>4. /\ Store!Cardinality(Store!Present(Store!Name \ {item[p]})') = Store!Cardinality(Store!Present(Store!Name \ {item[p]})) - 1
        /\ Store!Bytes(Store!Name \ {item[p]})' = Store!Bytes(Store!Name \ {item[p]}) - file[n].size
    <3> DEFINE T == Store!Name \ {item[p]}
    <3>1. /\ {m \in T : file'[m] # None} = Store!Present(T)'
          /\ item'[p] = item[p]
      BY <2>2 DEF Store!Present
    <3>2. \A U \in SUBSET Store!Name : n \in Store!Present(U) =>
            /\ Store!Cardinality(Store!Present(U)') = Store!Cardinality(Store!Present(U)) - 1
            /\ Store!Bytes(U)' = Store!Bytes(U) - file[n].size
      BY <2>1, CountRemoved
    <3> QED BY <3>1, <3>2, <2>2, <2>3, <1>b DEF Store!Present, Store!Bytes
  <2>5. todo'[p] \subseteq todo[p] \ {n} BY <2>1
  <2>6. Store!Present(Store!Name \ {item[p]})' = Store!Present(Store!Name \ {item[p]}) \ {n}
    BY <2>1, <2>2, <2>3 DEF Store!Present
  <2>7. /\ room'[p].entries = room[p].entries - 1
        /\ room'[p].bytes = room[p].bytes - file[n].size
        /\ room'[p].overflow = room[p].overflow
    BY <2>1 DEF Store!Room
  <2>8. /\ Store!Cardinality(Store!Present(Store!Name \ {item[p]})) \in Nat
        /\ Store!Bytes(Store!Name \ {item[p]}) \in Nat
        /\ file[n].size \in 1 .. 2
    BY <1>b, <2>3, CountMono DEF Store!Present, Store!File
  <2>9. at'[p] = "evict" /\ item'[p] \in Item /\ new'[p] \in Store!File BY <2>2
  <2>10. (todo[p] \subseteq Store!Present(Store!Name \ {item[p]}))' BY <2>2, <2>5, <2>6
  <2>11. (~room[p].overflow =>
            /\ room[p].entries = Store!Cardinality(Store!Present(Store!Name \ {item[p]})) + 1
            /\ room[p].bytes = Store!Bytes(Store!Name \ {item[p]}) + new[p].size)'
    BY <2>2, <2>4, <2>7, <2>8, <1>c
  <2> QED BY ONLY <2>9, <2>10, <2>11 DEF Account, Writing, Reading
<1>8. CASE Store!Decide(p)
  <2>1. CASE Store!OverCapacity(room[p]) BY <1>8, <2>1 DEF Store!Decide
  <2>2. CASE ~Store!OverCapacity(room[p])
    <3>1. /\ UNCHANGED <<file, item, new, store>> /\ at' = [at EXCEPT ![p] = "write"]
          /\ at[p] = "evict"
      BY <1>8, <2>2 DEF Store!Decide
    <3>2. /\ ~room[p].overflow /\ room[p].entries <= MaxEntries
          /\ store = "cache" => room[p].bytes <= MaxBytes
      BY <2>2 DEF Store!OverCapacity, Store!Room
    <3>3. /\ Store!Cardinality(Store!Present(Item \ {item[p]})) <= Store!Cardinality(Store!Present(Store!Name \ {item[p]}))
          /\ Store!Bytes(Item \ {item[p]}) <= Store!Bytes(Store!Name \ {item[p]})
          /\ Store!Cardinality(Store!Present(Item \ {item[p]})) \in Nat
          /\ Store!Cardinality(Store!Present(Store!Name \ {item[p]})) \in Nat
          /\ Store!Bytes(Item \ {item[p]}) \in Nat /\ Store!Bytes(Store!Name \ {item[p]}) \in Nat
      BY <1>b, CountMono
    <3>4. /\ Store!Present(Item \ {item[p]})' = Store!Present(Item \ {item[p]})
          /\ Store!Bytes(Item \ {item[p]})' = Store!Bytes(Item \ {item[p]})
      BY <3>1 DEF Store!Present, Store!Bytes
    <3> QED BY <3>1, <3>2, <3>3, <3>4, <1>c
  <2> QED BY <2>1, <2>2
<1>9. CASE Store!WriteTemporary(p)
  <2>1. /\ UNCHANGED <<item, store>> /\ at' = [at EXCEPT ![p] = "rename"] /\ at[p] = "write"
        /\ file' = [file EXCEPT ![p] = new'[p]]
        /\ new' = [new EXCEPT ![p].time = IF store = "cache" THEN clock + 1 ELSE @]
    BY <1>9 DEF Store!WriteTemporary
  <2>2. new[p] \in Store!File /\ item[p] \in Item BY <2>1
  <2>3. new'[p] \in Store!File /\ new'[p].size = new[p].size BY <2>1, <2>2 DEF Store!File
  <2>4. \A j \in Item : file'[j] = file[j] BY <2>1 DEF Store!Artifact
  <2>5. /\ Store!Present(Item \ {item[p]})' = Store!Present(Item \ {item[p]})
        /\ Store!Bytes(Item \ {item[p]})' = Store!Bytes(Item \ {item[p]})
    <3>1. item'[p] = item[p] BY <2>1
    <3>2. \A S \in SUBSET Item : /\ {n \in S : file'[n] # None} = {n \in S : file[n] # None}
                                 /\ \A n \in S : file'[n].size = file[n].size
      BY <2>4
    <3>3. Store!Present(Item \ {item[p]})' = Store!Present(Item \ {item[p]})
      BY <3>1, <3>2 DEF Store!Present
    <3>4. Big(Item \ {item[p]})' = Big(Item \ {item[p]})
      BY <3>1, <3>2 DEF Store!Present, Big
    <3> QED BY <3>3, <3>4 DEF Store!Bytes, Big
  <2>6. file'[p] = new'[p] BY <2>1 DEF Store!Name
  <2> QED BY <2>1, <2>2, <2>3, <2>5, <2>6
<1>10. CASE Store!RenameTemporary(p) BY <1>10 DEF Store!RenameTemporary
<1>11. CASE Store!Unlock(p) BY <1>11 DEF Store!Unlock
<1>12. CASE Store!OpenContent(p) BY <1>12 DEF Store!OpenContent, Store!Unread
<1>13. CASE Store!VerifyContent(p) BY <1>13 DEF Store!VerifyContent, Store!Unread
<1>14. CASE Store!DiscardOrNot(p) BY <1>14 DEF Store!DiscardOrNot
<1>15. CASE Store!CheckAgain(p)
  BY <1>15 DEF Store!CheckAgain, Store!Discardable, Useless, Store!IsUsableCacheFile,
  Store!IsStoredRunRecord,
       Store!MatchesStoredRun, Store!HasCacheKey, Store!IsWhole, Store!HasRunDocument,
       Store!HasValidMetadata
<1>16. CASE Store!Quarantine(p) BY <1>16 DEF Store!Quarantine
<1>17. CASE Store!RemoveQuarantine(p) BY <1>17 DEF Store!RemoveQuarantine
<1>18. CASE Store!ReleaseDiscard(p) BY <1>18 DEF Store!ReleaseDiscard
<1> QED BY <1>1, <1>2, <1>3, <1>4, <1>5, <1>6, <1>7, <1>8, <1>9, <1>10, <1>11, <1>12,
           <1>13, <1>14, <1>15, <1>16, <1>17, <1>18 DEF Store!WriteStep, Store!ReadStep

\* An entry comes into the directory by a rename only, for which there is room.
LEMMA LimitStep ==
  ASSUME NamesAreDistinct, Store!TypeOK, AccountInv, Store!LimitsKept, NEW p \in Writer,
         \/ Store!StartWrite(p) \/ Store!StartRead(p) \/ Store!WriteStep(p)
         \/ Store!ReadStep(p) \/ Store!Crash(p)
  PROVE  Store!LimitsKept'
<1>a. Account(p) BY DEF AccountInv
<1>b. Frame(p) BY FrameStep
<1>c. UNCHANGED store BY <1>b DEF Frame
<1>d. \A n \in Writer \cup Leftover \cup {Foreign} : n \notin Item
  BY DEF NamesAreDistinct, Store!Artifact
<1>e. (UNCHANGED file) => Store!LimitsKept' BY <1>c, LimitsStay
<1>1. CASE Store!RenameTemporary(p)
  <2>1. CASE file' = [file EXCEPT ![item[p]] = file[p], ![p] = None]
    <3>1. at[p] = "rename" BY <1>1 DEF Store!RenameTemporary
    <3>2. item[p] \in Item /\ new[p] \in Store!File /\ file[p] = new[p] /\ p \notin Item
      BY <1>a, <1>d, <3>1 DEF Account, Writing
    <3>3. file'[item[p]] = new[p] /\ \A j \in Item \ {item[p]} : file'[j] = file[j]
      BY <2>1, <3>2 DEF Store!TypeOK, Store!Name
    <3>4. /\ Store!Cardinality(Store!Present(Item)') <= Store!Cardinality(Store!Present(Item \ {item[p]})) + 1
          /\ Store!Bytes(Item)' <= Store!Bytes(Item \ {item[p]}) + new[p].size
      BY <3>2, <3>3, CountPut
    <3>5. /\ Store!Cardinality(Store!Present(Item \ {item[p]})) + 1 <= MaxEntries
          /\ store = "cache" => Store!Bytes(Item \ {item[p]}) + new[p].size <= MaxBytes
      BY <1>a, <3>1 DEF Account
    <3>6. /\ Store!Cardinality(Store!Present(Item \ {item[p]})) \in Nat
          /\ Store!Bytes(Item \ {item[p]}) \in Nat /\ new[p].size \in Nat
      <4>1. Item \ {item[p]} \in SUBSET Store!Name BY DEF Store!Name
      <4> QED BY <4>1, <3>2, CountMono DEF Store!File
    <3>7. Store!Cardinality(Store!Present(Item)') \in Nat /\ Store!Bytes(Item)' \in Nat
      <4>1. Store!Present(Item)' \in SUBSET Store!Name /\ Big(Item)' \in SUBSET Store!Name
        BY DEF Store!Present, Big, Store!Name
      <4>2. Store!Cardinality(Store!Present(Item)') \in Nat /\ Store!Cardinality(Big(Item)') \in Nat
        BY <4>1, NameIsFinite
      <4>3. Store!Bytes(Item)' = Store!Cardinality(Store!Present(Item)') + Store!Cardinality(Big(Item)')
        BY DEF Store!Bytes, Big
      <4> QED BY <4>2, <4>3
    <3>8. /\ Store!Cardinality(Store!Present(Item)') <= MaxEntries
          /\ store = "cache" => Store!Bytes(Item)' <= MaxBytes
      BY <3>4, <3>5, <3>6, <3>7 DEF NamesAreDistinct
    <3> QED BY <3>8, <1>c DEF Store!LimitsKept
  <2>2. CASE Store!Write(p, None)
    BY <2>2, <1>c, <1>d, LimitsStay DEF Store!Write, Store!TypeOK, Store!Name
  <2> QED BY <1>1, <2>1, <2>2 DEF Store!RenameTemporary
<1>2. CASE Store!Evict(p)
  BY <1>2, <1>c, LimitsStay DEF Store!Evict, Store!Write, Store!TypeOK, Store!Name
<1>3. CASE Store!WriteTemporary(p)
  BY <1>3, <1>c, <1>d, LimitsStay DEF Store!WriteTemporary, Store!Write, Store!TypeOK,
  Store!Name
<1>4. CASE Store!Quarantine(p)
  BY <1>4, <1>c, <1>d, LimitsStay DEF Store!Quarantine, Store!TypeOK, Store!Name
<1>5. CASE Store!RemoveQuarantine(p)
  BY <1>5, <1>c, <1>d, LimitsStay DEF Store!RemoveQuarantine, Store!Write, Store!TypeOK,
  Store!Name
<1>6. CASE Store!StartWrite(p) \/ Store!StartRead(p) \/ Store!Crash(p)
  BY <1>6, <1>e DEF Store!StartWrite, Store!StartRead, Store!Crash
<1>7. CASE Store!AcquireMaintenance(p) \/ Store!MaintenanceBusy(p) \/ Store!Scan(p) \/ Store!Decide(p) \/ Store!Unlock(p)
  BY <1>7, <1>e DEF Store!AcquireMaintenance, Store!MaintenanceBusy, Store!Scan, Store!Decide,
  Store!Unlock
<1>8. CASE \/ Store!OpenContent(p) \/ Store!VerifyContent(p) \/ Store!DiscardOrNot(p) \/ Store!CheckAgain(p)
           \/ Store!ReleaseDiscard(p)
  BY <1>8, <1>e DEF Store!OpenContent, Store!VerifyContent, Store!DiscardOrNot,
  Store!CheckAgain, Store!ReleaseDiscard,
       Store!readVars
<1> QED BY <1>1, <1>2, <1>3, <1>4, <1>5, <1>6, <1>7, <1>8 DEF Store!WriteStep, Store!ReadStep

\* The directory that is found is within its limits, and nobody is at work.
LEMMA StoreInit == ASSUME NamesAreDistinct, Store!Init PROVE StoreInv
<1> USE DEF NamesAreDistinct, Store!Init
<1>1. PICK there \in SUBSET (Item \cup Leftover \cup {Foreign}),
           age \in [Item -> 1 .. Store!Cardinality(Item)], defect \in Store!Defect :
       /\ \A i, j \in Item : age[i] = age[j] => i = j
       /\ Store!Cardinality(there \cap Item) <= MaxEntries
       /\ there \cap Item = {} => defect = "none"
       /\ file = [n \in Store!Name |->
            IF n \notin there THEN None
            ELSE IF n \in Item
            THEN [time |-> age[n], size |-> 1,
                  defect |-> IF age[n] = 1 THEN defect ELSE "none"]
            ELSE [time |-> 0, size |-> 1, defect |-> "torn"]]
  BY ONLY Store!Init DEF Store!Init
<1>2. Store!Cardinality(Item) \in Nat BY SameCount, FS_CardinalityType
<1>3. /\ \A n \in Item : age[n] \in Nat
      /\ \A n \in Item : [time |-> age[n], size |-> 1,
                          defect |-> IF age[n] = 1 THEN defect ELSE "none"] \in Store!File
      /\ [time |-> 0, size |-> 1, defect |-> "torn"] \in Store!File
  BY <1>2 DEF Store!File, Store!Defect
<1>4. file \in [Store!Name -> Store!File \cup {None}] BY <1>1, <1>3
<1>5. Store!TypeOK
  <2>1. room \in [Writer -> Store!Room] BY DEF Store!NoRoom, Store!Room
  <2> QED BY <1>2, <1>4, <2>1 DEF Store!TypeOK, Store!Name
<1>6. Store!LimitsKept
  <2>1. Store!Present(Item) = there \cap Item BY <1>1, <1>3 DEF Store!Present, Store!Name
  <2> QED BY <1>1, <2>1 DEF Store!LimitsKept
<1>7. LockInv BY DEF LockInv, Section
<1>8. AccountInv BY DEF AccountInv, Account, Writing, Reading
<1> QED BY <1>5, <1>6, <1>7, <1>8 DEF StoreInv

LEMMA StoreStep == ASSUME NamesAreDistinct, StoreInv, [Store!Next]_Store!vars PROVE StoreInv'
<1>1. ASSUME NEW p \in Writer,
             \/ Store!StartWrite(p) \/ Store!StartRead(p) \/ Store!WriteStep(p)
             \/ Store!ReadStep(p) \/ Store!Crash(p)
      PROVE  StoreInv'
  <2>1. Store!TypeOK /\ LockInv /\ AccountInv /\ Store!LimitsKept BY DEF StoreInv
  <2>2. Store!TypeOK' BY <1>1, <2>1, StoreTypeStep
  <2>3. LockInv' BY <1>1, <2>1, StoreLockStep
  <2>4. Store!LimitsKept' BY <1>1, <2>1, LimitStep
  <2>5. Frame(p) BY <1>1, <2>1, FrameStep
  <2>6. Account(p)' BY <1>1, <2>1, OwnStep
  <2>7. \A q \in Writer \ {p} : Account(q)' BY <2>1, <2>5, OthersKeep
  <2>8. AccountInv' BY <2>6, <2>7 DEF AccountInv
  <2> QED BY <2>2, <2>3, <2>4, <2>8 DEF StoreInv
<1>2. CASE UNCHANGED Store!vars
  <2>1. Store!TypeOK' BY <1>2 DEF Store!vars, StoreInv, Store!TypeOK
  <2>2. LockInv' BY <1>2 DEF Store!vars, StoreInv, LockInv
  <2>3. Store!LimitsKept' BY <1>2, LimitsStay DEF Store!vars, StoreInv
  <2>4. ASSUME NEW q \in Writer PROVE Account(q)'
    <3>1. Account(q) BY DEF StoreInv, AccountInv
    <3>2. /\ Store!Present(Store!Name \ {item[q]})' = Store!Present(Store!Name \ {item[q]})
          /\ Store!Bytes(Store!Name \ {item[q]})' = Store!Bytes(Store!Name \ {item[q]})
          /\ Store!Present(Item \ {item[q]})' = Store!Present(Item \ {item[q]})
          /\ Store!Bytes(Item \ {item[q]})' = Store!Bytes(Item \ {item[q]})
      BY <1>2 DEF Store!vars, Store!Present, Store!Bytes
    <3>3. (at[q] = "quarantine" => Useless(file[item[q]]))'
      BY <1>2, <3>1
         DEF Store!vars, Account, Useless, Store!IsUsableCacheFile, Store!IsStoredRunRecord,
         Store!MatchesStoredRun,
             Store!HasCacheKey, Store!IsWhole, Store!HasRunDocument, Store!HasValidMetadata
    <3>4. UNCHANGED <<file, store, at, item, new, todo, room>> BY <1>2 DEF Store!vars
    <3> QED BY <3>1, <3>2, <3>3, <3>4 DEF Account
  <2> QED BY <2>1, <2>2, <2>3, <2>4 DEF StoreInv, AccountInv
<1> QED BY <1>1, <1>2 DEF Store!Next

-----------------------------------------------------------------------------
\* A behaviour of the composition is one of a directory, which may stay as it is.
LEMMA ADirectory == MCSpec => Store!Spec
<1>1. MCInit => Store!Init
  BY DEF MCInit
<1>2. [MCNext]_all => [Store!Next]_Store!vars
  BY DEF MCNext, all, directory, Store!vars
<1> QED BY <1>1, <1>2, PTL DEF MCSpec, Store!Spec

LEMMA StoreInvariant == MCSpec => []StoreInv
<1>1. Store!Init => StoreInv BY StoreInit, StoresAssumption
<1>2. StoreInv /\ [Store!Next]_Store!vars => StoreInv' BY StoreStep, StoresAssumption
<1> QED BY <1>1, <1>2, ADirectory, PTL DEF Store!Spec

\* The directories, and the locals of those who use them, keep their types.
THEOREM StoreTypes == MCSpec => []Store!TypeOK
<1>1. StoreInv => Store!TypeOK BY DEF StoreInv
<1> QED BY <1>1, StoreInvariant, PTL

\* However many writers, discards, failures and crashes interleave, whatever the limits:
\* the directory never holds more entries, nor more bytes of them, than they allow.
THEOREM DirectoryIsBounded == MCSpec => []LimitsKept
<1>1. StoreInv => LimitsKept BY DEF StoreInv, LimitsKept
<1> QED BY <1>1, StoreInvariant, PTL

\* No reader discards a record that another could use, however many read and publish.
THEOREM DiscardsAreJustified == MCSpec => OnlyTheUselessIsDiscarded
<1> DEFINE Justified ==
      \A p \in Writer : Store!Quarantine(p) =>
        ~Store!IsUsableCacheFile(file[item[p]]) \/ ~Store!IsStoredRunRecord(file[item[p]])
<1>1. StoreInv => Justified
  BY DEF StoreInv, AccountInv, Account, Store!Quarantine, Useless
<1>2. StoreInv /\ [Store!Next]_Store!vars => [Justified]_Store!vars BY <1>1
<1>3. MCSpec => [][Justified]_Store!vars
  BY <1>2, StoreInvariant, ADirectory, PTL DEF Store!Spec
<1> QED BY <1>3 DEF OnlyTheUselessIsDiscarded, Store!OnlyTheUselessIsDiscarded
-----------------------------------------------------------------------------
(* The refinement of EntryStore                                            *)

\* What a read relies on: what it has seen, and what is there since, was not expired;
\* what it has opened is what it has seen first, if that is still there.
Reader(p) ==
  /\ at[p] \in Store!Asking =>
       /\ item[p] \in Item
       /\ seen[p] \in Store!File /\ Store!IsUsableCacheFile(seen[p])
       /\ file[item[p]] # None => Store!IsUsableCacheFile(file[item[p]])
  /\ at[p] = "verify" =>
       /\ new[p] \in Store!File /\ Store!IsUsableCacheFile(new[p])
       /\ file[item[p]] = seen[p] => new[p] = seen[p]

\* What is written is good.
Sound(p) == at[p] \in Writing => new[p].defect = "none"

\* In the cache a file is known by its time: nobody has seen what is to be renamed.
TimesDiffer ==
  /\ \A i \in Item : file[i] # None => file[i].time <= clock
  /\ \A p \in Writer : at[p] \in Store!Asking => seen[p].time <= clock
  /\ \A q \in Writer : at[q] = "rename" =>
       /\ new[q].time <= clock
       /\ \A i \in Item : file[i] # None => file[i].time # new[q].time
       /\ \A p \in Writer : at[p] \in Store!Asking => seen[p].time # new[q].time

\* A run is written once, and nobody reads it before.
RunsAreNew ==
  \A q \in Writer : at[q] \in Writing =>
    /\ file[item[q]] = None
    /\ \A p \in Writer \ {q} : at[p] \in Writing \cup Store!Asking => item[p] # item[q]

ReadInv ==
  /\ \A p \in Writer : Reader(p) /\ Sound(p)
  /\ store = "cache" => TimesDiffer
  /\ store = "runs" => RunsAreNew

\* What a step does to the entries.
SameItems == \A i \in Item : file'[i] = file[i]
Removes(n) ==
  /\ file[n] # None /\ file'[n] = None
  /\ \A i \in Item \ {n} : file'[i] = file[i]
Puts(p) ==
  /\ at[p] = "rename" /\ at'[p] = "unlock" /\ item[p] \in Item /\ new[p] \in Store!File
  /\ file'[item[p]] = new[p]
  /\ \A i \in Item \ {item[p]} : file'[i] = file[i]

LEMMA EntryStep ==
  ASSUME NamesAreDistinct, Store!TypeOK, AccountInv, NEW p \in Writer,
         \/ Store!StartWrite(p) \/ Store!StartRead(p) \/ Store!WriteStep(p)
         \/ Store!ReadStep(p) \/ Store!Crash(p)
  PROVE  SameItems \/ Puts(p) \/ \E n \in Item : Removes(n)
<1>a. Account(p) BY DEF AccountInv
<1>b. \A n \in Writer \cup Leftover \cup {Foreign} : n \notin Item
  BY DEF NamesAreDistinct, Store!Artifact
<1>c. file \in [Store!Name -> Store!File \cup {None}] /\ Item \subseteq Store!Name
  BY DEF Store!TypeOK, Store!Name
<1>1. CASE Store!RenameTemporary(p)
  <2>1. at[p] = "rename" /\ Store!Goto(p, "unlock") BY <1>1 DEF Store!RenameTemporary
  <2>2. item[p] \in Item /\ new[p] \in Store!File /\ file[p] = new[p] /\ p \notin Item
    BY <1>a, <1>b, <2>1 DEF Account, Writing
  <2>3. CASE file' = [file EXCEPT ![item[p]] = file[p], ![p] = None]
    <3>1. file'[item[p]] = new[p] /\ \A i \in Item \ {item[p]} : file'[i] = file[i]
      BY <1>c, <2>2, <2>3
    <3>2. at'[p] = "unlock" BY <2>1 DEF Store!TypeOK, Store!Goto
    <3> QED BY <2>1, <2>2, <3>1, <3>2 DEF Puts
  <2>4. CASE Store!Write(p, None) BY <1>c, <2>2, <2>4 DEF Store!Write, SameItems
  <2> QED BY <1>1, <2>3, <2>4 DEF Store!RenameTemporary
<1>2. CASE Store!Evict(p)
  <2>1. PICK n \in todo[p] : Store!Write(n, None) BY <1>2 DEF Store!Evict
  <2>2. file[n] # None /\ n \in Store!Name
    BY <1>a, <1>2, <2>1 DEF Account, Store!Evict, Store!Present
  <2>3. CASE n \in Item
    <3>1. file'[n] = None /\ \A i \in Item \ {n} : file'[i] = file[i]
      BY <1>c, <2>1, <2>2 DEF Store!Write
    <3> QED BY <2>2, <2>3, <3>1 DEF Removes
  <2>4. CASE n \notin Item BY <1>c, <2>1, <2>4 DEF Store!Write, SameItems
  <2> QED BY <2>3, <2>4
<1>3. CASE Store!Quarantine(p)
  <2>1. at[p] = "quarantine" /\ file' = [file EXCEPT ![item[p]] = None, ![p] = file[item[p]]]
    BY <1>3 DEF Store!Quarantine
  <2>2. item[p] \in Item /\ p \notin Item /\ p \in Store!Name
    BY <1>a, <1>b, <2>1 DEF Account, Reading, Store!Name
  <2>3. file'[item[p]] = None /\ \A i \in Item \ {item[p]} : file'[i] = file[i]
    BY <1>c, <2>1, <2>2
  <2>4. CASE file[item[p]] = None BY <2>2, <2>3, <2>4 DEF SameItems
  <2>5. CASE file[item[p]] # None BY <2>2, <2>3, <2>5 DEF Removes
  <2> QED BY <2>4, <2>5
<1>4. CASE Store!WriteTemporary(p)
  BY <1>4, <1>b, <1>c DEF Store!WriteTemporary, Store!Write, SameItems
<1>5. CASE Store!RemoveQuarantine(p)
  BY <1>5, <1>b, <1>c DEF Store!RemoveQuarantine, Store!Write, SameItems
<1>6. CASE Store!StartWrite(p) \/ Store!StartRead(p) \/ Store!Crash(p)
  BY <1>6 DEF Store!StartWrite, Store!StartRead, Store!Crash, SameItems
<1>7. CASE \/ Store!AcquireMaintenance(p) \/ Store!MaintenanceBusy(p) \/ Store!Scan(p)
           \/ Store!Decide(p) \/ Store!Unlock(p)
  BY <1>7 DEF Store!AcquireMaintenance, Store!MaintenanceBusy, Store!Scan, Store!Decide,
              Store!Unlock, SameItems
<1>8. CASE \/ Store!OpenContent(p) \/ Store!VerifyContent(p) \/ Store!DiscardOrNot(p)
           \/ Store!CheckAgain(p) \/ Store!ReleaseDiscard(p)
  BY <1>8 DEF Store!OpenContent, Store!VerifyContent, Store!DiscardOrNot, Store!CheckAgain,
              Store!ReleaseDiscard, Store!readVars, SameItems
<1> QED BY <1>1, <1>2, <1>3, <1>4, <1>5, <1>6, <1>7, <1>8 DEF Store!WriteStep, Store!ReadStep

\* What a step does to the locals of p, as far as reads and writes depend on them.
Locals(p) ==
  \/ at'[p] \notin Writing \cup Store!Asking /\ UNCHANGED <<item, seen, clock>>
  \/ /\ at[p] = "idle" /\ at'[p] \notin Writing \cup Store!Asking
     /\ \E i \in Item : item'[p] = i /\ seen'[p] = file[i]
     /\ UNCHANGED clock
  \/ /\ at[p] = "idle" /\ at'[p] = "content"
     /\ \E i \in Item :
          /\ item'[p] = i /\ seen'[p] = file[i]
          /\ file[i] # None /\ Store!IsUsableCacheFile(file[i])
     /\ UNCHANGED clock
  \/ /\ at[p] = "content" /\ at'[p] = "verify"
     /\ new'[p] = file[item[p]] /\ file[item[p]] # None
     /\ UNCHANGED <<item, seen, clock>>
  \/ /\ at[p] = "idle" /\ at'[p] = "lock" /\ new'[p].defect = "none" /\ UNCHANGED <<seen, clock>>
     /\ item'[p] \in Item
     /\ store = "runs" =>
          /\ file[item'[p]] = None
          /\ \A q \in Writer : at[q] # "idle" => item[q] # item'[p]
  \/ /\ at[p] \in Writing /\ at'[p] \in {"scan", "evict", "write"}
     /\ new'[p] = new[p] /\ UNCHANGED <<item, seen, clock>>
  \/ /\ at[p] = "write" /\ at'[p] = "rename" /\ new'[p].defect = new[p].defect
     /\ store = "cache" => clock' = clock + 1 /\ new'[p].time = clock + 1
     /\ store # "cache" => UNCHANGED clock
     /\ UNCHANGED <<item, seen>>

LEMMA LocalStep ==
  ASSUME NamesAreDistinct, Store!TypeOK, AccountInv, NEW p \in Writer,
         \/ Store!StartWrite(p) \/ Store!StartRead(p) \/ Store!WriteStep(p)
         \/ Store!ReadStep(p) \/ Store!Crash(p)
  PROVE  Locals(p) /\ (\A q \in Writer \ {p} : seen'[q] = seen[q])
<1>a. Account(p) BY DEF AccountInv
<1> USE DEF Store!TypeOK, Store!Goto, Locals, Writing, Store!Asking, Store!readVars
<1>1. CASE Store!StartWrite(p)
  <2>1. PICK i \in Item, size \in 1 .. 2 :
          /\ item' = [item EXCEPT ![p] = i]
          /\ \/ /\ store = "cache"
                /\ new' = [new EXCEPT ![p] = [time |-> 0, size |-> size, defect |-> "none"]]
             \/ /\ store = "runs" /\ file[i] = None
                /\ \A q \in Writer : at[q] \notin {"idle"} => item[q] # i
                /\ \E started \in 0 .. clock :
                     new' = [new EXCEPT ![p] =
                               [time |-> started, size |-> 1, defect |-> "none"]]
    BY <1>1 DEF Store!StartWrite
  <2>2. new'[p].defect = "none" /\ item'[p] = i BY <2>1
  <2>3. at[p] = "idle" /\ at'[p] = "lock" /\ UNCHANGED <<seen, clock>>
    BY <1>1 DEF Store!StartWrite
  <2>4. store = "runs" => /\ file[item'[p]] = None
                          /\ \A q \in Writer : at[q] # "idle" => item[q] # item'[p]
    BY <2>1, <2>2
  <2> QED BY <2>2, <2>3, <2>4
<1>2. CASE Store!StartRead(p) BY <1>2 DEF Store!StartRead
<1>3. CASE Store!Crash(p) BY <1>3 DEF Store!Crash
<1>4. CASE Store!AcquireMaintenance(p) BY <1>4 DEF Store!AcquireMaintenance
<1>5. CASE Store!MaintenanceBusy(p) BY <1>5 DEF Store!MaintenanceBusy
<1>6. CASE Store!Scan(p) BY <1>6 DEF Store!Scan
<1>7. CASE Store!Evict(p) BY <1>7 DEF Store!Evict
<1>8. CASE Store!Decide(p) BY <1>8 DEF Store!Decide
<1>9. CASE Store!WriteTemporary(p)
  <2>1. /\ at[p] = "write" /\ at'[p] = "rename" /\ UNCHANGED <<item, seen>>
        /\ clock' = IF store = "cache" THEN clock + 1 ELSE clock
        /\ new' = [new EXCEPT ![p].time = IF store = "cache" THEN clock + 1 ELSE @]
    BY <1>9 DEF Store!WriteTemporary
  <2>2. new[p] \in Store!File BY <1>a, <2>1 DEF Account
  <2>3. /\ new'[p].defect = new[p].defect
        /\ store = "cache" => new'[p].time = clock + 1
    BY <2>1, <2>2 DEF Store!File
  <2> QED BY <2>1, <2>3
<1>10. CASE Store!RenameTemporary(p) BY <1>10 DEF Store!RenameTemporary
<1>11. CASE Store!Unlock(p) BY <1>11 DEF Store!Unlock
<1>12. CASE Store!OpenContent(p) BY <1>12 DEF Store!OpenContent, Store!Unread
<1>13. CASE Store!VerifyContent(p) BY <1>13 DEF Store!VerifyContent, Store!Unread
<1>14. CASE Store!DiscardOrNot(p) BY <1>14 DEF Store!DiscardOrNot
<1>15. CASE Store!CheckAgain(p) BY <1>15 DEF Store!CheckAgain
<1>16. CASE Store!Quarantine(p) BY <1>16 DEF Store!Quarantine
<1>17. CASE Store!RemoveQuarantine(p) BY <1>17 DEF Store!RemoveQuarantine
<1>18. CASE Store!ReleaseDiscard(p) BY <1>18 DEF Store!ReleaseDiscard
<1> QED BY <1>1, <1>2, <1>3, <1>4, <1>5, <1>6, <1>7, <1>8, <1>9, <1>10, <1>11, <1>12,
           <1>13, <1>14, <1>15, <1>16, <1>17, <1>18 DEF Store!WriteStep, Store!ReadStep

\* Who renames is alone.
LEMMA OneRenames ==
  ASSUME LockInv, NEW p \in Writer, NEW q \in Writer, at[p] = "rename", at[q] = "rename"
  PROVE  p = q
BY DEF LockInv, Section

\* A file of the writers is no expired one.
LEMMA PutIsGood ==
  ASSUME NEW p \in Writer, Puts(p), Sound(p)
  PROVE  Store!IsUsableCacheFile(new[p]) /\ Store!IsStoredRunRecord(new[p])
BY DEF Puts, Sound, Writing, Store!IsUsableCacheFile, Store!IsStoredRunRecord, Store!IsWhole,
       Store!HasRunDocument, Store!MatchesStoredRun, Store!HasValidMetadata, Store!HasCacheKey

LEMMA ReaderStep ==
  ASSUME NamesAreDistinct, StoreInv, ReadInv, NEW p \in Writer, Frame(p), Locals(p),
         \A q \in Writer \ {p} : seen'[q] = seen[q],
         SameItems \/ Puts(p) \/ \E n \in Item : Removes(n)
  PROVE  \A q \in Writer : Reader(q)'
<1>1. Store!TypeOK /\ LockInv /\ AccountInv BY DEF StoreInv
<1>2. UNCHANGED store BY DEF Frame
<1>3. store \in {"cache", "runs"} /\ None \notin Store!File
  BY <1>1 DEF Store!TypeOK, NamesAreDistinct
<1> SUFFICES ASSUME NEW q \in Writer PROVE Reader(q)'
    OBVIOUS
<1>4. Reader(q) /\ Sound(p) BY DEF ReadInv
\* What q has seen is not what p puts in its place.
<1>5. ASSUME Puts(p), at[q] \in Store!Asking, item[q] = item[p] PROVE seen[q] # new[p]
  <2>1. at[p] = "rename" /\ p # q BY <1>5 DEF Puts, Store!Asking
  <2>2. CASE store = "cache" BY <1>5, <2>1, <2>2 DEF ReadInv, TimesDiffer
  <2>3. CASE store = "runs" BY <1>5, <2>1, <2>3 DEF ReadInv, RunsAreNew, Writing
  <2> QED BY <1>3, <2>2, <2>3
\* What is at an item now was there, or is good; and it is not what was seen before.
<1>6. ASSUME at[q] \in Store!Asking
      PROVE  /\ file'[item[q]] # None => Store!IsUsableCacheFile(file'[item[q]])
             /\ file'[item[q]] = seen[q] => file[item[q]] = seen[q]
  <2>1. item[q] \in Item /\ seen[q] \in Store!File
        /\ (file[item[q]] # None => Store!IsUsableCacheFile(file[item[q]]))
    BY <1>4, <1>6 DEF Reader
  <2>2. CASE file'[item[q]] = file[item[q]] BY <2>1, <2>2
  <2>3. CASE file'[item[q]] = None BY <1>3, <2>1, <2>3
  <2>4. CASE Puts(p) /\ item[q] = item[p]
    BY <1>4, <1>5, <1>6, <2>4, PutIsGood DEF Puts
  <2> QED BY <2>1, <2>2, <2>3, <2>4 DEF SameItems, Removes, Puts
<1>7. CASE q # p
  <2>1. at'[q] = at[q] /\ item'[q] = item[q] /\ new'[q] = new[q] /\ seen'[q] = seen[q]
    BY <1>7 DEF Frame
  <2> QED BY <1>2, <1>4, <1>6, <2>1 DEF Reader, Store!IsUsableCacheFile, Store!Asking
<1>8. CASE q = p
  <2>1. CASE at'[p] \notin Store!Asking
    BY <1>8, <2>1 DEF Reader, Store!Asking
  <2>2. CASE at[p] = "idle" /\ at'[p] = "content"
    <3>1. PICK i \in Item : /\ item'[p] = i /\ seen'[p] = file[i]
                            /\ file[i] # None /\ Store!IsUsableCacheFile(file[i])
      BY <2>2 DEF Locals, Writing, Store!Asking
    <3>2. file[i] \in Store!File BY <1>1, <3>1 DEF Store!TypeOK, Store!Name
    <3>3. SameItems \/ \E n \in Item : Removes(n)
      BY <2>2 DEF Puts
    <3>4. file'[i] = file[i] \/ file'[i] = None BY <3>3 DEF SameItems, Removes
    <3> QED BY <1>2, <1>8, <2>2, <3>1, <3>2, <3>4 DEF Reader, Store!IsUsableCacheFile
  <2>3. CASE at[p] = "content" /\ at'[p] = "verify"
    <3>1. new'[p] = file[item[p]] /\ file[item[p]] # None /\ UNCHANGED <<item, seen>>
      BY <2>3 DEF Locals, Writing, Store!Asking
    <3>2. /\ item[p] \in Item /\ seen[p] \in Store!File /\ Store!IsUsableCacheFile(seen[p])
          /\ Store!IsUsableCacheFile(file[item[p]])
      BY <1>4, <1>8, <2>3, <3>1 DEF Reader, Store!Asking
    <3>3. file[item[p]] \in Store!File BY <1>1, <3>1, <3>2 DEF Store!TypeOK, Store!Name
    <3>4. /\ file'[item[p]] # None => Store!IsUsableCacheFile(file'[item[p]])
          /\ file'[item[p]] = seen[p] => file[item[p]] = seen[p]
      BY <1>6, <1>8, <2>3 DEF Store!Asking
    <3> QED BY <1>2, <1>8, <2>3, <3>1, <3>2, <3>3, <3>4 DEF Reader, Store!IsUsableCacheFile
  <2> QED BY <2>1, <2>2, <2>3 DEF Locals, Writing, Store!Asking
<1> QED BY <1>7, <1>8

LEMMA SoundStep ==
  ASSUME NamesAreDistinct, StoreInv, ReadInv, NEW p \in Writer, Frame(p), Locals(p),
         \A q \in Writer \ {p} : seen'[q] = seen[q],
         SameItems \/ Puts(p) \/ \E n \in Item : Removes(n)
  PROVE  \A q \in Writer : Sound(q)'
<1> SUFFICES ASSUME NEW q \in Writer PROVE Sound(q)'
    OBVIOUS
<1>1. Sound(q) BY DEF ReadInv
<1>2. CASE q # p
  <2>1. at'[q] = at[q] /\ new'[q] = new[q] BY <1>2 DEF Frame
  <2> QED BY <1>1, <2>1 DEF Sound
<1>3. CASE q = p
  BY <1>1, <1>3 DEF Sound, Locals, Writing, Store!Asking
<1> QED BY <1>2, <1>3

LEMMA TimesStep ==
  ASSUME NamesAreDistinct, StoreInv, ReadInv, NEW p \in Writer, Frame(p), Locals(p),
         \A q \in Writer \ {p} : seen'[q] = seen[q],
         SameItems \/ Puts(p) \/ \E n \in Item : Removes(n),
         store = "cache"
  PROVE  TimesDiffer'
<1>1. Store!TypeOK /\ LockInv /\ AccountInv BY DEF StoreInv
<1>2. TimesDiffer BY DEF ReadInv
<1>3. clock \in Nat /\ clock' \in Nat /\ clock <= clock'
      /\ (at'[p] # "rename" => clock' = clock)
  BY <1>1 DEF Store!TypeOK, Locals
<1>4. /\ \A i \in Item : file[i] # None => file[i] \in Store!File /\ file[i].time \in Nat
      /\ \A q \in Writer : at[q] \in Store!Asking => seen[q].time \in Nat
      /\ \A q \in Writer : at[q] = "rename" => new[q].time \in Nat
  <2>1. \A f \in Store!File : f.time \in Nat BY DEF Store!File
  <2>2. \A i \in Item : file[i] # None => file[i] \in Store!File
    BY <1>1 DEF Store!TypeOK, Store!Name
  <2>3. \A q \in Writer : at[q] \in Store!Asking => seen[q] \in Store!File
    BY DEF ReadInv, Reader
  <2>4. \A q \in Writer : at[q] = "rename" => new[q] \in Store!File
    BY <1>1 DEF AccountInv, Account, Writing
  <2> QED BY <2>1, <2>2, <2>3, <2>4
\* Whoever asks has seen what was there, or has seen it before.
<1>5. \A q \in Writer : at'[q] \in Store!Asking =>
        \/ at[q] \in Store!Asking /\ seen'[q] = seen[q]
        \/ \E i \in Item : file[i] # None /\ seen'[q] = file[i]
  BY DEF Frame, Locals, Writing, Store!Asking
\* Whoever is about to rename was so before, or has just written.
<1>6. \A q \in Writer : at'[q] = "rename" =>
        \/ q # p /\ at[q] = "rename" /\ new'[q] = new[q]
        \/ q = p /\ at[p] = "write" /\ new'[p].time = clock + 1 /\ clock' = clock + 1
  BY DEF Frame, Locals, Writing, Store!Asking
<1>7. \A i \in Item : file'[i] # None =>
        \/ file'[i] = file[i]
        \/ at[p] = "rename" /\ at'[p] = "unlock" /\ file'[i] = new[p]
  BY DEF SameItems, Puts, Removes
<1>8. \A i \in Item : file'[i] # None => file'[i].time <= clock
  BY <1>2, <1>7 DEF TimesDiffer
<1>9. \A q \in Writer : at'[q] \in Store!Asking => seen'[q].time <= clock /\ seen'[q].time \in Nat
  BY <1>2, <1>4, <1>5 DEF TimesDiffer
<1>10. ASSUME NEW q \in Writer, at'[q] = "rename"
       PROVE  /\ new'[q].time <= clock'
              /\ \A i \in Item : file'[i] # None => file'[i].time # new'[q].time
              /\ \A r \in Writer : at'[r] \in Store!Asking => seen'[r].time # new'[q].time
  <2>1. CASE q # p /\ at[q] = "rename" /\ new'[q] = new[q]
    <3>1. at[p] # "rename" BY <1>1, <2>1, OneRenames
    <3>2. new[q].time <= clock'
      BY <1>2, <1>3, <1>4, <2>1 DEF TimesDiffer
    <3> QED BY <1>2, <1>5, <1>7, <2>1, <3>1, <3>2 DEF TimesDiffer
  <2>2. CASE q = p /\ at[p] = "write" /\ new'[p].time = clock + 1 /\ clock' = clock + 1
    <3>1. \A i \in Item : file'[i] # None => file'[i].time \in Nat
      BY <1>4, <1>7, <2>2
    <3> QED BY <1>3, <1>8, <1>9, <2>2, <3>1
  <2> QED BY <1>6, <1>10, <2>1, <2>2
<1>11. \A i \in Item : file'[i] # None => file'[i].time <= clock'
  <2>1. \A i \in Item : file'[i] # None => file'[i].time \in Nat
    BY <1>4, <1>7
  <2> QED BY <1>3, <1>8, <2>1
<1>12. \A q \in Writer : at'[q] \in Store!Asking => seen'[q].time <= clock'
  BY <1>3, <1>9
<1> QED BY <1>10, <1>11, <1>12 DEF TimesDiffer, Store!Asking

LEMMA RunsStep ==
  ASSUME NamesAreDistinct, StoreInv, ReadInv, NEW p \in Writer, Frame(p), Locals(p),
         \A q \in Writer \ {p} : seen'[q] = seen[q],
         SameItems \/ Puts(p) \/ \E n \in Item : Removes(n),
         store = "runs"
  PROVE  RunsAreNew'
<1>1. Store!TypeOK /\ LockInv /\ AccountInv BY DEF StoreInv
<1>2. RunsAreNew BY DEF ReadInv
<1>3. \A q \in Writer \ {p} : at'[q] = at[q] /\ item'[q] = item[q] BY DEF Frame
<1>4. \A q \in Writer : at[q] \in Writing => item[q] \in Item
  BY <1>1 DEF AccountInv, Account
\* Nobody else writes what p puts in its place.
<1>5. \A i \in Item : file[i] = None =>
        file'[i] = None \/ (Puts(p) /\ i = item[p])
  BY DEF SameItems, Puts, Removes
\* p goes on with its item, or has just begun.
<1>6. CASE at'[p] \notin Writing \cup Store!Asking
  <2>1. ASSUME NEW q \in Writer, at'[q] \in Writing
        PROVE  /\ file'[item'[q]] = None
               /\ \A r \in Writer \ {q} : at'[r] \in Writing \cup Store!Asking => item'[r] # item'[q]
    <3>1. q # p /\ at[q] \in Writing /\ item'[q] = item[q] BY <1>3, <1>6, <2>1
    <3>2. file[item[q]] = None /\ (Puts(p) => item[p] # item[q])
      BY <1>2, <3>1 DEF RunsAreNew, Puts, Writing
    <3>3. file'[item[q]] = None BY <1>4, <1>5, <3>1, <3>2
    <3> QED BY <1>2, <1>3, <1>6, <3>1, <3>3 DEF RunsAreNew
  <2> QED BY <2>1 DEF RunsAreNew, Writing, Store!Asking
<1>7. CASE at'[p] \in Writing \cup Store!Asking
  <2>1. ~Puts(p) BY <1>7 DEF Puts, Writing, Store!Asking
  <2>2. \A i \in Item : file[i] = None => file'[i] = None BY <1>5, <2>1
  <2>3. CASE at[p] \in Writing \cup Store!Asking
    <3>1. item'[p] = item[p] /\ (at'[p] \in Writing => at[p] \in Writing)
      BY <1>7, <2>3 DEF Locals, Writing, Store!Asking
    <3> QED BY <1>2, <1>3, <1>4, <1>7, <2>2, <2>3, <3>1 DEF RunsAreNew, Writing, Store!Asking
  <2>4. CASE at'[p] = "content" /\ at[p] = "idle"
    <3>1. item'[p] \in Item /\ file[item'[p]] # None
      BY <2>4 DEF Locals, Writing, Store!Asking
    <3>2. \A q \in Writer \ {p} : at[q] \in Writing => item'[p] # item[q]
      BY <1>2, <3>1 DEF RunsAreNew
    <3> QED BY <1>2, <1>3, <1>4, <2>2, <2>4, <3>2 DEF RunsAreNew, Writing, Store!Asking
  <2>5. CASE at'[p] = "lock" /\ at[p] = "idle"
    <3>1. /\ item'[p] \in Item /\ file[item'[p]] = None
          /\ \A q \in Writer : at[q] # "idle" => item[q] # item'[p]
      BY <2>5 DEF Locals, Writing, Store!Asking
    <3>2. file'[item'[p]] = None BY <2>2, <3>1
    <3> QED BY <1>2, <1>3, <1>4, <2>2, <2>5, <3>1, <3>2 DEF RunsAreNew, Writing, Store!Asking
  <2> QED BY <1>7, <2>3, <2>4, <2>5 DEF Locals, Writing, Store!Asking
<1> QED BY <1>6, <1>7

LEMMA ReadStep ==
  ASSUME NamesAreDistinct, StoreInv, ReadInv, [Store!Next]_Store!vars
  PROVE  ReadInv'
<1>1. Store!TypeOK /\ AccountInv BY DEF StoreInv
<1>2. ASSUME NEW p \in Writer,
         \/ Store!StartWrite(p) \/ Store!StartRead(p) \/ Store!WriteStep(p)
         \/ Store!ReadStep(p) \/ Store!Crash(p)
      PROVE  ReadInv'
  <2>1. /\ Frame(p) /\ Locals(p) /\ (\A q \in Writer \ {p} : seen'[q] = seen[q])
        /\ SameItems \/ Puts(p) \/ \E n \in Item : Removes(n)
    BY <1>1, <1>2, FrameStep, LocalStep, EntryStep
  <2>2. /\ \A q \in Writer : Reader(q)' /\ Sound(q)'
        /\ store = "cache" => TimesDiffer'
        /\ store = "runs" => RunsAreNew'
    BY <2>1, ReaderStep, SoundStep, TimesStep, RunsStep
  <2>3. UNCHANGED store BY <2>1 DEF Frame
  <2> QED BY <2>2, <2>3 DEF ReadInv
<1>3. CASE UNCHANGED Store!vars
  <2>1. UNCHANGED <<store, file, clock, at, item, new, seen>> BY <1>3 DEF Store!vars
  <2>2. \A p \in Writer : Reader(p)' /\ Sound(p)'
    BY <2>1 DEF ReadInv, Reader, Sound, Store!IsUsableCacheFile
  <2>3. /\ store = "cache" => TimesDiffer'
        /\ store = "runs" => RunsAreNew'
    BY <2>1 DEF ReadInv, TimesDiffer, RunsAreNew
  <2> QED BY <2>1, <2>2, <2>3 DEF ReadInv
<1> QED BY <1>2, <1>3 DEF Store!Next

\* What is seen of the directory by those who read in it.
Entries == [i \in Item |-> Store!View(file[i])]
Calls == [p \in Writer |-> Store!CallOf(p)]

LEMMA GoodView ==
  ASSUME NamesAreDistinct, NEW f \in Store!File
  PROVE  /\ Store!View(f) # None /\ Store!View(f).file = f
         /\ Store!View(f).good = (Store!IsUsableCacheFile(f) /\ Store!IsStoredRunRecord(f))
<1> DEFINE good == Store!IsUsableCacheFile(f) /\ Store!IsStoredRunRecord(f)
<1>1. f # None BY DEF NamesAreDistinct
<1>2. good \in BOOLEAN OBVIOUS
<1>3. Store!View(f) = [file |-> f, good |-> good] BY <1>1 DEF Store!View
<1> HIDE DEF good
<1>4. [file |-> f, good |-> good] \in Store!Record BY <1>2 DEF Store!Record
<1> QED BY <1>3, <1>4 DEF NamesAreDistinct, good

LEMMA ViewIsFaithful ==
  ASSUME NamesAreDistinct, NEW f \in Store!File \cup {None}, NEW g \in Store!File \cup {None},
         Store!View(f) = Store!View(g)
  PROVE  f = g
<1>1. Store!View(None) = None BY DEF Store!View
<1> QED BY <1>1, GoodView

LEMMA SameView ==
  ASSUME UNCHANGED store, NEW i, file'[i] = file[i]
  PROVE  Store!View(file[i])' = Store!View(file[i])
BY DEF Store!View, Store!IsUsableCacheFile, Store!IsStoredRunRecord, Store!IsWhole,
       Store!HasRunDocument, Store!MatchesStoredRun, Store!HasValidMetadata, Store!HasCacheKey

LEMMA SameEntries == ASSUME UNCHANGED store, SameItems PROVE Entries' = Entries
<1>1. \A i \in Item : Store!View(file[i])' = Store!View(file[i]) BY SameView DEF SameItems
<1> QED BY <1>1 DEF Entries

LEMMA SameCall ==
  ASSUME UNCHANGED store, NEW q, at'[q] = at[q], item'[q] = item[q], seen'[q] = seen[q],
         new'[q] = new[q]
  PROVE  Store!CallOf(q)' = Store!CallOf(q)
BY DEF Store!CallOf, Store!Reading, Store!View, Store!IsUsableCacheFile, Store!IsStoredRunRecord,
       Store!IsWhole, Store!HasRunDocument, Store!MatchesStoredRun, Store!HasValidMetadata,
       Store!HasCacheKey

\* What a step does to the call of p, and to no other.
LEMMA CallOfOne ==
  ASSUME NEW p \in Writer, Frame(p), \A q \in Writer \ {p} : seen'[q] = seen[q],
         NEW c, Store!CallOf(p)' = c
  PROVE  Calls' = [Calls EXCEPT ![p] = c]
<1>1. \A q \in Writer \ {p} : Store!CallOf(q)' = Store!CallOf(q) BY SameCall DEF Frame
<1>2. Calls' = [q \in Writer |-> IF q = p THEN c ELSE Store!CallOf(q)] BY <1>1 DEF Calls
<1> QED BY <1>2 DEF Calls

\* The call of p, as it follows from where p is.
CallByPlace(p) ==
  /\ at[p] \in {"idle", "unlock", "stored", "failed"} \cup Writing =>
       Store!CallOf(p) = Store!Kept!NoCall
  /\ at[p] \in Store!Asking =>
       Store!CallOf(p) = Store!Kept!Call("asked", item[p], Store!View(seen[p]))
  /\ at[p] \in Store!Missing =>
       Store!CallOf(p) = Store!Kept!Call("missed", item[p], Store!View(seen[p]))
  /\ at[p] = "hit" =>
       Store!CallOf(p) = Store!Kept!Call("hit", item[p], Store!View(new[p]))
  /\ at[p] = "crashed" => Store!CallOf(p) = Store!Kept!Call("lost", None, None)

LEMMA CallsAre == ASSUME NEW p \in Writer PROVE CallByPlace(p) /\ CallByPlace(p)'
BY DEF CallByPlace, Store!CallOf, Store!Asking, Store!Missing, Writing, Store!Reading,
       Store!Kept!Call, Store!Kept!NoCall

\* A call is looked up where EntryStore has it.
LEMMA CallIs == ASSUME NEW p \in Writer PROVE Calls[p] = Store!CallOf(p)
BY DEF Calls

LEMMA CallStep ==
  ASSUME NamesAreDistinct, StoreInv, ReadInv, NEW p \in Writer,
         \/ Store!StartWrite(p) \/ Store!StartRead(p) \/ Store!WriteStep(p)
         \/ Store!ReadStep(p) \/ Store!Crash(p)
  PROVE  Store!CallOf(p)' = Store!CallOf(p) \/ (SameItems /\ Store!Kept!Reads(p))
<1>1. Store!TypeOK /\ AccountInv BY DEF StoreInv
<1>2. /\ Frame(p) /\ (\A q \in Writer \ {p} : seen'[q] = seen[q])
      /\ UNCHANGED store
  BY <1>1, FrameStep, LocalStep DEF Frame
<1>3. Reader(p) BY DEF ReadInv
<1>4. \A f : f \in Store!File => f # None BY DEF NamesAreDistinct
<1>5. SameItems => Entries' = Entries BY <1>2, SameEntries
<1> USE <1>1 DEF Store!TypeOK, Store!Goto, Store!readVars, Store!Reading
<1>6. CASE Store!StartRead(p)
  <2>1. PICK i \in Item :
          /\ item' = [item EXCEPT ![p] = i] /\ seen' = [seen EXCEPT ![p] = file[i]]
          /\ \/ file[i] = None /\ at' = [at EXCEPT ![p] = "missed"]
             \/ /\ file[i] # None
                /\ at' = [at EXCEPT ![p] = IF Store!IsUsableCacheFile(file[i])
                                           THEN "content" ELSE "discard"]
    BY <1>6 DEF Store!StartRead
  <2>2. at[p] = "idle" /\ SameItems BY <1>6 DEF Store!StartRead, SameItems
  <2>3. Store!View(seen[p])' = Store!View(file[i]) /\ item'[p] = i
    <3>1. seen'[p] = file[i] /\ item'[p] = i BY <2>1
    <3> QED BY <1>2, <3>1
        DEF Store!View, Store!IsUsableCacheFile, Store!IsStoredRunRecord, Store!IsWhole,
            Store!HasRunDocument, Store!MatchesStoredRun, Store!HasValidMetadata, Store!HasCacheKey
  <2>4. PICK stage \in {"asked", "missed"} :
          /\ Store!CallOf(p)' = Store!Kept!Call(stage, i, Store!View(file[i]))
          /\ stage = "missed" => file[i] = None \/ ~Store!IsUsableCacheFile(file[i])
    <3>1. CASE at'[p] = "content"
      <4>1. Store!CallOf(p)' = Store!Kept!Call("asked", item[p], Store!View(seen[p]))'
        BY <3>1, CallsAre DEF CallByPlace, Store!Asking
      <4> QED BY <2>3, <4>1 DEF Store!Kept!Call
    <3>2. CASE at'[p] \in {"missed", "discard"}
      <4>1. Store!CallOf(p)' = Store!Kept!Call("missed", item[p], Store!View(seen[p]))'
        BY <3>2, CallsAre DEF CallByPlace, Store!Missing
      <4> QED BY <2>1, <2>3, <3>2, <4>1 DEF Store!Kept!Call
    <3> QED BY <2>1, <3>1, <3>2
  <2>5. stage = "missed" => ~Store!Kept!Good(Store!View(file[i]))
    <3>1. file[i] = None \/ file[i] \in Store!File BY <1>1 DEF Store!Name
    <3>2. CASE file[i] = None BY <3>2 DEF Store!Kept!Good, Store!View
    <3>3. CASE file[i] \in Store!File BY <1>4, <2>4, <3>3, GoodView DEF Store!Kept!Good
    <3> QED BY <3>1, <3>2, <3>3
  <2>6. Calls[p] = Store!Kept!NoCall
    BY <2>2, CallIs, CallsAre DEF CallByPlace, Store!Kept!NoCall, Store!Kept!Call
  <2>7. Calls' = [Calls EXCEPT ![p] = Store!Kept!Call(stage, i, Store!View(file[i]))]
    BY <1>2, <2>4, CallOfOne
  <2>8. Entries[i] = Store!View(file[i]) BY DEF Entries
  <2>9. Store!Kept!Look(p, i)
    BY <1>5, <2>2, <2>4, <2>5, <2>6, <2>7, <2>8 DEF Store!Kept!Look, Entries, Calls
  <2> QED BY <2>2, <2>9 DEF Store!Kept!Reads
<1>7. CASE Store!VerifyContent(p)
  <2>1. at[p] = "verify" /\ SameItems /\ UNCHANGED <<item, seen, new>>
    BY <1>7 DEF Store!VerifyContent, SameItems
  <2>2. /\ item[p] \in Item /\ seen[p] \in Store!File /\ new[p] \in Store!File
        /\ Store!IsUsableCacheFile(seen[p]) /\ Store!IsUsableCacheFile(new[p])
        /\ file[item[p]] = seen[p] => new[p] = seen[p]
    BY <1>3, <2>1 DEF Reader, Store!Asking
  <2>3. Calls[p] = Store!Kept!Call("asked", item[p], Store!View(seen[p]))
    BY <2>1, CallIs, CallsAre DEF CallByPlace, Store!Kept!Call, Store!Asking
  <2>4. Entries[item[p]] = Store!View(file[item[p]]) BY <2>2 DEF Entries
  <2>6. CASE /\ file[item[p]] = new[p] /\ Store!IsStoredRunRecord(new[p])
             /\ at' = [at EXCEPT ![p] = "hit"]
    <3>1. Store!CallOf(p)' = Store!Kept!Call("hit", item[p], Store!View(new[p]))'
      BY <2>6, CallsAre DEF CallByPlace
    <3>2. Store!View(new[p])' = Store!View(new[p])
      BY <1>2, <2>1
         DEF Store!View, Store!IsUsableCacheFile, Store!IsStoredRunRecord, Store!IsWhole,
             Store!HasRunDocument, Store!MatchesStoredRun, Store!HasValidMetadata, Store!HasCacheKey
    <3>3. Store!CallOf(p)' = Store!Kept!Call("hit", item[p], Entries[item[p]])
      BY <2>1, <2>4, <2>6, <3>1, <3>2 DEF Store!Kept!Call
    <3>4. Store!Kept!Good(Entries[item[p]])
      BY <2>2, <2>4, <2>6, GoodView DEF Store!Kept!Good
    <3>5. Calls' = [Calls EXCEPT ![p] = Store!Kept!Call("hit", item[p], Entries[item[p]])]
      BY <1>2, <3>3, CallOfOne
    <3>6. Calls[p].stage = "asked" /\ Calls[p].item = item[p] BY <2>3 DEF Store!Kept!Call
    <3>7. Store!Kept!Hit(p)
      BY <1>5, <2>1, <3>4, <3>5, <3>6
         DEF Store!Kept!Hit, Store!Kept!Asked, Store!Kept!Answer, Entries, Calls
    <3> QED BY <2>1, <3>7 DEF Store!Kept!Reads
  <2>7. CASE /\ ~(file[item[p]] = new[p] /\ Store!IsStoredRunRecord(new[p]))
             /\ Store!Unread(p)
    <3>1. at'[p] \in {"discard", "missed"} BY <2>7 DEF Store!Unread
    <3>2. Store!CallOf(p)' = Store!Kept!Call("missed", item[p], Store!View(seen[p]))'
      BY <3>1, CallsAre DEF CallByPlace, Store!Missing
    <3>3. Store!View(seen[p])' = Store!View(seen[p])
      BY <1>2, <2>1
         DEF Store!View, Store!IsUsableCacheFile, Store!IsStoredRunRecord, Store!IsWhole,
             Store!HasRunDocument, Store!MatchesStoredRun, Store!HasValidMetadata, Store!HasCacheKey
    <3>4. Store!CallOf(p)' = Store!Kept!Call("missed", item[p], Store!View(seen[p]))
      BY <2>1, <3>2, <3>3 DEF Store!Kept!Call
    <3>5. ~Store!Kept!Good(Store!View(seen[p])) \/ Entries[item[p]] # Store!View(seen[p])
      <4>1. CASE file[item[p]] = seen[p]
        BY <2>2, <2>7, <4>1, GoodView DEF Store!Kept!Good
      <4>2. CASE file[item[p]] # seen[p]
        <5>1. file[item[p]] \in Store!File \cup {None} BY <1>1, <2>2 DEF Store!Name
        <5> QED BY <2>2, <2>4, <4>2, <5>1, ViewIsFaithful
      <4> QED BY <4>1, <4>2
    <3>6. /\ Calls[p].stage = "asked" /\ Calls[p].item = item[p]
          /\ Calls[p].record = Store!View(seen[p])
      BY <2>3 DEF Store!Kept!Call
    <3>7. Calls' = [Calls EXCEPT ![p] = Store!Kept!Call("missed", item[p], Store!View(seen[p]))]
      BY <1>2, <3>4, CallOfOne
    <3>8. Store!Kept!Miss(p)
      BY <1>5, <2>1, <3>5, <3>6, <3>7
         DEF Store!Kept!Miss, Store!Kept!Asked, Store!Kept!Answer, Entries, Calls
    <3> QED BY <2>1, <3>8 DEF Store!Kept!Reads
  <2> QED BY <1>7, <2>6, <2>7 DEF Store!VerifyContent
<1>8. CASE Store!OpenContent(p)
  <2>1. at[p] = "content" /\ SameItems /\ UNCHANGED <<item, seen>>
    BY <1>8 DEF Store!OpenContent, SameItems
  <2>2. item[p] \in Item /\ seen[p] \in Store!File
    BY <1>3, <2>1 DEF Reader, Store!Asking
  <2>3. Store!View(seen[p])' = Store!View(seen[p])
    BY <1>2, <2>1
       DEF Store!View, Store!IsUsableCacheFile, Store!IsStoredRunRecord, Store!IsWhole,
           Store!HasRunDocument, Store!MatchesStoredRun, Store!HasValidMetadata, Store!HasCacheKey
  <2>4. Store!CallOf(p) = Store!Kept!Call("asked", item[p], Store!View(seen[p]))
    BY <2>1, CallsAre DEF CallByPlace, Store!Kept!Call, Store!Asking
  <2>5. CASE at' = [at EXCEPT ![p] = "verify"]
    <3>1. Store!CallOf(p)' = Store!Kept!Call("asked", item[p], Store!View(seen[p]))'
      BY <2>5, CallsAre DEF CallByPlace, Store!Asking
    <3> QED BY <2>1, <2>3, <2>4, <3>1 DEF Store!Kept!Call
  <2>6. CASE file[item[p]] = None /\ Store!Unread(p)
    <3>1. at'[p] \in {"discard", "missed"} BY <2>6 DEF Store!Unread
    <3>2. Store!CallOf(p)' = Store!Kept!Call("missed", item[p], Store!View(seen[p]))'
      BY <3>1, CallsAre DEF CallByPlace, Store!Missing
    <3>3. Store!CallOf(p)' = Store!Kept!Call("missed", item[p], Store!View(seen[p]))
      BY <2>1, <2>3, <3>2 DEF Store!Kept!Call
    <3>4. Entries[item[p]] # Store!View(seen[p])
      <4>1. Entries[item[p]] = None BY <2>2, <2>6 DEF Entries, Store!View
      <4> QED BY <2>2, <4>1, GoodView
    <3>5. /\ Calls[p].stage = "asked" /\ Calls[p].item = item[p]
          /\ Calls[p].record = Store!View(seen[p])
      BY <2>4, CallIs DEF Store!Kept!Call
    <3>6. Calls' = [Calls EXCEPT ![p] = Store!Kept!Call("missed", item[p], Store!View(seen[p]))]
      BY <1>2, <3>3, CallOfOne
    <3>7. Store!Kept!Miss(p)
      BY <1>5, <2>1, <3>4, <3>5, <3>6
         DEF Store!Kept!Miss, Store!Kept!Asked, Store!Kept!Answer, Entries, Calls
    <3> QED BY <2>1, <3>7 DEF Store!Kept!Reads
  <2> QED BY <1>8, <2>5, <2>6 DEF Store!OpenContent
<1>9. CASE Store!Crash(p)
  <2>1. at'[p] = "crashed" /\ SameItems BY <1>9 DEF Store!Crash, SameItems
  <2>2. Store!CallOf(p)' = Store!Kept!Call("lost", None, None)
    BY <2>1, CallsAre DEF CallByPlace, Store!Kept!Call
  <2>3. Calls' = [Calls EXCEPT ![p] = Store!Kept!Call("lost", None, None)]
    BY <1>2, <2>2, CallOfOne
  <2>4. Store!Kept!Die(p) BY <1>5, <2>1, <2>3 DEF Store!Kept!Die, Entries, Calls
  <2> QED BY <2>1, <2>4 DEF Store!Kept!Reads
<1>10. CASE Store!StartWrite(p) \/ Store!WriteStep(p)
  <2>1. /\ at[p] \in {"idle"} \cup Writing \cup {"unlock"}
        /\ at'[p] \in Writing \cup {"unlock", "stored", "failed"}
    <3> USE DEF Writing
    <3>1. CASE Store!StartWrite(p) BY <3>1 DEF Store!StartWrite
    <3>2. CASE Store!AcquireMaintenance(p) BY <3>2 DEF Store!AcquireMaintenance
    <3>3. CASE Store!MaintenanceBusy(p) BY <3>3 DEF Store!MaintenanceBusy
    <3>4. CASE Store!Scan(p) BY <3>4 DEF Store!Scan
    <3>5. CASE Store!Evict(p) BY <3>5 DEF Store!Evict
    <3>6. CASE Store!Decide(p) BY <3>6 DEF Store!Decide
    <3>7. CASE Store!WriteTemporary(p) BY <3>7 DEF Store!WriteTemporary
    <3>8. CASE Store!RenameTemporary(p) BY <3>8 DEF Store!RenameTemporary
    <3>9. CASE Store!Unlock(p) BY <3>9 DEF Store!Unlock
    <3> QED BY <1>10, <3>1, <3>2, <3>3, <3>4, <3>5, <3>6, <3>7, <3>8, <3>9
            DEF Store!WriteStep
  <2>2. /\ Store!CallOf(p) = Store!Kept!NoCall
        /\ Store!CallOf(p)' = Store!Kept!NoCall
    BY <2>1, CallsAre DEF CallByPlace, Store!Kept!NoCall, Store!Kept!Call
  <2> QED BY <2>2
<1>11. CASE \/ Store!DiscardOrNot(p) \/ Store!CheckAgain(p) \/ Store!Quarantine(p)
            \/ Store!RemoveQuarantine(p) \/ Store!ReleaseDiscard(p)
  <2>1. at[p] \in Store!Missing /\ at'[p] \in Store!Missing /\ UNCHANGED <<item, seen>>
    BY <1>11 DEF Store!Missing, Store!DiscardOrNot, Store!CheckAgain, Store!Quarantine,
       Store!RemoveQuarantine, Store!ReleaseDiscard
  <2>2. /\ Store!CallOf(p) = Store!Kept!Call("missed", item[p], Store!View(seen[p]))
        /\ Store!CallOf(p)' = Store!Kept!Call("missed", item[p], Store!View(seen[p]))'
    BY <2>1, CallsAre DEF CallByPlace
  <2>3. Store!View(seen[p])' = Store!View(seen[p])
    BY <1>2, <2>1
       DEF Store!View, Store!IsUsableCacheFile, Store!IsStoredRunRecord, Store!IsWhole,
           Store!HasRunDocument, Store!MatchesStoredRun, Store!HasValidMetadata, Store!HasCacheKey
  <2> QED BY <2>1, <2>2, <2>3
<1> QED BY <1>6, <1>7, <1>8, <1>9, <1>10, <1>11 DEF Store!ReadStep

LEMMA EntryStoreStep ==
  ASSUME NamesAreDistinct, StoreInv, ReadInv, [Store!Next]_Store!vars
  PROVE  [Store!Kept!StoreNext]_<<Entries, Calls>>
<1>1. Store!TypeOK /\ AccountInv BY DEF StoreInv
<1>2. ASSUME NEW p \in Writer,
         \/ Store!StartWrite(p) \/ Store!StartRead(p) \/ Store!WriteStep(p)
         \/ Store!ReadStep(p) \/ Store!Crash(p)
      PROVE  [Store!Kept!StoreNext]_<<Entries, Calls>>
  <2>1. /\ Frame(p) /\ (\A q \in Writer \ {p} : seen'[q] = seen[q])
        /\ UNCHANGED store
        /\ SameItems \/ Puts(p) \/ \E n \in Item : Removes(n)
    BY <1>1, <1>2, FrameStep, LocalStep, EntryStep DEF Frame
  <2>2. Store!CallOf(p)' = Store!CallOf(p) \/ (SameItems /\ Store!Kept!Reads(p))
    BY <1>2, CallStep
  <2>3. Store!CallOf(p)' = Store!CallOf(p) => Calls' = Calls
    <3> SUFFICES ASSUME Store!CallOf(p)' = Store!CallOf(p) PROVE Calls' = Calls
        OBVIOUS
    <3>1. Calls' = [Calls EXCEPT ![p] = Store!CallOf(p)] BY <2>1, CallOfOne
    <3> QED BY <3>1 DEF Calls
  <2>4. CASE SameItems
    <3>1. Entries' = Entries BY <2>1, <2>4, SameEntries
    <3>2. CASE Calls' = Calls BY <3>1, <3>2
    <3>3. CASE Calls' # Calls
      <4>1. Store!Kept!Reads(p) BY <2>2, <2>3, <3>3
      <4>2. Calls'[p] # Calls[p]
        <5>1. Store!CallOf(p)' # Store!CallOf(p) BY <2>3, <3>3
        <5> QED BY <5>1 DEF Calls
      <4> QED BY <4>1, <4>2 DEF Store!Kept!StoreNext, Calls
    <3> QED BY <3>2, <3>3
  <2>5. ASSUME ~SameItems, NEW i \in Item, \A j \in Item \ {i} : file'[j] = file[j],
               \/ Store!Kept!Good(Store!View(file[i])')
               \/ file[i] # None /\ file'[i] = None
        PROVE  [Store!Kept!StoreNext]_<<Entries, Calls>>
    <3>1. Calls' = Calls BY <2>2, <2>3, <2>5
    <3>2. \A j \in Item \ {i} : Store!View(file[j])' = Store!View(file[j])
      BY <2>1, <2>5, SameView
    <3>3. Entries' = [Entries EXCEPT ![i] = Store!View(file[i])'] BY <3>2 DEF Entries
    <3>4. Entries'[i] = Store!View(file[i])' /\ Entries[i] = Store!View(file[i])
      BY DEF Entries
    <3>5. CASE Entries' = Entries BY <3>1, <3>5
    <3>6. CASE Entries' # Entries
      <4>1. Entries'[i] # Entries[i] BY <3>3, <3>6 DEF Entries
      <4>2. CASE Store!Kept!Good(Store!View(file[i])')
        <5>1. Store!Kept!Publish(i)
          BY <3>1, <3>3, <3>4, <4>2 DEF Store!Kept!Publish, Store!Kept!Good, Entries, Calls
        <5> QED BY <4>1, <5>1
                DEF Store!Kept!StoreNext, Store!Kept!Changes, Entries
      <4>3. CASE file[i] # None /\ file'[i] = None
        <5>1. Store!View(file[i])' = None BY <4>3 DEF Store!View
        <5>2. Store!Kept!Vanish(i)
          BY <3>1, <3>3, <3>4, <4>1, <5>1 DEF Store!Kept!Vanish, Entries, Calls
        <5> QED BY <4>1, <5>2
                DEF Store!Kept!StoreNext, Store!Kept!Changes, Entries
      <4> QED BY <2>5, <4>2, <4>3
    <3> QED BY <3>5, <3>6
  <2>6. CASE Puts(p) /\ ~SameItems
    <3>1. Sound(p) BY DEF ReadInv
    <3>2. Store!IsUsableCacheFile(new[p]) /\ Store!IsStoredRunRecord(new[p])
      BY <2>6, <3>1, PutIsGood
    <3>3. PICK i \in Item : i = item[p] BY <2>6 DEF Puts
    <3>4. /\ new[p] \in Store!File /\ file'[i] = new[p]
          /\ \A j \in Item \ {i} : file'[j] = file[j]
      BY <2>6, <3>3 DEF Puts
    <3>5. Store!View(file[i])' = Store!View(new[p])
      BY <2>1, <3>4
         DEF Store!View, Store!IsUsableCacheFile, Store!IsStoredRunRecord, Store!IsWhole,
             Store!HasRunDocument, Store!MatchesStoredRun, Store!HasValidMetadata,
             Store!HasCacheKey
    <3>6. Store!Kept!Good(Store!View(new[p]))
      BY <3>2, <3>4, GoodView DEF Store!Kept!Good
    <3> QED BY <2>5, <2>6, <3>4, <3>5, <3>6
  <2>7. CASE (\E n \in Item : Removes(n)) /\ ~SameItems
    BY <2>5, <2>7 DEF Removes
  <2> QED BY <2>1, <2>4, <2>6, <2>7
<1>3. CASE UNCHANGED Store!vars
  <2>1. UNCHANGED <<store, file, at, item, new, seen>> BY <1>3 DEF Store!vars
  <2>2. Entries' = Entries BY <2>1, SameEntries DEF SameItems
  <2>3. \A p \in Writer : Store!CallOf(p)' = Store!CallOf(p) BY <2>1, SameCall
  <2>4. Calls' = Calls BY <2>3 DEF Calls
  <2> QED BY <2>2, <2>4
<1> QED BY <1>2, <1>3 DEF Store!Next

LEMMA ReadInit == ASSUME NamesAreDistinct, Store!Init PROVE ReadInv /\ Store!Kept!StoreInit
<1>1. StoreInv BY StoreInit
<1>2. \A p \in Writer : at[p] = "idle" BY DEF Store!Init
<1>3. \A p \in Writer : Reader(p) /\ Sound(p)
  BY <1>2 DEF Reader, Sound, Store!Asking, Writing
<1>4. TimesDiffer
  <2>1. \A i \in Item : file[i] # None => file[i].time <= clock
    BY DEF Store!Init, Store!Name
  <2> QED BY <1>2, <2>1 DEF TimesDiffer, Store!Asking
<1>5. RunsAreNew BY <1>2 DEF RunsAreNew, Writing
<1>6. Store!Kept!StoreInit
  <2>1. Entries \in [Item -> Store!Record \cup {None}]
    <3>1. ASSUME NEW i \in Item PROVE Store!View(file[i]) \in Store!Record \cup {None}
      <4>1. file[i] \in Store!File \cup {None}
        BY <1>1 DEF StoreInv, Store!TypeOK, Store!Name
      <4>2. CASE file[i] = None BY <4>2 DEF Store!View
      <4>3. CASE file[i] \in Store!File
        <5> DEFINE good == Store!IsUsableCacheFile(file[i]) /\ Store!IsStoredRunRecord(file[i])
        <5>1. good \in BOOLEAN OBVIOUS
        <5>2. Store!View(file[i]) \in {None, [file |-> file[i], good |-> good]}
          BY DEF Store!View
        <5> HIDE DEF good
        <5> QED BY <4>3, <5>1, <5>2 DEF Store!Record
      <4> QED BY <4>1, <4>2, <4>3
    <3> QED BY <3>1 DEF Entries
  <2>2. \A p \in Writer : Store!CallOf(p) = Store!Kept!NoCall
    BY <1>2, CallsAre DEF CallByPlace
  <2> QED BY <2>1, <2>2 DEF Store!Kept!StoreInit, Entries
<1> QED BY <1>3, <1>4, <1>5, <1>6 DEF ReadInv

LEMMA ReadInvariant == MCSpec => []ReadInv
<1>1. Store!Init => ReadInv BY ReadInit, StoresAssumption
<1>2. StoreInv /\ ReadInv /\ [Store!Next]_Store!vars => ReadInv'
  BY ReadStep, StoresAssumption
<1> QED BY <1>1, <1>2, StoreInvariant, ADirectory, PTL DEF Store!Spec

\* The directories are EntryStore's, whatever their limits, and however many read, write,
\* discard and crash: a read without a lock is given a record that is good and in its place,
\* or has met none, or one that went meanwhile.
THEOREM EntriesKept == MCSpec => KeepsEntries
<1>1. Store!Init => Store!Kept!StoreInit BY ReadInit, StoresAssumption
<1>2. StoreInv /\ ReadInv /\ [Store!Next]_Store!vars
        => [Store!Kept!StoreNext]_<<Entries, Calls>>
  BY EntryStoreStep, StoresAssumption
<1> QED BY <1>1, <1>2, StoreInvariant, ReadInvariant, ADirectory, PTL
       DEF Store!Spec, KeepsEntries, Store!KeepsEntries, Store!Kept!StoreSpec, Entries, Calls

================================================================================
