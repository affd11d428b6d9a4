------------------------- MODULE ProviderSessionProofs -------------------------
(***************************************************************************)
(* Proofs about ProviderSession, for any number of calls and runs and any  *)
(* limits: the counters of an entry are the numbers of its calls, so that  *)
(* an entry is retired only when nobody waits for it or uses it.           *)
(***************************************************************************)
EXTENDS ProviderSession, FiniteSetTheorems, TLAPS

\* The calls that wait for e, and those that have a lease of it.
WaitersOf(e) == {c \in Call : at[c] = e /\ pc[c] \in Waiting}
LeasesOf(e) == {c \in Call : at[c] = e /\ pc[c] = "leased"}

\* The entries whose resource exists, and those whose copy is counted.
Resources == {e \in Call : stage[e] = "made" /\ cleanup[e] # "done"}
Copies == Resources \cup {e \in Call : \/ stage[e] \in {"reserved", "copying", "discarding"}
                                       \/ stage[e] = "threw" /\ disk[e]}

\* Each call stands where its entry lets it.
CallInv ==
  \A c \in Call :
    /\ pc[c] = "idle" => state[c] = "none" /\ at[c] = None
    /\ pc[c] \in Waiting \cup {"leased", "releasing", "stuck", "released"}
         => at[c] \in Call /\ run[c] \in Run
    /\ at[c] \in Call => state[at[c]] # "none"
    /\ pc[c] = "waiting" => state[at[c]] = "pending"
    /\ pc[c] \in {"ready", "leased", "releasing", "stuck"} => state[at[c]] = "resolved"

\* The creation, the directory and the removal of an entry agree.
EntryInv ==
  \A e \in Call :
    /\ state[e] = "none" <=> stage[e] = "none"
    /\ stage[e] \in {"none", "checks", "reserved"} => ~disk[e]
    /\ state[e] # "none" => run[e] \in Run
    /\ state[e] = "resolved" => stage[e] = "made"
    /\ cleanup[e] # "none" => state[e] = "resolved"
    /\ stage[e] \in {"copying", "discarding"} => disk[e]
    /\ stage[e] = "made" => (disk[e] <=> cleanup[e] # "done")
    /\ disk[e] => e \in Copies

\* An entry of the map may be used, and calls find the entry that they wait for or use.
MapInv ==
  /\ \A r \in Run, e \in Call : sessions[r] = e =>
       /\ run[e] = r
       /\ state[e] \in {"pending", "resolved"}
       /\ cleanup[e] = "none"
  /\ \A c \in Call : pc[c] \in {"waiting", "ready", "leased"} =>
       /\ run[at[c]] = run[c]
       /\ sessions[run[c]] = at[c]
  /\ \A e \in Call : cleanup[e] # "none" => WaitersOf(e) = {} /\ LeasesOf(e) = {}

CountInv ==
  /\ \A e \in Call :
       /\ waiters[e] = Cardinality(WaitersOf(e))
       /\ leases[e] = Cardinality(LeasesOf(e))
  /\ active = Cardinality(Copies)
  /\ secrets = Cardinality(Resources)
  /\ active <= MaxSnapshots

SessionInv == TypeOK /\ CallInv /\ EntryInv /\ MapInv /\ CountInv
-----------------------------------------------------------------------------
(* Counting                                                                *)

\* One element more, or less, is one more, or less, to count.
LEMMA CountAdd ==
  ASSUME NEW S \in SUBSET Call, NEW c \in Call, c \notin S
  PROVE  Cardinality(S \cup {c}) = Cardinality(S) + 1
<1>1. IsFiniteSet(S) BY ProviderSessionAssumption, FS_Subset
<1> QED BY <1>1, FS_AddElement

LEMMA CountRemove ==
  ASSUME NEW S \in SUBSET Call, NEW c \in S
  PROVE  Cardinality(S \ {c}) = Cardinality(S) - 1
<1>1. IsFiniteSet(S) BY ProviderSessionAssumption, FS_Subset
<1> QED BY <1>1, FS_RemoveElement

LEMMA CountNat ==
  ASSUME NEW S \in SUBSET Call
  PROVE  Cardinality(S) \in Nat /\ (Cardinality(S) = 0 <=> S = {})
<1>1. IsFiniteSet(S) BY ProviderSessionAssumption, FS_Subset
<1> QED BY <1>1, FS_CardinalityType, FS_EmptySet

-----------------------------------------------------------------------------
LEMMA SessionInit == Init => SessionInv
<1> SUFFICES ASSUME Init PROVE SessionInv
    OBVIOUS
<1> USE ProviderSessionAssumption DEF Init, Waiting
<1>1. TypeOK BY DEF TypeOK
<1>2. CallInv BY DEF CallInv
<1>3. EntryInv BY DEF EntryInv
<1>4. MapInv BY DEF MapInv
<1>5. CountInv
  <2>1. \A e \in Call : WaitersOf(e) = {} /\ LeasesOf(e) = {}
    BY DEF WaitersOf, LeasesOf
  <2>2. Resources = {} /\ Copies = {} BY DEF Resources, Copies
  <2> QED BY <2>1, <2>2, CountNat, FS_EmptySet DEF CountInv
<1> QED BY <1>1, <1>2, <1>3, <1>4, <1>5 DEF SessionInv

\* What retireIfUnused changes, and that it needs an entry without calls.
Retired(e, s, w, l) ==
  /\ e \in Call
  /\ sessions' \in [Run -> Call \cup {None}]
  /\ aborted' \in [Call -> BOOLEAN]
  /\ cleanup' \in [Call -> {"none", "running", "done"}]
  /\ \A f \in Call : cleanup'[f] # cleanup[f] =>
       /\ f = e /\ s = "resolved" /\ w = 0 /\ l = 0 /\ sessions'[run[e]] # e
       /\ cleanup[f] = "none" /\ cleanup'[f] = "running"
  /\ \A r \in Run : sessions'[r] # sessions[r] =>
       sessions[r] = e /\ sessions'[r] = None /\ w = 0 /\ l = 0

LEMMA Retiring ==
  ASSUME TypeOK, NEW e \in Call, NEW s, NEW w \in Nat, NEW l \in Nat, run[e] \in Run,
         RetireIfUnused(e, s, w, l)
  PROVE  Retired(e, s, w, l)
<1> USE ProviderSessionAssumption DEF TypeOK, Retired
<1>1. CASE UNCHANGED <<sessions, aborted, cleanup>> BY <1>1
<1>2. CASE /\ w = 0 /\ l = 0
           /\ Forget(e)
           /\ aborted' = [aborted EXCEPT ![e] = @ \/ s = "pending"]
           /\ cleanup' = [cleanup EXCEPT
                 ![e] = IF s = "resolved" /\ @ = "none" THEN "running" ELSE @]
  <2>1. aborted' \in [Call -> BOOLEAN] BY <1>2, Zenon
  <2>2. cleanup' \in [Call -> {"none", "running", "done"}] BY <1>2
  <2>3. /\ sessions' \in [Run -> Call \cup {None}]
        /\ sessions'[run[e]] # e
        /\ \A r \in Run : sessions'[r] # sessions[r] =>
              sessions[r] = e /\ sessions'[r] = None
    BY <1>2 DEF Forget
  <2>4. \A f \in Call : cleanup'[f] # cleanup[f] =>
          f = e /\ s = "resolved" /\ cleanup[f] = "none" /\ cleanup'[f] = "running"
    BY <1>2
  <2> QED BY <1>2, <2>1, <2>2, <2>3, <2>4
<1> QED BY <1>1, <1>2 DEF RetireIfUnused

\* A call that waits or has a lease is one that its entry counts.
LEMMA Counted ==
  ASSUME SessionInv, NEW c \in Call
  PROVE  /\ pc[c] \in Waiting \cup {"leased", "stuck"} =>
              at[c] \in Call /\ run[at[c]] \in Run
         /\ pc[c] \in Waiting => waiters[at[c]] - 1 \in Nat
         /\ pc[c] = "leased" => leases[at[c]] - 1 \in Nat
<1>1. pc[c] \in Waiting \cup {"leased", "stuck"} => at[c] \in Call /\ run[at[c]] \in Run
  BY DEF SessionInv, CallInv, EntryInv
<1>2. ASSUME pc[c] \in Waiting PROVE waiters[at[c]] - 1 \in Nat
  <2>1. c \in WaitersOf(at[c]) /\ WaitersOf(at[c]) \in SUBSET Call BY <1>2 DEF WaitersOf
  <2> QED BY <1>1, <1>2, <2>1, CountNat DEF SessionInv, CountInv
<1>3. ASSUME pc[c] = "leased" PROVE leases[at[c]] - 1 \in Nat
  <2>1. c \in LeasesOf(at[c]) /\ LeasesOf(at[c]) \in SUBSET Call BY <1>3 DEF LeasesOf
  <2> QED BY <1>1, <1>3, <2>1, CountNat DEF SessionInv, CountInv
<1> QED BY <1>1, <1>2, <1>3

LEMMA LeaveRetires ==
  ASSUME SessionInv, NEW c \in Call, Leave(c)
  PROVE  Retired(at[c], state[at[c]], waiters[at[c]] - 1, leases[at[c]])
BY Counted, Retiring DEF Leave, SessionInv, TypeOK, Waiting

LEMMA ReleaseRetires ==
  ASSUME SessionInv, NEW c \in Call, Release(c)
  PROVE  Retired(at[c], state[at[c]], waiters[at[c]], leases[at[c]] - 1)
BY Counted, Retiring DEF Release, SessionInv, TypeOK

LEMMA ReleaseAgainRetires ==
  ASSUME SessionInv, NEW c \in Call, ReleaseAgain(c)
  PROVE  Retired(at[c], state[at[c]], waiters[at[c]], leases[at[c]])
BY Counted, Retiring DEF ReleaseAgain, SessionInv, TypeOK

LEMMA ResolveRetires ==
  ASSUME SessionInv, NEW e \in Call, Resolve(e)
  PROVE  Retired(e, "resolved", waiters[e], leases[e])
BY Retiring DEF Resolve, SessionInv, TypeOK, EntryInv

\* Calls go on standing where their entry lets them.
LEMMA CallStep == ASSUME SessionInv, [Next]_vars PROVE CallInv'
<1> USE ProviderSessionAssumption
    DEF SessionInv, TypeOK, CallInv, EntryInv, MapInv, Waiting, Goto, GotoAll, MoveTo,
        callVars, entryVars, diskVars
<1>1. ASSUME NEW c \in Call, Refuse(c) PROVE CallInv'
  BY <1>1 DEF Refuse
<1>2. ASSUME NEW c \in Call, CreateEntry(c) PROVE CallInv'
  BY <1>2 DEF CreateEntry
<1>3. ASSUME NEW c \in Call, JoinEntry(c) PROVE CallInv'
  BY <1>3 DEF JoinEntry
<1>4. ASSUME NEW c \in Call, GiveUp(c) PROVE CallInv'
  BY <1>4 DEF GiveUp
<1>5. ASSUME NEW c \in Call, TakeLease(c) PROVE CallInv'
  BY <1>5 DEF TakeLease
<1>6. ASSUME NEW c \in Call, Leave(c) PROVE CallInv'
  BY <1>6 DEF Leave
<1>7. ASSUME NEW c \in Call, Release(c) PROVE CallInv'
  BY <1>7 DEF Release
<1>8. ASSUME NEW c \in Call, ReleaseAgain(c) PROVE CallInv'
  BY <1>8 DEF ReleaseAgain
<1>9. ASSUME NEW e \in Call, Creation(e) PROVE CallInv'
  <2>1. CASE Resolve(e) BY <2>1 DEF Resolve
  <2>2. CASE Reject(e) BY <2>2 DEF Reject
  <2>3. CASE CheckFails(e) \/ Reserve(e) \/ MakeDirectory(e)
    BY <2>3 DEF CheckFails, Reserve, MakeDirectory
  <2>4. CASE CopyAndProbe(e) \/ Discard(e)
    BY <2>4 DEF CopyAndProbe, Discard
  <2> QED BY <1>9, <2>1, <2>2, <2>3, <2>4 DEF Creation
<1>10. ASSUME NEW e \in Call, TimeOut(e) PROVE CallInv'
  BY <1>10 DEF TimeOut
<1>11. ASSUME NEW e \in Call, Removal(e) PROVE CallInv'
  BY <1>11 DEF Removal, Remove, RemovalFails
<1>12. CASE UNCHANGED vars BY <1>12 DEF vars
<1> QED BY <1>1, <1>2, <1>3, <1>4, <1>5, <1>6, <1>7, <1>8, <1>9, <1>10, <1>11, <1>12
       DEF Next, Enter, Continue
\* The creation, directory and removal of an entry go on agreeing.
LEMMA EntryStep == ASSUME SessionInv, [Next]_vars PROVE EntryInv'
<1>a. TypeOK /\ CallInv /\ EntryInv BY DEF SessionInv
<1> USE ProviderSessionAssumption, <1>a
    DEF TypeOK, CallInv, EntryInv, Copies, Resources, Waiting, Goto, GotoAll,
        MoveTo, callVars, entryVars, diskVars
<1>1. ASSUME NEW c \in Call, Refuse(c) PROVE EntryInv'
  BY <1>1 DEF Refuse
<1>2. ASSUME NEW c \in Call, CreateEntry(c) PROVE EntryInv'
  BY <1>2 DEF CreateEntry
<1>3. ASSUME NEW c \in Call, JoinEntry(c) PROVE EntryInv'
  BY <1>3 DEF JoinEntry
<1>4. ASSUME NEW c \in Call, GiveUp(c) PROVE EntryInv'
  BY <1>4 DEF GiveUp
<1>5. ASSUME NEW c \in Call, TakeLease(c) PROVE EntryInv'
  BY <1>5 DEF TakeLease
<1>6. ASSUME NEW c \in Call, Leave(c) PROVE EntryInv'
  <2>1. Retired(at[c], state[at[c]], waiters[at[c]] - 1, leases[at[c]])
    BY <1>6, LeaveRetires
  <2>2. UNCHANGED <<state, stage, disk, run>> BY <1>6 DEF Leave
  <2> QED BY <2>1, <2>2 DEF Retired
<1>7. ASSUME NEW c \in Call, Release(c) PROVE EntryInv'
  <2>1. Retired(at[c], state[at[c]], waiters[at[c]], leases[at[c]] - 1)
    BY <1>7, ReleaseRetires
  <2>2. UNCHANGED <<state, stage, disk, run>> BY <1>7 DEF Release
  <2> QED BY <2>1, <2>2 DEF Retired
<1>8. ASSUME NEW c \in Call, ReleaseAgain(c) PROVE EntryInv'
  <2>1. Retired(at[c], state[at[c]], waiters[at[c]], leases[at[c]])
    BY <1>8, ReleaseAgainRetires
  <2>2. UNCHANGED <<state, stage, disk, run>> BY <1>8 DEF ReleaseAgain
  <2> QED BY <2>1, <2>2 DEF Retired
<1>9. ASSUME NEW e \in Call, Creation(e) PROVE EntryInv'
  <2>1. CASE Resolve(e)
    <3>1. Retired(e, "resolved", waiters[e], leases[e]) BY <2>1, ResolveRetires
    <3>2. /\ UNCHANGED <<stage, disk, run>>
          /\ state' = [state EXCEPT ![e] = "resolved"] /\ stage[e] = "made"
      BY <2>1 DEF Resolve
    <3> QED BY <3>1, <3>2 DEF Retired
  <2>2. CASE Reject(e) BY <2>2 DEF Reject, Forget
  <2>3. CASE CheckFails(e) \/ Reserve(e) \/ MakeDirectory(e)
    BY <2>3 DEF CheckFails, Reserve, MakeDirectory
  <2>4. CASE CopyAndProbe(e) \/ Discard(e)
    BY <2>4 DEF CopyAndProbe, Discard
  <2> QED BY <1>9, <2>1, <2>2, <2>3, <2>4 DEF Creation
<1>10. ASSUME NEW e \in Call, TimeOut(e) PROVE EntryInv'
  BY <1>10 DEF TimeOut
<1>11. ASSUME NEW e \in Call, Removal(e) PROVE EntryInv'
  BY <1>11 DEF Removal, Remove, RemovalFails
<1>12. CASE UNCHANGED vars BY <1>12 DEF vars
<1> QED BY <1>1, <1>2, <1>3, <1>4, <1>5, <1>6, <1>7, <1>8, <1>9, <1>10, <1>11, <1>12
       DEF Next, Enter, Continue
\* An entry that nobody counts has no calls.
LEMMA Unused ==
  ASSUME SessionInv, NEW e \in Call
  PROVE  /\ waiters[e] = 0 <=> WaitersOf(e) = {}
         /\ leases[e] = 0 <=> LeasesOf(e) = {}
         /\ waiters[e] = 1 => \A c, d \in WaitersOf(e) : c = d
         /\ leases[e] = 1 => \A c, d \in LeasesOf(e) : c = d
<1>1. /\ WaitersOf(e) \in SUBSET Call /\ waiters[e] = Cardinality(WaitersOf(e))
      /\ LeasesOf(e) \in SUBSET Call /\ leases[e] = Cardinality(LeasesOf(e))
  BY DEF SessionInv, CountInv, WaitersOf, LeasesOf
<1>2. ASSUME NEW S \in SUBSET Call, Cardinality(S) = 1, NEW c \in S, NEW d \in S
      PROVE  c = d
  <2>1. Cardinality(S \ {c}) = 0 BY <1>2, CountRemove
  <2>2. S \ {c} = {} BY <2>1, CountNat
  <2> QED BY <2>2
<1> QED BY <1>1, <1>2, CountNat

\* Nobody is left of the calls of e when a call retires it.
LEMMA LeaveLast ==
  ASSUME SessionInv, NEW c \in Call, Leave(c), waiters[at[c]] - 1 = 0, leases[at[c]] = 0
  PROVE  /\ \A d \in Call : at[d] = at[c] /\ pc[d] \in Waiting => d = c
         /\ \A d \in Call : at[d] = at[c] => pc[d] # "leased"
<1>1. /\ at[c] \in Call /\ c \in WaitersOf(at[c])
      /\ waiters[at[c]] = 1
  BY Counted DEF Leave, Waiting, WaitersOf, SessionInv, TypeOK
<1> QED BY <1>1, Unused DEF WaitersOf, LeasesOf

LEMMA ReleaseLast ==
  ASSUME SessionInv, NEW c \in Call, Release(c), waiters[at[c]] = 0, leases[at[c]] - 1 = 0
  PROVE  /\ \A d \in Call : at[d] = at[c] => pc[d] \notin Waiting
         /\ \A d \in Call : at[d] = at[c] /\ pc[d] = "leased" => d = c
<1>1. /\ at[c] \in Call /\ c \in LeasesOf(at[c])
      /\ leases[at[c]] = 1
  BY Counted DEF Release, LeasesOf, SessionInv, TypeOK
<1> QED BY <1>1, Unused DEF WaitersOf, LeasesOf

LEMMA UnusedEntry ==
  ASSUME SessionInv, NEW e \in Call, waiters[e] = 0, leases[e] = 0
  PROVE  \A d \in Call : at[d] = e => pc[d] \notin Waiting \cup {"leased"}
BY Unused DEF WaitersOf, LeasesOf

\* The map goes on holding the entries that are waited for and used.
LEMMA MapStep == ASSUME SessionInv, [Next]_vars PROVE MapInv'
<1>a. TypeOK /\ CallInv /\ EntryInv /\ MapInv BY DEF SessionInv
<1> USE ProviderSessionAssumption, <1>a
    DEF TypeOK, CallInv, EntryInv, MapInv, WaitersOf, LeasesOf, Waiting, Goto, GotoAll,
        MoveTo, callVars, entryVars, diskVars
<1>1. ASSUME NEW c \in Call, Refuse(c) PROVE MapInv'
  BY <1>1 DEF Refuse
<1>2. ASSUME NEW c \in Call, CreateEntry(c) PROVE MapInv'
  BY <1>2 DEF CreateEntry
<1>3. ASSUME NEW c \in Call, JoinEntry(c) PROVE MapInv'
  BY <1>3 DEF JoinEntry
<1>4. ASSUME NEW c \in Call, GiveUp(c) PROVE MapInv'
  BY <1>4 DEF GiveUp
<1>5. ASSUME NEW c \in Call, TakeLease(c) PROVE MapInv'
  BY <1>5 DEF TakeLease
<1>6. ASSUME NEW c \in Call, Leave(c) PROVE MapInv'
  <2>1. Retired(at[c], state[at[c]], waiters[at[c]] - 1, leases[at[c]])
    BY <1>6, LeaveRetires
  <2>2. waiters[at[c]] - 1 = 0 /\ leases[at[c]] = 0 =>
         \A d \in Call : at[d] = at[c] /\ pc[d] \in {"waiting", "ready", "lost", "leased"} => d = c
    BY <1>6, LeaveLast
  <2>3. pc[c] = "lost" /\ pc' = [pc EXCEPT ![c] = "failed"] /\ UNCHANGED <<at, state, run>>
    BY <1>6 DEF Leave
  <2> QED BY <2>1, <2>2, <2>3 DEF Retired
<1>7. ASSUME NEW c \in Call, Release(c) PROVE MapInv'
  <2>1. Retired(at[c], state[at[c]], waiters[at[c]], leases[at[c]] - 1)
    BY <1>7, ReleaseRetires
  <2>2. waiters[at[c]] = 0 /\ leases[at[c]] - 1 = 0 =>
         \A d \in Call : at[d] = at[c] /\ pc[d] \in {"waiting", "ready", "lost", "leased"} => d = c
    BY <1>7, ReleaseLast
  <2>3. /\ pc[c] = "leased" /\ UNCHANGED <<at, state, run>>
        /\ \E l \in {"releasing", "released"} : pc' = [pc EXCEPT ![c] = l]
    BY <1>7 DEF Release
  <2> QED BY <2>1, <2>2, <2>3 DEF Retired
<1>8. ASSUME NEW c \in Call, ReleaseAgain(c) PROVE MapInv'
  <2>1. Retired(at[c], state[at[c]], waiters[at[c]], leases[at[c]])
    BY <1>8, ReleaseAgainRetires
  <2>2. waiters[at[c]] = 0 /\ leases[at[c]] = 0 =>
         \A d \in Call : at[d] = at[c] => pc[d] \notin {"waiting", "ready", "lost", "leased"}
    BY <1>8, <2>1, UnusedEntry DEF Retired
  <2>3. /\ pc[c] = "stuck" /\ UNCHANGED <<at, state, run>>
        /\ \E l \in {"releasing", "released"} : pc' = [pc EXCEPT ![c] = l]
    BY <1>8 DEF ReleaseAgain
  <2> QED BY <2>1, <2>2, <2>3 DEF Retired
<1>9. ASSUME NEW e \in Call, Creation(e) PROVE MapInv'
  <2>1. CASE Resolve(e)
    <3>1. Retired(e, "resolved", waiters[e], leases[e]) BY <2>1, ResolveRetires
    <3>2. waiters[e] = 0 /\ leases[e] = 0 =>
            \A d \in Call : at[d] = e => pc[d] \notin {"waiting", "ready", "lost", "leased"}
      BY UnusedEntry
    <3>3. /\ UNCHANGED <<at, run>> /\ state' = [state EXCEPT ![e] = "resolved"]
          /\ pc' = [c \in Call |-> IF at[c] = e /\ pc[c] = "waiting" THEN "ready" ELSE pc[c]]
      BY <2>1 DEF Resolve
    <3> QED BY <3>1, <3>2, <3>3 DEF Retired
  <2>2. CASE Reject(e) BY <2>2 DEF Reject, Forget
  <2>3. CASE CheckFails(e) \/ Reserve(e) \/ MakeDirectory(e)
    BY <2>3 DEF CheckFails, Reserve, MakeDirectory
  <2>4. CASE CopyAndProbe(e) \/ Discard(e)
    BY <2>4 DEF CopyAndProbe, Discard
  <2> QED BY <1>9, <2>1, <2>2, <2>3, <2>4 DEF Creation
<1>10. ASSUME NEW e \in Call, TimeOut(e) PROVE MapInv'
  BY <1>10 DEF TimeOut
<1>11. ASSUME NEW e \in Call, Removal(e) PROVE MapInv'
  BY <1>11 DEF Removal, Remove, RemovalFails
<1>12. CASE UNCHANGED vars BY <1>12 DEF vars
<1> QED BY <1>1, <1>2, <1>3, <1>4, <1>5, <1>6, <1>7, <1>8, <1>9, <1>10, <1>11, <1>12
       DEF Next, Enter, Continue
-----------------------------------------------------------------------------
\* The calls that an entry counts are those before the step, one more or one less.
CallsKept(e) == WaitersOf(e)' = WaitersOf(e) /\ LeasesOf(e)' = LeasesOf(e)
CopiesKept == Resources' = Resources /\ Copies' = Copies

\* Call c is one more, or one less, that e counts, or is neither.
WaitersFollow(e, c) ==
  \/ WaitersOf(e)' = WaitersOf(e) /\ waiters' = waiters
  \/ /\ c \notin WaitersOf(e) /\ WaitersOf(e)' = WaitersOf(e) \cup {c}
     /\ waiters' = [waiters EXCEPT ![e] = @ + 1]
  \/ /\ c \in WaitersOf(e) /\ WaitersOf(e)' = WaitersOf(e) \ {c}
     /\ waiters' = [waiters EXCEPT ![e] = @ - 1]

LeasesFollow(e, c) ==
  \/ LeasesOf(e)' = LeasesOf(e) /\ leases' = leases
  \/ /\ c \notin LeasesOf(e) /\ LeasesOf(e)' = LeasesOf(e) \cup {c}
     /\ leases' = [leases EXCEPT ![e] = @ + 1]
  \/ /\ c \in LeasesOf(e) /\ LeasesOf(e)' = LeasesOf(e) \ {c}
     /\ leases' = [leases EXCEPT ![e] = @ - 1]

LEMMA CountsFollow ==
  ASSUME SessionInv, NEW e \in Call, NEW c \in Call, WaitersFollow(e, c), LeasesFollow(e, c),
         \A f \in Call \ {e} : CallsKept(f)
  PROVE  \A f \in Call : /\ waiters'[f] = Cardinality(WaitersOf(f)')
                        /\ leases'[f] = Cardinality(LeasesOf(f)')
<1>1. \A f \in Call : /\ WaitersOf(f) \in SUBSET Call /\ waiters[f] = Cardinality(WaitersOf(f))
                      /\ LeasesOf(f) \in SUBSET Call /\ leases[f] = Cardinality(LeasesOf(f))
  BY DEF SessionInv, CountInv, WaitersOf, LeasesOf
<1>2. waiters \in [Call -> Nat] /\ leases \in [Call -> Nat] BY DEF SessionInv, TypeOK
<1>3. waiters'[e] = Cardinality(WaitersOf(e)')
  <2>1. /\ c \notin WaitersOf(e) => Cardinality(WaitersOf(e) \cup {c}) = waiters[e] + 1
        /\ c \in WaitersOf(e) => Cardinality(WaitersOf(e) \ {c}) = waiters[e] - 1
    BY <1>1, CountAdd, CountRemove
  <2> QED BY <1>1, <1>2, <2>1 DEF WaitersFollow
<1>4. leases'[e] = Cardinality(LeasesOf(e)')
  <2>1. /\ c \notin LeasesOf(e) => Cardinality(LeasesOf(e) \cup {c}) = leases[e] + 1
        /\ c \in LeasesOf(e) => Cardinality(LeasesOf(e) \ {c}) = leases[e] - 1
    BY <1>1, CountAdd, CountRemove
  <2> QED BY <1>1, <1>2, <2>1 DEF LeasesFollow
<1>5. ASSUME NEW f \in Call \ {e}
      PROVE  /\ waiters'[f] = Cardinality(WaitersOf(f)')
             /\ leases'[f] = Cardinality(LeasesOf(f)')
  <2>1. waiters'[f] = waiters[f] BY <1>2 DEF WaitersFollow
  <2>2. leases'[f] = leases[f] BY <1>2 DEF LeasesFollow
  <2> QED BY <1>1, <1>5, <2>1, <2>2 DEF CallsKept
<1> QED BY <1>3, <1>4, <1>5

LEMMA CountStep == ASSUME SessionInv, [Next]_vars PROVE CountInv'
<1>a. TypeOK /\ CallInv /\ EntryInv BY DEF SessionInv
<1>b. /\ \A e \in Call : /\ waiters[e] = Cardinality(WaitersOf(e))
                         /\ leases[e] = Cardinality(LeasesOf(e))
                         /\ WaitersOf(e) \in SUBSET Call /\ LeasesOf(e) \in SUBSET Call
      /\ active = Cardinality(Copies) /\ Copies \in SUBSET Call
      /\ secrets = Cardinality(Resources) /\ Resources \in SUBSET Call
      /\ active <= MaxSnapshots
  BY DEF SessionInv, CountInv, WaitersOf, LeasesOf, Copies, Resources
<1>c. ASSUME UNCHANGED <<waiters, leases>>, \A e \in Call : CallsKept(e)
      PROVE  \A e \in Call : /\ waiters'[e] = Cardinality(WaitersOf(e)')
                            /\ leases'[e] = Cardinality(LeasesOf(e)')
  BY <1>b, <1>c DEF CallsKept
<1>d. ASSUME UNCHANGED <<active, secrets>>, CopiesKept
      PROVE  /\ active' = Cardinality(Copies') /\ active' <= MaxSnapshots
             /\ secrets' = Cardinality(Resources')
  BY <1>b, <1>d DEF CopiesKept
<1> USE ProviderSessionAssumption, <1>a
    DEF TypeOK, CallInv, EntryInv, Waiting, Goto, GotoAll, MoveTo,
        callVars, entryVars, diskVars
\* Steps of a call.
<1>1. ASSUME NEW c \in Call, Refuse(c) PROVE CountInv'
  <2>1. \A e \in Call : CallsKept(e) BY <1>1 DEF Refuse, CallsKept, WaitersOf, LeasesOf
  <2>2. CopiesKept BY <1>1 DEF Refuse, CopiesKept, Copies, Resources
  <2> QED BY <1>1, <1>c, <1>d, <2>1, <2>2 DEF Refuse, CountInv
<1>2. ASSUME NEW c \in Call, CreateEntry(c) PROVE CountInv'
  <2>1. \A e \in Call \ {c} : CallsKept(e)
    BY <1>2 DEF CreateEntry, CallsKept, WaitersOf, LeasesOf
  <2>2. /\ WaitersOf(c)' = WaitersOf(c) \cup {c} /\ LeasesOf(c)' = LeasesOf(c)
    BY <1>2 DEF CreateEntry, WaitersOf, LeasesOf
  <2>3. waiters[c] = 0 /\ c \notin WaitersOf(c)
    <3>1. WaitersOf(c) = {} BY <1>2 DEF CreateEntry, WaitersOf
    <3> QED BY <3>1, Unused
  <2>4. CopiesKept BY <1>2 DEF CreateEntry, CopiesKept, Copies, Resources
  <2>5. \A e \in Call : /\ waiters'[e] = Cardinality(WaitersOf(e)')
                       /\ leases'[e] = Cardinality(LeasesOf(e)')
    <3>1. WaitersFollow(c, c) /\ LeasesFollow(c, c)
      BY <1>2, <2>2, <2>3 DEF CreateEntry, WaitersFollow, LeasesFollow
    <3> QED BY <2>1, <3>1, CountsFollow
  <2> QED BY <1>2, <1>d, <2>4, <2>5 DEF CreateEntry, CountInv
<1>3. ASSUME NEW c \in Call, JoinEntry(c) PROVE CountInv'
  <2>1. PICK e \in Call : /\ at' = [at EXCEPT ![c] = e]
           /\ \/ /\ leases' = [leases EXCEPT ![e] = @ + 1] /\ UNCHANGED waiters
                 /\ pc' = [pc EXCEPT ![c] = "leased"]
              \/ /\ waiters' = [waiters EXCEPT ![e] = @ + 1] /\ UNCHANGED leases
                 /\ pc' = [pc EXCEPT ![c] = "waiting"]
    BY <1>3 DEF JoinEntry
  <2>2. \A f \in Call \ {e} : CallsKept(f)
    BY <1>3, <2>1 DEF JoinEntry, CallsKept, WaitersOf, LeasesOf
  <2>3. c \notin WaitersOf(e) /\ c \notin LeasesOf(e)
    BY <1>3 DEF JoinEntry, WaitersOf, LeasesOf
  <2>4. \/ /\ LeasesOf(e)' = LeasesOf(e) \cup {c} /\ WaitersOf(e)' = WaitersOf(e)
           /\ leases' = [leases EXCEPT ![e] = @ + 1] /\ UNCHANGED waiters
        \/ /\ WaitersOf(e)' = WaitersOf(e) \cup {c} /\ LeasesOf(e)' = LeasesOf(e)
           /\ waiters' = [waiters EXCEPT ![e] = @ + 1] /\ UNCHANGED leases
    BY <1>3, <2>1 DEF JoinEntry, WaitersOf, LeasesOf
  <2>5. WaitersFollow(e, c) /\ LeasesFollow(e, c)
    BY <2>3, <2>4 DEF WaitersFollow, LeasesFollow
  <2>6. \A f \in Call : /\ waiters'[f] = Cardinality(WaitersOf(f)')
                       /\ leases'[f] = Cardinality(LeasesOf(f)')
    BY <2>2, <2>5, CountsFollow
  <2>7. CopiesKept BY <1>3 DEF JoinEntry, CopiesKept, Copies, Resources
  <2> QED BY <1>3, <1>d, <2>6, <2>7 DEF JoinEntry, CountInv
<1>4. ASSUME NEW c \in Call, GiveUp(c) PROVE CountInv'
  <2>1. \A e \in Call : CallsKept(e) BY <1>4 DEF GiveUp, CallsKept, WaitersOf, LeasesOf
  <2>2. CopiesKept BY <1>4 DEF GiveUp, CopiesKept, Copies, Resources
  <2> QED BY <1>4, <1>c, <1>d, <2>1, <2>2 DEF GiveUp, CountInv
<1>5. ASSUME NEW c \in Call, TakeLease(c) PROVE CountInv'
  <2>1. PICK e \in Call : e = at[c] BY <1>5 DEF TakeLease
  <2>2. /\ c \in WaitersOf(e) /\ c \notin LeasesOf(e)
        /\ WaitersOf(e)' = WaitersOf(e) \ {c} /\ LeasesOf(e)' = LeasesOf(e) \cup {c}
        /\ \A f \in Call \ {e} : CallsKept(f)
    BY <1>5, <2>1 DEF TakeLease, CallsKept, WaitersOf, LeasesOf
  <2>3. WaitersFollow(e, c) /\ LeasesFollow(e, c)
    BY <1>5, <2>1, <2>2 DEF TakeLease, WaitersFollow, LeasesFollow
  <2>4. \A f \in Call : /\ waiters'[f] = Cardinality(WaitersOf(f)')
                       /\ leases'[f] = Cardinality(LeasesOf(f)')
    BY <2>2, <2>3, CountsFollow
  <2>5. CopiesKept BY <1>5 DEF TakeLease, CopiesKept, Copies, Resources
  <2> QED BY <1>5, <1>d, <2>4, <2>5 DEF TakeLease, CountInv
<1>6. ASSUME NEW c \in Call, Leave(c) PROVE CountInv'
  <2>1. PICK e \in Call : e = at[c] BY <1>6 DEF Leave
  <2>6. Retired(e, state[e], waiters[e] - 1, leases[e]) BY <1>6, <2>1, LeaveRetires
  <2>2. /\ c \in WaitersOf(e)
        /\ WaitersOf(e)' = WaitersOf(e) \ {c} /\ LeasesOf(e)' = LeasesOf(e)
        /\ \A f \in Call \ {e} : CallsKept(f)
    BY <1>6, <2>1 DEF Leave, CallsKept, WaitersOf, LeasesOf
  <2>3. WaitersFollow(e, c) /\ LeasesFollow(e, c)
    BY <1>6, <2>1, <2>2 DEF Leave, WaitersFollow, LeasesFollow
  <2>4. \A f \in Call : /\ waiters'[f] = Cardinality(WaitersOf(f)')
                       /\ leases'[f] = Cardinality(LeasesOf(f)')
    BY <2>2, <2>3, CountsFollow
  <2>5. CopiesKept
    BY <1>6, <2>6 DEF Leave, Retired, CopiesKept, Copies, Resources
  <2> QED BY <1>6, <1>d, <2>4, <2>5 DEF Leave, CountInv
<1>7. ASSUME NEW c \in Call, Release(c) PROVE CountInv'
  <2>1. PICK e \in Call : e = at[c] BY <1>7 DEF Release
  <2>6. Retired(e, state[e], waiters[e], leases[e] - 1) BY <1>7, <2>1, ReleaseRetires
  <2>2. /\ c \in LeasesOf(e)
        /\ LeasesOf(e)' = LeasesOf(e) \ {c} /\ WaitersOf(e)' = WaitersOf(e)
        /\ \A f \in Call \ {e} : CallsKept(f)
    BY <1>7, <2>1 DEF Release, CallsKept, WaitersOf, LeasesOf
  <2>3. WaitersFollow(e, c) /\ LeasesFollow(e, c)
    BY <1>7, <2>1, <2>2 DEF Release, WaitersFollow, LeasesFollow
  <2>4. \A f \in Call : /\ waiters'[f] = Cardinality(WaitersOf(f)')
                       /\ leases'[f] = Cardinality(LeasesOf(f)')
    BY <2>2, <2>3, CountsFollow
  <2>5. CopiesKept
    BY <1>7, <2>6 DEF Release, Retired, CopiesKept, Copies, Resources
  <2> QED BY <1>7, <1>d, <2>4, <2>5 DEF Release, CountInv
<1>8. ASSUME NEW c \in Call, ReleaseAgain(c) PROVE CountInv'
  <2>1. \A e \in Call : CallsKept(e)
    BY <1>8 DEF ReleaseAgain, CallsKept, WaitersOf, LeasesOf
  <2>2. Retired(at[c], state[at[c]], waiters[at[c]], leases[at[c]])
    BY <1>8, ReleaseAgainRetires
  <2>3. CopiesKept
    BY <1>8, <2>2 DEF ReleaseAgain, Retired, CopiesKept, Copies, Resources
  <2> QED BY <1>8, <1>c, <1>d, <2>1, <2>3 DEF ReleaseAgain, CountInv
\* Steps of a creation.
<1>9. ASSUME NEW e \in Call, Creation(e) PROVE CountInv'
  <2>1. CASE CheckFails(e)
    <3>1. \A f \in Call : CallsKept(f) BY <2>1 DEF CheckFails, CallsKept, WaitersOf, LeasesOf
    <3>2. CopiesKept BY <2>1 DEF CheckFails, CopiesKept, Copies, Resources
    <3> QED BY <2>1, <1>c, <1>d, <3>1, <3>2 DEF CheckFails, CountInv
  <2>2. CASE Reserve(e)
    <3>1. \A f \in Call : CallsKept(f) BY <2>2 DEF Reserve, CallsKept, WaitersOf, LeasesOf
    <3>2. /\ Resources' = Resources /\ e \notin Copies /\ Copies' = Copies \cup {e}
      BY <2>2 DEF Reserve, Copies, Resources
    <3>3. Cardinality(Copies') = active + 1 BY <1>b, <3>2, CountAdd
    <3> QED BY <2>2, <1>b, <1>c, <3>1, <3>2, <3>3 DEF Reserve, CountInv
  <2>3. CASE MakeDirectory(e)
    <3>1. \A f \in Call : CallsKept(f)
      BY <2>3 DEF MakeDirectory, CallsKept, WaitersOf, LeasesOf
    <3>2. /\ Resources' = Resources /\ UNCHANGED secrets
          /\ \/ Copies' = Copies /\ UNCHANGED active
             \/ e \in Copies /\ Copies' = Copies \ {e} /\ active' = active - 1
      BY <2>3 DEF MakeDirectory, Copies, Resources
    <3>3. /\ active' = Cardinality(Copies') /\ active' <= MaxSnapshots
      BY <1>b, <3>2, CountRemove
    <3> QED BY <2>3, <1>b, <1>c, <3>1, <3>2, <3>3 DEF MakeDirectory, CountInv
  <2>4. CASE CopyAndProbe(e)
    <3>1. \A f \in Call : CallsKept(f)
      BY <2>4 DEF CopyAndProbe, CallsKept, WaitersOf, LeasesOf
    <3>2. /\ Copies' = Copies /\ UNCHANGED active
          /\ \/ Resources' = Resources /\ UNCHANGED secrets
             \/ /\ e \notin Resources /\ Resources' = Resources \cup {e}
                /\ secrets' = secrets + 1
      BY <2>4 DEF CopyAndProbe, Copies, Resources
    <3>3. secrets' = Cardinality(Resources') BY <1>b, <3>2, CountAdd
    <3> QED BY <2>4, <1>b, <1>c, <3>1, <3>2, <3>3 DEF CopyAndProbe, CountInv
  <2>5. CASE Discard(e)
    <3>1. \A f \in Call : CallsKept(f) BY <2>5 DEF Discard, CallsKept, WaitersOf, LeasesOf
    <3>2. /\ Resources' = Resources /\ UNCHANGED secrets
          /\ \/ Copies' = Copies /\ UNCHANGED active
             \/ e \in Copies /\ Copies' = Copies \ {e} /\ active' = active - 1
      BY <2>5 DEF Discard, Copies, Resources
    <3>3. /\ active' = Cardinality(Copies') /\ active' <= MaxSnapshots
      BY <1>b, <3>2, CountRemove
    <3> QED BY <2>5, <1>b, <1>c, <3>1, <3>2, <3>3 DEF Discard, CountInv
  <2>6. CASE Resolve(e)
    <3>1. \A f \in Call : CallsKept(f) BY <2>6 DEF Resolve, CallsKept, WaitersOf, LeasesOf
    <3>2. Retired(e, "resolved", waiters[e], leases[e]) BY <2>6, ResolveRetires
    <3>3. CopiesKept BY <2>6, <3>2 DEF Resolve, Retired, CopiesKept, Copies, Resources
    <3> QED BY <2>6, <1>c, <1>d, <3>1, <3>3 DEF Resolve, CountInv
  <2>7. CASE Reject(e)
    <3>1. \A f \in Call : CallsKept(f) BY <2>7 DEF Reject, CallsKept, WaitersOf, LeasesOf
    <3>2. CopiesKept BY <2>7 DEF Reject, CopiesKept, Copies, Resources
    <3> QED BY <2>7, <1>c, <1>d, <3>1, <3>2 DEF Reject, CountInv
  <2> QED BY <1>9, <2>1, <2>2, <2>3, <2>4, <2>5, <2>6, <2>7 DEF Creation
<1>10. ASSUME NEW e \in Call, TimeOut(e) PROVE CountInv'
  <2>1. \A f \in Call : CallsKept(f) BY <1>10 DEF TimeOut, CallsKept, WaitersOf, LeasesOf
  <2>2. CopiesKept BY <1>10 DEF TimeOut, CopiesKept, Copies, Resources
  <2> QED BY <1>10, <1>c, <1>d, <2>1, <2>2 DEF TimeOut, CountInv
\* Steps of a removal.
<1>11. ASSUME NEW e \in Call, Remove(e) PROVE CountInv'
  <2>1. \A f \in Call : CallsKept(f) BY <1>11 DEF Remove, CallsKept, WaitersOf, LeasesOf
  <2>2. /\ e \in Copies /\ Copies' = Copies \ {e}
        /\ e \in Resources /\ Resources' = Resources \ {e}
    BY <1>11 DEF Remove, Copies, Resources
  <2>3. /\ Cardinality(Copies') = active - 1 /\ Cardinality(Resources') = secrets - 1
    BY <1>b, <2>2, CountRemove
  <2> QED BY <1>11, <1>b, <1>c, <2>1, <2>3 DEF Remove, CountInv
<1>12. ASSUME NEW e \in Call, RemovalFails(e) PROVE CountInv'
  <2>1. \A f \in Call : CallsKept(f)
    BY <1>12 DEF RemovalFails, CallsKept, WaitersOf, LeasesOf
  <2>2. CopiesKept BY <1>12 DEF RemovalFails, CopiesKept, Copies, Resources
  <2> QED BY <1>12, <1>c, <1>d, <2>1, <2>2 DEF RemovalFails, CountInv
<1>13. CASE UNCHANGED vars
  <2>1. (\A f \in Call : CallsKept(f)) /\ CopiesKept
    BY <1>13 DEF vars, CallsKept, CopiesKept, WaitersOf, LeasesOf, Copies, Resources
  <2> QED BY <1>13, <1>c, <1>d, <2>1 DEF vars, CountInv
<1> QED BY <1>1, <1>2, <1>3, <1>4, <1>5, <1>6, <1>7, <1>8, <1>9, <1>10, <1>11, <1>12,
           <1>13
       DEF Next, Enter, Continue, Removal

LEMMA DiskType ==
  ASSUME SessionInv, NEW e \in Call,
         \/ disk' = [disk EXCEPT ![e] = TRUE]
         \/ disk' = [disk EXCEPT ![e] = FALSE]
         \/ disk' = disk
  PROVE  disk' \in [Call -> BOOLEAN]
<1>1. disk \in [Call -> BOOLEAN] BY DEF SessionInv, TypeOK
<1> QED BY <1>1, Zenon

\* Every variable keeps its type; the counters are numbers because they count.
LEMMA TypeStep == ASSUME SessionInv, [Next]_vars PROVE TypeOK'
<1>a. TypeOK /\ CallInv BY DEF SessionInv
<1>b. CountInv' BY CountStep
<1>c. active' \in Nat /\ secrets' \in Nat
  <2>1. Copies' \in SUBSET Call /\ Resources' \in SUBSET Call
    BY DEF Copies, Resources
  <2> QED BY <1>b, <2>1, CountNat DEF CountInv
<1> USE ProviderSessionAssumption, <1>a, <1>c
    DEF TypeOK, CallInv, Waiting, Goto, GotoAll, MoveTo, callVars, entryVars, diskVars
<1>1. ASSUME NEW c \in Call, Refuse(c) PROVE TypeOK'
  BY <1>1 DEF Refuse
<1>2. ASSUME NEW c \in Call, CreateEntry(c) PROVE TypeOK'
  BY <1>2 DEF CreateEntry
<1>3. ASSUME NEW c \in Call, JoinEntry(c) PROVE TypeOK'
  <2>1. /\ run' \in [Call -> Run \cup {None}]
        /\ at' \in [Call -> Call \cup {None}]
    BY <1>3 DEF JoinEntry
  <2>2. waiters' \in [Call -> Nat]
    BY <1>3 DEF JoinEntry
  <2>3. leases' \in [Call -> Nat]
    BY <1>3 DEF JoinEntry
  <2>4. pc' \in [Call -> {"idle", "leased", "releasing", "stuck", "released", "failed"}
                        \cup Waiting]
    BY <1>3 DEF JoinEntry
  <2> QED BY <1>3, <2>1, <2>2, <2>3, <2>4 DEF JoinEntry
<1>4. ASSUME NEW c \in Call, GiveUp(c) PROVE TypeOK'
  BY <1>4 DEF GiveUp
<1>5. ASSUME NEW c \in Call, TakeLease(c) PROVE TypeOK'
  BY <1>5, Counted DEF TakeLease
<1>6. ASSUME NEW c \in Call, Leave(c) PROVE TypeOK'
  <2>1. Retired(at[c], state[at[c]], waiters[at[c]] - 1, leases[at[c]])
    BY <1>6, LeaveRetires
  <2>2. waiters' \in [Call -> Nat] BY <1>6, Counted DEF Leave
  <2> QED BY <1>6, <2>1, <2>2 DEF Leave, Retired
<1>7. ASSUME NEW c \in Call, Release(c) PROVE TypeOK'
  <2>1. Retired(at[c], state[at[c]], waiters[at[c]], leases[at[c]] - 1)
    BY <1>7, ReleaseRetires
  <2>2. leases' \in [Call -> Nat] BY <1>7, Counted DEF Release
  <2>3. pc' \in [Call -> {"idle", "leased", "releasing", "stuck", "released", "failed"}
                        \cup Waiting]
    BY <1>7 DEF Release
  <2> QED BY <1>7, <2>1, <2>2, <2>3 DEF Release, Retired
<1>8. ASSUME NEW c \in Call, ReleaseAgain(c) PROVE TypeOK'
  <2>1. Retired(at[c], state[at[c]], waiters[at[c]], leases[at[c]])
    BY <1>8, ReleaseAgainRetires
  <2>2. pc' \in [Call -> {"idle", "leased", "releasing", "stuck", "released", "failed"}
                        \cup Waiting]
    BY <1>8 DEF ReleaseAgain
  <2> QED BY <1>8, <2>1, <2>2 DEF ReleaseAgain, Retired
<1>9. ASSUME NEW e \in Call, Creation(e) PROVE TypeOK'
  <2>1. CASE Resolve(e)
    <3>1. Retired(e, "resolved", waiters[e], leases[e]) BY <2>1, ResolveRetires
    <3>2. /\ pc' \in [Call -> {"idle", "leased", "releasing", "stuck", "released", "failed"}
                             \cup Waiting]
          /\ state' \in [Call -> {"none", "pending", "resolved", "rejected"}]
      BY <2>1 DEF Resolve
    <3> QED BY <2>1, <3>1, <3>2 DEF Resolve, Retired
  <2>2. CASE Reject(e)
    <3>1. pc' \in [Call -> {"idle", "leased", "releasing", "stuck", "released", "failed"}
                          \cup Waiting]
      BY <2>2 DEF Reject
    <3>2. sessions' \in [Run -> Call \cup {None}]
      <4>1. run[e] \in Run BY <2>2 DEF Reject, SessionInv, EntryInv
      <4> QED BY <2>2, <4>1 DEF Reject, Forget
    <3> QED BY <2>2, <3>1, <3>2 DEF Reject
  <2>3. CASE CheckFails(e) \/ Reserve(e) BY <2>3 DEF CheckFails, Reserve
  <2>6. CASE MakeDirectory(e)
    <3>1. disk' = [disk EXCEPT ![e] = TRUE] \/ disk' = disk BY <2>6 DEF MakeDirectory
    <3>2. disk' \in [Call -> BOOLEAN] BY <3>1, DiskType
    <3> QED BY <2>6, <3>2 DEF MakeDirectory
  <2>4. CASE CopyAndProbe(e) BY <2>4 DEF CopyAndProbe
  <2>5. CASE Discard(e)
    <3>3. disk' = [disk EXCEPT ![e] = FALSE] \/ disk' = disk BY <2>5 DEF Discard
    <3>1. disk' \in [Call -> BOOLEAN] BY <3>3, DiskType
    <3>2. faults' \in 0 .. MaxFaults BY <2>5 DEF Discard, Fault
    <3> QED BY <2>5, <3>1, <3>2 DEF Discard
  <2> QED BY <1>9, <2>1, <2>2, <2>3, <2>4, <2>5, <2>6 DEF Creation
<1>10. ASSUME NEW e \in Call, TimeOut(e) PROVE TypeOK'
  BY <1>10 DEF TimeOut
<1>11. ASSUME NEW e \in Call, Removal(e) PROVE TypeOK'
  <2>1. pc' \in [Call -> {"idle", "leased", "releasing", "stuck", "released", "failed"}
                        \cup Waiting]
    BY <1>11 DEF Removal, Remove, RemovalFails
  <2>2. faults' \in 0 .. MaxFaults BY <1>11 DEF Removal, Remove, RemovalFails, Fault
  <2>3. disk' = [disk EXCEPT ![e] = FALSE] \/ disk' = disk
    BY <1>11 DEF Removal, Remove, RemovalFails
  <2>4. disk' \in [Call -> BOOLEAN] BY <2>3, DiskType
  <2> QED BY <1>11, <2>1, <2>2, <2>4 DEF Removal, Remove, RemovalFails
<1>12. CASE UNCHANGED vars BY <1>12 DEF vars
<1> QED BY <1>1, <1>2, <1>3, <1>4, <1>5, <1>6, <1>7, <1>8, <1>9, <1>10, <1>11, <1>12
       DEF Next, Enter, Continue

\* While the copy of an entry is there, one of its calls has yet to release it, or failed.
ReleasedInv ==
  /\ \A c \in Call : pc[c] = "released" => at[c] \in Call /\ state[at[c]] = "resolved"
  /\ \A e \in Call : (\E c \in Call : at[c] = e) /\ cleanup[e] # "done" =>
       \E c \in Call : at[c] = e /\ pc[c] # "released"

\* A release that does not wait for the removal leaves a call that waits or has a lease.
LEMMA ReleasedStep ==
  ASSUME SessionInv, ReleasedInv, [Next]_vars
  PROVE  ReleasedInv'
<1>a. TypeOK /\ CallInv /\ EntryInv /\ MapInv BY DEF SessionInv
<1> USE ProviderSessionAssumption, <1>a
    DEF TypeOK, CallInv, ReleasedInv, Goto, GotoAll, MoveTo, callVars, entryVars, diskVars
<1>1. ASSUME NEW c \in Call, Enter(c) PROVE ReleasedInv'
  BY <1>1 DEF Enter, Refuse, CreateEntry, JoinEntry
<1>2. ASSUME NEW c \in Call, GiveUp(c) PROVE ReleasedInv'
  BY <1>2 DEF GiveUp
<1>3. ASSUME NEW c \in Call, TakeLease(c) PROVE ReleasedInv'
  BY <1>3 DEF TakeLease
<1>4. ASSUME NEW c \in Call, Leave(c) PROVE ReleasedInv'
  <2>1. Retired(at[c], state[at[c]], waiters[at[c]] - 1, leases[at[c]])
    BY <1>4, LeaveRetires
  <2>2. pc' = [pc EXCEPT ![c] = "failed"] /\ UNCHANGED <<at, state>>
    BY <1>4 DEF Leave
  <2> QED BY <2>1, <2>2 DEF Retired
<1>5. ASSUME NEW c \in Call, Release(c) PROVE ReleasedInv'
  <2>1. Retired(at[c], state[at[c]], waiters[at[c]], leases[at[c]] - 1)
    BY <1>5, ReleaseRetires
  <2>2. /\ pc[c] = "leased" /\ UNCHANGED <<at, state>>
        /\ at[c] \in Call /\ state[at[c]] = "resolved"
        /\ pc' = [pc EXCEPT ![c] = IF waiters[at[c]] = 0 /\ leases[at[c]] = 1
                                   THEN "releasing" ELSE "released"]
    BY <1>5 DEF Release
  <2>3. pc'[c] = "released" => \E d \in Call \ {c} : at[d] = at[c] /\ pc[d] # "released"
    <3> SUFFICES ASSUME pc'[c] = "released"
                 PROVE  \E d \in Call \ {c} : at[d] = at[c] /\ pc[d] # "released"
        OBVIOUS
    <3>1. /\ c \in LeasesOf(at[c]) /\ LeasesOf(at[c]) \in SUBSET Call
          /\ WaitersOf(at[c]) \in SUBSET Call
          /\ waiters[at[c]] = Cardinality(WaitersOf(at[c]))
          /\ leases[at[c]] = Cardinality(LeasesOf(at[c]))
      BY <2>2 DEF SessionInv, CountInv, LeasesOf, WaitersOf
    <3>2. CASE waiters[at[c]] # 0
      <4>1. PICK d \in WaitersOf(at[c]) : TRUE BY <3>1, <3>2, CountNat
      <4> QED BY <4>1, <2>2 DEF WaitersOf, Waiting
    <3>3. CASE leases[at[c]] # 1
      <4>1. Cardinality(LeasesOf(at[c]) \ {c}) # 0 BY <3>1, <3>3, CountRemove, CountNat
      <4>2. PICK d \in LeasesOf(at[c]) \ {c} : TRUE BY <4>1, <3>1, CountNat
      <4> QED BY <4>2 DEF LeasesOf
    <3> QED BY <2>2, <3>2, <3>3
  <2> QED BY <2>1, <2>2, <2>3 DEF Retired
<1>6. ASSUME NEW c \in Call, ReleaseAgain(c) PROVE ReleasedInv'
  <2>1. Retired(at[c], state[at[c]], waiters[at[c]], leases[at[c]])
    BY <1>6, ReleaseAgainRetires
  <2>2. /\ pc[c] = "stuck" /\ UNCHANGED <<at, state>>
        /\ at[c] \in Call /\ state[at[c]] = "resolved"
        /\ pc' = [pc EXCEPT ![c] = IF waiters[at[c]] = 0 /\ leases[at[c]] = 0
                                   THEN "releasing" ELSE "released"]
    BY <1>6 DEF ReleaseAgain
  <2>3. pc'[c] = "released" => \E d \in Call \ {c} : at[d] = at[c] /\ pc[d] # "released"
    BY <2>2, Unused DEF WaitersOf, LeasesOf, Waiting
  <2> QED BY <2>1, <2>2, <2>3 DEF Retired
<1>7. ASSUME NEW e \in Call, Creation(e) PROVE ReleasedInv'
  <2>1. CASE Resolve(e)
    <3>1. Retired(e, "resolved", waiters[e], leases[e]) BY <2>1, ResolveRetires
    <3>2. /\ UNCHANGED at /\ state' = [state EXCEPT ![e] = "resolved"]
          /\ \A c \in Call : pc'[c] = "released" <=> pc[c] = "released"
      BY <2>1 DEF Resolve
    <3> QED BY <3>1, <3>2 DEF Retired
  <2>2. CASE Reject(e) BY <2>2 DEF Reject
  <2>3. CASE CheckFails(e) \/ Reserve(e) \/ MakeDirectory(e)
    BY <2>3 DEF CheckFails, Reserve, MakeDirectory
  <2>4. CASE CopyAndProbe(e) \/ Discard(e)
    BY <2>4 DEF CopyAndProbe, Discard
  <2> QED BY <1>7, <2>1, <2>2, <2>3, <2>4 DEF Creation
<1>8. ASSUME NEW e \in Call, TimeOut(e) PROVE ReleasedInv'
  BY <1>8 DEF TimeOut
<1>9. ASSUME NEW e \in Call, Removal(e) PROVE ReleasedInv'
  BY <1>9 DEF Removal, Remove, RemovalFails
<1>10. CASE UNCHANGED vars BY <1>10 DEF vars
<1> QED BY <1>1, <1>2, <1>3, <1>4, <1>5, <1>6, <1>7, <1>8, <1>9, <1>10 DEF Next, Continue
-----------------------------------------------------------------------------
LEMMA SessionInvariant == Spec => []SessionInv
<1>1. Init => SessionInv BY SessionInit
<1>2. SessionInv /\ [Next]_vars => SessionInv'
  BY TypeStep, CallStep, EntryStep, MapStep, CountStep DEF SessionInv
<1> QED BY <1>1, <1>2, PTL DEF Spec

\* The sessions and copies of a provider keep their types.
THEOREM SessionTypes == Spec => []TypeOK
<1>1. SessionInv => TypeOK BY DEF SessionInv
<1> QED BY <1>1, SessionInvariant, PTL

\* What a call runs is not removed under it, for any number of calls that come, give up
\* and release in any order.
THEOREM LeaseIsSafe == Spec => []LeaseKeepsTheCopy
<1>1. SessionInv => LeaseKeepsTheCopy
  <2> SUFFICES ASSUME SessionInv, NEW c \in Call, pc[c] = "leased"
               PROVE  disk[at[c]] /\ cleanup[at[c]] = "none" /\ secrets > 0
      BY DEF LeaseKeepsTheCopy
  <2>1. /\ at[c] \in Call /\ state[at[c]] = "resolved" /\ c \in LeasesOf(at[c])
    BY DEF SessionInv, CallInv, LeasesOf
  <2>2. cleanup[at[c]] = "none" BY <2>1 DEF SessionInv, MapInv
  <2>3. disk[at[c]] /\ at[c] \in Resources
    BY <2>1, <2>2 DEF SessionInv, EntryInv, Resources
  <2>4. secrets # 0 /\ secrets \in Nat
    <3>1. Resources \in SUBSET Call BY DEF Resources
    <3> QED BY <2>3, <3>1, CountNat DEF SessionInv, CountInv
  <2> QED BY <2>2, <2>3, <2>4
<1> QED BY <1>1, SessionInvariant, PTL

\* Calls of one run that hold leases at the same time share one copy.
THEOREM RunSharesOneCopy == Spec => []OneCopyPerRun
<1>1. SessionInv => OneCopyPerRun BY DEF SessionInv, MapInv, OneCopyPerRun
<1> QED BY <1>1, SessionInvariant, PTL

\* No copy is on disk that is not counted, and the limit is kept, for any limit.
THEOREM CopiesBounded == Spec => []CopiesAreCounted
<1>1. SessionInv => CopiesAreCounted
  <2> SUFFICES ASSUME SessionInv PROVE CopiesAreCounted
      OBVIOUS
  <2>1. {e \in Call : disk[e]} \in SUBSET Copies BY DEF SessionInv, EntryInv
  <2>2. IsFiniteSet(Copies)
    BY ProviderSessionAssumption, FS_Subset DEF Copies, Resources
  <2> QED BY <2>1, <2>2, FS_Subset DEF SessionInv, CountInv, CopiesAreCounted
<1> QED BY <1>1, SessionInvariant, PTL

\* When all who waited for a copy have released it without an error, it is gone, for any
\* number of calls and of removals that failed before.
THEOREM ReleaseRemoves == Spec => []ReleasedIsRemoved
<1>1. Init => ReleasedInv BY ProviderSessionAssumption DEF Init, ReleasedInv
<1>2. SessionInv /\ ReleasedInv /\ [Next]_vars => ReleasedInv' BY ReleasedStep
<1>3. SessionInv /\ ReleasedInv => ReleasedIsRemoved
  BY DEF SessionInv, EntryInv, ReleasedInv, ReleasedIsRemoved
<1> QED BY <1>1, <1>2, <1>3, SessionInvariant, PTL DEF Spec

================================================================================
