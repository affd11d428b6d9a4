------------------------------ MODULE SourceCaptureProofs ------------------------------
(* Proofs about the capture of a source, for any number of paths, versions and edits:  *)
(* what a capture answers with is what the tree and the index held at one instant of   *)
(* the call.  The two rounds read the same of every path, and an epoch that has not    *)
(* moved from the one round to the other means that nobody wrote the path in between.  *)
EXTENDS MCCommands, FiniteSetTheorems, TLAPS

\* The count of SourceCapture is that of the theorems about it.
LEMMA SameCardinality == \A S : Capture!Cardinality(S) = Cardinality(S)
BY DEF Capture!Cardinality, Cardinality

\* What the user has at this moment.
Instant == [tree |-> Capture!Texts, index |-> index]

InTree == kind \in {"worktree", "repository"}

\* The call has not failed.
Alive == capturePc # "ended" \/ captureAnswer = "snapshot"

\* Where a call stands says what it captures, which round it is in and what it has read.
CaptureCallInv ==
  /\ capturePc # "ended" => captureAnswer = None /\ Instant \in seen
  /\ Alive => seen # {}
  /\ capturePc \in {"copy", "list"} => kind \in {"worktree", "repository"}
  /\ capturePc \in {"copy"} => kind = "worktree"
  /\ capturePc \in {"epochs", "recheck"} => full /\ InTree
  /\ capturePc \in {"epochs", "content"} => round = 1
  /\ capturePc \in {"compare", "recheck", "create"} => round = 2
  /\ captureAnswer = "snapshot" => capturePc = "ended" /\ round = 2
  /\ round = 1 /\ capturePc \notin {"content", "ended"} => captureContent = Capture!Nothing
  /\ ~full => captureContent = Capture!Nothing
  /\ ~InTree => epoch = Capture!Nothing /\ listed = {}
  /\ kind = "repository" => full /\ \A f \in Path : captureContent[f] # None => epoch[f] # None

\* A file whose epoch is the one that was recorded has the contents that were read.
EpochInv ==
  /\ \A f \in Path : tree[f].epoch <= changes /\ (epoch[f] # None => epoch[f] <= changes)
  /\ \A f \in Path : epoch[f] # None /\ captureContent[f] # None /\ tree[f].epoch = epoch[f] =>
        tree[f].text = captureContent[f]

\* The first material: what has been captured was in it.
Given == IF round = 1 THEN diff ELSE captureFirst.diff
Untracked == IF round = 1 THEN listed ELSE captureFirst.listed

MaterialInv ==
  /\ \A f \in Path : captureContent[f] # None => f \in Untracked \/ Given[f][2] # None
  /\ Alive /\ (capturePc \in {"recheck", "create"} \/ captureAnswer = "snapshot") /\ kind # "commit" =>
       diff = captureFirst.diff /\ listed = captureFirst.listed

\* The contents of a commit are those of its tree, which nobody edits.
CommitInv ==
  kind = "commit" =>
    /\ round = 1 /\ capturePc = "content" =>
         \A f \in Path : diff[f] = Capture!Entry(None, capturePlan[f])
    /\ \A f \in Path : captureContent[f] # None => captureContent[f] = capturePlan[f]

\* The first diff of an index was all of one moment, and the contents are read from it.
StagedInv ==
  kind = "staged" /\ Alive /\ (round = 2 \/ capturePc = "content") =>
    /\ \E s \in seen : \A f \in Path : Given[f] = Capture!Entry(capturePlan[f], s.index[f])
    /\ \A f \in Path : captureContent[f] # None => captureContent[f] = Given[f][2]

\* f was read, and is still as it was when its epoch was recorded, or the last look at the
\* epochs has found it so.
Certain(f) ==
  /\ epoch[f] # None /\ captureContent[f] # None
  /\ \/ tree[f].text # None /\ tree[f].epoch = epoch[f]
     \/ capturePc = "recheck" /\ f < captureAt
     \/ capturePc \in {"create", "ended"}

\* The second diff has come to f.
DiffAgain(f) ==
  \/ capturePc = "diff" /\ f < captureAt
  \/ capturePc \in {"list", "compare", "recheck", "create", "ended"}

\* One moment had all that is certain, and the second diff of it is of these contents.
InstantInv ==
  InTree /\ Alive /\ round = 2 =>
    /\ \E s \in seen : \A f \in Path : Certain(f) => s.tree[f] = captureContent[f]
    /\ kind = "worktree" =>
         \A f \in Path : Certain(f) /\ DiffAgain(f) /\ diff[f][2] # None =>
           diff[f] = Capture!Entry(capturePlan[f], captureContent[f])

CaptureInv ==
  /\ Capture!TypeOK /\ CaptureCallInv /\ EpochInv /\ MaterialInv
  /\ CommitInv /\ StagedInv /\ InstantInv

-----------------------------------------------------------------------------

\* A loop over the paths ends after the last one.
LEMMA NextIsThere ==
  ASSUME CaptureConstants, Capture!TypeOK
  PROVE  /\ Capture!Cardinality(Path) \in Nat
         /\ captureAt \in Path => captureAt + 1 \in Path \cup {Capture!Cardinality(Path) + 1}
         /\ 1 \in Path \cup {Capture!Cardinality(Path) + 1}
         /\ captureAt \in Nat /\ Path \subseteq Nat
<1>1. Capture!Cardinality(Path) \in Nat
  BY SameCardinality, FS_CardinalityType DEF CaptureConstants
<1>2. QED
  BY <1>1, SameCardinality DEF CaptureConstants, Capture!TypeOK

LEMMA FailTypes ==
  ASSUME CaptureConstants, Capture!TypeOK, UNCHANGED <<Capture!userVars, Capture!callVars>>,
         NEW a \in {"refused", "stale", "unsafe", "failed"}, Capture!Fail(a)
  PROVE  Capture!TypeOK'
<1>1. /\ diff' = [f \in Path |-> <<None, None>>] /\ capturePlan' \in Capture!Trees
      /\ copy' \in Capture!Trees
      /\ captureContent' \in Capture!Trees /\ epoch' = [f \in Path |-> None]
  BY DEF Capture!Fail, Capture!Trees, Capture!Nothing, Capture!NoMaterial, Capture!Unchanged
<1>2. diff' \in [Path -> (Text \cup {None}) \X (Text \cup {None})]
  BY <1>1
<1>3. /\ capturePc' = "ended" /\ captureAt' = 1 /\ round' = 1 /\ captureAnswer' = a /\ same' = FALSE
      /\ config' = "none" /\ listed' = {} /\ omitted' = {}
  BY DEF Capture!Fail
<1>4. /\ tree' = tree /\ index' = index /\ head' = head /\ filters' = filters
      /\ changes' = changes /\ kind' = kind /\ full' = full
  BY DEF Capture!userVars, Capture!callVars
<1>5. captureAt' \in Path \cup {Capture!Cardinality(Path) + 1} /\ round' \in 1 .. 2
  BY <1>3, NextIsThere
<1>6. epoch' \in [Path -> (0 .. MaxChanges) \cup {None}]
  BY <1>1
<1>7. listed' \in SUBSET Path /\ omitted' \in SUBSET Path
  BY <1>3
<1>8. QED
  BY <1>1, <1>2, <1>3, <1>4, <1>5, <1>6, <1>7 DEF Capture!TypeOK

LEMMA MoveTypes ==
  ASSUME CaptureConstants, Capture!TypeOK, NEW label,
         label \in {"list", "content", "create"},
         Capture!NextPath(label) \/ Capture!Goto(label), Capture!NextPath(label) => captureAt \in Path
  PROVE  /\ capturePc' \in {"resolve", "copy", "diff", "list", "epochs", "content", "compare",
                     "recheck", "create", "ended"}
         /\ captureAt' \in Path \cup {Capture!Cardinality(Path) + 1}
  BY SameCardinality, NextIsThere DEF Capture!NextPath, Capture!Goto, Capture!TypeOK

LEMMA CaptureTypeStep ==
  ASSUME CaptureConstants, CaptureInv, [Capture!Next]_Capture!vars
  PROVE  Capture!TypeOK'
<1>a. Capture!TypeOK
  BY DEF CaptureInv
<1>b. \A f \in Path : Capture!Trees = [Path -> Text \cup {None}]
  BY DEF Capture!Trees
<1> USE <1>a DEF Capture!userVars, Capture!callVars, Capture!materialVars, Capture!contentVars
<1>1. CASE Capture!User
  <2>1. /\ UNCHANGED <<Capture!callVars, capturePc, round, captureAt, Capture!materialVars,
                       Capture!contentVars, captureAnswer>>
        /\ changes' \in 0 .. MaxChanges /\ changes + 1 \in 0 .. MaxChanges
    BY <1>1 DEF Capture!User, Capture!Save, Capture!Stage, Capture!Commit,
    Capture!ConfigureFilters, Capture!Change, Capture!TypeOK, CaptureConstants
  <2>2. tree' \in [Path -> [text : Text \cup {None}, epoch : 0 .. MaxChanges]]
    BY <1>1, <2>1 DEF Capture!User, Capture!Save, Capture!Stage, Capture!Commit,
    Capture!ConfigureFilters, Capture!TypeOK
  <2>3. index' \in Capture!Trees /\ head' \in Capture!Trees /\ filters' \in {"none", "executable"}
    BY <1>1 DEF Capture!User, Capture!Save, Capture!Stage, Capture!Commit,
    Capture!ConfigureFilters, Capture!TypeOK, Capture!Trees
  <2>4. QED
    BY <2>1, <2>2, <2>3 DEF Capture!TypeOK
<1>2. CASE Capture!Resolve
  BY <1>2, NextIsThere DEF Capture!Resolve, Capture!Goto, Capture!TypeOK
<1>3. CASE Capture!CopyIndex
  BY <1>3, NextIsThere DEF Capture!CopyIndex, Capture!Goto, Capture!TypeOK
<1>4. CASE Capture!RefuseFilters \/ Capture!StaleContent \/ Capture!Interrupt
  BY <1>4, FailTypes DEF Capture!RefuseFilters, Capture!StaleContent, Capture!Interrupt
<1>5. CASE Capture!DiffPath
  BY <1>5, NextIsThere DEF Capture!DiffPath, Capture!DiffOf, Capture!Entry, Capture!Unchanged,
  Capture!NextPath, Capture!Goto, Capture!TypeOK, Capture!Trees, Capture!Kind
<1>6. CASE Capture!ListUntracked
  BY <1>6, NextIsThere DEF Capture!ListUntracked, Capture!Goto, Capture!TypeOK
<1>7. CASE Capture!RecordEpoch
  BY <1>7, NextIsThere DEF Capture!RecordEpoch, Capture!NextPath, Capture!Goto,
  Capture!TypeOK, Capture!Trees
<1>8. CASE Capture!CaptureContent
  BY <1>8, NextIsThere DEF Capture!CaptureContent, Capture!Omit, Capture!ReadFile,
  Capture!ReadBlob, Capture!Files, Capture!Changed, Capture!Deleted, Capture!TypeOK,
  Capture!Trees
<1>9. CASE Capture!SkipContent
  BY <1>9, NextIsThere DEF Capture!SkipContent, Capture!TypeOK
<1>10. CASE Capture!StartVerification
  BY <1>10, NextIsThere DEF Capture!StartVerification, Capture!Goto, Capture!TypeOK
<1>11. CASE Capture!Compare
  BY <1>11, NextIsThere, FailTypes DEF Capture!Compare, Capture!Goto, Capture!TypeOK
<1>12. CASE Capture!Recheck
  BY <1>12, NextIsThere, FailTypes DEF Capture!Recheck, Capture!NextPath, Capture!Goto,
  Capture!TypeOK
<1>13. CASE Capture!CreateInput
  BY <1>13, NextIsThere, FailTypes DEF Capture!CreateInput, Capture!TypeOK
<1>14. CASE UNCHANGED Capture!vars
  BY <1>14 DEF Capture!vars, Capture!TypeOK
<1>15. QED
  BY <1>1, <1>2, <1>3, <1>4, <1>5, <1>6, <1>7, <1>8, <1>9, <1>10, <1>11, <1>12, <1>13, <1>14
     DEF Capture!Next, Capture!Capture

-----------------------------------------------------------------------------
(* The steps of a call that does not fail                                  *)

SourceAgrees ==
  /\ capturePc = "compare" /\ Capture!SourceIsSame
  /\ Capture!Goto(IF full /\ InTree THEN "recheck" ELSE "create")
  /\ UNCHANGED <<round, Capture!materialVars, Capture!contentVars, captureAnswer, seen,
                 Capture!userVars, Capture!callVars>>

Verified == IF kind = "repository" THEN {f \in Path : captureContent[f] # None}
            ELSE {f \in Path : epoch[f] # None}

FileIsSame ==
  /\ capturePc = "recheck"
  /\ captureAt \in Verified => ~Capture!ReadIsStale(captureAt)
  /\ Capture!NextPath("create")
  /\ UNCHANGED <<round, Capture!materialVars, Capture!contentVars, captureAnswer, seen,
                 Capture!userVars, Capture!callVars>>

InputIsCreated ==
  /\ capturePc = "create" /\ capturePc' = "ended" /\ captureAnswer' = "snapshot"
  /\ UNCHANGED <<captureAt, round, Capture!materialVars, Capture!contentVars, seen,
                 Capture!userVars, Capture!callVars>>

CallFails ==
  /\ \E a \in {"refused", "stale", "unsafe", "failed"} : Capture!Fail(a)
  /\ UNCHANGED <<Capture!userVars, Capture!callVars>>

CallProceeds ==
  \/ Capture!Resolve \/ Capture!CopyIndex \/ Capture!DiffPath \/ Capture!ListUntracked
  \/ Capture!RecordEpoch \/ Capture!CaptureContent
  \/ Capture!SkipContent \/ Capture!StartVerification \/ SourceAgrees \/ FileIsSame \/ InputIsCreated

LEMMA StepsOfACall ==
  ASSUME [Capture!Next]_Capture!vars
  PROVE  Capture!User \/ CallProceeds \/ CallFails \/ UNCHANGED Capture!vars
<1>1. CASE Capture!Compare
  BY <1>1 DEF Capture!Compare, CallFails, CallProceeds, SourceAgrees, InTree
<1>2. CASE Capture!Recheck
  BY <1>2 DEF Capture!Recheck, CallFails, CallProceeds, FileIsSame, Verified
<1>3. CASE Capture!CreateInput
  BY <1>3 DEF Capture!CreateInput, CallFails, CallProceeds, InputIsCreated
<1>4. CASE Capture!RefuseFilters \/ Capture!StaleContent \/ Capture!Interrupt
  BY <1>4 DEF Capture!RefuseFilters, Capture!StaleContent, Capture!Interrupt, CallFails
<1>5. QED
  BY <1>1, <1>2, <1>3, <1>4 DEF Capture!Next, Capture!Capture, CallProceeds

\* What the user does to the files and the index.
LEMMA UserSteps ==
  ASSUME CaptureConstants, Capture!TypeOK, Capture!User
  PROVE  /\ UNCHANGED <<Capture!callVars, capturePc, round, captureAt, Capture!materialVars,
                        Capture!contentVars, captureAnswer>>
         /\ capturePc # "ended"
         /\ changes' = changes + 1 /\ changes \in Nat
         /\ seen \subseteq seen' /\ Instant' \in seen'
         /\ \A f \in Path : \/ tree'[f] = tree[f]
                            \/ tree'[f].epoch = changes + 1
<1>1. changes \in Nat /\ tree \in [Path -> [text : Text \cup {None}, epoch : 0 .. MaxChanges]]
  BY DEF Capture!TypeOK, CaptureConstants
<1>2. /\ UNCHANGED <<Capture!callVars, capturePc, round, captureAt, Capture!materialVars,
                     Capture!contentVars, captureAnswer>>
      /\ capturePc # "ended" /\ changes' = changes + 1
  BY DEF Capture!User, Capture!Save, Capture!Stage, Capture!Commit, Capture!ConfigureFilters,
  Capture!Change
<1>3. seen \subseteq seen' /\ Instant' \in seen'
  BY DEF Capture!User, Capture!Past, Instant, Capture!Texts
<1>4. \A f \in Path : tree'[f] = tree[f] \/ tree'[f].epoch = changes + 1
  BY <1>1 DEF Capture!User, Capture!Save, Capture!Stage, Capture!Commit,
  Capture!ConfigureFilters
<1>5. QED
  BY <1>1, <1>2, <1>3, <1>4

LEMMA FailKeeps ==
  ASSUME CaptureConstants, CaptureInv, CallFails
  PROVE  CaptureCallInv' /\ EpochInv' /\ MaterialInv' /\ CommitInv' /\ StagedInv' /\ InstantInv'
<1>1. PICK a \in {"refused", "stale", "unsafe", "failed"} : Capture!Fail(a)
  BY DEF CallFails
<1>2. /\ capturePc' = "ended" /\ captureAnswer' # "snapshot" /\ captureContent' = Capture!Nothing
      /\ epoch' = Capture!Nothing
      /\ listed' = {} /\ round' = 1
      /\ kind' = kind /\ full' = full /\ tree' = tree /\ changes' = changes
  BY <1>1 DEF Capture!Fail, CallFails, Capture!userVars, Capture!callVars
<1>3. \A f \in Path : captureContent'[f] = None /\ epoch'[f] = None
  BY <1>2 DEF Capture!Nothing
<1>4. Capture!Nothing' = Capture!Nothing
  BY DEF Capture!Nothing
<1>5. CaptureCallInv'
  <2>1. CaptureCallInv
    BY DEF CaptureInv
  <2>2. QED
    BY <1>2, <1>3, <1>4, <2>1 DEF CaptureCallInv, InTree, Alive
<1>6. EpochInv'
  BY <1>2, <1>3 DEF CaptureInv, EpochInv
<1>7. MaterialInv' /\ CommitInv' /\ StagedInv' /\ InstantInv'
  BY <1>2, <1>3 DEF MaterialInv, CommitInv, StagedInv, InstantInv, Alive
<1>8. QED
  BY <1>5, <1>6, <1>7

LEMMA UserKeeps ==
  ASSUME CaptureConstants, CaptureInv, Capture!User
  PROVE  CaptureCallInv' /\ EpochInv' /\ MaterialInv' /\ CommitInv' /\ StagedInv' /\ InstantInv'
<1>1. /\ kind' = kind /\ full' = full /\ capturePc' = capturePc /\ round' = round
      /\ captureAt' = captureAt
      /\ capturePlan' = capturePlan /\ copy' = copy /\ diff' = diff /\ listed' = listed
      /\ captureFirst' = captureFirst
      /\ epoch' = epoch /\ captureContent' = captureContent /\ captureAnswer' = captureAnswer
      /\ changes' = changes + 1 /\ changes \in Nat
      /\ seen \subseteq seen' /\ Instant' \in seen' /\ capturePc # "ended"
      /\ \A f \in Path : tree'[f] = tree[f] \/ tree'[f].epoch = changes + 1
  BY UserSteps DEF CaptureInv, Capture!callVars, Capture!materialVars, Capture!contentVars
<1>2. Capture!Nothing' = Capture!Nothing
  BY DEF Capture!Nothing
<1>3. CaptureCallInv'
  BY <1>1, <1>2 DEF CaptureInv, CaptureCallInv, InTree, Alive
<1>4. \A f \in Path : /\ tree[f].epoch \in Nat
                      /\ epoch[f] # None => epoch[f] \in Nat
  BY DEF CaptureInv, Capture!TypeOK, CaptureConstants
<1>5. EpochInv'
  BY <1>1, <1>4 DEF CaptureInv, EpochInv
<1>6. MaterialInv'
  BY <1>1 DEF CaptureInv, MaterialInv, Alive, Given, Untracked
<1>7. CommitInv'
  BY <1>1 DEF CaptureInv, CommitInv, Capture!Entry, Capture!Unchanged
<1>8. StagedInv'
  BY <1>1 DEF CaptureInv, StagedInv, Alive, Given, Capture!Entry, Capture!Unchanged
<1>9. \A f \in Path : Certain(f)' => Certain(f)
  BY <1>1, <1>4 DEF Certain, CaptureInv, EpochInv
<1>10. InstantInv'
  BY <1>1, <1>9 DEF CaptureInv, InstantInv, InTree, Alive, DiffAgain, Capture!Entry,
  Capture!Unchanged
<1>11. QED
  BY <1>3, <1>5, <1>6, <1>7, <1>8, <1>10

\* What the capture of one file does.
LEMMA ContentFacts ==
  ASSUME Capture!TypeOK, Capture!CaptureContent
  PROVE  /\ capturePc = "content" /\ full /\ captureAt \in Path /\ captureAt \in Capture!Files
         /\ UNCHANGED <<Capture!userVars, Capture!callVars, capturePc, round, Capture!materialVars,
                        captureAnswer, seen>>
         /\ DOMAIN captureContent = Path /\ DOMAIN epoch = Path
         /\ \/ captureContent' = captureContent /\ epoch' = epoch
            \/ /\ InTree /\ ~Capture!ReadIsStale(captureAt) /\ tree[captureAt].text # None
               /\ captureContent' = [captureContent EXCEPT ![captureAt] = tree[captureAt].text]
               /\ epoch' = [epoch EXCEPT ![captureAt] = IF kind = "repository" THEN tree[captureAt].epoch
                                                ELSE @]
            \/ /\ ~InTree
               /\ captureContent' = [captureContent EXCEPT ![captureAt] = diff[captureAt][2]]
               /\ epoch' = epoch
<1>1. captureAt \in Capture!Files /\ Capture!Files \subseteq Path
  BY DEF Capture!CaptureContent, Capture!Files, Capture!Changed, Capture!Deleted, Capture!TypeOK
<1>2. DOMAIN captureContent = Path /\ DOMAIN epoch = Path
  BY DEF Capture!TypeOK, Capture!Trees
<1>3. QED
  BY <1>1, <1>2 DEF Capture!CaptureContent, Capture!Omit, Capture!ReadFile, Capture!ReadBlob,
  InTree


LEMMA CallStep ==
  ASSUME CaptureConstants, CaptureInv, CallProceeds
  PROVE  CaptureCallInv'
<1>0. Capture!TypeOK /\ CaptureCallInv /\ EpochInv /\ MaterialInv /\ CommitInv /\ StagedInv /\ InstantInv
  BY DEF CaptureInv
<1> USE <1>0 DEF Capture!userVars, Capture!callVars, Capture!materialVars, Capture!contentVars
<1>1. CASE Capture!Resolve
  BY <1>1 DEF Capture!Resolve, Capture!Goto, CaptureCallInv, InTree, Instant, Capture!Texts,
  Capture!Nothing, Capture!TypeOK, Capture!Kind, Capture!Trees, Alive
<1>2. CASE Capture!CopyIndex
  BY <1>2 DEF Capture!CopyIndex, Capture!Goto, CaptureCallInv, InTree, Instant, Capture!Texts,
  Capture!Nothing, Capture!TypeOK, Capture!Kind, Capture!Trees, Alive
<1>3. CASE Capture!DiffPath
  BY <1>3 DEF Capture!DiffPath, Capture!NextPath, Capture!Goto, CaptureCallInv, InTree,
  Instant, Capture!Texts, Capture!Nothing, Capture!TypeOK, Capture!Kind, Capture!Trees, Alive
<1>4. CASE Capture!ListUntracked
  BY <1>4 DEF Capture!ListUntracked, Capture!Goto, CaptureCallInv, InTree, Instant,
  Capture!Texts, Capture!Nothing, Capture!TypeOK, Capture!Kind, Capture!Trees, Alive
<1>5. CASE Capture!RecordEpoch
  BY <1>5 DEF Capture!RecordEpoch, Capture!NextPath, Capture!Goto, CaptureCallInv, InTree,
  Instant, Capture!Texts, Capture!Nothing, Capture!TypeOK, Capture!Kind, Capture!Trees, Alive
<1>6. CASE Capture!CaptureContent
  <2>1. \A f \in Path : tree[f].epoch # None
    BY DEF Capture!TypeOK, CaptureConstants
  <2>2. /\ kind' = kind /\ full' = full /\ capturePc' = capturePc /\ round' = round
        /\ captureAnswer' = captureAnswer
        /\ listed' = listed /\ seen' = seen /\ Instant' = Instant /\ capturePc = "content" /\ full
    BY <1>6, ContentFacts DEF Instant, Capture!Texts
  <2>3. ~InTree => epoch' = epoch
    BY <1>6, ContentFacts
  <2>4. kind = "repository" => \A f \in Path : captureContent'[f] # None => epoch'[f] # None
    BY <1>6, <2>1, ContentFacts DEF CaptureCallInv, InTree
  <2>5. Capture!Nothing' = Capture!Nothing
    BY DEF Capture!Nothing
  <2>6. QED
    BY <2>2, <2>3, <2>4, <2>5 DEF CaptureCallInv, InTree, Alive
<1>7. CASE Capture!SkipContent
  BY <1>7 DEF Capture!SkipContent, CaptureCallInv, InTree, Instant, Capture!Texts,
  Capture!Nothing, Capture!TypeOK, Capture!Kind, Capture!Trees, Alive
<1>8. CASE Capture!StartVerification
  BY <1>8 DEF Capture!StartVerification, Capture!Goto, CaptureCallInv, InTree, Instant,
  Capture!Texts, Capture!Nothing, Capture!TypeOK, Capture!Kind, Capture!Trees, Alive
<1>9. CASE SourceAgrees
  BY <1>9 DEF SourceAgrees, Capture!Goto, CaptureCallInv, InTree, Instant, Capture!Texts,
  Capture!Nothing, Capture!TypeOK, Capture!Kind, Capture!Trees, Alive
<1>10. CASE FileIsSame
  BY <1>10 DEF FileIsSame, Capture!NextPath, Capture!Goto, CaptureCallInv, InTree, Instant,
  Capture!Texts, Capture!Nothing, Capture!TypeOK, Capture!Kind, Capture!Trees, Alive
<1>11. CASE InputIsCreated
  BY <1>11 DEF InputIsCreated, CaptureCallInv, InTree, Instant, Capture!Texts,
  Capture!Nothing, Capture!TypeOK, Capture!Kind, Capture!Trees, Alive
<1>12. QED
  BY <1>1, <1>2, <1>3, <1>4, <1>5, <1>6, <1>7, <1>8, <1>9, <1>10, <1>11 DEF CallProceeds

LEMMA EpochStep ==
  ASSUME CaptureConstants, CaptureInv, CallProceeds
  PROVE  EpochInv'
<1>0. Capture!TypeOK /\ CaptureCallInv /\ EpochInv /\ MaterialInv /\ CommitInv /\ StagedInv /\ InstantInv
  BY DEF CaptureInv
<1> USE <1>0 DEF Capture!userVars, Capture!callVars, Capture!materialVars, Capture!contentVars
<1>1. CASE Capture!Resolve
  BY <1>1 DEF Capture!Resolve, Capture!Goto, EpochInv, CaptureCallInv, Capture!TypeOK, InTree
<1>2. CASE Capture!CopyIndex
  BY <1>2 DEF Capture!CopyIndex, Capture!Goto, EpochInv, CaptureCallInv, Capture!TypeOK, InTree
<1>3. CASE Capture!DiffPath
  BY <1>3 DEF Capture!DiffPath, Capture!NextPath, Capture!Goto, EpochInv, CaptureCallInv,
  Capture!TypeOK, InTree
<1>4. CASE Capture!ListUntracked
  BY <1>4 DEF Capture!ListUntracked, Capture!Goto, EpochInv, CaptureCallInv, Capture!TypeOK,
  InTree
<1>5. CASE Capture!RecordEpoch
  <2>1. captureContent = Capture!Nothing /\ captureContent' = captureContent /\ tree' = tree /\ changes' = changes
    BY <1>5 DEF Capture!RecordEpoch, CaptureCallInv
  <2>2. \A f \in Path : captureContent'[f] = None
    BY <2>1 DEF Capture!Nothing
  <2>3. \A f \in Path : epoch'[f] # None => epoch'[f] = epoch[f] \/ epoch'[f] = tree[f].epoch
    BY <1>5 DEF Capture!RecordEpoch, Capture!TypeOK
  <2>4. QED
    BY <2>1, <2>2, <2>3 DEF EpochInv
<1>6. CASE Capture!CaptureContent
  <2>1. tree' = tree /\ changes' = changes
    BY <1>6 DEF Capture!CaptureContent
  <2>2. CASE captureContent' = captureContent /\ epoch' = epoch
    BY <2>1, <2>2 DEF EpochInv
  <2>3. CASE /\ InTree /\ ~Capture!ReadIsStale(captureAt) /\ tree[captureAt].text # None
             /\ captureContent' = [captureContent EXCEPT ![captureAt] = tree[captureAt].text]
             /\ epoch' = [epoch EXCEPT ![captureAt] = IF kind = "repository" THEN tree[captureAt].epoch
                                              ELSE @]
    <3>1. \A f \in Path : f # captureAt => captureContent'[f] = captureContent[f] /\ epoch'[f] = epoch[f]
      BY <1>6, <2>3, ContentFacts
    <3>2. /\ captureContent'[captureAt] = tree[captureAt].text
          /\ epoch'[captureAt] = epoch[captureAt] \/ epoch'[captureAt] = tree[captureAt].epoch
      BY <1>6, <2>3, ContentFacts
    <3>3. QED
      BY <2>1, <3>1, <3>2 DEF EpochInv
  <2>4. CASE ~InTree /\ epoch' = epoch
    <3>1. \A f \in Path : epoch'[f] = None
      BY <2>4 DEF CaptureCallInv, Capture!Nothing
    <3>2. QED
      BY <2>1, <3>1 DEF EpochInv
  <2>5. QED
    BY <1>6, <2>2, <2>3, <2>4, ContentFacts
<1>7. CASE Capture!SkipContent
  BY <1>7 DEF Capture!SkipContent, EpochInv, CaptureCallInv, Capture!TypeOK, InTree
<1>8. CASE Capture!StartVerification
  BY <1>8 DEF Capture!StartVerification, Capture!Goto, EpochInv, CaptureCallInv,
  Capture!TypeOK, InTree
<1>9. CASE SourceAgrees
  BY <1>9 DEF SourceAgrees, Capture!Goto, EpochInv, CaptureCallInv, Capture!TypeOK, InTree
<1>10. CASE FileIsSame
  BY <1>10 DEF FileIsSame, Capture!NextPath, Capture!Goto, EpochInv, CaptureCallInv,
  Capture!TypeOK, InTree
<1>11. CASE InputIsCreated
  BY <1>11 DEF InputIsCreated, EpochInv, CaptureCallInv, Capture!TypeOK, InTree
<1>12. QED
  BY <1>1, <1>2, <1>3, <1>4, <1>5, <1>6, <1>7, <1>8, <1>9, <1>10, <1>11 DEF CallProceeds

LEMMA MaterialStep ==
  ASSUME CaptureConstants, CaptureInv, CallProceeds
  PROVE  MaterialInv'
<1>0. Capture!TypeOK /\ CaptureCallInv /\ EpochInv /\ MaterialInv /\ CommitInv /\ StagedInv /\ InstantInv
  BY DEF CaptureInv
<1> USE <1>0 DEF Capture!userVars, Capture!callVars, Capture!materialVars, Capture!contentVars
<1>1. CASE Capture!Resolve
  BY <1>1 DEF Capture!Resolve, Capture!Goto, MaterialInv, Given, Untracked, CaptureCallInv,
  Alive, Capture!TypeOK, Capture!Files, Capture!Changed, Capture!Deleted, Capture!Unchanged,
  Capture!Nothing, InTree
<1>2. CASE Capture!CopyIndex
  BY <1>2 DEF Capture!CopyIndex, Capture!Goto, MaterialInv, Given, Untracked, CaptureCallInv,
  Alive, Capture!TypeOK, Capture!Files, Capture!Changed, Capture!Deleted, Capture!Unchanged,
  Capture!Nothing, InTree
<1>3. CASE Capture!DiffPath
  BY <1>3 DEF Capture!DiffPath, Capture!NextPath, Capture!Goto, MaterialInv, Given, Untracked,
  CaptureCallInv, Alive, Capture!TypeOK, Capture!Files, Capture!Changed, Capture!Deleted,
  Capture!Unchanged, Capture!Nothing, InTree
<1>4. CASE Capture!ListUntracked
  BY <1>4 DEF Capture!ListUntracked, Capture!Goto, MaterialInv, Given, Untracked,
  CaptureCallInv, Alive, Capture!TypeOK, Capture!Files, Capture!Changed, Capture!Deleted,
  Capture!Unchanged, Capture!Nothing, InTree
<1>5. CASE Capture!RecordEpoch
  BY <1>5 DEF Capture!RecordEpoch, Capture!NextPath, Capture!Goto, MaterialInv, Given,
  Untracked, CaptureCallInv, Alive, Capture!TypeOK, Capture!Files, Capture!Changed,
  Capture!Deleted, Capture!Unchanged, Capture!Nothing, InTree
<1>6. CASE Capture!CaptureContent
  <2>1. /\ capturePc = "content" /\ capturePc' = capturePc /\ round = 1 /\ round' = round
        /\ captureAnswer' = captureAnswer
        /\ diff' = diff /\ listed' = listed /\ captureFirst' = captureFirst
        /\ captureAt \in Capture!Files
        /\ captureAnswer # "snapshot"
    BY <1>6, ContentFacts DEF CaptureCallInv
  <2>2. captureAt \in listed \/ diff[captureAt][2] # None
    BY <2>1 DEF Capture!Files, Capture!Changed, Capture!Deleted
  <2>3. \A f \in Path : captureContent'[f] # None => captureContent[f] # None \/ f = captureAt
    BY <1>6, ContentFacts
  <2>4. QED
    BY <2>1, <2>2, <2>3 DEF MaterialInv, Given, Untracked, Alive
<1>7. CASE Capture!SkipContent
  BY <1>7 DEF Capture!SkipContent, MaterialInv, Given, Untracked, CaptureCallInv, Alive,
  Capture!TypeOK, Capture!Files, Capture!Changed, Capture!Deleted, Capture!Unchanged,
  Capture!Nothing, InTree
<1>8. CASE Capture!StartVerification
  <2>1. /\ round = 1 /\ round' = 2 /\ captureFirst'.diff = diff /\ captureFirst'.listed = listed
        /\ captureContent' = captureContent /\ capturePc' = "resolve"
        /\ captureAnswer' = captureAnswer /\ captureAnswer # "snapshot"
    BY <1>8 DEF Capture!StartVerification, Capture!Goto, Capture!Material, CaptureCallInv
  <2>2. QED
    BY <2>1 DEF MaterialInv, Given, Untracked, Alive
<1>9. CASE SourceAgrees
  <2>1. kind # "commit" => diff = captureFirst.diff /\ listed = captureFirst.listed
    BY <1>9 DEF SourceAgrees, Capture!SourceIsSame, Capture!Material
  <2>2. /\ round' = round /\ diff' = diff /\ listed' = listed /\ captureFirst' = captureFirst
        /\ captureContent' = captureContent /\ kind' = kind
    BY <1>9 DEF SourceAgrees
  <2>3. QED
    BY <2>1, <2>2 DEF MaterialInv, Given, Untracked
<1>10. CASE FileIsSame
  BY <1>10 DEF FileIsSame, Capture!NextPath, Capture!Goto, MaterialInv, Given, Untracked,
  CaptureCallInv, Alive, Capture!TypeOK, Capture!Files, Capture!Changed, Capture!Deleted,
  Capture!Unchanged, Capture!Nothing, InTree
<1>11. CASE InputIsCreated
  BY <1>11 DEF InputIsCreated, MaterialInv, Given, Untracked, CaptureCallInv, Alive,
  Capture!TypeOK, Capture!Files, Capture!Changed, Capture!Deleted, Capture!Unchanged,
  Capture!Nothing, InTree
<1>12. QED
  BY <1>1, <1>2, <1>3, <1>4, <1>5, <1>6, <1>7, <1>8, <1>9, <1>10, <1>11 DEF CallProceeds

\* The second text of an entry is the one it was made of, or it is missing.
LEMMA EntryParts ==
  \A from, to : /\ Capture!Entry(from, to)[2] # None => Capture!Entry(from, to) = <<from, to>>
                /\ Capture!Entry(from, None)[2] = None
                /\ Capture!Entry(None, to)[2] = to
  BY DEF Capture!Entry, Capture!Unchanged

LEMMA CommitStep ==
  ASSUME CaptureConstants, CaptureInv, CallProceeds
  PROVE  CommitInv'
<1>0. Capture!TypeOK /\ CaptureCallInv /\ EpochInv /\ MaterialInv /\ CommitInv /\ StagedInv /\ InstantInv
  BY DEF CaptureInv
<1> USE <1>0 DEF Capture!userVars, Capture!callVars, Capture!materialVars, Capture!contentVars
<1>1. CASE Capture!Resolve
  <2>1. \/ round = 1 /\ captureContent = Capture!Nothing /\ captureContent' = captureContent
        \/ round = 2 /\ capturePlan' = capturePlan /\ captureContent' = captureContent
    BY <1>1 DEF Capture!Resolve, CaptureCallInv, Capture!TypeOK
  <2>2. kind' = kind /\ capturePc' # "content"
    BY <1>1 DEF Capture!Resolve, Capture!Goto
  <2>3. QED
    BY <2>1, <2>2 DEF CommitInv, Capture!Nothing
<1>2. CASE Capture!CopyIndex
  BY <1>2 DEF Capture!CopyIndex, Capture!Goto, CommitInv, CaptureCallInv, Capture!TypeOK,
  Capture!Kind
<1>3. CASE Capture!DiffPath
  <2>1. kind' = kind /\ captureContent' = captureContent /\ capturePlan' = capturePlan
    BY <1>3 DEF Capture!DiffPath
  <2>2. kind = "commit" => diff' = [f \in Path |-> Capture!Entry(None, capturePlan[f])]
    BY <1>3 DEF Capture!DiffPath, Capture!DiffOf
  <2>3. kind = "commit" => \A f \in Path : diff'[f] = Capture!Entry(None, capturePlan[f])'
    BY <2>1, <2>2 DEF Capture!Entry, Capture!Unchanged
  <2>4. QED
    BY <2>1, <2>3 DEF CommitInv
<1>4. CASE Capture!ListUntracked
  BY <1>4 DEF Capture!ListUntracked, Capture!Goto, CommitInv, CaptureCallInv, Capture!TypeOK,
  Capture!Kind
<1>5. CASE Capture!RecordEpoch
  BY <1>5 DEF Capture!RecordEpoch, CommitInv, CaptureCallInv, InTree
<1>6. CASE Capture!CaptureContent
  <2>1. SUFFICES ASSUME kind = "commit"
                 PROVE  CommitInv'
    BY <1>6, ContentFacts DEF CommitInv
  <2>2. /\ round = 1 /\ capturePc = "content" /\ round' = round /\ capturePc' = capturePc
        /\ diff' = diff
        /\ capturePlan' = capturePlan
    BY <1>6, ContentFacts DEF CaptureCallInv
  <2>3. \A f \in Path : diff[f] = Capture!Entry(None, capturePlan[f])
    BY <2>1, <2>2 DEF CommitInv
  <2>4. \A f \in Path : diff'[f] = Capture!Entry(None, capturePlan[f])'
    BY <2>2, <2>3 DEF Capture!Entry, Capture!Unchanged
  <2>5. \A f \in Path : captureContent'[f] = captureContent[f] \/ captureContent'[f] = capturePlan[f]
    BY <1>6, <2>1, <2>3, ContentFacts, EntryParts DEF InTree
  <2>6. QED
    BY <2>1, <2>2, <2>4, <2>5 DEF CommitInv
<1>7. CASE Capture!SkipContent
  BY <1>7 DEF Capture!SkipContent, CommitInv, CaptureCallInv, Capture!TypeOK, Capture!Kind
<1>8. CASE Capture!StartVerification
  BY <1>8 DEF Capture!StartVerification, Capture!Goto, CommitInv, CaptureCallInv,
  Capture!TypeOK, Capture!Kind
<1>9. CASE SourceAgrees
  BY <1>9 DEF SourceAgrees, Capture!Goto, CommitInv, CaptureCallInv, Capture!TypeOK,
  Capture!Kind
<1>10. CASE FileIsSame
  BY <1>10 DEF FileIsSame, Capture!NextPath, Capture!Goto, CommitInv, CaptureCallInv,
  Capture!TypeOK, Capture!Kind
<1>11. CASE InputIsCreated
  BY <1>11 DEF InputIsCreated, CommitInv, CaptureCallInv, Capture!TypeOK, Capture!Kind
<1>12. QED
  BY <1>1, <1>2, <1>3, <1>4, <1>5, <1>6, <1>7, <1>8, <1>9, <1>10, <1>11 DEF CallProceeds

LEMMA StagedStep ==
  ASSUME CaptureConstants, CaptureInv, CallProceeds
  PROVE  StagedInv'
<1>0. Capture!TypeOK /\ CaptureCallInv /\ EpochInv /\ MaterialInv /\ CommitInv /\ StagedInv /\ InstantInv
  BY DEF CaptureInv
<1> USE <1>0 DEF Capture!userVars, Capture!callVars, Capture!materialVars, Capture!contentVars
<1>1. CASE Capture!Resolve
  BY <1>1 DEF Capture!Resolve, Capture!Goto, StagedInv, CaptureCallInv, Given, Alive,
  Capture!TypeOK, Capture!Kind, InTree, Capture!Nothing
<1>2. CASE Capture!CopyIndex
  BY <1>2 DEF Capture!CopyIndex, Capture!Goto, StagedInv, CaptureCallInv, Given, Alive,
  Capture!TypeOK, Capture!Kind, InTree, Capture!Nothing
<1>3. CASE Capture!DiffPath
  <2>1. SUFFICES ASSUME kind = "staged", Alive', round' = 2 \/ capturePc' = "content"
                 PROVE  StagedInv'
    BY <1>3 DEF Capture!DiffPath, StagedInv
  <2>2. /\ capturePlan' = capturePlan /\ captureContent' = captureContent /\ seen' = seen
        /\ captureFirst' = captureFirst
        /\ round' = round /\ capturePc = "diff" /\ Instant \in seen /\ kind' = kind
        /\ captureAnswer' = captureAnswer
        /\ capturePc # "ended"
    BY <1>3 DEF Capture!DiffPath, CaptureCallInv
  <2>3. CASE round = 1
    <3>1. diff' = [f \in Path |-> Capture!Entry(capturePlan[f], index[f])]
      BY <1>3, <2>1 DEF Capture!DiffPath, Capture!DiffOf
    <3>2. \A f \in Path : Given'[f] = Capture!Entry(capturePlan[f], Instant.index[f])'
      BY <1>3, <2>2, <2>3, <3>1 DEF Given, Instant, Capture!Entry, Capture!Unchanged,
      Capture!DiffPath
    <3>3. Instant' \in seen'
      BY <1>3, <2>2 DEF Instant, Capture!Texts, Capture!DiffPath
    <3>4. \A f \in Path : captureContent'[f] = None
      BY <2>2, <2>3 DEF CaptureCallInv, Capture!Nothing
    <3>5. QED
      BY <3>2, <3>3, <3>4 DEF StagedInv, Capture!Entry, Capture!Unchanged
  <2>4. CASE round = 2
    <3>1. Given' = Given
      BY <2>2, <2>4 DEF Given
    <3>2. QED
      BY <2>1, <2>2, <2>4, <3>1 DEF StagedInv, Alive, Capture!Entry, Capture!Unchanged
  <2>5. QED
    BY <2>3, <2>4 DEF Capture!TypeOK
<1>4. CASE Capture!ListUntracked
  BY <1>4 DEF Capture!ListUntracked, Capture!Goto, StagedInv, CaptureCallInv, Given, Alive,
  Capture!TypeOK, Capture!Kind, InTree, Capture!Nothing
<1>5. CASE Capture!RecordEpoch
  BY <1>5 DEF Capture!RecordEpoch, Capture!NextPath, Capture!Goto, StagedInv, CaptureCallInv,
  Given, Alive, Capture!TypeOK, Capture!Kind, InTree, Capture!Nothing
<1>6. CASE Capture!CaptureContent
  <2>1. SUFFICES ASSUME kind = "staged"
                 PROVE  StagedInv'
    BY <1>6, ContentFacts DEF StagedInv
  <2>2. /\ round = 1 /\ capturePc = "content" /\ Given = diff /\ Given' = diff
        /\ capturePlan' = capturePlan /\ seen' = seen /\ Alive
    BY <1>6, ContentFacts DEF CaptureCallInv, Given, Alive
  <2>3. PICK s \in seen : \A f \in Path : diff[f] = Capture!Entry(capturePlan[f], s.index[f])
    BY <2>1, <2>2 DEF StagedInv
  <2>4. \A f \in Path : captureContent'[f] = captureContent[f] \/ captureContent'[f] = diff[f][2]
    BY <1>6, <2>1, ContentFacts DEF InTree
  <2>5. \A f \in Path : captureContent'[f] # None => captureContent'[f] = diff[f][2]
    BY <2>1, <2>2, <2>4 DEF StagedInv
  <2>6. QED
    BY <2>2, <2>3, <2>5 DEF StagedInv, Capture!Entry, Capture!Unchanged
<1>7. CASE Capture!SkipContent
  BY <1>7 DEF Capture!SkipContent, StagedInv, CaptureCallInv, Given, Alive, Capture!TypeOK,
  Capture!Kind, InTree, Capture!Nothing
<1>8. CASE Capture!StartVerification
  <2>1. /\ round = 1 /\ capturePc = "content" /\ round' = 2 /\ captureFirst'.diff = diff
        /\ kind' = kind
        /\ capturePlan' = capturePlan /\ captureContent' = captureContent /\ seen' = seen /\ Alive
    BY <1>8 DEF Capture!StartVerification, Capture!Material, CaptureCallInv, Alive
  <2>2. Given = diff /\ Given' = diff
    BY <2>1 DEF Given
  <2>3. QED
    BY <2>1, <2>2 DEF StagedInv, Capture!Entry, Capture!Unchanged
<1>9. CASE SourceAgrees
  BY <1>9 DEF SourceAgrees, Capture!Goto, StagedInv, CaptureCallInv, Given, Alive,
  Capture!TypeOK, Capture!Kind, InTree, Capture!Nothing
<1>10. CASE FileIsSame
  BY <1>10 DEF FileIsSame, Capture!NextPath, Capture!Goto, StagedInv, CaptureCallInv, Given,
  Alive, Capture!TypeOK, Capture!Kind, InTree, Capture!Nothing
<1>11. CASE InputIsCreated
  BY <1>11 DEF InputIsCreated, StagedInv, CaptureCallInv, Given, Alive, Capture!TypeOK,
  Capture!Kind, InTree, Capture!Nothing
<1>12. QED
  BY <1>1, <1>2, <1>3, <1>4, <1>5, <1>6, <1>7, <1>8, <1>9, <1>10, <1>11 DEF CallProceeds

\* What is certain of a file, and stays as it is seen.
LEMMA InstantStays ==
  ASSUME CaptureInv, NEW k, k \in {"worktree", "repository"}, kind = k,
         UNCHANGED <<kind, round, capturePlan, tree, epoch, captureContent, seen, diff>>, Alive,
         \A f \in Path : Certain(f)' => Certain(f),
         \A f \in Path : Certain(f)' /\ DiffAgain(f)' => DiffAgain(f)
  PROVE  InstantInv'
<1>1. InstantInv
  BY DEF CaptureInv
<1>2. QED
  BY <1>1 DEF InstantInv, InTree, Capture!Entry, Capture!Unchanged

LEMMA InstantStep ==
  ASSUME CaptureConstants, CaptureInv, CallProceeds
  PROVE  InstantInv'
<1>0. Capture!TypeOK /\ CaptureCallInv /\ EpochInv /\ MaterialInv /\ InstantInv
  BY DEF CaptureInv
<1>a. SUFFICES ASSUME InTree', Alive', round' = 2
               PROVE  InstantInv'
  BY DEF InstantInv
<1>b. \A f \in Path : f \in Nat /\ ~(f < 1)
  <2>1. Path = 1 .. Capture!Cardinality(Path) /\ Capture!Cardinality(Path) \in Nat
    BY SameCardinality, NextIsThere, <1>0 DEF CaptureConstants
  <2>2. QED
    BY <2>1
<1>c. kind \in {"worktree", "repository"} /\ kind' = kind
  BY <1>a DEF InTree, CallProceeds, Capture!Resolve, Capture!CopyIndex, Capture!DiffPath,
  Capture!ListUntracked, Capture!RecordEpoch,
     Capture!CaptureContent, Capture!SkipContent, Capture!StartVerification, SourceAgrees,
     FileIsSame, InputIsCreated,
     Capture!callVars
<1> USE <1>0 DEF Capture!userVars, Capture!callVars, Capture!materialVars, Capture!contentVars
<1>1. CASE Capture!Resolve
  <2>1. /\ UNCHANGED <<kind, round, capturePlan, tree, epoch, captureContent, seen, diff>> /\ Alive
        /\ capturePc = "resolve" /\ capturePc' \in {"copy", "diff"} /\ captureAt' = 1
    BY <1>1, <1>a, <1>c DEF Capture!Resolve, Capture!Goto, Alive
  <2>2. QED
    BY <2>1, <1>b, <1>c, InstantStays DEF Certain, DiffAgain
<1>2. CASE Capture!CopyIndex
  <2>1. /\ UNCHANGED <<kind, round, capturePlan, tree, epoch, captureContent, seen, diff>> /\ Alive
        /\ capturePc = "copy" /\ capturePc' = "diff" /\ captureAt' = 1
    BY <1>2 DEF Capture!CopyIndex, Capture!Goto, Alive
  <2>2. QED
    BY <2>1, <1>b, <1>c, InstantStays DEF Certain, DiffAgain
<1>3. CASE Capture!DiffPath
  <2>1. /\ UNCHANGED <<kind, round, capturePlan, tree, epoch, captureContent, seen, copy>> /\ Alive
        /\ round = 2
        /\ capturePc = "diff" /\ capturePc' \in {"diff", "list"}
    BY <1>3, <1>a, <1>c DEF Capture!DiffPath, Capture!NextPath, Capture!Goto, Alive
  <2>2. \A f \in Path : Certain(f)' => Certain(f)
    BY <2>1 DEF Certain
  <2>3. PICK s \in seen : \A f \in Path : Certain(f) => s.tree[f] = captureContent[f]
    BY <1>a, <1>c, <2>1 DEF InstantInv, InTree
  <2>4. \A f \in Path : Certain(f)' => s.tree[f] = captureContent'[f]
    BY <2>1, <2>2, <2>3
  <2>5. ASSUME kind = "worktree", NEW f \in Path, Certain(f)', DiffAgain(f)', diff'[f][2] # None
        PROVE  diff'[f] = Capture!Entry(capturePlan[f], captureContent[f])
    <3>1. Certain(f)
      BY <2>2, <2>5
    <3>2. /\ diff' = [diff EXCEPT ![captureAt] = Capture!DiffOf(captureAt)] /\ DOMAIN diff = Path
          /\ \/ captureAt + 1 \in Path /\ captureAt' = captureAt + 1 /\ capturePc' = "diff"
             \/ captureAt + 1 \notin Path
      BY <1>3, <2>1, <2>5 DEF Capture!DiffPath, Capture!NextPath, Capture!Goto, Capture!TypeOK
    <3>3. CASE f = captureAt
      <4>1. /\ diff'[f] = Capture!Entry(capturePlan[f], IF copy[f] = None THEN None ELSE tree[f].text)
            /\ diff'[f][2] # None
        BY <2>5, <3>2, <3>3 DEF Capture!DiffOf
      <4>2. copy[f] # None
        BY <4>1, EntryParts
      <4>3. tree[f].text = captureContent[f]
        BY <2>1, <3>1 DEF Certain, EpochInv
      <4>4. QED
        BY <4>1, <4>2, <4>3
    <3>4. CASE f # captureAt
      <4>1. f < captureAt
        <5>1. captureAt \in Nat /\ f \in Nat /\ Path = 1 .. Capture!Cardinality(Path) /\ Capture!Cardinality(Path) \in Nat
          BY SameCardinality, NextIsThere DEF CaptureConstants
        <5>2. captureAt \in Path \cup {Capture!Cardinality(Path) + 1}
          BY DEF Capture!TypeOK
        <5>3. QED
          BY <2>5, <3>2, <3>4, <5>1, <5>2 DEF DiffAgain
      <4>2. diff'[f] = diff[f] /\ DiffAgain(f)
        BY <2>1, <3>2, <3>4, <4>1 DEF DiffAgain
      <4>3. QED
        BY <1>c, <2>1, <2>5, <3>1, <4>2 DEF InstantInv, InTree
    <3>5. QED
      BY <3>3, <3>4
  <2>6. QED
    BY <2>1, <2>3, <2>4, <2>5 DEF InstantInv, Capture!Entry, Capture!Unchanged
<1>4. CASE Capture!ListUntracked
  <2>1. /\ UNCHANGED <<kind, round, capturePlan, tree, epoch, captureContent, seen, diff>> /\ Alive
        /\ capturePc = "list" /\ capturePc' = "compare"
    BY <1>4, <1>a DEF Capture!ListUntracked, Capture!Goto, Alive
  <2>2. QED
    BY <2>1, <1>c, InstantStays DEF Certain, DiffAgain
<1>5. CASE Capture!RecordEpoch \/ Capture!CaptureContent \/ Capture!SkipContent
  BY <1>5, <1>a DEF Capture!RecordEpoch, Capture!CaptureContent, Capture!SkipContent,
  CaptureCallInv
<1>6. CASE Capture!StartVerification
  <2>1. /\ UNCHANGED <<kind, capturePlan, tree, epoch, captureContent, seen, diff>>
        /\ capturePc' = "resolve"
        /\ Instant \in seen
    BY <1>6 DEF Capture!StartVerification, Capture!Goto, CaptureCallInv
  <2>2. \A f \in Path : Certain(f)' => Instant.tree[f] = captureContent'[f]
    BY <2>1 DEF Certain, EpochInv, Instant, Capture!Texts
  <2>3. \A f \in Path : ~DiffAgain(f)'
    BY <2>1 DEF DiffAgain
  <2>4. QED
    BY <2>1, <2>2, <2>3 DEF InstantInv
<1>7. CASE SourceAgrees
  <2>1. /\ UNCHANGED <<kind, round, capturePlan, tree, epoch, captureContent, seen, diff>> /\ Alive
        /\ capturePc = "compare" /\ capturePc' = (IF full THEN "recheck" ELSE "create")
        /\ captureAt' = 1
    BY <1>7, <1>c DEF SourceAgrees, Capture!Goto, Alive, InTree
  <2>2. ~full => \A f \in Path : captureContent'[f] = None
    BY <2>1 DEF CaptureCallInv, Capture!Nothing
  <2>3. \A f \in Path : Certain(f)' => Certain(f)
    BY <2>1, <2>2, <1>b DEF Certain
  <2>4. QED
    BY <2>1, <2>3, <1>c, InstantStays DEF DiffAgain
<1>8. CASE FileIsSame
  <2>1. /\ UNCHANGED <<kind, round, capturePlan, tree, epoch, captureContent, seen, diff>> /\ Alive
        /\ capturePc = "recheck"
        /\ \/ captureAt + 1 \in Path /\ captureAt' = captureAt + 1 /\ capturePc' = "recheck"
           \/ captureAt + 1 \notin Path /\ capturePc' = "create"
        /\ captureAt \in Verified => ~Capture!ReadIsStale(captureAt)
    BY <1>8 DEF FileIsSame, Capture!NextPath, Capture!Goto, Alive
  <2>2. ASSUME NEW f \in Path, Certain(f)'
        PROVE  Certain(f)
    <3>1. captureAt \in Nat /\ f \in Nat /\ Path = 1 .. Capture!Cardinality(Path) /\ Capture!Cardinality(Path) \in Nat
      BY SameCardinality, NextIsThere DEF CaptureConstants
    <3>2. captureAt \in Path \cup {Capture!Cardinality(Path) + 1}
      BY DEF Capture!TypeOK
    <3>3. f <= captureAt
      \/ (tree[f].text # None /\ tree[f].epoch = epoch[f])
      BY <2>1, <2>2, <3>1, <3>2 DEF Certain
    <3>4. epoch[f] # None /\ captureContent[f] # None
      BY <2>1, <2>2 DEF Certain
    <3>5. CASE f = captureAt
      <4>1. f \in Verified
        BY <3>4 DEF Verified
      <4>2. ~Capture!ReadIsStale(f)
        BY <2>1, <3>5, <4>1
      <4>3. QED
        BY <3>4, <4>2 DEF Capture!ReadIsStale, Certain
    <3>6. CASE f # captureAt
      BY <2>1, <3>1, <3>3, <3>4, <3>6 DEF Certain
    <3>7. QED
      BY <3>5, <3>6
  <2>3. QED
    BY <2>1, <2>2, <1>c, InstantStays DEF DiffAgain
<1>9. CASE InputIsCreated
  <2>1. /\ UNCHANGED <<kind, round, capturePlan, tree, epoch, captureContent, seen, diff>> /\ Alive
        /\ capturePc = "create" /\ capturePc' = "ended"
    BY <1>9 DEF InputIsCreated, Alive
  <2>2. QED
    BY <2>1, <1>c, InstantStays DEF Certain, DiffAgain
<1>10. QED
  BY <1>1, <1>2, <1>3, <1>4, <1>5, <1>6, <1>7, <1>8, <1>9 DEF CallProceeds

LEMMA CaptureInvStep ==
  ASSUME CaptureConstants, CaptureInv, [Capture!Next]_Capture!vars
  PROVE  CaptureInv'
<1>1. Capture!TypeOK'
  BY CaptureTypeStep
<1>2. CASE UNCHANGED Capture!vars
  <2>1. CaptureCallInv' /\ EpochInv' /\ MaterialInv'
    BY <1>2 DEF Capture!vars, CaptureInv, CaptureCallInv, EpochInv, MaterialInv, Given,
    Untracked, Alive, Instant,
       Capture!Texts, Capture!Nothing, InTree
  <2>2. CommitInv' /\ StagedInv'
    BY <1>2 DEF Capture!vars, CaptureInv, CommitInv, StagedInv, Given, Alive, Capture!Entry,
    Capture!Unchanged
  <2>3. InstantInv'
    BY <1>2 DEF Capture!vars, CaptureInv, InstantInv, Alive, Capture!Entry, Capture!Unchanged,
    InTree, Certain, DiffAgain
  <2>4. QED
    BY <1>1, <2>1, <2>2, <2>3 DEF CaptureInv
<1>3. QED
  BY <1>1, <1>2, StepsOfACall, UserKeeps, FailKeeps, CallStep, EpochStep, MaterialStep,
  CommitStep,
     StagedStep, InstantStep DEF CaptureInv

LEMMA CaptureInvInit ==
  ASSUME CaptureConstants, Capture!Init
  PROVE  CaptureInv
<1>1. /\ head \in Capture!Trees /\ index \in Capture!Trees
      /\ \E now \in [Path -> Text] : tree = [f \in Path |-> [text |-> now[f], epoch |-> 0]]
  BY DEF Capture!Init, Capture!Trees
<1>2. tree \in [Path -> [text : Text \cup {None}, epoch : 0 .. MaxChanges]]
  BY <1>1 DEF CaptureConstants
<1>3. /\ diff = [f \in Path |-> <<None, None>>] /\ capturePlan \in Capture!Trees
      /\ copy \in Capture!Trees
      /\ captureContent \in Capture!Trees /\ epoch = [f \in Path |-> None]
  BY DEF Capture!Init, Capture!Trees, Capture!Nothing, Capture!NoMaterial, Capture!Unchanged
<1>4. Capture!TypeOK
  <2>1. captureAt \in Path \cup {Capture!Cardinality(Path) + 1}
    <3>1. Capture!Cardinality(Path) \in Nat
      BY SameCardinality, FS_CardinalityType DEF CaptureConstants
    <3>2. QED
      BY <3>1, SameCardinality DEF Capture!Init, CaptureConstants
  <2>2. /\ diff \in [Path -> (Text \cup {None}) \X (Text \cup {None})]
        /\ epoch \in [Path -> (0 .. MaxChanges) \cup {None}]
    BY <1>3
  <2>3. changes \in 0 .. MaxChanges /\ round \in 1 .. 2
    BY DEF Capture!Init, CaptureConstants
  <2>4. QED
    BY <1>1, <1>2, <1>3, <2>1, <2>2, <2>3 DEF Capture!Init, Capture!TypeOK
<1>5. \A f \in Path : captureContent[f] = None /\ epoch[f] = None /\ tree[f].epoch = 0
  BY <1>1 DEF Capture!Init, Capture!Nothing
<1>6. CaptureCallInv
  BY <1>5 DEF Capture!Init, CaptureCallInv, Instant, Capture!Texts, InTree, Capture!Nothing,
  Alive, CaptureConstants
<1>7. EpochInv
  BY <1>5 DEF Capture!Init, EpochInv
<1>8. MaterialInv /\ CommitInv
  BY <1>5 DEF Capture!Init, MaterialInv, CommitInv, CaptureConstants
<1>9. StagedInv /\ InstantInv
  BY DEF Capture!Init, StagedInv, InstantInv
<1>10. QED
  BY <1>4, <1>6, <1>7, <1>8, <1>9 DEF CaptureInv

LEMMA InstantOfASnapshot ==
  ASSUME CaptureConstants, CaptureInv
  PROVE  Capture!SnapshotIsOneInstant
<1>0. Capture!TypeOK /\ CaptureCallInv /\ MaterialInv /\ CommitInv /\ StagedInv /\ InstantInv
  BY DEF CaptureInv
<1>1. SUFFICES ASSUME captureAnswer = "snapshot"
               PROVE  \E s \in seen : \A f \in Capture!Captured :
                        kind # "worktree" \/ epoch[f] # None => Capture!Shows(s, f)
  BY DEF Capture!SnapshotIsOneInstant
<1>2. capturePc = "ended" /\ round = 2 /\ Alive
  BY <1>0, <1>1 DEF CaptureCallInv, Alive
<1>3. CASE InTree
  <2>1. PICK s \in seen : \A f \in Path : Certain(f) => s.tree[f] = captureContent[f]
    BY <1>0, <1>2, <1>3 DEF InstantInv
  <2>2. ASSUME NEW f \in Capture!Captured, epoch[f] # None
        PROVE  Capture!Shows(s, f)
    <3>1. f \in Path /\ captureContent[f] # None /\ Certain(f) /\ DiffAgain(f)
      BY <1>2, <2>2 DEF Capture!Captured, Certain, DiffAgain
    <3>2. captureContent[f] = s.tree[f]
      BY <2>1, <3>1
    <3>3. kind = "worktree"
               => f \in captureFirst.listed \/ captureFirst.diff[f] = Capture!Entry(capturePlan[f], s.tree[f])
      <4>1. f \in captureFirst.listed \/ captureFirst.diff[f][2] # None
        BY <1>0, <1>2, <3>1 DEF MaterialInv, Given, Untracked
      <4>2. kind = "worktree" => diff = captureFirst.diff
        BY <1>0, <1>1, <1>2 DEF MaterialInv
      <4>3. QED
        BY <1>0, <1>2, <1>3, <3>1, <3>2, <4>1, <4>2 DEF InstantInv
    <3>4. QED
      BY <1>3, <3>2, <3>3 DEF Capture!Shows, InTree
  <2>3. \A f \in Capture!Captured : kind = "repository" => epoch[f] # None
    BY <1>0 DEF CaptureCallInv, Capture!Captured
  <2>4. QED
    BY <1>3, <2>2, <2>3 DEF InTree
<1>4. CASE kind = "staged"
  <2>1. PICK s \in seen : \A f \in Path : captureFirst.diff[f] = Capture!Entry(capturePlan[f], s.index[f])
    BY <1>0, <1>2, <1>4 DEF StagedInv, Given
  <2>2. ASSUME NEW f \in Capture!Captured
        PROVE  Capture!Shows(s, f)
    <3>1. f \in Path /\ captureContent[f] # None /\ captureContent[f] = captureFirst.diff[f][2]
      BY <1>0, <1>2, <1>4 DEF StagedInv, Given, Capture!Captured
    <3>2. captureFirst.diff[f] = Capture!Entry(capturePlan[f], s.index[f])
      BY <2>1, <3>1
    <3>3. captureFirst.diff[f] = <<capturePlan[f], s.index[f]>>
      BY <3>1, <3>2, EntryParts
    <3>4. QED
      BY <1>4, <3>1, <3>2, <3>3 DEF Capture!Shows
  <2>3. QED
    BY <2>2
<1>5. CASE kind = "commit"
  <2>1. \A f \in Capture!Captured, s \in seen : Capture!Shows(s, f)
    BY <1>0, <1>5 DEF CommitInv, Capture!Captured, Capture!Shows
  <2>2. seen # {}
    BY <1>0, <1>2 DEF CaptureCallInv
  <2>3. QED
    BY <2>1, <2>2
<1>6. QED
  BY <1>0, <1>3, <1>4, <1>5 DEF Capture!TypeOK, Capture!Kind, InTree

-----------------------------------------------------------------------------
(* The theorem                                                             *)

\* The inductive invariant holds throughout the behaviours of this module.
LEMMA CapturesInvariant == MCSpec => [](subject = "capture" => CaptureInv)
<1> DEFINE Inv == subject = "capture" => CaptureInv
<1>1. MCInit => Inv
  BY CommandsAssumption, CaptureInvInit DEF MCInit
<1>2. Inv /\ [MCNext]_all => Inv'
  <2>1. SUFFICES ASSUME Inv, [MCNext]_all, subject' = "capture"
                 PROVE  CaptureInv'
    OBVIOUS
  <2>2. subject = "capture" /\ [Capture!Next]_Capture!vars
    BY <2>1 DEF MCNext, all, captureVars, Capture!vars
  <2>3. QED
    BY <2>1, <2>2, CommandsAssumption, CaptureInvStep
<1>3. QED
  BY <1>1, <1>2, PTL DEF MCSpec

\* The diff and the contents that are reviewed are of one instant of the capture.
THEOREM OneInstant == MCSpec => []SnapshotIsOneInstant
<1>1. (subject = "capture" => CaptureInv) => SnapshotIsOneInstant
  BY CommandsAssumption, InstantOfASnapshot DEF SnapshotIsOneInstant
<1>2. QED
  BY <1>1, CapturesInvariant, PTL
================================================================================
