----------------------------- MODULE SourceCapture -----------------------------
(***************************************************************************)
(* The capture of what is reviewed (git/inputs.ts, diff.ts,                *)
(* content-capture.ts, safe-worktree-read.ts, repository-manifest.ts).     *)
(* A capture takes many calls of git and of the file system, while the     *)
(* user saves files, stages them, commits and changes the configuration of *)
(* filters.  It reads the material once, then the contents, then verifies  *)
(* that all of it is as it was, and says "stale" if it is not.             *)
(*                                                                         *)
(* Commits and blobs are immutable: a commit is the tree it holds, a blob  *)
(* its text.  The identity of a file (device, inode, size, mtime, ctime)   *)
(* is its epoch, a number that every change of the file raises.            *)
(***************************************************************************)
EXTENDS Naturals, FiniteSets

CONSTANTS
  Path,         \* the paths 1 .. n, in the order in which git visits them
  Text,         \* contents of files
  None,
  MaxFiles,     \* MAX_CAPTURED_CONTENT_FILES, maxFiles of a repository
  MaxChanges    \* bound: steps of the user during the capture

VARIABLES
  tree,      \* tree[f]: text and epoch of the file f of the work tree
  index,     \* index[f]: what is staged for f, or None
  head,      \* the tree of the commit that the revision names
  filters,   \* the filter drivers of git's configuration: none, or executable ones
  changes,
  kind,
  full,      \* contents are wanted: captureLocalGitReviewInput
  pc,
  round,     \* 1: the capture; 2: verifySource
  at,        \* the path at which the loop of pc is
  plan,      \* resolvedHead
  same,      \* the revision was resolved to the same commit again
  copy,      \* the copy of the index in the isolated view
  config,    \* what filterSafety has read
  diff,      \* diff[f]: the change of f that git has printed, <<from, to>>
  listed,    \* the paths that git has listed as untracked
  first,     \* the material of the first round
  epoch,     \* epoch[f]: the identity that was recorded for f, or None
  content,   \* content[f]: the text that was captured, or None
  omitted,   \* the paths of the exclusions
  answer,
  seen       \* history: the states of the work tree and of the index during the call

vars == <<tree, index, head, filters, changes, kind, full, pc, round, at, plan, same, copy,
          config, diff, listed, first, epoch, content, omitted, answer, seen>>
userVars == <<tree, index, head, filters, changes>>
callVars == <<kind, full>>
materialVars == <<plan, same, copy, config, diff, listed, first>>
contentVars == <<epoch, content, omitted>>

Kind == {"worktree", "staged", "commit", "repository"}
Trees == [Path -> Text \cup {None}]
Nothing == [f \in Path |-> None]
Unchanged == <<None, None>>
NoMaterial == [diff |-> [f \in Path |-> Unchanged], listed |-> {}, config |-> "none"]

TypeOK ==
  /\ tree \in [Path -> [text : Text \cup {None}, epoch : 0 .. MaxChanges]]
  /\ index \in Trees /\ head \in Trees /\ plan \in Trees /\ copy \in Trees
  /\ filters \in {"none", "executable"} /\ config \in {"none", "executable"}
  /\ changes \in 0 .. MaxChanges
  /\ kind \in Kind
  /\ full \in BOOLEAN /\ same \in BOOLEAN
  /\ pc \in {"resolve", "copy", "diff", "list", "epochs", "content", "compare",
             "recheck", "create", "ended"}
  /\ round \in 1 .. 2
  /\ at \in Path \cup {Cardinality(Path) + 1}
  /\ diff \in [Path -> (Text \cup {None}) \X (Text \cup {None})]
  /\ listed \in SUBSET Path /\ omitted \in SUBSET Path
  /\ epoch \in [Path -> (0 .. MaxChanges) \cup {None}]
  /\ content \in Trees
  /\ answer \in {None, "snapshot", "refused", "stale", "unsafe", "failed"}

Texts == [f \in Path |-> tree[f].text]
Goto(label) == pc' = label /\ at' = 1

\* What a failed capture has collected is dropped.
Fail(a) ==
  /\ pc' = "ended" /\ at' = 1 /\ round' = 1
  /\ answer' = a
  /\ plan' = Nothing /\ same' = FALSE /\ copy' = Nothing /\ config' = "none"
  /\ diff' = NoMaterial.diff /\ listed' = {} /\ first' = NoMaterial
  /\ epoch' = Nothing /\ content' = Nothing /\ omitted' = {}
  /\ seen' = {}

\* The loop of pc: the next path, or what comes after the last one.
NextPath(label) ==
  IF at + 1 \in Path THEN at' = at + 1 /\ UNCHANGED pc ELSE Goto(label)

Past == seen' = seen \cup {[tree |-> [f \in Path |-> tree'[f].text], index |-> index']}

-----------------------------------------------------------------------------
(* The user                                                                *)

Change ==
  /\ pc # "ended"
  /\ changes < MaxChanges
  /\ changes' = changes + 1
  /\ UNCHANGED <<callVars, pc, round, at, materialVars, contentVars, answer>>

Save ==
  /\ Change
  /\ \E f \in Path, t \in Text \cup {None} :
       /\ t # tree[f].text
       /\ tree' = [tree EXCEPT ![f] = [text |-> t, epoch |-> changes + 1]]
  /\ UNCHANGED <<index, head, filters>>

Stage ==
  /\ Change
  /\ \E f \in Path : index[f] # tree[f].text /\ index' = [index EXCEPT ![f] = tree[f].text]
  /\ UNCHANGED <<tree, head, filters>>

\* The revision moves to a commit of what is staged.
Commit ==
  /\ Change
  /\ head # index
  /\ head' = index
  /\ UNCHANGED <<tree, index, filters>>

ConfigureFilters ==
  /\ Change
  /\ filters' = IF filters = "none" THEN "executable" ELSE "none"
  /\ UNCHANGED <<tree, index, head>>

-----------------------------------------------------------------------------
(* The material                                                            *)

\* resolveCommit of createDiffPlan, and again in verifySource.
Resolve ==
  /\ pc = "resolve"
  /\ plan' = IF round = 1 THEN head ELSE plan
  /\ same' = (plan' = head)
  /\ Goto(IF kind = "worktree" THEN "copy"
          ELSE IF kind = "commit" /\ round = 2 THEN "compare" ELSE "diff")
  /\ UNCHANGED <<userVars, callVars, round, copy, config, diff, listed, first, contentVars,
                 answer, seen>>

\* filterSafety, and the isolated view with its copy of the index: readIndex notices an
\* index that changes under it, and git replaces the index by a rename.
CopyIndex ==
  /\ pc = "copy"
  /\ config' = filters
  /\ copy' = index
  /\ Goto("diff")
  /\ UNCHANGED <<userVars, callVars, round, plan, same, diff, listed, first, contentVars,
                 answer, seen>>

\* verifyFilterSafety, around each command that reads the work tree.
FiltersMoved == kind = "worktree" /\ filters # config

RefuseFilters ==
  /\ pc \in {"diff", "list"}
  /\ FiltersMoved
  /\ Fail(IF config = "none" THEN "unsafe" ELSE "stale")
  /\ UNCHANGED <<userVars, callVars>>

Entry(from, to) == IF from = to THEN Unchanged ELSE <<from, to>>

\* What git prints for a path: its file, if it is in the copied index; the index, if the
\* input is staged or, listed as a whole, the repository; or the commit, whose parent is
\* empty here.
DiffOf(f) ==
  CASE kind = "worktree" -> Entry(plan[f], IF copy[f] = None THEN None ELSE tree[f].text)
    [] kind = "staged" -> Entry(plan[f], index[f])
    [] kind = "repository" -> Entry(None, index[f])
    [] kind = "commit" -> Entry(None, plan[f])

\* The files of the work tree are read one after the other, a tree or the index at once.
DiffPath ==
  /\ pc = "diff"
  /\ ~FiltersMoved
  /\ IF kind = "worktree"
     THEN diff' = [diff EXCEPT ![at] = DiffOf(at)] /\ NextPath("list")
     ELSE /\ diff' = [f \in Path |-> DiffOf(f)]
          /\ Goto(IF kind = "repository" THEN "list"
                  ELSE IF round = 2 THEN "compare" ELSE "content")
  /\ UNCHANGED <<userVars, callVars, round, plan, same, copy, config, listed, first,
                 contentVars, answer, seen>>

\* check-attr, status and ls-files: what is in the work tree and not in the index.
ListUntracked ==
  LET Tracked == IF kind = "worktree" THEN copy ELSE index
  IN /\ pc = "list"
     /\ ~FiltersMoved
     /\ listed' = {f \in Path : Tracked[f] = None /\ tree[f].text # None}
     /\ Goto(IF round = 2 THEN "compare" ELSE IF full THEN "epochs" ELSE "content")
     /\ UNCHANGED <<userVars, callVars, round, plan, same, copy, config, diff, first,
                    contentVars, answer, seen>>

\* hashCapturedMaterial, and the hash of the path set.
Material == [diff |-> diff, listed |-> listed, config |-> config]

Changed == {f \in Path : diff[f] # Unchanged}
Deleted == {f \in Changed : diff[f][2] = None}

\* filesOf, without what is deleted; the candidates of a repository.
Files == (Changed \ Deleted) \cup listed

\* A path that was taken out of the index and is still there is a deletion and a file.
ListedTwice ==
  /\ kind = "worktree"
  /\ \E f \in first.listed : first.diff[f] # Unchanged /\ first.diff[f][2] = None

-----------------------------------------------------------------------------
(* The contents                                                            *)

\* inspectWorktreePath: a path that is not a file at this moment gets no epoch.  In a work
\* tree, the first files get one, in a repository all candidates.
RecordEpoch ==
  /\ pc = "epochs"
  /\ epoch' = [epoch EXCEPT ![at] =
       IF /\ at \in Files
          /\ kind = "repository" \/ Cardinality({g \in Files : g < at}) < MaxFiles
          /\ tree[at].text # None
       THEN tree[at].epoch ELSE None]
  /\ NextPath("content")
  /\ UNCHANGED <<userVars, callVars, round, materialVars, content, omitted, answer, seen>>

\* A change takes the first files, a repository the first that it accepts.
OverLimit(f) ==
  LET Taken == IF kind = "repository" THEN {g \in Path : content[g] # None}
               ELSE {g \in Files : g < f}
  IN Cardinality(Taken) >= MaxFiles

\* safeReadWorktreeFile compares the identity before the read with the expected one.
ReadIsStale(f) == epoch[f] # None /\ (tree[f].text = None \/ tree[f].epoch # epoch[f])

\* Bytes that are too many, binary, not UTF-8 or look like a secret are omitted.
Omit(f) ==
  /\ omitted' = omitted \cup {f}
  /\ UNCHANGED <<content, epoch>>

\* The bytes are those of one identity, which a repository keeps for its verification.
ReadFile(f) ==
  /\ tree[f].text # None
  /\ content' = [content EXCEPT ![f] = tree[f].text]
  /\ epoch' = [epoch EXCEPT ![f] = IF kind = "repository" THEN tree[f].epoch ELSE @]
  /\ UNCHANGED omitted

\* readGitBlob: an object does not change.
ReadBlob(f) ==
  /\ content' = [content EXCEPT ![f] = diff[f][2]]
  /\ UNCHANGED <<epoch, omitted>>

CaptureContent ==
  LET f == at
      InTree == kind \in {"worktree", "repository"}
  IN /\ pc = "content"
     /\ full
     /\ f \in Files
     /\ \/ Omit(f) /\ (OverLimit(f) \/ ~InTree \/ ~ReadIsStale(f))
        \/ ~OverLimit(f) /\ InTree /\ ~ReadIsStale(f) /\ ReadFile(f)
        \/ ~OverLimit(f) /\ ~InTree /\ ReadBlob(f)
     /\ at' = at + 1
     /\ UNCHANGED <<userVars, callVars, pc, round, materialVars, answer, seen>>

StaleContent ==
  /\ pc = "content"
  /\ full /\ kind \in {"worktree", "repository"}
  /\ at \in Files /\ ~OverLimit(at)
  /\ ReadIsStale(at)
  /\ Fail("stale")
  /\ UNCHANGED <<userVars, callVars>>

SkipContent ==
  /\ pc = "content"
  /\ at \in Path /\ (full => at \notin Files)
  /\ at' = at + 1
  /\ UNCHANGED <<userVars, callVars, pc, round, materialVars, contentVars, answer, seen>>

-----------------------------------------------------------------------------
(* The verification                                                        *)

StartVerification ==
  /\ pc = "content"
  /\ at \notin Path
  /\ round' = 2
  /\ first' = Material
  /\ Goto("resolve")
  /\ UNCHANGED <<userVars, callVars, plan, same, copy, config, diff, listed, contentVars,
                 answer, seen>>

\* Mutated: the second diff is not compared with the first.
SourceIsSameWithoutDiff ==
  same /\ (kind = "commit" \/ listed = first.listed)

\* verifySource: of a commit only the revision is verified, of the rest the material too.
SourceIsSame ==
  same /\ (kind = "commit" \/ Material = first)

Compare ==
  /\ pc = "compare"
  /\ \/ /\ SourceIsSame
        /\ Goto(IF full /\ kind \in {"worktree", "repository"} THEN "recheck" ELSE "create")
        /\ UNCHANGED <<round, materialVars, contentVars, answer, seen>>
     \/ ~SourceIsSame /\ Fail("stale")
  /\ UNCHANGED <<userVars, callVars>>

\* verifyWorktreeEpochs, and verifySelectedEpochs, which reads the selected files again.
Recheck ==
  LET Verified == IF kind = "repository" THEN {f \in Path : content[f] # None}
                  ELSE {f \in Path : epoch[f] # None}
  IN /\ pc = "recheck"
     /\ \/ /\ at \in Verified => ~ReadIsStale(at)
           /\ NextPath("create")
           /\ UNCHANGED <<round, materialVars, contentVars, answer, seen>>
        \/ at \in Verified /\ ReadIsStale(at) /\ Fail("stale")
     /\ UNCHANGED <<userVars, callVars>>

\* createReviewSnapshot and createImmutableReviewInput, which refuses a path that is
\* listed twice.
CreateInput ==
  /\ pc = "create"
  /\ \/ /\ ~(full /\ ListedTwice)
        /\ pc' = "ended" /\ answer' = "snapshot"
        /\ UNCHANGED <<at, round, materialVars, contentVars, seen>>
     \/ full /\ ListedTwice /\ Fail("refused")
  /\ UNCHANGED <<userVars, callVars>>

\* The deadline, an abort of the caller, or a command of git that fails.
Interrupt ==
  /\ pc # "ended"
  /\ Fail("failed")
  /\ UNCHANGED <<userVars, callVars>>
-----------------------------------------------------------------------------

\* A commit; perhaps a path was taken out of the index; one file was changed, another one
\* is as it was, or changed, or new.
Init ==
  /\ head \in Trees
  /\ head[1] # None
  /\ index \in {head, [head EXCEPT ![2] = None]}
  /\ \E now \in [Path -> Text] :
       /\ now[1] # head[1]
       /\ tree = [f \in Path |-> [text |-> now[f], epoch |-> 0]]
  /\ filters \in {"none", "executable"}
  /\ changes = 0
  /\ kind \in Kind
  /\ full \in BOOLEAN
  /\ kind = "repository" => full
  /\ pc = "resolve" /\ at = 1 /\ round = 1
  /\ plan = Nothing /\ same = FALSE /\ copy = Nothing /\ config = "none"
  /\ diff = NoMaterial.diff /\ listed = {} /\ first = NoMaterial
  /\ epoch = Nothing /\ content = Nothing /\ omitted = {}
  /\ answer = None
  /\ seen = {[tree |-> Texts, index |-> index]}

User == (Save \/ Stage \/ Commit \/ ConfigureFilters) /\ Past

Capture ==
  \/ Resolve \/ CopyIndex \/ RefuseFilters \/ DiffPath \/ ListUntracked \/ RecordEpoch
  \/ CaptureContent \/ StaleContent \/ SkipContent \/ StartVerification \/ Compare
  \/ Recheck \/ CreateInput \/ Interrupt

Next == User \/ Capture

Spec == Init /\ [][Next]_vars
-----------------------------------------------------------------------------
(* Properties                                                              *)

\* The state s has what the snapshot says of f: the content, and the diff if it has one.
Shows(s, f) ==
  CASE kind = "worktree" ->
         /\ content[f] = s.tree[f]
         /\ f \in first.listed \/ first.diff[f] = Entry(plan[f], s.tree[f])
    [] kind = "repository" -> content[f] = s.tree[f]
    [] kind = "staged" -> content[f] = s.index[f] /\ first.diff[f] = Entry(plan[f], s.index[f])
    [] kind = "commit" -> content[f] = plan[f]

Captured == {f \in Path : content[f] # None}

\* However the user saves, stages and commits during the capture, there was one moment in it
\* at which all contents of the snapshot were in the files, and the diff agreed with them.
\* It holds for the files whose identity was recorded before they were read; in a work tree
\* a file that was away at that moment has none.  (capture, inputs.ts:337.)
SnapshotIsOneInstant ==
  answer = "snapshot" =>
    \E s \in seen : \A f \in Captured :
      kind # "worktree" \/ epoch[f] # None => Shows(s, f)

\* Without the condition: "The command resolves an immutable snapshot before provider
\* execution."  (docs/superpowers/specs/2026-07-19-code-quality-cli-design.md:303.)
EverySnapshotIsOneInstant ==
  answer = "snapshot" => \E s \in seen : \A f \in Captured : Shows(s, f)
=============================================================================
