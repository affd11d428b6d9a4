------------------------------ MODULE HookManager ------------------------------
(***************************************************************************)
(* hooks/manager.ts: `cq hooks install` and `cq hooks uninstall` put a     *)
(* managed block into the files pre-commit and pre-push of a repository    *)
(* and take it out again.  Both hold the hook lock (HostLock: a process    *)
(* that lives keeps it), work on copies beside the hooks, and rename them  *)
(* into place; an installation that fails half way restores what it has    *)
(* replaced.  The user edits the hooks as well, at any time.               *)
(*                                                                         *)
(* A body is the sequence of its lines: lines of the user, the first line  *)
(* "#!", the marks "begin" and "end", and between them a configuration     *)
(* (mode and preset).  What a call reads is decoded as UTF-8: a line of    *)
(* other bytes becomes another line, and is written as that.               *)
(***************************************************************************)
EXTENDS Naturals, SequencesExt

CONSTANTS
  Proc,
  Config,        \* modes and presets
  UserLine,
  Decode,        \* Decode[l]: the line of the user that is made of the bytes of l
  None,
  MaxFaults,     \* bound: file operations that fail, and crashes
  MaxEdits       \* bound: edits of the user

VARIABLES
  file,      \* file[h]: the body of hook h, or None
  lock,      \* the process that has the hook lock, or None
  pc,
  cfg,       \* cfg[p]: what p installs, or None if it uninstalls
  staged,    \* staged[p][h]: the copy that p has made for h, or None
  before,    \* before[p][h]: what p has read of h
  at,        \* at[p]: the hook that p is at
  answer,    \* answer[p]: what p is going to tell the user
  added,     \* added[h]: the lines the user has added since a call has read h
  faults,
  edits

vars == <<file, lock, pc, cfg, staged, before, at, answer, added, faults, edits>>

Hook == {"pre-commit", "pre-push"}   \* HOOK_NAMES, in this order
NextHook(h) == IF h = "pre-commit" THEN "pre-push" ELSE None

Line == UserLine \cup Config \cup {"#!", "begin", "end"}

Nothing == [h \in Hook |-> None]

TypeOK ==
  /\ file \in [Hook -> Seq(Line) \cup {None}]
  /\ lock \in Proc \cup {None}
  /\ pc \in [Proc -> {"idle", "wait", "read", "stage", "apply", "rollback", "replace",
                      "tidy", "unlock", "ended", "crashed"}]
  /\ cfg \in [Proc -> Config \cup {None}]
  /\ staged \in [Proc -> [Hook -> Seq(Line) \cup {None}]]
  /\ before \in [Proc -> [Hook -> Seq(Line) \cup {None}]]
  /\ at \in [Proc -> Hook \cup {None}]
  /\ answer \in [Proc -> {None, "installed", "restored", "refused", "removed", "failed"}]
  /\ added \in [Hook -> SUBSET UserLine]
  /\ faults \in 0 .. MaxFaults
  /\ edits \in 0 .. MaxEdits

Goto(p, label) == pc' = [pc EXCEPT ![p] = label]
Answer(p, a) == answer' = [answer EXCEPT ![p] = a]
Fault == faults < MaxFaults /\ faults' = faults + 1

-----------------------------------------------------------------------------
(* Bodies                                                                  *)

Positions(b, l) == {i \in DOMAIN b : b[i] = l}

\* managedRange: one mark of each kind, in this order.
IsManaged(b) ==
  \E i \in DOMAIN b :
    /\ Positions(b, "begin") = {i}
    /\ \E j \in DOMAIN b : i < j /\ Positions(b, "end") = {j}

Begin(b) == CHOOSE i \in DOMAIN b : b[i] = "begin"
End(b) == CHOOSE i \in DOMAIN b : b[i] = "end"
Above(b) == SubSeq(b, 1, Begin(b) - 1)
Below(b) == SubSeq(b, End(b) + 1, Len(b))

ManagedBlock(c) == <<"begin", c, "end">>

\* What readHook makes of a file: toString("utf8").
Decoded(f) ==
  IF f = None THEN None
  ELSE [i \in DOMAIN f |-> IF f[i] \in UserLine THEN Decode[f[i]] ELSE f[i]]

\* A hook that is missing is read as an empty body.
Body(f) == IF f = None THEN <<>> ELSE f

\* updateManagedBody, for a body that is empty or managed.
Updated(f, c) ==
  IF Body(f) = <<>> THEN <<"#!">> \o ManagedBlock(c)
  ELSE Above(f) \o ManagedBlock(c) \o Below(f)

Updatable(f) == Body(f) = <<>> \/ IsManaged(Body(f))

\* Mutated: the block is emptied, and its marks stay.
RemovedContent(f) == Updated(f, None)

\* removeManagedBody.
Removed(f) == Above(f) \o Below(f)

\* The lines outside the block, which are the user's.
UserLines(f) ==
  UserLine \cap ToSet(IF IsManaged(Body(f)) THEN Removed(f) ELSE Body(f))

-----------------------------------------------------------------------------
(* installHooks and uninstallHooks                                         *)

Call(p) ==
  /\ pc[p] = "idle"
  /\ \E c \in Config \cup {None} : cfg' = [cfg EXCEPT ![p] = c]
  /\ Goto(p, "wait")
  /\ UNCHANGED <<file, lock, staged, before, at, answer, added, faults, edits>>

\* Mutated: the call goes on when the wait is over.
AcquireAnyhow(p) ==
  /\ pc[p] = "wait"
  /\ lock' = p
  /\ at' = [at EXCEPT ![p] = "pre-commit"]
  /\ Goto(p, "read")
  /\ UNCHANGED <<file, cfg, staged, before, answer, added, faults, edits>>

\* waitForHookLock; the lock of a dead process is reclaimed.
Acquire(p) ==
  /\ pc[p] = "wait"
  /\ lock \in {None} \cup {q \in Proc : pc[q] = "crashed"}
  /\ lock' = p
  /\ at' = [at EXCEPT ![p] = "pre-commit"]
  /\ Goto(p, "read")
  /\ UNCHANGED <<file, cfg, staged, before, answer, added, faults, edits>>

\* The wait is over, or acquireLock fails.
GiveUp(p) ==
  /\ pc[p] = "wait"
  /\ Answer(p, "failed")
  /\ Goto(p, "ended")
  /\ UNCHANGED <<file, lock, cfg, staged, before, at, added, faults, edits>>

\* The next hook, or the end of the loop over both.
Proceed(p, label, after) ==
  /\ at' = [at EXCEPT ![p] = NextHook(at[p])]
  /\ Goto(p, IF NextHook(at[p]) = None THEN after ELSE label)

\* readHook: what the file holds is decoded, and the user has added nothing since.
ReadHook(p, h) ==
  /\ before' = [before EXCEPT ![p][h] = Decoded(file[h])]
  /\ added' = [added EXCEPT ![h] = {}]

\* readHook throws, or the hook is too long, or would be with the block.
ReadFails(p, after) ==
  /\ Fault
  /\ Answer(p, "failed")
  /\ Goto(p, after)
  /\ UNCHANGED <<before, added>>

\* readHook and updateManagedBody of stageHooks.  A hook that is not ours ends the call:
\* what was staged is removed.
ReadForInstall(p) ==
  LET h == at[p]
  IN /\ pc[p] = "read"
     /\ cfg[p] # None
     /\ \/ /\ ReadHook(p, h)
           /\ Updatable(Decoded(file[h]))
           /\ Goto(p, "stage")
           /\ UNCHANGED <<answer, faults>>
        \/ /\ ReadHook(p, h)
           /\ ~Updatable(Decoded(file[h]))
           /\ Answer(p, "refused")
           /\ Goto(p, "tidy")
           /\ UNCHANGED faults
        \/ ReadFails(p, "tidy")
     /\ UNCHANGED <<file, lock, cfg, staged, at, edits>>

\* readHook of uninstallHooks: what is missing or not ours is left alone.
ReadForUninstall(p) ==
  LET h == at[p]
  IN /\ pc[p] = "read"
     /\ cfg[p] = None
     /\ \/ /\ ReadHook(p, h)
           /\ IsManaged(Body(Decoded(file[h])))
           /\ Goto(p, "stage")
           /\ UNCHANGED <<at, answer, faults>>
        \/ /\ ReadHook(p, h)
           /\ ~IsManaged(Body(Decoded(file[h])))
           /\ Proceed(p, "read", "unlock")
           /\ Answer(p, IF NextHook(h) = None THEN "removed" ELSE None)
           /\ UNCHANGED faults
        \/ ReadFails(p, "unlock") /\ UNCHANGED at
     /\ UNCHANGED <<file, lock, cfg, staged, edits>>

\* writeFile and chmod of the copy.  Whatever throws in an installation ends it, and the
\* copies are removed; an uninstallation leaves its copy behind.
Stage(p) ==
  LET h == at[p]
      copy == IF cfg[p] = None THEN Removed(before[p][h]) ELSE Updated(before[p][h], cfg[p])
  IN /\ pc[p] = "stage"
     /\ staged' = [staged EXCEPT ![p][h] = copy]
     /\ \/ /\ cfg[p] # None
           /\ at' = [at EXCEPT ![p] = IF NextHook(h) = None THEN "pre-commit" ELSE NextHook(h)]
           /\ Goto(p, IF NextHook(h) = None THEN "apply" ELSE "read")
           /\ UNCHANGED <<answer, faults>>
        \/ cfg[p] = None /\ Goto(p, "apply") /\ UNCHANGED <<at, answer, faults>>
        \/ /\ Fault
           /\ Answer(p, "failed")
           /\ Goto(p, IF cfg[p] = None THEN "unlock" ELSE "tidy")
           /\ UNCHANGED at
     /\ UNCHANGED <<file, lock, cfg, before, added, edits>>

\* rename of the copy, in an uninstallation: then the next hook is read.
ApplyRemoval(p) ==
  LET h == at[p]
  IN /\ pc[p] = "apply"
     /\ cfg[p] = None
     /\ \/ /\ file' = [file EXCEPT ![h] = staged[p][h]]
           /\ staged' = [staged EXCEPT ![p][h] = None]
           /\ Proceed(p, "read", "unlock")
           /\ Answer(p, IF NextHook(h) = None THEN "removed" ELSE None)
           /\ UNCHANGED faults
        \/ /\ Fault
           /\ Answer(p, "failed")
           /\ Goto(p, "unlock")
           /\ UNCHANGED <<file, staged, at>>
     /\ UNCHANGED <<lock, cfg, before, added, edits>>

\* applyStagedHooks.  If the second rename fails the first is undone.
Apply(p) ==
  LET h == at[p]
  IN /\ pc[p] = "apply"
     /\ cfg[p] # None
     /\ \/ /\ file' = [file EXCEPT ![h] = staged[p][h]]
           /\ staged' = [staged EXCEPT ![p][h] = None]
           /\ Proceed(p, "apply", "tidy")
           /\ Answer(p, IF NextHook(h) = None THEN "installed" ELSE None)
           /\ UNCHANGED faults
        \/ /\ Fault
           /\ Answer(p, "restored")
           /\ Goto(p, IF h = "pre-commit" THEN "tidy" ELSE "rollback")
           /\ UNCHANGED <<file, staged, at>>
     /\ UNCHANGED <<lock, cfg, before, added, edits>>

\* Mutated: what was there before is not looked at.
RestoreByRemoval(p) ==
  /\ pc[p] = "rollback"
  /\ file' = [file EXCEPT !["pre-commit"] = None]
  /\ Goto(p, "tidy")
  /\ UNCHANGED <<lock, cfg, staged, before, at, answer, added, faults, edits>>

\* restoreHook of pre-commit: a hook that was missing is removed, any other written anew.
Restore(p) ==
  /\ pc[p] = "rollback"
  /\ \/ /\ before[p]["pre-commit"] = None
        /\ file' = [file EXCEPT !["pre-commit"] = None]
        /\ Goto(p, "tidy")
        /\ UNCHANGED <<answer, faults>>
     \/ /\ before[p]["pre-commit"] # None
        /\ Goto(p, "replace")
        /\ UNCHANGED <<file, answer, faults>>
     \/ /\ Fault
        /\ Answer(p, "failed")
        /\ Goto(p, "tidy")
        /\ UNCHANGED file
  /\ UNCHANGED <<lock, cfg, staged, before, at, added, edits>>

\* rename of the rollback copy.
ReplaceByRollback(p) ==
  /\ pc[p] = "replace"
  /\ \/ /\ file' = [file EXCEPT !["pre-commit"] = before[p]["pre-commit"]]
        /\ UNCHANGED <<answer, faults>>
     \/ /\ Fault
        /\ Answer(p, "failed")
        /\ UNCHANGED file
  /\ Goto(p, "tidy")
  /\ UNCHANGED <<lock, cfg, staged, before, at, added, edits>>

\* The finally blocks remove the copies, all that can be; what they throw is the answer.
Tidy(p) ==
  /\ pc[p] = "tidy"
  /\ \/ /\ staged' = [staged EXCEPT ![p] = Nothing]
        /\ UNCHANGED <<answer, faults>>
     \/ /\ Fault
        /\ Answer(p, "failed")
        /\ \E h \in Hook :
             staged' = [staged EXCEPT ![p] = [Nothing EXCEPT ![h] = staged[p][h]]]
  /\ Goto(p, "unlock")
  /\ UNCHANGED <<file, lock, cfg, before, at, added, edits>>

\* A call that is over, or whose process has died, has no variables of its own.
Over(p) ==
  /\ cfg' = [cfg EXCEPT ![p] = None]
  /\ before' = [before EXCEPT ![p] = Nothing]
  /\ at' = [at EXCEPT ![p] = None]

\* releaseLock; if it throws the process keeps the lock and its answer is lost.
Unlock(p) ==
  /\ pc[p] = "unlock"
  /\ \/ lock' = None /\ UNCHANGED <<answer, faults>>
     \/ Fault /\ Answer(p, "failed") /\ UNCHANGED lock
  /\ Goto(p, "ended")
  /\ Over(p)
  /\ UNCHANGED <<file, staged, added, edits>>

Crash(p) ==
  /\ pc[p] \notin {"idle", "ended", "crashed"}
  /\ Fault
  /\ Goto(p, "crashed")
  /\ Over(p)
  /\ UNCHANGED <<file, lock, staged, answer, added, edits>>

\* The user adds a line at the end of a hook.
Edit(h) ==
  /\ edits < MaxEdits
  /\ edits' = edits + 1
  /\ \E l \in UserLine \ UserLines(file[h]) :
       /\ file' = [file EXCEPT ![h] = IF Body(@) = <<>> THEN <<l>> ELSE Append(@, l)]
       /\ added' = [added EXCEPT ![h] = @ \cup {l}]
  /\ UNCHANGED <<lock, pc, cfg, staged, before, at, answer, faults>>
-----------------------------------------------------------------------------

\* No hook, one of the user, one with our block among the user's lines, and one in which
\* the user has doubled a mark.
FoundBody(l, c) ==
  {<<>>, <<"#!", l>>, <<"#!", "begin", c, "end">>, <<"#!", l, "begin", c, "end">>,
   <<"begin", c, "end", l, "end">>}

Init ==
  /\ \E l \in UserLine, c \in Config :
       file \in [Hook -> FoundBody(l, c) \cup {None}]
  /\ lock = None
  /\ pc = [p \in Proc |-> "idle"]
  /\ cfg = [p \in Proc |-> None]
  /\ staged = [p \in Proc |-> Nothing]
  /\ before = [p \in Proc |-> Nothing]
  /\ at = [p \in Proc |-> None]
  /\ answer = [p \in Proc |-> None]
  /\ added = [h \in Hook |-> {}]
  /\ faults = 0
  /\ edits = 0

Step(p) ==
  \/ Call(p) \/ Acquire(p) \/ GiveUp(p) \/ ReadForInstall(p) \/ ReadForUninstall(p)
  \/ Stage(p) \/ Apply(p) \/ ApplyRemoval(p) \/ Restore(p) \/ ReplaceByRollback(p)
  \/ Tidy(p) \/ Unlock(p) \/ Crash(p)

Next == (\E p \in Proc : Step(p)) \/ (\E h \in Hook : Edit(h))

Spec == Init /\ [][Next]_vars
-----------------------------------------------------------------------------
(* Properties                                                              *)

\* What a call tells the user is true of both hooks when it leaves its section, whoever
\* else installs, dies or waits: installed, removed, or, in what it has read and the user
\* has not edited since, refused, or restored after a rename that failed.  (installHooks,
\* manager.ts:322, 329, 335; uninstallHooks, manager.ts:383.)
AnswersAreTrue ==
  \A p \in Proc : pc[p] = "unlock" =>
    \A h \in Hook :
      /\ answer[p] = "installed" =>
           IsManaged(Body(file[h])) /\ file[h][Begin(file[h]) + 1] = cfg[p]
      /\ answer[p] = "removed" => ~IsManaged(Body(file[h]))
      /\ answer[p] = "refused" /\ before[p][h] # None /\ added[h] = {} =>
           Decoded(file[h]) = before[p][h]
      /\ answer[p] = "restored" /\ added[h] = {} => Decoded(file[h]) = before[p][h]

\* No step takes a line out of a hook that the user had put there when the hook was read,
\* through updates, removals, failures, rollbacks and deaths: the line stands, or what it
\* is decoded to.  (updateManagedBody and restoreHook, manager.ts:87, 245.)
KeepsUserLines ==
  \A h \in Hook : \A l \in UserLines(file[h]) \ added[h] :
    l \in UserLines(file'[h]) \/ Decode[l] \in UserLines(file'[h])
UserLinesSurvive == [][KeepsUserLines]_vars
=============================================================================
