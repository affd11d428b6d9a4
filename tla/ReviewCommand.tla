---------------------------- MODULE ReviewCommand ----------------------------
(***************************************************************************)
(* commands/review.ts and its three selectors: review-local.ts (the index  *)
(* or the work tree), review-repository.ts (all files, after the user has  *)
(* confirmed a hash) and review-forge.ts (a pull or merge request).  The   *)
(* user edits the repository and the policy, and the head of the change    *)
(* moves, between any two steps of a command.                              *)
(*                                                                         *)
(* The capture of an input is one step here (SourceCapture has its inside),*)
(* so is the flight that shares results between processes (SingleFlight),  *)
(* and so is the publication (Publication).                                *)
(***************************************************************************)
EXTENDS Naturals, FiniteSets

CONSTANTS
  Proc,
  Version,     \* what there is to review
  Policy,      \* the valid policies, by their hash
  Open,        \* those that allow the provider to be sent the content
  None,
  MaxMoves,    \* bound: edits of the content and of the policy
  MaxFreeMoves,  \* bound: how many of them happen while no checkout is compared
  MaxFaults    \* bound: calls that fail, and crashes

ASSUME CommandAssumption ==
  /\ None \notin Version \cup Policy \cup {"PASS", "BLOCK", "INCOMPLETE"}
  /\ "invalid" \notin Policy
  /\ MaxMoves \in Nat /\ MaxFreeMoves \in Nat /\ MaxFaults \in Nat

VARIABLES
  content,    \* content[s]: the version at s now
  policy,     \* policy[s]: the policy at s now, a hash or "invalid"
  cache,      \* the results that later commands may take: key and gate
  reviewed,   \* history: the reviews that have been made: key and gate
  sent,       \* history: what the providers were sent: process and key
  published,  \* history: the comments: process and the head when it was read
  opts,       \* opts[p]: the options of the command
  pc,
  input,      \* input[p]: the version that p has captured
  bound,      \* bound[p]: the hash of the policy that p has bound, or None
  checked,    \* checked[p]: the version that the checks of p see, or have seen, or None
  failed,     \* failed[p]: checksFailed
  result,     \* result[p]: the gate, or None
  exit,       \* exit[p]: the exit code
  left,       \* left[p]: the temporary directories of p
  turns,      \* turns[p]: changes of the index between the capture of p and the comparison
  moves,
  faults

vars == <<content, policy, cache, reviewed, sent, published, opts, pc, input, bound, checked,
          failed, result, exit, left, turns, moves, faults>>
world == <<content, policy, turns, moves>>
history == <<reviewed, sent, published>>

Selector == {"worktree", "staged", "repository", "forge"}
Site == {"local", "forge"}
Gate == {"PASS", "BLOCK", "INCOMPLETE"}
Hash == Version \X Policy      \* repositoryConfirmationHash: content and descriptor

\* One selector, and the options that it looks at.
Options ==
  {o \in [selector : Selector,
          checks : {"no", "preview", "run"},
          alone : BOOLEAN,
          preflight : BOOLEAN,
          confirm : Hash \cup {None},
          publish : {"no", "asked", "confirmed"}] :
     /\ o.alone => o.selector = "worktree" /\ o.checks = "no"
     /\ o.selector # "repository" => ~o.preflight /\ o.confirm = None
     /\ o.selector = "repository" =>
          o.checks = "no" \/ (o.checks = "run" /\ ~o.preflight /\ o.confirm = None)
     /\ o.preflight => o.confirm = None
     /\ o.selector # "forge" => o.publish = "no"
     /\ o.selector = "forge" => o.checks = "no" \/ o.publish = "confirmed"}

SiteOf(o) == IF o.selector = "forge" THEN "forge" ELSE "local"
Now(p) == content[SiteOf(opts[p])]
PolicyNow(p) == policy[SiteOf(opts[p])]

\* Mutated: a result is found by its content alone.
KeyOfContent(p) == [selector |-> opts[p].selector, version |-> input[p], policy |-> None]

\* buildReviewCacheKey: the kind of the input is part of its content hash.
Key(p) == [selector |-> opts[p].selector, version |-> input[p], policy |-> bound[p]]

TypeOK ==
  /\ content \in [Site -> Version]
  /\ policy \in [Site -> Policy \cup {"invalid"}]
  /\ cache \subseteq [key : [selector : Selector, version : Version \cup {None},
                            policy : Policy \cup {None}], gate : Gate]
  /\ reviewed \subseteq [version : Version \cup {None}, policy : Policy \cup {None}, gate : Gate]
  /\ sent \subseteq [proc : Proc, version : Version \cup {None}, policy : Policy \cup {None}]
  /\ published \subseteq [proc : Proc, head : Version]
  /\ opts \in [Proc -> Options]
  /\ pc \in [Proc -> {"bind", "capture", "workspace", "verify", "check", "execute",
                      "review", "render", "publish", "post", "leave", "ended", "crashed"}]
  /\ input \in [Proc -> Version \cup {None}]
  /\ bound \in [Proc -> Policy \cup {None}]
  /\ checked \in [Proc -> Version \cup {None}]
  /\ failed \in [Proc -> BOOLEAN]
  /\ result \in [Proc -> Gate \cup {None}]
  /\ exit \in [Proc -> {None, "0", "1", "2", "3", "4", "thrown"}]
  /\ left \in [Proc -> SUBSET {"workspace", "worktrees"}]
  /\ moves \in 0 .. MaxMoves
  /\ turns \in [Proc -> 0 .. moves]
  /\ faults \in 0 .. MaxFaults

Init ==
  /\ \E v \in Version : content = [s \in Site |-> v]
  /\ \E b \in Policy : policy = [s \in Site |-> b]
  /\ cache = {} /\ reviewed = {} /\ sent = {} /\ published = {}
  /\ opts \in [Proc -> Options]
  /\ pc = [p \in Proc |-> "bind"]
  /\ input = [p \in Proc |-> None]
  /\ bound = [p \in Proc |-> None]
  /\ checked = [p \in Proc |-> None]
  /\ failed = [p \in Proc |-> FALSE]
  /\ result = [p \in Proc |-> None]
  /\ exit = [p \in Proc |-> None]
  /\ left = [p \in Proc |-> {}]
  /\ turns = [p \in Proc |-> 0]
  /\ moves = 0 /\ faults = 0

Goto(p, label) == pc' = [pc EXCEPT ![p] = label]
Fault == faults < MaxFaults /\ faults' = faults + 1

\* The command is over but for the finally block of runForgeReview.
Finish(p, code) ==
  /\ exit' = [exit EXCEPT ![p] = code]
  /\ Goto(p, IF "worktrees" \in left[p] THEN "leave" ELSE "ended")

-----------------------------------------------------------------------------
(* The policy and the input                                                *)

\* resolveLocalPolicy goes on without a policy when there is no valid one, but not when
\* its profile has no score model.
BindLocalPolicy(p) ==
  /\ pc[p] = "bind" /\ opts[p].selector \in {"worktree", "staged"}
  /\ \/ /\ bound' = [bound EXCEPT ![p] = IF PolicyNow(p) = "invalid" THEN None ELSE PolicyNow(p)]
        /\ Goto(p, "capture")
        /\ UNCHANGED <<exit, faults>>
     \/ Fault /\ Finish(p, "2") /\ UNCHANGED bound
  /\ UNCHANGED <<world, cache, history, opts, input, checked, failed, result, left>>

\* bindRepositoryPolicy, and what is refused before anything is read.
BindRepositoryPolicy(p) ==
  /\ pc[p] = "bind" /\ opts[p].selector = "repository"
  /\ IF PolicyNow(p) = "invalid" \/ opts[p].checks = "run"
     THEN Finish(p, "2") /\ UNCHANGED bound
     ELSE IF ~opts[p].preflight /\ opts[p].confirm = None
     THEN Finish(p, "2") /\ bound' = [bound EXCEPT ![p] = PolicyNow(p)]
     ELSE Goto(p, "capture") /\ bound' = [bound EXCEPT ![p] = PolicyNow(p)] /\ UNCHANGED exit
  /\ UNCHANGED <<world, cache, history, opts, input, checked, failed, result, left, faults>>

\* bindBasePolicy takes the policy of the base; the user may have named another hash.
BindBasePolicy(p) ==
  IF PolicyNow(p) = "invalid"
  THEN exit' = [exit EXCEPT ![p] = "3"] /\ Goto(p, "leave") /\ UNCHANGED <<bound, faults>>
  ELSE \/ /\ bound' = [bound EXCEPT ![p] = PolicyNow(p)]
          /\ Goto(p, IF opts[p].checks = "no" THEN "execute" ELSE "check")
          /\ UNCHANGED <<exit, faults>>
       \/ /\ Fault
          /\ exit' = [exit EXCEPT ![p] = "2"] /\ Goto(p, "leave") /\ UNCHANGED bound

\* ForgeReader.read and materializeForgeChange: two work trees, of the base
\* and of the head that were read.
MaterializeChange(p) ==
  /\ pc[p] = "bind" /\ opts[p].selector = "forge"
  /\ input' = [input EXCEPT ![p] = Now(p)]
  /\ left' = [left EXCEPT ![p] = {"worktrees"}]
  /\ BindBasePolicy(p)
  /\ UNCHANGED <<world, cache, history, opts, checked, failed, result>>

\* The forge does not answer, or git fails; dispose has run.
MaterializeFails(p) ==
  /\ pc[p] = "bind" /\ opts[p].selector = "forge"
  /\ Fault
  /\ Finish(p, "3")
  /\ UNCHANGED <<world, cache, history, opts, input, bound, checked, failed, result, left>>

\* captureInput.
CaptureLocal(p) ==
  /\ pc[p] = "capture" /\ opts[p].selector \in {"worktree", "staged"}
  /\ input' = [input EXCEPT ![p] = Now(p)]
  /\ Goto(p, IF opts[p].checks = "no" THEN "execute"
             ELSE IF opts[p].checks = "run" /\ opts[p].selector = "staged"
             THEN "workspace" ELSE "check")
  /\ UNCHANGED <<world, cache, history, opts, bound, checked, failed, result, exit, left, faults>>

\* The source is stale (3), or it cannot be captured (2); any other error is thrown on.
CaptureFails(p) ==
  /\ pc[p] = "capture"
  /\ Fault
  /\ \E code \in {"2", "3", "thrown"} : Finish(p, code)
  /\ UNCHANGED <<world, cache, history, opts, input, bound, checked, failed, result, left>>

\* createRepositoryPreflight: its hash is what the user may confirm; it is
\* incomplete when files had to be left out.
Preflight(p) ==
  /\ pc[p] = "capture" /\ opts[p].selector = "repository" /\ opts[p].preflight
  /\ input' = [input EXCEPT ![p] = Now(p)]
  /\ \E code \in {"0", "3"} : Finish(p, code)
  /\ UNCHANGED <<world, cache, history, opts, bound, checked, failed, result, left, faults>>

\* Mutated: what was confirmed is compared with the content alone.
ReconfirmContent(p) ==
  /\ pc[p] = "capture" /\ opts[p].selector = "repository" /\ ~opts[p].preflight
  /\ IF opts[p].confirm[1] = Now(p)
     THEN input' = [input EXCEPT ![p] = Now(p)] /\ Goto(p, "execute") /\ UNCHANGED exit
     ELSE Finish(p, "2") /\ UNCHANGED input
  /\ UNCHANGED <<world, cache, history, opts, bound, checked, failed, result, left, faults>>

\* reconfirmRepository: the manifest is collected again, under the policy bound now.
Reconfirm(p) ==
  /\ pc[p] = "capture" /\ opts[p].selector = "repository" /\ ~opts[p].preflight
  /\ IF opts[p].confirm = <<Now(p), bound[p]>>
     THEN input' = [input EXCEPT ![p] = Now(p)] /\ Goto(p, "execute") /\ UNCHANGED exit
     ELSE Finish(p, "2") /\ UNCHANGED input
  /\ UNCHANGED <<world, cache, history, opts, bound, checked, failed, result, left, faults>>

-----------------------------------------------------------------------------
(* runLocalChecks and runBasePolicyChecks                                  *)

\* checkout-index of materializeStagedCheckWorkspace.
CheckOut(p) ==
  /\ pc[p] = "workspace"
  /\ checked' = [checked EXCEPT ![p] = Now(p)]
  /\ left' = [left EXCEPT ![p] = {"workspace"}]
  /\ Goto(p, "verify")
  /\ UNCHANGED <<world, cache, history, opts, input, bound, failed, result, exit, faults>>

\* Mutated: the index is not captured again.
WorkspaceUnverified(p) ==
  /\ pc[p] = "verify"
  /\ Goto(p, "check")
  /\ UNCHANGED <<world, cache, history, opts, input, bound, checked, failed, result, exit, left,
                 faults>>

\* The index is captured again, and compared with the input.
Verify(p) ==
  /\ pc[p] = "verify"
  /\ IF Now(p) = input[p]
     THEN Goto(p, "check") /\ UNCHANGED <<checked, exit, left>>
     ELSE /\ Finish(p, "2")
          /\ checked' = [checked EXCEPT ![p] = None]
          /\ left' = [left EXCEPT ![p] = {}]
  /\ UNCHANGED <<world, cache, history, opts, input, bound, failed, result, faults>>

\* The checkout, the capture or dispose throws: when it is dispose, the directory stays.
WorkspaceFails(p) ==
  /\ pc[p] \in {"workspace", "verify"}
  /\ Fault
  /\ Finish(p, "2")
  /\ checked' = [checked EXCEPT ![p] = None]
  /\ \E kept \in {{}, {"workspace"}} : left' = [left EXCEPT ![p] = kept]
  /\ UNCHANGED <<world, cache, history, opts, input, bound, failed, result>>

PreviewChecks(p) ==
  /\ pc[p] = "check" /\ opts[p].checks = "preview"
  /\ Finish(p, "0")
  /\ UNCHANGED <<world, cache, history, opts, input, bound, checked, failed, result, left, faults>>

\* runAuthorizedChecks; the workspace is disposed of in the finally block.
RunChecks(p) ==
  /\ pc[p] = "check" /\ opts[p].checks = "run"
  /\ checked' = [checked EXCEPT ![p] =
       IF opts[p].selector = "staged" THEN checked[p]          \* the workspace
       ELSE IF opts[p].selector = "forge" THEN input[p]        \* the work tree of the head
       ELSE Now(p)]                                            \* the repository itself
  /\ \E f \in BOOLEAN : failed' = [failed EXCEPT ![p] = f]
  /\ left' = [left EXCEPT ![p] = left[p] \ {"workspace"}]
  /\ Goto(p, "execute")
  /\ UNCHANGED <<world, cache, history, opts, input, bound, result, exit, faults>>

\* Invalid commands, or none in a base policy; a workspace that cannot be removed.
ChecksFail(p) ==
  /\ pc[p] = "check"
  /\ Fault
  /\ \/ Finish(p, "2") /\ left' = [left EXCEPT ![p] = left[p] \ {"workspace"}]
     \/ "workspace" \in left[p] /\ Finish(p, "thrown") /\ UNCHANGED left
  /\ UNCHANGED <<world, cache, history, opts, input, bound, checked, failed, result>>

-----------------------------------------------------------------------------
(* executeReview                                                           *)

\* assertEgressAllowed; without a policy the classification is "internal".
EgressAllowed(p) == bound[p] = None \/ bound[p] \in Open

\* resolveProvider, before a local capture and after the checks of a change, and
\* validateProvider, after a repository was confirmed; providerPolicyMismatch.
ProviderRefused(p) ==
  /\ \/ pc[p] = "capture"
     \/ pc[p] = "execute" /\ opts[p].selector \in {"repository", "forge"}
  /\ Fault
  /\ Finish(p, "2")
  /\ UNCHANGED <<world, cache, history, opts, input, bound, checked, failed, result, left>>

EgressDenied(p) ==
  /\ pc[p] = "execute" /\ ~EgressAllowed(p)
  /\ Finish(p, "2")
  /\ UNCHANGED <<world, cache, history, opts, input, bound, checked, failed, result, left, faults>>

\* runWithSingleFlight finds a complete result of this key.
TakeCached(p) ==
  /\ pc[p] = "execute" /\ EgressAllowed(p) /\ ~opts[p].alone
  /\ \E c \in cache : c.key = Key(p) /\ result' = [result EXCEPT ![p] = c.gate]
  /\ Goto(p, "render")
  /\ UNCHANGED <<world, cache, history, opts, input, bound, checked, failed, exit, left, faults>>

InFlight(p) == \E q \in Proc \ {p} : pc[q] = "review" /\ ~opts[q].alone /\ Key(q) = Key(p)

\* The provider is sent the content.
StartReview(p) ==
  /\ pc[p] = "execute" /\ EgressAllowed(p)
  /\ \/ opts[p].alone
     \/ ~InFlight(p) /\ \A c \in cache : c.key # Key(p)
  /\ sent' = sent \cup {[proc |-> p, version |-> input[p], policy |-> bound[p]]}
  /\ Goto(p, "review")
  /\ UNCHANGED <<world, cache, reviewed, published, opts, input, bound, checked, failed, result,
                 exit, left, faults>>

\* incompleteFlightResult: a wait that has timed out, a storage that fails.
FlightUnavailable(p) ==
  /\ pc[p] = "execute" /\ EgressAllowed(p) /\ ~opts[p].alone
  /\ \/ InFlight(p) /\ UNCHANGED faults
     \/ Fault
  /\ result' = [result EXCEPT ![p] = "INCOMPLETE"]
  /\ Goto(p, "render")
  /\ UNCHANGED <<world, cache, history, opts, input, bound, checked, failed, exit, left>>

\* runFinalizedReview, storeRun, and the entry of the cache for later commands.
EndReview(p) ==
  /\ pc[p] = "review"
  /\ \E g \in IF failed[p] THEN {"INCOMPLETE"} ELSE Gate :
       /\ result' = [result EXCEPT ![p] = g]
       /\ reviewed' = reviewed \cup {[version |-> input[p], policy |-> bound[p], gate |-> g]}
       /\ cache' = IF g = "INCOMPLETE" \/ opts[p].alone THEN cache
                   ELSE cache \cup {[key |-> Key(p), gate |-> g]}
  /\ Goto(p, "render")
  /\ UNCHANGED <<world, sent, published, opts, input, bound, checked, failed, exit, left, faults>>

\* The run could not be stored: its result is not given.
EndReviewUnstored(p) ==
  /\ pc[p] = "review"
  /\ Fault
  /\ result' = [result EXCEPT ![p] = "INCOMPLETE"]
  /\ Goto(p, "render")
  /\ UNCHANGED <<world, cache, history, opts, input, bound, checked, failed, exit, left>>

-----------------------------------------------------------------------------
(* What the command answers                                                *)

\* gateExitCode.
GateExitCode(g) == IF g = "INCOMPLETE" THEN "3" ELSE IF g = "BLOCK" THEN "1" ELSE "0"

\* renderReviewCommandResult, and the refusals at the head of publishReviewedChange.
Render(p) ==
  /\ pc[p] = "render"
  /\ \/ opts[p].publish = "no" /\ Finish(p, GateExitCode(result[p]))
     \/ opts[p].publish = "asked" /\ Finish(p, "2")
     \/ opts[p].publish = "confirmed" /\ result[p] = "INCOMPLETE" /\ Finish(p, "4")
     \/ /\ opts[p].publish = "confirmed" /\ result[p] # "INCOMPLETE"
        /\ Goto(p, "publish") /\ UNCHANGED exit
  /\ UNCHANGED <<world, cache, history, opts, input, bound, checked, failed, result, left, faults>>

\* The output file exists; only runForgeReview catches it.
RenderFails(p) ==
  /\ pc[p] = "render"
  /\ Fault
  /\ Finish(p, IF opts[p].selector = "forge" THEN "3" ELSE "thrown")
  /\ UNCHANGED <<world, cache, history, opts, input, bound, checked, failed, result, left>>

\* Mutated: the head that was read before the review is good enough.
FreshReadSkipped(p) ==
  /\ pc[p] = "publish"
  /\ published' = published \cup {[proc |-> p, head |-> Now(p)]}
  /\ Goto(p, "post")
  /\ UNCHANGED <<world, cache, reviewed, sent, opts, input, bound, checked, failed, result,
                 exit, left, faults>>

\* publishReviewedChange reads the change again.
FreshRead(p) ==
  /\ pc[p] = "publish"
  /\ IF Now(p) = input[p]
     THEN Goto(p, "post") /\ published' = published \cup {[proc |-> p, head |-> Now(p)]}
          /\ UNCHANGED exit
     ELSE Finish(p, "4") /\ UNCHANGED published
  /\ UNCHANGED <<world, cache, reviewed, sent, opts, input, bound, checked, failed, result,
                 left, faults>>

FreshReadFails(p) ==
  /\ pc[p] = "publish"
  /\ Fault
  /\ Finish(p, "3")
  /\ UNCHANGED <<world, cache, history, opts, input, bound, checked, failed, result, left>>

\* publishReviewComment.
Post(p) ==
  /\ pc[p] = "post"
  /\ \/ Finish(p, GateExitCode(result[p])) /\ UNCHANGED faults
     \/ Fault /\ Finish(p, "4")
  /\ UNCHANGED <<world, cache, history, opts, input, bound, checked, failed, result, left>>

\* The finally block of runForgeReview.
Leave(p) ==
  /\ pc[p] = "leave"
  /\ \/ left' = [left EXCEPT ![p] = left[p] \ {"worktrees"}] /\ UNCHANGED <<exit, faults>>
     \/ "worktrees" \in left[p] /\ Fault /\ exit' = [exit EXCEPT ![p] = "thrown"] /\ UNCHANGED left
  /\ Goto(p, "ended")
  /\ UNCHANGED <<world, cache, history, opts, input, bound, checked, failed, result>>

\* A process that dies elsewhere is one that takes no further step.
Crash(p) ==
  /\ pc[p] = "review"
  /\ Fault
  /\ Goto(p, "crashed")
  /\ UNCHANGED <<world, cache, history, opts, input, bound, checked, failed, result, exit, left>>

\* What moves at a site that no running command looks at is not seen, and is left out.
Watched(s) == \E p \in Proc : SiteOf(opts[p]) = s /\ exit[p] = None

\* The user edits, the author pushes.
ContentMoves ==
  /\ moves < MaxMoves /\ moves' = moves + 1
  /\ \E s \in Site, v \in Version :
       /\ Watched(s) /\ content[s] # v
       /\ \/ moves < MaxFreeMoves
          \/ \E p \in Proc : SiteOf(opts[p]) = s /\ pc[p] \in {"workspace", "verify"}
       /\ content' = [content EXCEPT ![s] = v]
       /\ turns' = [p \in Proc |->
                      IF SiteOf(opts[p]) = s /\ pc[p] \in {"workspace", "verify"}
                      THEN turns[p] + 1 ELSE turns[p]]
  /\ UNCHANGED <<policy, cache, history, opts, pc, input, bound, checked, failed, result, exit,
                 left, faults>>

PolicyMoves ==
  /\ moves < MaxMoves /\ moves < MaxFreeMoves /\ moves' = moves + 1
  /\ \E s \in Site, b \in Policy \cup {"invalid"} :
       Watched(s) /\ policy[s] # b /\ policy' = [policy EXCEPT ![s] = b]
  /\ UNCHANGED <<content, turns, cache, history, opts, pc, input, bound, checked, failed, result,
                 exit, left, faults>>

LocalStep(p) ==
  \/ BindLocalPolicy(p) \/ CaptureLocal(p) \/ CaptureFails(p) \/ CheckOut(p)
  \/ Verify(p) \/ WorkspaceFails(p) \/ PreviewChecks(p) \/ RunChecks(p) \/ ChecksFail(p)

RepositoryStep(p) == BindRepositoryPolicy(p) \/ Preflight(p) \/ Reconfirm(p)

ForgeStep(p) ==
  \/ MaterializeChange(p) \/ MaterializeFails(p)
  \/ FreshRead(p) \/ FreshReadFails(p) \/ Post(p) \/ Leave(p)

Step(p) ==
  \/ LocalStep(p) \/ RepositoryStep(p) \/ ForgeStep(p)
  \/ ProviderRefused(p) \/ EgressDenied(p) \/ TakeCached(p) \/ StartReview(p)
  \/ FlightUnavailable(p) \/ EndReview(p) \/ EndReviewUnstored(p)
  \/ Render(p) \/ RenderFails(p) \/ Crash(p)

Next == ContentMoves \/ PolicyMoves \/ \E p \in Proc : Step(p)

Spec == Init /\ [][Next]_vars

-----------------------------------------------------------------------------
(* Properties                                                              *)

\* What a command shows is a review of the content that it has captured, under
\* the policy that it has bound, whichever process has made it, and whatever has
\* been edited since (executeReview, buildReviewCacheKey).
ResultIsOfThisInput ==
  \A p \in Proc : result[p] \in {"PASS", "BLOCK"} =>
    [version |-> input[p], policy |-> bound[p], gate |-> result[p]] \in reviewed

\* Of a full repository the provider is sent what the user has confirmed, under
\* the policy that was confirmed with it (reconfirmRepository).
OnlyConfirmedIsSent ==
  \A x \in sent : opts[x.proc].selector = "repository" =>
    opts[x.proc].confirm = <<x.version, x.policy>>

\* A comment is the complete review of the change's head, read again when the
\* review was over, and the user has asked for it twice (publishReviewedChange).
PublishedIsReviewed ==
  \A x \in published :
    /\ opts[x.proc].publish = "confirmed"
    /\ \E r \in reviewed :
         r = [version |-> x.head, policy |-> bound[x.proc], gate |-> result[x.proc]]

\* The checks whose outcome decides about a review of the index or of a change ran on
\* the content that is reviewed, unless the index has changed and changed back while it
\* was checked out and compared; and no answer but a refusal leaves the workspace behind
\* (materializeStagedCheckWorkspace, the work tree of the head).
ChecksSeeWhatIsReviewed ==
  \A p \in Proc :
    /\ checked[p] \notin {None, input[p]} /\ pc[p] # "verify" =>
         opts[p].selector = "worktree" \/ turns[p] >= 2
    /\ pc[p] = "ended" /\ left[p] # {} => exit[p] \in {"2", "thrown"}

\* README.md:139: "failed checks force incomplete and block publish".
FailedChecksForceIncomplete ==
  \A p \in Proc : failed[p] => exit[p] \notin {"0", "1"}
=============================================================================
