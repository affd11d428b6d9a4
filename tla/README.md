# A verification of code-quality

code-quality (`cq`) is a command line tool that has a language model review a
change: it captures a snapshot from git or a forge, plans review stages, runs a
provider for each of them in a supervised process, verifies what the provider
claims against the captured source, merges the findings into a gate, caches the
result, and may publish it as a comment of the pull request.  Nothing of it is a
server: what makes it hard is that many `cq` processes run at once on one host
(git hooks, editors, CI jobs), share a directory of files, kill each other's
children and die at any moment.

This directory models the parts where that matters in TLA+, checks them with TLC
on small instances, and proves the properties that matter most, for every
instance, with TLAPS.  Source paths below are relative to `src/` of the repository.

## Inventory

| Part (source) | State | Operations | What is hard | What makes it correct |
|---|---|---|---|---|
| Host-local lock (`storage/locks.ts`, `lock-lease.ts`, `lock-artifacts.ts`, `lock-platform.ts`) | directories in the lock directory: `.maintenance`, `<key>.lock/owner`, `.operation-*` guards, quarantines | acquireLock, renewLock, releaseLock, isLockActive | no operating-system lock: mkdir and rename only; every contender cleans up after the dead | one handle at most; a handle is not lost while its process lives; no crash wedges the lock; nothing is left behind |
| Single flight (`review/single-flight.ts`) | review lock, waiter slots, cache entry | runWithSingleFlight | read, lock, read again; heartbeat beside the review; polling waiters; eviction | one provider for a key; no review that was not needed; a result is stored before it is published; everyone returns |
| Review cache (`storage/cache.ts`) | entry files | publish, read, delete, make room | eviction, generations, capacity under a lock | limits kept; a reader sees a whole entry of its key |
| Run storage (`storage/runs.ts`, `transcripts.ts`) | run records | write, read, list, clean up | capacity under concurrent writers | limits kept; a stored run is readable |
| Review run (`review/orchestrator.ts`, `stage-output.ts`, `planner.ts`) | attempt allocator, runners, stage results | runReview, executeReviewStage | stages overlap, repair, fail and are cancelled on one attempt budget | budget kept and reported; no starvation; the gate is earned |
| Findings (`core/findings.ts`, `review/evidence-verifier.ts`) | none | verifyCandidates, dedupeFindings, decideGate | conflicting duplicates; unverified blockers | a block is justified, a pass hides nothing |
| Provider process (`providers/bounded-child-process.ts`, `process-supervisor.ts`) | two state machines, two pipes, two deadlines | runBoundedChild | abort, deadline, exit, output limit and death of either side at once | nothing outlives the call; a result is whole; the call settles |
| Provider sessions (`providers/process-provider-session.ts`, `executable-snapshot.ts`) | a map from runs to entries, each with two counters and a private copy of the executable; the count of copies | acquire, give up, release | a creation that outlives those who asked for it; last release against a new acquire; a removal that fails | no use after removal, one copy for a run, no leak |
| Provider adapters (`providers/process-provider.ts`, `http.ts`, ...) | none of their own | review | attempts and repair, which ReviewRun has | a call ends within its budget |
| Publication (`forges/publish.ts`, `publication-comments.ts`, `publication-lane.ts`) | comments on the forge, lanes of the process | publishReviewComment | lost responses, retries, several machines | one comment for a report |
| Review command (`commands/review.ts`, `review-local.ts`, `review-repository.ts`, `review-forge.ts`, `review/*`) | captured input, bound policy, checks and their workspace | capture, bind, confirm, check, review, read the head again, publish | content, policy and head move between any two steps; results are shared with other commands | what is shown, sent or published is of what was reviewed |
| Capture (`git/*.ts`, `core/snapshots.ts`) | the material that was read first, identities of files, contents | capture a work tree, an index, a commit, a repository | many calls of git and of the file system while the user works | a snapshot is of one instant, or refused |
| Hooks (`hooks/manager.ts`, `run.ts`, `presets.ts`) | hook files, their copies, a lock | install, uninstall, run | failure between two renames; exit codes of two passes | a user's hook is never lost; what the user is told is true |
| Policy and waivers (`core/policy*.ts`, `core/waiver*.ts`) | none; a directory that others edit | merge of layers, discovery of waivers | precedence, invariants, provider trust; files renamed meanwhile | origins explain the values; waivers are of one instant |
| Scoring (`core/scoring*.ts`, `review/score-bridge.ts`) | none | assessments to a score, comparison with a baseline | caps, missing ratings, rounding of weights | a confirmed finding caps a score; silence gains nothing |
| Provider probe, instructions, readability analysis, benchmark, reporters, CI | text | parse, format, measure | | not modelled |

The parts call each other downwards: a command binds the policy and the snapshot,
calls runWithSingleFlight, which takes the lock, runs runReview, stores the run and
publishes the cache entry; runReview calls the provider, which calls
runBoundedChild; a forge command then calls publishReviewComment.  Between
processes they share only files (locks, cache, runs) and the forge.
`PROJECT.json` lists every part with its status, and the hazards one by one, at
their lines, with the properties that watch them.

## Modules

* **HostLock** is the promise of the lock: a live process keeps it until it lets go
  or dies; only the lock of a dead process passes on; "busy" is always allowed.
* **LockStore** is the file protocol for one key, one action for each file-system
  call.  `maint`, `owner`, `guard`, `quarantined`, `scratch` and `container` are the
  directories; `pc`, `op`, `obs`, `seen`, `cont` and `result` are the locals of the
  running call.  A token names the process that drew it.  A `.maintenance` without
  guard.json is first None, which nobody may reclaim, and Unwritten once its grace of
  60 s has passed (`PastGrace`); a call waits 2 s for it.  `KeepsPromise` says that
  it implements HostLock (`INSTANCE HostLock WITH alive <- alive, ...`).
* **SingleFlight** EXTENDS HostLock: it is runWithSingleFlight on top of the
  promise, not of the file protocol.  That a lock may be busy for no visible reason,
  that it may stay with a process whose acquireLock threw, and that a release may
  fail are steps of the promise that the model takes.  A waiter slot is a lock too;
  its acquisition is one step.  `stored` says of each call's run whether it was never
  stored, is kept, or was evicted by a later one (`RetireRun`): the runs have a lower
  limit than the cache, so an entry may outlive its run.  An error of the release of a
  storage or cache guard comes after the rename: then the call fails and the run or the
  entry is there.  A read of the cache is one step as well: that is what
  EntryStore allows.  A read that misses a good entry has met one that went meanwhile,
  and in single flight nobody publishes over an entry (ReviewIsNeeded), so there
  was a moment within the read at which there was none.
* **ReviewFlight** is the promise of single flight to those who ask for a key: a review
  begins only while nobody works on the key and there is no entry for it, what a call is
  told of the entry is true, and only a review makes one; a call may fail although its
  review has made one.  `KeepsFlightPromise` says
  that SingleFlight implements it: `Working` are those between the start of a review
  and the end of its publication, `AnswerOf` what a return means.
* **ResultStore** is what a cache entry and a stored run are on disk: publication
  through a temporary and a rename, the scan and the evictions that make room, reads
  without a lock, and the discard of a defective file by its identity.  `store` says
  which of the two directories a behaviour is about; they differ in what may be
  evicted and in what a read checks.
* **EntryStore** is the promise of such a directory to those who read without a lock:
  records come and go whole, what a read gives is good and in its place at that moment,
  and a read that gives nothing has met no good record, or one that went meanwhile.
  `KeepsEntries` says that ResultStore implements it, for the cache and for the runs:
  the four file operations of a read are Look and Hit or Miss, a rename is Publish,
  an eviction or a quarantine Vanish, and everything else a stutter.
* **Findings** holds the pure part of a review: what verifyCandidates makes of a
  candidate, dedupeFindings and decideGate.  A deduplication key is a model value,
  evidence one of three outcomes.
* **ReviewRun** EXTENDS Findings: the pool of runners over the plan, the attempt
  allocator, a stage with its two loops (the provider's own repair inside a call,
  the stage's second call around it), abort, failure and the gate.
* **HookReview** is what git runs: the readability pass, a scored review whose
  stages assess the minors that they own, the caps of findings, and the exit code.
* **ScoreCalculation** is `cq score`: validation, score, and the comparison with a
  baseline in exact rationals of tenths and halves.
* **BoundedChild** is one provider call: `parent`, `terminal`, `settled`, `monitor`
  and `read` belong to the BoundedChildExecution; `sup` is the supervisor's state;
  `prov` and `kin` what runs in its group; `toSup` and `toParent` the control pipes.
  Every callback of either event loop is an action.
* **ProviderSession** is the session manager of a process provider with the copies it
  makes.  `sessions` is the manager's map; `state`, `aborted`, `waiters`, `leases` and
  `cleanup` are the fields of an entry, which is named after the call that created it;
  `stage` is where createExecutableSnapshot stands for it, `disk` its directory;
  `active` and `secrets` are counters of the process.  The settling of a promise
  and the continuation of a call that awaits it are separate steps: between them
  other calls enter, give up and release.
* **Publication** is publishReviewComment on several hosts against one change: a
  step for each request to the forge.  A request whose answer does not come, or whose
  process dies, is in `flying`: the forge handles it at any later time (`Arrive`), or
  never.  The publications may be of different reports.  `missed` is a history: the publication
  that created the comment has looked for it in vain, or did not look any more when it came.
* **ReviewCommand** is the review command with its three selectors, from the options
  to the exit code, while the user edits content and policy and the head of a change
  moves.  The capture of an input, the flight and the publication are one step each;
  the modules before and after have their insides.  `cache` holds what another
  command may take; `reviewed`, `sent` and `published` are histories, and `turns` counts
  how often the content moved between the capture of an input and the end of the
  verification of its check workspace.  Checkout and verification are two steps, and
  both, like the removal of the directory, may fail.
* **SourceCapture** is the capture of a work tree, an index, a commit or a whole
  repository, one action for each call of git or of the file system, with the second
  round that verifies the first.  `seen` is the history of what the user had.
* **HookManager** installs and removes the managed block of two hooks under the hook
  lock, with failures, rollback and death, and edits of the user at any time.  `Decode`
  is what toString("utf8") makes of the bytes of a line; what is read is decoded,
  and what is written is that.  `added` is a history: what the user has added to a hook
  since a call has read it.
* **PolicyLayers** merges the layers of a policy with the origins that it reports, the
  safety invariants, provider trust and the rule packs.
* **WaiverDiscovery** lists the waiver directory and reads its files, twice, while
  others rename, remove and rewrite them.
* **LockStoreProofs**, **ProviderSessionProofs**, **StoresProofs** (SingleFlight,
  ResultStore), **ReviewRunProofs** (ReviewRun, Findings, HookReview,
  ScoreCalculation), **ProgressProofs** (BoundedChild, Publication), **HookManagerProofs**, **SourceCaptureProofs** and
  **CommandsProofs** (ReviewCommand, PolicyLayers, WaiverDiscovery) hold the theorems.

**MCLockStore** adds symmetry, **MCDeadReclaimer** a scenario, **MCPublication** the
publishers of a scenario.  Four modules check several specifications in one
run: **MCStores** (SingleFlight, ResultStore), **MCReviewRun** (ReviewRun, HookReview,
ScoreCalculation), **MCProgress** (BoundedChild, SingleFlight, Publication) and
**MCCommands** (ReviewCommand, HookManager, SourceCapture, PolicyLayers,
WaiverDiscovery).  Each EXTENDS one of them and makes an INSTANCE of the others.  The
variable `subject`, chosen at first, says whose behaviour this is; the variables of the
other modules stay at their first values, or at None.  These are not products: the
parts share no state, and every behaviour of each is checked with its own fairness.
The theorems about a part are stated of the specification that the run checks
(`MCSpec`), and of every value of its constants.  What they assume of these is in the MC
module as an ASSUME, which TLC evaluates in the run.

Operators named `...Mislaid`, `...Stale`, `...Anyhow` and so on, each with a comment
that begins with "Mutated", are plausible bugs.  No specification uses them: put in
the place of the definition after them, each makes TLC report the property that
`PROJECT.json` lists it for, and so shows that the property can fail.

## Runs

| Run (distinct states) | Bounds | What it shows |
|---|---|---|
| LockStore (118 thousand) | 4 processes, crashes outside the maintenance section | handles stay with their owners, a process between calls has left nothing behind, HostLock is implemented |
| LockStoreRecovery (149 thousand) | 3 processes, crashes anywhere | the last live process gets the lock whatever the others left, with the first attempt after the grace of a `.maintenance` that has no guard.json |
| LockStoreOrphan (violation) | 3 processes, crashes anywhere | acquireLock may throw and keep the lock |
| DeadReclaimer (violation) | a dead holder, a dead reclaimer, 3 that clean up | two processes get a handle |
| Stores (720 thousand) | 3 contenders, 1 slot; 2 processes on a directory for 2 entries, 3 items, 1 leftover, 1 removal, 1 fault | ReviewFlight is implemented (one provider for a key, answers that are true), needed reviews only, results stored before published, no lock kept; EntryStore is implemented, a directory keeps its limits, a reader discards only what nobody can use |
| ReviewRun (519 thousand) | 3 stages, 2 runners, budgets 1 to 6, six kinds of answer; a hook on 2 files and up to 3 stages; 3 minors in 2 majors | starvation, the gate, justified blocks, every run ends; findings cap a score, silence gains nothing, a delta fits its scores |
| ProviderSession | 3 calls, 2 runs, 1 session at a time, 2 copies, 1 removal that fails | a leased copy stays, a clean release removes it, nothing leaks |
| Progress (216 thousand) | 2 chunks of output, a limit of 1; 2 contenders, 1 slot; 4 publishers of 2 reports on 2 hosts, lanes of 2, 2 faults, requests handled late | no orphans, whole results, deadline and cancellation settle a call; every flight returns; one comment for each process that it has not missed itself; of one report, one comment at all if nothing fails, and the returned comment stands; the lane moves on |
| PublicationDuplicates (violation) | 3 publishers, 1 fault | a lost response leaves a second comment |
| Commands (1.5 million) | 2 commands, 2 versions, 2 policies, 1 edit at any step and a second while a checkout is compared, 1 fault; 2 paths and 2 changes; 2 hook processes, 2 failures, 1 edit at any time; 5 layers; 2 waiver files, 2 edits | results, transfers and comments are of what was reviewed; checks see what is reviewed and clean up; snapshots and waivers are of one instant; hooks keep the user's lines and answers are true; origins explain the policy |
| FailedChecks (violation) | 2 commands, 1 version | a cached result hides that the checks failed |
| HookFailOpen (violation) | 1 file | a hook in block mode lets an incomplete review pass although no provider failed |

Why the bounds are enough to be worth something.  Four processes are what the
lock's stale paths need: a dead holder, a dead guard, a process that read the dead
guard and one that replaced it; without crashes in the maintenance section, the
proofs cover every number.  Three contenders and one slot give single flight a
winner, a waiter and one that finds the slots full.  Two processes on a directory are
a writer that makes room and one that discards, or two writers; three items for two
entries force an eviction, one leftover and one removal are the fewest at which the limit of
removals keeps a write from succeeding.  Three stages on two runners are
the fewest where a runner takes a second stage while the other still holds a
reservation, and budgets up to six include the last odd attempt, exhaustion and
plenty.  Three calls are an owner, one that gives up and one that comes for the next
session of the same run while the creation of the first still runs; one session at
a time lets three calls reach that limit, and two copies are the limit of
the code.  One chunk over the limit is enough for the output limit.  Two faults let a
publisher lose a response twice, or lose one and die.  A command meets an
edit of the content or of the policy at any step of it and, while an index is checked out
and compared, another one, so that the index can change and change back; and a second
command that made the result which it takes.  Two changes
during a capture are the edit and its undoing, the case in which contents
are equal and identities are not.  Five layers are every source of a policy, with
one that cannot be read.  `MaxWritten`, `MaxFaults`, `MaxMoves`, `MaxFreeMoves`,
`MaxEdits`, `MaxChanges` and the sizes of the sets are the only bounds; `MaxWaiters` stands for 64
and 16, `MaxEntries` and `MaxFiles` for the limits of the code.

DeadReclaimer uses a CONSTRAINT, because the counterexample has 40-odd steps of five
processes: it limits the run to acquisitions, and lets the last three start after
the deaths.  Deadlock is not checked where every call may be over or every process
dead.

### Fairness

* LockStore: a live process goes on with its call (`WF` of its steps).  It is
  enough, because in the survivor's case nobody else runs.  The premise of the property
  asks that no `.maintenance` be within its grace: an attempt within it ends with
  LOCK_BUSY after 2 s, as in the code.
* SingleFlight: a call that runs goes on, and `SF` of a waiter's end: the loop looks
  at its deadline before every read, so it does end (`single-flight.ts:158`).
* ReviewRun: a provider call ends, by its own timeout (`process-provider.ts:430`); the
  event loop runs on.
* BoundedChild: the two event loops and their timers.  Nothing is asked of the
  provider: it may ignore SIGTERM, write for ever or fork.
* ProviderSession: the event loop runs on, file operations and the use of a lease come
  to an end, and a release that threw is called again, as its contract allows
  (`process-provider-session.ts:181`).  Nobody has to come, to give up or to time out.
* Publication: each request is answered or fails, by the timeout of fetch; entering
  is not fair, a publisher may never start, and neither is the handling of a late
  request.  EveryPublicationEnds is therefore stated as "again and again nobody is in a
  lane", which the fairness of the single publications gives.

The other modules state no liveness: their calls are loops over finite lists.

## What is proved

For every number of processes, stages, slots, chunks, calls, items, publishers, hooks,
paths, layers and documents; `PROJECT.json` lists the theorems.  Each is an induction:
Init implies the invariant, every action keeps it (one step for each action), and it
implies the property.  Where a run checks several parts, the invariant of one of them
is proved as `MCSpec => [](subject = "..." => Inv)`: the steps of the others
leave `subject` alone, so its hypothesis is false before and after them.

* **LockStoreProofs.**  `MaintInv` (whoever is inside the section has its token in
  `.maintenance`, nobody has a stale observation of it) gives SectionExclusive;
  `ControlInv` ties the locals to the program counter; `OwnerInv` says what a
  process may rely on under its guard; `LeaveInv` says at which steps a process may
  have a private directory or a guard.  HandleSafe, LockExcludes, LoserLeaves and
  LockStoreKeepsPromise follow.  They need `~MaintenanceCrashes`: the run
  DeadReclaimer shows that they are false without it, and
  HandleSafeInExclusiveSection says precisely what is missing: whatever dies
  where, handles are safe as long as the section is exclusive.
* **StoresProofs, SingleFlight.**  `HoldInv` says who holds lock and slots at which
  label, `ResultInv` what is in cache and storage then, and that a run whose result was
  shown or published had been stored (StoredFirst).  All safety properties of the
  run follow, BoundedWaiters by an injection of the waiters into the slots.
  FlightPromiseKept maps every step to a step of ReviewFlight or to a stutter; it needs
  `Unanswered` besides (a call has no answer before it has done its work).  OneProviderPerKey and UnavailableOnlyWithoutResult, which it
  implies, are theorems as well.
* **StoresProofs, ResultStore.**  `LockInv`: who is in the section has the lock, so that
  a step of another leaves the directory alone.  `Account` says that what a writer has
  counted is exactly what is there beside its own item, unless the scan was cut
  short, and that there is room for it when it writes.  DirectoryIsBounded and
  DiscardsAreJustified follow, for any limits.  EntriesKept maps every step to a
  step of EntryStore or to a stutter, by `ReadInv`: what a reader has opened is what it saw
  first unless that went, what a writer renames is good, and a reader cannot take the
  new file for the one it saw: in the cache their times differ (`TimesDiffer`), and the
  id of a run is written once (`RunsAreNew`).
* **ReviewRunProofs.**  `BudgetInv` is the conservation law (free, settled and
  reserved attempts sum up to the budget) and the bound of two attempts for each
  stage that was taken; `RunnerInv` bounds what a call may consume.  `GateInv`
  follows the outcome of a run back to the merged findings: GateEarned and
  BlockJustified rest on lemmas about dedupeFindings (`MergedFinding`,
  `ConflictMeansTwo`, `StrongestIs`).  FindingsCap rests on `AnswersInv`: what a stage
  has answered, materialized, is assessments of minors, and two passes of the caps over
  any such set leave none above the cap of a confirmed finding (`TwiceIsCapped`),
  also a minor that nobody or two stages assessed.
* **ReviewRunProofs, scoring.**  `ScoreInv` says what assessments and baseline may be.
  SilenceGainsNothing and DeltasFit need sums over any finite set of minors.  The sum
  of the model is a fold, which the library defines by a recursive function;
  `SumRecursion` (a sum is that of the set without an element, plus its
  value) and `SumsCompare` (more for every minor is more in all) are proved about it by a
  set of least size for which they fail.  Rounding is reduced to the inequalities that
  define it (`HalfUpRounds`, `RoundedKeepsOrder`, `DifferenceRounds`).
* **ProgressProofs, BoundedChild.**  `GroupInv` says what may run in each state of the
  supervisor, `OutcomeInv` that a result under way is that of a provider that ended
  by itself, `OutputInv` that nothing can arrive after close.
* **ProgressProofs, Publication.**  `LaneInv` gives each process one publisher at work;
  `SearchInv` says of it that, before it creates, its process has no comment that it has
  not missed, and that what it has created and looks for is the only one, wherever its
  request is (ProcessHasOneComment, for any reports).  `MineInv` and `EarlierInv` say
  whose comments there are; while only one report is published, `ChosenInv` says that
  the chosen comment is the oldest, and that a deletion under way is of a younger one;
  without faults, `AccountInv` that whoever created a comment will look at it again.
* **ProviderSessionProofs.**  `SessionInv`: the counters of an entry are the numbers of
  the calls that wait for it and that lease it, and the count of copies is that of
  their owners (`CountInv`); an entry in the map can be used, and who waits for one or
  has a lease finds it there (`MapInv`); creation, directory and removal agree
  (`EntryInv`).  LeaseIsSafe, RunSharesOneCopy and CopiesBounded follow; with
  `ReleasedInv`, ReleaseRemoves.
* **HookManagerProofs.**  First the algebra of a hook's body, over sequences of any
  length: where the marked block begins and ends, that an update leaves one block and
  the lines around it, that a removal leaves none and the lines around it
  (`UpdateIsSound`, `RemovalIsSound`).  Then `HookInv`: it says of the call in the
  section, by its program counter, which hooks it has read, staged, replaced and put
  back, and that what it staged for a hook is what it should make of the body it read.
  `DecodedInv`: what a call has read is decoded.  AnswersTrue and UserLinesStand (an
  action property) follow, also for edits during a call, up to `added` and `Decode`.
* **SourceCaptureProofs.**  `CaptureInv` relates what both rounds read of each path to
  the states that the user had since the call began (`seen`).  Its heart is
  `InstantInv`: all through the second round there is one state of `seen` that agrees with
  what was read of every path whose epoch is unmoved or was found unmoved (`Certain`), and
  the second diff of such a path is that of its contents.  OneInstant follows; TLC had
  found `CaptureInv` true in 832 thousand states.
* **CommandsProofs, ReviewCommand.**  `ResultInv` (a result that a command holds was
  reviewed under the key of what it captured), `ConfirmInv`, `PublishInv` and `CheckInv`
  follow the command from its options to its exit, whatever is edited meanwhile.  In
  `CheckInv`, `TurnsInv` relates what was checked out to the input by the number of times
  that the content has moved since: with none they are the same, with one they differ and
  the verification sees it; `LeftInv` says who has which directory.
* **CommandsProofs, PolicyLayers.**  `LayersInv`: before layer n is merged, each field has
  the value and the origin of the last layer below n that set it.  OriginsExplain
  follows, also for a concurrency that the safety invariants have lowered.
* **CommandsProofs, WaiverDiscovery.**  `WaiverInv`: while nothing has moved, a listing has
  what is present of the entries that have come up (`ListingInv`); the files read, open and
  still to be read are together one of the sets in `since` (`FoundInv`); what is open is
  of one document unless it was rewritten (`OpenInv`).  WaiversOfOneInstant follows.

What is assumed of the constants, and why the code justifies it:

* `NamesAreDistinct`: items, temporaries and foreign files have different names (the
  suffixes by which `storage/cache.ts:235` and `:285` tell them), and the sets are finite.
* `PublicationAssumption`: each publication has a process and a report, and an earlier
  comment is of none of these reports and of no publication that still runs.  Nothing is
  assumed of the number of reports: of one change they do differ from run to run, and
  OneCommentPerProcess is proved for that case.  OneCommentIfAllGoesWell and
  PublishedCommentStands have `OneReport` as a premise, over the publications that have
  begun, and are false without it: a publication of another report gives the comment its
  own marker, and two processes may then leave two comments of one marker without any fault.
* `HookConstants`, `CaptureConstants`, `LayerConstants` and `WaiverConstants`: the marks
  are no line of a user or of a configuration (`updateManagedBody` refuses a body with
  marks that do not match, and a user who writes a mark has changed the block, not a line
  of theirs); decoding a decoded line leaves it as it is; no value is None, which stands for null; a concurrency is a number; `Pack`
  has an entry for every pack that a layer names, None if the pack is missing; a document
  is no more than its identifier and whether it is good; paths are numbered in git's order.
  A record of ResultStore is not None either.
* `ScoreConstants`: there are finitely many minors, each of one major, their weights are
  natural numbers of tenths, a rating is one of 0 to 5.0 in halves, and None is no
  number.
* `RatingsAreNumbers`: a rating counts half points (`core/scoring-assessments.ts:99`).

Properties that are proved and whose run would repeat the proof have left the runs:
the type invariants of these modules, MaintenanceExclusive, WaitersBounded,
OneProviderPerKey, UnavailableOnlyWithoutResult, AttemptsAccounted, OneCopyPerRun and
CopiesAreCounted.

Only model-checked: all liveness (fairness and ENABLED are out of the prover's
reach), that is, that a lock is recovered, that every call, run and publication ends,
that a deadline or a cancellation settles a provider call, and that nothing of a session
leaks.  Every safety property, action
property and refinement that a passing run checks is stated by a theorem.

## What does not hold

* **An acquireLock that fails may keep the lock** (LockStoreOrphan).  The stale
  `.maintenance` is renamed by path (`locks.ts:240`), so it may be a live process's
  one.  That process has installed its lease, and its finally block throws
  (`locks.ts:138`): the caller has no handle, and the lock is busy until it exits.
  `docs/standards/concurrency.md:64` asks that a loser leave no lock.
* **Two handles of one lock** (DeadReclaimer).  The same rename lets two processes
  into the section; then clean-up removes the quarantine that guards a displaced
  guard, and a slower stealer displaces a live guard.  It takes a holder that died,
  a reclaimer that died inside the section, and three contenders.  The design says
  that only the winner of the lock invokes providers.
* **Two comments for one report** (PublicationDuplicates).  When the response of a
  creation is lost, the oldest comment with the marker is taken, also if it is
  another machine's and the own one was created.  The design promises idempotence.
* **Failed checks do not force INCOMPLETE** (FailedChecks).  The key of a review does
  not depend on the outcome of its checks, so a PASS of the cache is taken as it is by a
  command whose checks failed (`commands/review.ts:449`, against `README.md:139`).
* **Fail-open hooks are open for more than provider failures** (HookFailOpen).  Every
  exit code 3 becomes 0 (`hooks/presets.ts:119`), also when all providers answered.

Met while modelling, in no run:

* A file that is absent when its identity is recorded and appears before its content
  is read gets through the second round: `EverySnapshotIsOneInstant` of SourceCapture
  is false, `SnapshotIsOneInstant` excludes this case.  After `git rm --cached f` with
  f kept, a full capture fails with "duplicate file paths" (`core/review-input.ts:106`);
  an abort during the capture is reported as a stale source.
* `resolveLocalPolicy` swallows every error of the policy and binds none
  (`review-local.ts:52`), where `README.md:87` says that an invalid policy stops.
* `hooks/run.ts:179` takes the larger of two exit codes, so INCOMPLETE (3) of one pass
  hides BLOCK (1) of the other, and fail-open then makes it 0.
* Checks of a work tree run on the live tree, not on the capture.  The work trees of
  a forge review whose process was killed are never removed.
* The text that explains a cap may exceed the limit that the explanation alone met
  (`score-bridge.ts:153`); a finished review then fails.
* One expired waiver makes the whole policy invalid, and `findApplicableWaivers`
  (`waivers.ts:305`) is called by nobody: waivers are never applied.
* The hook lock binds only `cq`: a line that the user writes into a hook between its read
  and the rename over it (`hooks/manager.ts:264`, `:381`) is lost.  HookManager has such
  edits, and UserLinesSurvive speaks of the lines that were there at the read (`added`).
* Hooks are read with `toString("utf8")` (`hooks/manager.ts:200`) and what was read is
  written back (`:232`, `:251`, `:379`): a line of the user with bytes that are not UTF-8
  comes back with U+FFFD in their place, also by a rollback that reports "prior hook
  contents were restored".  The properties are up to `Decode`.
* The workspace of staged checks is verified by a second capture of the index, not of
  what was checked out (`review/check-workspace.ts:39`, `:52`): an index that changes
  before the checkout and changes back before the comparison lets the checks run on content
  that is not reviewed.  ChecksSeeWhatIsReviewed is true of every other command (`turns`).  When
  `dispose` throws in the catch block (`:67`) the directory stays.
* A `.maintenance` whose maker died before it wrote guard.json blocks the lock for its
  grace of 60 s: every call ends with LOCK_BUSY after 2 s until then (`locks.ts:233`, `:252`).
* A supervisor that is killed by SIGKILL, or by the kernel for want of memory, cannot kill
  its group: the parent settles on its close (`bounded-child-process.ts:419`) while the
  provider may go on.  BoundedChild has no such death, and NothingOutlivesTheCall,
  CancelEndsTheWork and DeadlineSettles say nothing of it.
* A removed line that begins with "-- " looks like a file header to diffLinesByPath
  (`evidence-verifier.ts:207`), and what follows is counted to another file.

## Not modelled

* LockStore: leases in the old file format, other hosts, capacity limits, a pid that
  is used again, a stall of more than 60 s between mkdir and write.
* ResultStore: the fields of a record, which are the defects that a read tells apart;
  transcripts.  SingleFlight sees the cache as one entry that is whole or absent, and
  run storage as a set.
* ReviewRun: prompts and the report hash.  `minimumConfidence`
  is left out because every confirmed finding has high confidence
  (`evidence-verifier.ts:605`).  How a quote is found in a diff is one of three outcomes.
* HookReview and ScoreCalculation: anchors of ratings and limits of texts; two majors
  stand for the eight of the model.
* BoundedChild: malformed frames (the supervisor is the tool's own code), processes
  that leave the group, the death of the supervisor by a signal that it cannot catch (see
  above), and the several output limits, which are one here.  A
  descendant that leaves the group and keeps stdout open can hold a failed
  call for ever; it is among the hazards.
* ProviderSession: the copy that a check of the configuration makes for itself outside
  any session; the limit of bytes, which two of the largest copies just fit; `retired`,
  which is written and never read.  Copy and probe of the executable are one
  step, since nobody else sees anything between them.  A removal that fails in the
  background is tried by nobody again, so its copy counts until the process ends:
  the model has that, and NothingLeaks allows it.
* Publication: comments that people delete, several changes.  A listing is one step,
  also where it takes several pages.
* ReviewCommand: the fetch into the bare mirror and its lock; arguments and reports.
* SourceCapture: environment and output of git, submodules and symbolic links beyond
  their refusal.  HookManager: the wording of the managed block.  PolicyLayers and
  WaiverDiscovery: schema and syntax of the documents.  In PolicyLayers the policy for the
  choice of a model is never set: layers that give both a model and such a policy are refused
  (`provider-trust.ts:113`), and here they do not occur.  In WaiverDiscovery an identity is
  exact, where the code compares times of the granularity of the file system
  (`waiver-directory-snapshot.ts:72`); with exact identities the second listing never
  differs from the first, so the model shows what the identities give, not what the
  second listing would add to coarse ones.
* Provider probe and soak, CI workflows, instruction discovery, readability analysis
  and the benchmark have status `not_modelled`: computations over text, or harnesses
  outside any review, in which nothing else moves.

## Plan

The plan is carried out as far as state and concurrency go.  What it leaves: **DiffLines**
(the lines that evidence is matched against, with headers inside hunks), the selection
of context under a byte budget, and the reference graph of instructions.
