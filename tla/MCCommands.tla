------------------------------ MODULE MCCommands ------------------------------
(* What surrounds the stages of a review: the capture of what is reviewed, the  *)
(* command that binds, reviews and publishes it, its policy and its waivers,    *)
(* and the installation of hooks that make it.  A behaviour is one of the       *)
(* module that subject names; the command of the others stays as it is at       *)
(* first, and the variables of the other modules are None.                      *)
EXTENDS ReviewCommand, Sequences, TLC

CONSTANTS
  Config, UserLine, Decode,                          \* of HookManager
  MaxHookFaults, MaxHookEdits,
  Path, Text, MaxFiles, MaxChanges,                  \* of SourceCapture
  PolicyLayer, Builtin, Pack, Overridden, Trusted,   \* of PolicyLayers
  WaiverFile, Document, MaxWaiverEdits               \* of WaiverDiscovery

VARIABLES
  subject,
  file, lock, hookPc, cfg, staged, before, hookAt, hookAnswer, added, hookFaults,
  hookEdits,
  tree, index, head, filters, changes, kind, full, capturePc, round, captureAt,
  capturePlan, same, copy, config, diff, listed, captureFirst, epoch, captureContent,
  omitted, captureAnswer, seen,
  layer, layersPc, layersNext, merged, origins, pending, rules, diagnosed,
  disk, waiverPc, moved, since, waiverLeft, waiverFirst, second, reading, rewritten,
  waivers, waiverEdits

hookVars == <<file, lock, hookPc, cfg, staged, before, hookAt, hookAnswer, added,
  hookFaults, hookEdits>>
captureVars == <<tree, index, head, filters, changes, kind, full, capturePc, round,
  captureAt, capturePlan, same, copy, config, diff, listed, captureFirst, epoch,
  captureContent, omitted, captureAnswer, seen>>
layersVars == <<layer, layersPc, layersNext, merged, origins, pending, rules,
  diagnosed>>
waiverVars == <<disk, waiverPc, moved, since, waiverLeft, waiverFirst, second, reading,
  rewritten, waivers, waiverEdits>>
all == <<subject, hookVars, captureVars, vars, layersVars, waiverVars>>

\* Layers that set some fields each; the provider and its model may come from two.
Sets(class, packs, concurrency, name, model, override) ==
  [class |-> class, packs |-> packs, concurrency |-> concurrency, name |-> name,
   model |-> model, override |-> override]
Layer(sets) == [ok |-> TRUE, sets |-> sets]
MCBuiltin == Layer(Sets("internal", {"universal"}, 2, None, None, None))
MCLayers ==
  { Layer(Sets("public", None, 3, None, None, "P1")),
    Layer(Sets(None, {"universal", "team"}, None, "n1", "m1", "P2")),
    Layer(Sets(None, {"team"}, 1, "n2", None, None)),
    Layer(Sets(None, {"universal", "same"}, None, "n2", "m2", None)),
    [MCBuiltin EXCEPT !.ok = FALSE] }
MCPack ==
  [universal |-> {"r1"}, team |-> {"r2"}, same |-> {"r1", "r3"}, gone |-> None]
MCTrusted == {[name |-> "n1", model |-> "m1"], [name |-> "n2", model |-> "m2"]}

MCDocument ==
  { [id |-> "w1", good |-> TRUE], [id |-> "w2", good |-> FALSE], [id |-> "w3", good |-> TRUE] }

\* The bytes of latin are no UTF-8, and are decoded to those of line.
MCDecode == [line |-> "line", latin |-> "line"]

Hooks == INSTANCE HookManager
  WITH MaxFaults <- MaxHookFaults, MaxEdits <- MaxHookEdits,
       pc <- hookPc, at <- hookAt, answer <- hookAnswer, faults <- hookFaults,
       edits <- hookEdits
Capture == INSTANCE SourceCapture
  WITH pc <- capturePc, at <- captureAt, plan <- capturePlan,
       first <- captureFirst, content <- captureContent, answer <- captureAnswer
Layers == INSTANCE PolicyLayers
  WITH Layers <- PolicyLayer, pc <- layersPc, next <- layersNext
Waivers == INSTANCE WaiverDiscovery
  WITH File <- WaiverFile, MaxEdits <- MaxWaiverEdits,
       pc <- waiverPc, left <- waiverLeft, first <- waiverFirst,
       edits <- waiverEdits

\* The lines of hooks, the contents of files, layers, documents and numbers are told from
\* each other, and from no value at all; paths are numbered in the order of git.
HookConstants ==
  /\ UserLine \cap Config = {}
  /\ Decode \in [UserLine -> UserLine] /\ \A l \in UserLine : Decode[Decode[l]] = Decode[l]
  /\ {"#!", "begin", "end"} \cap (UserLine \cup Config) = {}
  /\ None \notin Proc \cup Config \cup Hooks!Hook \cup Seq(Hooks!Line)
  /\ None \notin {"installed", "restored", "refused", "removed", "failed"}
  /\ MaxHookFaults \in Nat /\ MaxHookEdits \in Nat
CaptureConstants ==
  /\ IsFiniteSet(Path) /\ Path = 1 .. Cardinality(Path)
  /\ None \notin Text \cup {"snapshot"}
  /\ MaxChanges \in Nat /\ None \notin 0 .. MaxChanges
LayerConstants ==
  /\ None \notin PolicyLayer \cup {Builtin} \cup Nat
  /\ \A l \in PolicyLayer \cup {Builtin} :
       /\ l.sets["concurrency"] \in Nat \cup {None}
       /\ l.sets["packs"] \in (SUBSET DOMAIN Pack) \cup {None}
WaiverConstants ==
  /\ \A d \in Document : d = [id |-> d.id, good |-> d.good]
  /\ None \notin Document
  /\ None \notin [file : WaiverFile, id : {None} \cup {d.id : d \in Document}]
  /\ MaxWaiverEdits \in Nat

ASSUME CommandsAssumption ==
  HookConstants /\ CaptureConstants /\ LayerConstants /\ WaiverConstants

HooksIdle ==
  /\ file = None /\ lock = None /\ hookPc = None /\ cfg = None /\ staged = None
  /\ before = None /\ hookAt = None /\ hookAnswer = None /\ added = None
  /\ hookFaults = None /\ hookEdits = None
CaptureIdle ==
  /\ tree = None /\ index = None /\ head = None /\ filters = None /\ changes = None
  /\ kind = None /\ full = None /\ capturePc = None /\ round = None /\ captureAt = None
  /\ capturePlan = None /\ same = None /\ copy = None /\ config = None /\ diff = None
  /\ listed = None /\ captureFirst = None /\ epoch = None /\ captureContent = None
  /\ omitted = None /\ captureAnswer = None /\ seen = None
ReviewIdle ==
  /\ content = None /\ policy = None /\ bound = None /\ turns = None
  /\ moves = 0 /\ faults = 0
  /\ cache = {} /\ reviewed = {} /\ sent = {} /\ published = {}
  /\ opts = None /\ left = None /\ exit = None /\ failed = None
  /\ pc = [p \in Proc |-> "bind"]
  /\ input = [p \in Proc |-> None]
  /\ checked = [p \in Proc |-> None]
  /\ result = [p \in Proc |-> None]
LayersIdle ==
  /\ layer = None /\ layersPc = None /\ layersNext = None /\ merged = None
  /\ origins = None /\ pending = None /\ rules = None /\ diagnosed = None
WaiversIdle ==
  /\ disk = None /\ waiverPc = None /\ moved = None /\ since = None /\ waiverLeft = None
  /\ waiverFirst = None /\ second = None /\ reading = None /\ rewritten = None
  /\ waivers = None /\ waiverEdits = None

MCInit ==
  /\ subject \in {"hooks", "capture", "review", "policy", "waivers"}
  /\ IF subject = "hooks" THEN Hooks!Init ELSE HooksIdle
  /\ IF subject = "capture" THEN Capture!Init ELSE CaptureIdle
  /\ IF subject = "review" THEN Init ELSE ReviewIdle
  /\ IF subject = "policy" THEN Layers!Init ELSE LayersIdle
  /\ IF subject = "waivers" THEN Waivers!Init ELSE WaiversIdle

MCNext ==
  \/ /\ subject = "hooks"
     /\ Hooks!Next
     /\ UNCHANGED <<subject, captureVars, vars, layersVars, waiverVars>>
  \/ /\ subject = "capture"
     /\ Capture!Next
     /\ UNCHANGED <<subject, hookVars, vars, layersVars, waiverVars>>
  \/ /\ subject = "review"
     /\ Next
     /\ UNCHANGED <<subject, hookVars, captureVars, layersVars, waiverVars>>
  \/ /\ subject = "policy"
     /\ Layers!Next
     /\ UNCHANGED <<subject, hookVars, captureVars, vars, waiverVars>>
  \/ /\ subject = "waivers"
     /\ Waivers!Next
     /\ UNCHANGED <<subject, hookVars, captureVars, vars, layersVars>>

MCSpec == MCInit /\ [][MCNext]_all

\* Processes are interchangeable, and so are versions, texts and configurations, which
\* are never in one behaviour and have their names in common.
Symmetry == Permutations(Proc) \cup Permutations(Version)

-----------------------------------------------------------------------------

\* The properties of ReviewCommand go by their names.  Those of the other modules:

\* The types of every module.
TypesOK ==
  /\ subject = "hooks" => Hooks!TypeOK
  /\ subject = "capture" => Capture!TypeOK
  /\ subject = "review" => TypeOK
  /\ subject = "policy" => Layers!TypeOK
  /\ subject = "waivers" => Waivers!TypeOK

\* HookManager: what the user is told of a hook is so when the call has ended.
AnswersAreTrue == subject = "hooks" => Hooks!AnswersAreTrue

\* SourceCapture: the diff that is reviewed is of one instant.
SnapshotIsOneInstant == subject = "capture" => Capture!SnapshotIsOneInstant

\* PolicyLayers: each field of a policy has the value of the layer that it names.
OriginsExplainThePolicy == subject = "policy" => Layers!OriginsExplainThePolicy

\* WaiverDiscovery: the waivers of a policy are those of one instant, as they were written.
WaiversAreOfOneInstant == subject = "waivers" => Waivers!WaiversAreOfOneInstant

\* HookManager: no step takes a line of the user out of a hook.
UserLinesSurvive == [][subject = "hooks" => Hooks!KeepsUserLines]_all
================================================================================
