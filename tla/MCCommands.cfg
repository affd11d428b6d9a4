\* Two processes on the hooks and on reviews, two versions, one fault of a
\* review and two of a hook; a capture of two paths; two files of waivers.
SPECIFICATION MCSpec
CONSTANTS
  Proc = {p1, p2}
  None = None
  Config = {a, b}
  UserLine = {"line", "latin"}
  Decode <- MCDecode
  Path = {1, 2}
  Text = {a, b}
  MaxFiles = 2
  MaxChanges = 2
  Version = {a, b}
  Policy = {open, closed}
  Open = {open}
  MaxMoves = 2
  MaxFreeMoves = 1
  MaxFaults = 1
  MaxHookFaults = 2
  MaxHookEdits = 1
  PolicyLayer <- MCLayers
  Builtin <- MCBuiltin
  Pack <- MCPack
  Overridden = "r1"
  Trusted <- MCTrusted
  WaiverFile = {f1, f2}
  Document <- MCDocument
  MaxWaiverEdits = 2
SYMMETRY Symmetry
INVARIANTS
  TypesOK
  AnswersAreTrue
  SnapshotIsOneInstant
  ResultIsOfThisInput
  OnlyConfirmedIsSent
  PublishedIsReviewed
  ChecksSeeWhatIsReviewed
  OriginsExplainThePolicy
  WaiversAreOfOneInstant
PROPERTIES
  UserLinesSurvive
\* Every call may be over.
CHECK_DEADLOCK FALSE
