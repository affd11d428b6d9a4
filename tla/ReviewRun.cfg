\* Three stages on two runners, with every budget up to two attempts for each stage; a
\* hook on two files; a score of three minors in two majors.
SPECIFICATION MCSpec
CONSTANTS
  k = k
  Key = {k}
  GateMode = "block"
  BlockRank = 1
  NumStages = 3
  MaxInFlight = 2
  Budgets = {1, 2, 3, 4, 5, 6}
  Outputs <- MCOutputs
  None = None
  File = {f1, f2}
  Assessed = {10}
  ScoreMinor = {"m1", "m2", "m3"}
  Major = {"A", "B"}
  ScoreMajorOf <- MCMajorOf
  Weights <- MCWeights
  Standard <- MCStandard
  Rating = {3, 10}
INVARIANTS
  NoStarvation
  GateIsEarned
  BlockIsJustified
  FindingsCapTheScore
  NoGainFromSilence
  DeltaFitsTheScores
PROPERTIES
  EveryRunEnds
\* The run is over.
CHECK_DEADLOCK FALSE
