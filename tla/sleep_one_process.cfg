SPECIFICATION FairSpec
CONSTANTS
  s1 = s1
  s2 = s2
  a = a
  blank = blank
  Sleepers = {s1}
  Contents = {a}
  Blank = blank
  Inputs <- MCInputs
  MaxEvents = 3
  MaxRuns = 3
INVARIANTS TypeOK CheckpointCovers RunsPartition UnfinishedRunsResume QuarantineHolds
PROPERTIES CompletionIsFinal CatchesUp
