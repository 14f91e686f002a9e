SPECIFICATION Spec
CONSTANTS
  s1 = s1
  s2 = s2
  a = a
  blank = blank
  Sleepers = {s1, s2}
  Contents = {a}
  Blank = blank
  Inputs <- Lessons
  MaxEvents = 2
  MaxRuns = 3
SYMMETRY MCSymmetry
INVARIANTS CheckpointClassified NoDuplicateMaterial
PROPERTIES ClassifiedOnce
