SPECIFICATION Spec
CONSTANTS
  p1 = p1
  p2 = p2
  Procs <- MCProcs
  NumSteps = 2
  Contracts <- RacingContracts
  Commands <- RacingCommands
SYMMETRY MCSymmetry
INVARIANTS TypeOK EffectAtMostOnce RanWithConsent
