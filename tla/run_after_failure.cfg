SPECIFICATION Spec
CONSTANTS
  p1 = p1
  p2 = p2
  Procs = {p1}
  NumSteps = 2
  Contracts <- PureSteps
  Commands <- AllCommands
PROPERTY
  FailureStopsMission
