SPECIFICATION FairSpec
CONSTANTS
  p1 = p1
  p2 = p2
  Procs = {p1}
  NumSteps = 2
  Contracts <- MCContracts
  Commands <- AllCommands
INVARIANTS BudgetRespected CompletedIsProven UndoneAtMostOnce RolledBackIsComplete
PROPERTIES DeclaredTransitions CommandsReturn ImplementsBoundedMission
