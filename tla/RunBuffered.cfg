SPECIFICATION Spec
CONSTANTS
  a = a
  b = b
  c = c
  Pods = {p1, p2}
  NoPod = NoPod
  NoTask = NoTask
  Tasks <- SoloTasks
  Before <- SoloBefore
  DependsOn <- SoloDependsOn
  RuleOf <- SoloRules
  MaxTries <- SoloTwoTries
  Sensors = {}
  infraMaxAttempts = 1
  MaxActiveTasks = 0
  dispatchMaxAttempts = 2
  BufferSize = 1
  Reapers = {}
  MaxFaults = 1
  MaxOps = 1
SYMMETRY PodSymmetry
INVARIANTS
  DispatchBudget
  SuccessHasEvidence
PROPERTIES
  AttemptsNeverDecrease
  ImplementsLedger
