SPECIFICATION Spec
CONSTANTS
  a = a
  b = b
  c = c
  Pods = {p1}
  NoPod = NoPod
  NoTask = NoTask
  Tasks <- SoloTasks
  Before <- SoloBefore
  DependsOn <- SoloDependsOn
  RuleOf <- SoloRules
  MaxTries <- SoloTwoTries
  Sensors = {}
  infraMaxAttempts = 1
  MaxActiveTasks = 0
  dispatchMaxAttempts = 2
  BufferSize = 0
  Reapers = {}
  MaxFaults = 2
  MaxOps = 0
SYMMETRY PodSymmetry
INVARIANTS
  DispatchFailureKeepsTry
