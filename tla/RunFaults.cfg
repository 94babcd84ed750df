SPECIFICATION Spec
CONSTANTS
  a = a
  b = b
  c = c
  Pods = {p1, p2}
  NoPod = NoPod
  NoTask = NoTask
  Tasks <- SoloTasks
  Before <- SoloBefore
  DependsOn <- SoloDependsOn
  RuleOf <- SoloRules
  MaxTries <- SoloTwoTries
  Sensors = {a}
  infraMaxAttempts = 1
  MaxActiveTasks = 0
  dispatchMaxAttempts = 2
  BufferSize = 0
  Reapers = {"agent_lost", "pod_lost", "dispatch_lost"}
  MaxFaults = 1
  MaxOps = 0
SYMMETRY PodSymmetry
INVARIANTS
  TypeOK
  RetryBudget
  InfraBudget
  SuccessHasEvidence
PROPERTIES
  ImplementsLedger
