SPECIFICATION Spec
CONSTANTS
  a = a
  b = b
  c = c
  Pods = {p1, p2}
  NoPod = NoPod
  NoTask = NoTask
  Tasks <- SoloTasks
  Before <- SoloBefore
  DependsOn <- SoloDependsOn
  RuleOf <- SoloRules
  MaxTries <- SoloTwoTries
  Sensors = {}
  infraMaxAttempts = 1
  MaxActiveTasks = 0
  dispatchMaxAttempts = 2
  BufferSize = 0
  Reapers = {"agent_lost"}
  MaxFaults = 0
  MaxOps = 0
SYMMETRY PodSymmetry
PROPERTIES
  OnlySilentAgentsReaped
