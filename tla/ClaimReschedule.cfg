SPECIFICATION Spec
CONSTANTS
  a = a
  b = b
  c = c
  Pods = {p1, p2}
  NoPod = NoPod
  NoTask = NoTask
  Tasks <- SoloTasks
  Before <- SoloBefore
  DependsOn <- SoloDependsOn
  RuleOf <- SoloRules
  MaxTries <- SoloOneTry
  Sensors = {a}
  infraMaxAttempts = 1
  MaxActiveTasks = 0
  dispatchMaxAttempts = 2
  BufferSize = 0
  Reapers = {}
  MaxFaults = 0
  MaxOps = 1
SYMMETRY PodSymmetry
PROPERTIES
  LateRescheduleIgnored
