SPECIFICATION FairSpec
CONSTANTS
  a = a
  b = b
  c = c
  Pods = {p1, p2}
  NoPod = NoPod
  NoTask = NoTask
  Tasks <- SoloTasks
  Before <- SoloBefore
  DependsOn <- SoloDependsOn
  RuleOf <- SoloRules
  MaxTries <- SoloOneTry
  Sensors = {}
  infraMaxAttempts = 0
  MaxActiveTasks = 0
  dispatchMaxAttempts = 2
  BufferSize = 0
  Reapers = {"orphan", "pod_lost", "dispatch_lost"}
  MaxFaults = 1
  MaxOps = 0
PROPERTIES
  EveryRunEnds
