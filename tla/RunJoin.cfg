SPECIFICATION Spec
CONSTANTS
  a = a
  b = b
  c = c
  Pods = {p1, p2, p3, p4}
  NoPod = NoPod
  NoTask = NoTask
  Tasks <- JoinTasks
  Before <- JoinBefore
  DependsOn <- JoinDependsOn
  RuleOf <- JoinRules
  MaxTries <- JoinRetryA
  Sensors = {}
  infraMaxAttempts = 1
  MaxActiveTasks = 1
  dispatchMaxAttempts = 2
  BufferSize = 0
  Reapers = {}
  MaxFaults = 0
  MaxOps = 0
SYMMETRY PodSymmetry
INVARIANTS
  
  CondemnedBySettledUpstreams
  WithinMaxActiveTasks
