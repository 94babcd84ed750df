SPECIFICATION Spec
CONSTANTS
  a = a
  b = b
  c = c
  Pods = {p1, p2, p3}
  NoPod = NoPod
  NoTask = NoTask
  Tasks <- ChainTasks
  Before <- ChainBefore
  DependsOn <- ChainDependsOn
  RuleOf <- ChainRules
  MaxTries <- ChainRetryA
  Sensors = {}
  infraMaxAttempts = 1
  MaxActiveTasks = 0
  dispatchMaxAttempts = 2
  BufferSize = 0
  Reapers = {"agent_lost", "pod_lost"}
  MaxFaults = 0
  MaxOps = 0
SYMMETRY PodSymmetry
INVARIANTS
  StartsOnSettledUpstreams
  CondemnedBySettledUpstreams
  SuccessfulRunIsComplete
  OnePodPerAttempt
