SPECIFICATION FairSpec
CONSTANTS
  Workers = {w1}
  Pods = {w1, p1}
  NoPod = NoPod
  NoWorker = NoWorker
  Tasks = {a}
  NoTask = NoTask
  infraMaxAttempts = 1
  Faults = {"expire", "break", "crash", "db", "spec", "death"}
  MaxFaults = 2
INVARIANTS
  WarmTypeOK
  SettledOnce
  OnlyServedStreams
  FreeWorkersAreIdle
  
PROPERTY EveryAttemptSettles
