SPECIFICATION FairSpec
CONSTANTS
  Replicas = {r1}
  NoReplica = NoReplica
  maxLeaderCheckFailures = 2
  alertMaxAttempts = 5
  alertConcurrency = 1
  MaxClears = 0
  Faults = {"send"}
  MaxFaults = 1
PROPERTY
  FailedSendIsRetried
