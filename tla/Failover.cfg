SPECIFICATION FairSpec
CONSTANTS
  Replicas = {r1, r2}
  NoReplica = NoReplica
  maxLeaderCheckFailures = 2
  alertMaxAttempts = 2
  alertConcurrency = 1
  MaxClears = 1
  Faults = {"session", "check", "release", "crash", "abort", "store", "send"}
  MaxFaults = 2
INVARIANTS
  AlertTypeOK
  OverlapNeedsLostSession
  LockDepthIsAccounted
  
PROPERTIES
  StaleLeaderStepsDown
  LeadershipRecovers
  
