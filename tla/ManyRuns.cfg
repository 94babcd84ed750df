SPECIFICATION FairSpec
CONSTANTS
  DagOrder <- TwoDags
  PoolOf <- SharedPool
  Schedule <- BothCron
  Catchup <- EtlBackfills
  StartDate <- Starts
  MaxActiveRuns <- RunCaps
  MaxActiveTasks <- TaskCaps
  PoolSlots <- TwoSmallSlots
  maxCatchupSlotsPerTick = 2
  MaxNow = 3
  Events = {"trigger", "refused", "run", "create", "abandon", "lost", "mark"}
  MaxEvents = 1
INVARIANTS
  TicksTypeOK
  WithinPoolSlots
  WithinDagTasks
  
  NoSlotSkipped
PROPERTY EveryDagCatchesUp
