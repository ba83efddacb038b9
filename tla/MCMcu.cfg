SPECIFICATION McuSpec
CONSTANTS
  Ids <- MCIds
  Ticks <- MCTicks
  LaneComp <- MCLaneComp
  Positions <- MCPositions
  QueueCapacity = 3
  TicksPerMm = 1
  MissTicks = 1
  FaultReasons = {"BROWNOUT"}
  HalfRange = 16
  DepthMax = 2
  DispatchTicks = {0, 3}
  MaxTravel = 1
  MaxJobs = 3
  MaxSafeEntries = 1
  SlotLanes = {9}
  SlotPositions = {2}
INVARIANTS
  OneFatePerJob
  SafeFlushesEverything
  RootSpeaksForAll
PROPERTY ActuationIsSound
