SPECIFICATION MockSpec
CONSTANTS
  MsgIds <- MCMsgIds
  Jobs = {"j1", "j2"}
  OfferedSets <- MCOfferedSets
  SupportedCapabilities <- MCSupported
  MaxQueueDepth = 2
  DedupeCacheSize = 2
  HeartbeatTimeout = 1
  MaxIds = 8
  ConfiguredFaults = {"NORMAL", "SAFE", "WATCHDOG"}
  WrittenFaults = {"NORMAL", "SAFE", "WATCHDOG"}
INVARIANTS
  CopyIsCurrent
PROPERTIES
  MockRefinesModeQueue
