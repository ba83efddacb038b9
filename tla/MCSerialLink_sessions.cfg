SPECIFICATION Spec
CONSTANTS
  MsgIds <- MCMsgIds
  Jobs <- MCJobs
  OfferedSets <- MCOfferedSets
  SupportedCapabilities <- MCSupported
  MaxQueueDepth = 2
  DedupeCacheSize = 2
  HeartbeatTimeout = 0
  MaxRetries = 1
  MaxCalls = 3
  MaxUnplugs = 0
  MaxGarbles = 0
  MaxSessions = 2
  MaxHostResets = 1
  MaxLates = 2
  BootModes = {"AUTO"}
INVARIANT AtMostOnce
CHECK_DEADLOCK FALSE
