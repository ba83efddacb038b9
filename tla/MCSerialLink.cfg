SPECIFICATION FairSpec
CONSTANTS
  MsgIds <- MCMsgIds
  Jobs <- MCJobs
  OfferedSets <- MCOfferedSets
  SupportedCapabilities <- MCSupported
  MaxQueueDepth = 1
  DedupeCacheSize = 2
  HeartbeatTimeout = 0
  MaxRetries = 1
  MaxCalls = 2
  MaxUnplugs = 1
  MaxGarbles = 1
  MaxSessions = 1
  MaxHostResets = 1
  MaxLates = 0
  BootModes = {"AUTO", "MANUAL"}
INVARIANTS
  ReportsAreTrue
  MirrorAgrees
  PollIsRedundant
PROPERTY CallReturns
CHECK_DEADLOCK FALSE
