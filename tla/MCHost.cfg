SPECIFICATION HostSpec
SYMMETRY Symmetry
CONSTANTS
  m1 = m1
  m2 = m2
  m3 = m3
  j1 = j1
  j2 = j2
  sched = sched
  dedupe = dedupe
  exotic = exotic
  MsgIds <- MCMsgIds
  Jobs <- MCJobs
  OfferedSets <- MCOfferedSets
  SupportedCapabilities <- MCSupported
  MaxQueueDepth = 2
  DedupeCacheSize = 2
  HeartbeatTimeout = 1
INVARIANTS
  HostTypeOK
  CacheCoherent
  QueueCoherent
PROPERTIES
  EffectsAreRemembered
  RefinesModeQueue
