SPECIFICATION Spec
CONSTANTS
  TransportKinds = {"mock", "serial"}
  Overlays = {FALSE}
  MayPrompt = TRUE
  Policy = "ONE_PER_TICK"
  MaxQueueDepth = 1
  RequestQueueSize = 2
  WorkQueueSize = 2
  UiQueueSize = 2
  ActionQueueSize = 1
  ReplayLength = 2
  Buttons = {"replay", "live", "home"}
  MaxFrames = 1
  MaxClicks = 3
INVARIANTS
  BenchTypeOK
  TimerFollowsRun
PROPERTY NoDispatchInSafe
CHECK_DEADLOCK FALSE
