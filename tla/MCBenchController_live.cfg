SPECIFICATION Spec
CONSTANTS
  TransportKinds = {"mock", "serial"}
  Overlays = {FALSE, TRUE}
  MayPrompt = TRUE
  Policy = "ALL"
  MaxQueueDepth = 1
  RequestQueueSize = 2
  WorkQueueSize = 2
  UiQueueSize = 2
  ActionQueueSize = 1
  ReplayLength = 1
  Buttons = {"replay", "live", "home", "mock", "serial", "connect", "disconnect", "fire"}
  MaxFrames = 1
  MaxClicks = 2
PROPERTIES
  UiComesToRest
  ReplayEnds
CHECK_DEADLOCK FALSE
