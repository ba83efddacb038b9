SPECIFICATION Spec
CONSTANTS
  TransportKinds = {"serial"}
  Overlays = {FALSE}
  MayPrompt = FALSE
  Policy = "ONE_PER_TICK"
  MaxQueueDepth = 1
  RequestQueueSize = 2
  WorkQueueSize = 2
  UiQueueSize = 2
  ActionQueueSize = 1
  ReplayLength = 2
  Buttons = {"replay", "home"}
  MaxFrames = 1
  MaxClicks = 1
INVARIANT SafeIsRecoverable
CHECK_DEADLOCK FALSE
