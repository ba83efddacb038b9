CONSTANTS
  Indents = {0, 1, 2, 4}
  LineKeys = {"a", "b"}
  MaxLines = 4
  MaxDepth = 2
  Providers <- DetectionProviders
  Keys = {"rot", "length"}
  DefaultName = "standard_reject"
  DefaultThresholds <- MCDefault
  NewNames = {"c"}
  SpinValues = {40}
  Files <- MCFiles
  MaxOperations = 3
  Normalises = TRUE
  TargetLuma = 128
  MinArea = 120
  RejectRed = 140
  MaxEdits = 1
  LaneWidth = 100
  Pictures <- MCPictures
  ScoreKey = "rot"
  MaxRepeats = 3
  CycleLimits <- MCLimits
SPECIFICATION FairLiveSpec
INVARIANTS ParserNests WindowAndFileAgree NothingLeftOpen FrozenPictureIsBounded
  TraceAgreesWithWire DarkFramesSendNothing
PROPERTY RunEnds
CHECK_DEADLOCK FALSE
