CONSTANTS
  Capacity = 1
  DropPolicy = "DROP_OLDEST"
  Rate = 3
  UnitsPerPulse = 2
  UnitsKept = 1
  EncoderFault = "none"
  MaxEdits = 2
  LaneWidth = 100
  Drivers = {"cli", "caller"}
  Fallbacks = {"SAFE", "REJECT"}
  Scenes <- MCScenes
  Threshold = 2
  DefaultThreshold = 1
  MinReliability = 50
  Shots <- MCShots
  MaxFrames = 3
  MaxCycles = 2
SPECIFICATION Spec
INVARIANTS CycleTypeOK PassMeansRejectsAreQueued NoObjectSentTwice PulsesAreConserved TriggerIsNotAhead
PROPERTY SentWithCurrentCalibration
CHECK_DEADLOCK FALSE
