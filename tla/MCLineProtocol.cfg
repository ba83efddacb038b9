SPECIFICATION ProtocolSpec
CONSTANTS
  Bytes <- MCBytes
  NoByte = "NUL"
  Digits <- MCDigits
  Lines <- MCLines
  RingSize = 3
  MaxLine = 4
  MaxPosition = 2
  JobCapacity = 1
  MaxLines = 3
INVARIANTS
  RingCoherent
  FramingIsExact
PROPERTIES
  ImplementsFifo
  SafeCatchesDamage
CHECK_DEADLOCK FALSE
