\* A frame of three units, so that a piece of one fits every other answer.
SPECIFICATION FairSpec
CONSTANTS
  FrameKinds = {"ConfigOptions", "OperationalData"}
  FRAME_LEN = 3
  ACK_LEN = 1
  ALARM_RSP_LEN = 2
  DRAIN_MAX = 6
  DRAIN_BUF = 2
  HardErrors = TRUE
  MaxUnits = 4
INVARIANTS
  TypeOK
  OwnAnswer
PROPERTIES
  Resynchronises
  CallsReturn
