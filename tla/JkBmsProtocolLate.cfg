\* Answers that outlive the drain.
SPECIFICATION Spec
CONSTANTS
  FrameKinds = {"ConfigOptions", "OperationalData"}
  FRAME_LEN = 3
  ACK_LEN = 1
  ALARM_RSP_LEN = 2
  DRAIN_MAX = 6
  DRAIN_BUF = 2
  HardErrors = FALSE
  MaxUnits = 8
INVARIANT NeverDesynchronized
