\* Progress: the line settles to one of its futures and stays there.
SPECIFICATION FairSpec
CONSTANTS
  PENDING_WRITES_CAP = 1
  RECONNECT_THRESHOLD = 2
  BACKOFF_LEN = 1
  COMMAND_CHANNEL_CAPACITY = 1
  MaxSeq = 2
  Futures = {"good", "silent", "gone"}
PROPERTIES
  Recovers
  OutageReported
  WritesAnswered
  StopHonoured
