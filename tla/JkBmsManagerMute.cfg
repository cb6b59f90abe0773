\* The BMS answers every poll but those of OperationalData.
SPECIFICATION FairSpec
CONSTANTS
  PENDING_WRITES_CAP = 1
  RECONNECT_THRESHOLD = 2
  BACKOFF_LEN = 1
  COMMAND_CHANNEL_CAPACITY = 1
  MaxSeq = 0
  Futures = {"mute02"}

PROPERTY MissingDataEscalates
