\* Safety: every outcome of every exchange and every interleaving with the caller.
SPECIFICATION Spec
CONSTANTS
  PENDING_WRITES_CAP = 2
  RECONNECT_THRESHOLD = 2
  BACKOFF_LEN = 1
  COMMAND_CHANNEL_CAPACITY = 2
  MaxSeq = 4
  Futures = {}
INVARIANTS
  TypeOK
  PollingArmed
  RetryArmed
  ReconnectArmed
  LinkTruthful
  WritesConserved
PROPERTIES
  RefinesWriteService
  WireInOrder
  NoStaleWrite
