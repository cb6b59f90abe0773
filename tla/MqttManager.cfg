\* Commands of one and of three requests, through a request channel of two.
SPECIFICATION FairSpec
CONSTANTS
  COMMAND_CHANNEL_CAPACITY = 2
  REQUEST_CHANNEL_CAPACITY = 2
  INFLIGHT = 1
  INITIAL_BACKOFF = 2
  MAX_BACKOFF = 3
  Sizes = {1, 3}
  MaxCommands = 3
  Futures = {"up", "down"}
INVARIANTS
  TypeOK
  EventsAlternate
  NothingSkipped
PROPERTIES
  RefinesMqttService
  Reconnects
  OutageReported
  EverythingReceived
  StopHonoured
