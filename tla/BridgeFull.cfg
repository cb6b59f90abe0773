\* A channel that holds all that handle_broker_connected publishes.
SPECIFICATION BridgeSpec
CONSTANTS
  Switches = {"charging"}
  Values = {"on", "off"}
  COMMAND_CHANNEL_CAPACITY = 4
  IN_FLIGHT = 0
  MaxSeq = 0
  MaxEvents = 1
INVARIANT ListensOnConnect
