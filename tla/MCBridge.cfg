\* One switch and a channel smaller than what a handler publishes.
SPECIFICATION BridgeSpec
CONSTANTS
  Switches = {"charging"}
  on = on
  off = off
  Values <- OnOff
  COMMAND_CHANNEL_CAPACITY = 1
  IN_FLIGHT = 0
  MaxSeq = 1
  MaxEvents = 1
SYMMETRY Symmetry
INVARIANTS
  BridgeTypeOK
  HomeAssistantUpToDate
