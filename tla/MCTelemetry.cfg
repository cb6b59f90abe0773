\* What the events carry: every order of polls, sessions and changes of the
\* number of cells.
SPECIFICATION TelemetrySpec
CONSTANTS
  Switches = {"charging", "balancing"}
  Values = {"on"}
  MaxSeq = 0
  MaxEvents = 1
  TOTAL_CELL_SLOTS = 2
  WORD = 4
  KnownBits = {0}
  bms_name = "pack"
  discovery_prefix = "homeassistant"
  Readings <- MCReadings
  AlarmWords <- MCAlarmWords
  POWER_CYCLES = 1
  MAX_COUNT = 1
INVARIANTS
  TelemetryTypeOK
  EntitiesMatch
  SwitchesCommandable
  SnapshotRight
  ShownIsHeld
PROPERTIES
  CountersNeverFall
