\* Both switches: every order of requests, answers, polls and broker sessions.
SPECIFICATION Spec
CONSTANTS
  charging = charging
  balancing = balancing
  on = on
  off = off
  Switches <- SwitchField
  Values <- OnOff
  MaxSeq = 2
  MaxEvents = 2
SYMMETRY Symmetry
INVARIANTS
  TypeOK
  FrozenUntilAnswered
  SnapshotsShowRequested
