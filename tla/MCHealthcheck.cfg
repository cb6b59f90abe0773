\* Two clients, a query channel with one place, every order of panics, signals,
\* timeouts and checks.
SPECIFICATION HealthFairSpec
CONSTANTS
  Tasks = {"mqtt", "jkbms"}
  Clients = {"c1", "c2"}
  ServiceConfigs <- MCServiceConfigs
  ClientConfigs <- MCClientConfigs
  CHANNEL_CAPACITY = 1
INVARIANTS
  NoTaskLeftBehind
  VerdictTruthful
PROPERTIES
  ShutdownHonoured
  ConnectionsEnd
