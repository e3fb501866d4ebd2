SPECIFICATION DaemonSpec
CONSTANTS
  Server = {s1, s2}
  Client = {c1, c2}
  NoServer = NoServer
  MaxClients = 1
  Untimely = FALSE
  MaxStops = 0
  MaxTries = 1
INVARIANTS
  OneSupervisor
CHECK_DEADLOCK FALSE
