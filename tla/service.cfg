SPECIFICATION ServiceSpec
CONSTANTS
  RunId = {r1, r2, r3}
  Project = {p, q, s}
  Memory = {1, 2}
  QueueTimeout = {1}
  LimitChoices <- MCOneLimits
  MaxTime = 2
  Server = {s1, s2}
  Client = {c1, c2}
  NoServer = NoServer
  MaxClients = 2
  Untimely = FALSE
  MaxStops = 1
  MaxTries = 2
  Shown = {1, 2}
  NoId = NoId
  MaxChanges = 2
  MaxPresses = 2
  Item = {1, 2, 3}
  Enclosing <- MCEnclosing
  OfCategory = {1}
  Suspicious = {2}
  OfProject = {2, 11}
  Hit = {2, 12}
  Engine = {11, 12, 13}
  Persistent = {12}
  Prunable = {13}
  Containers = {11}
  Listed = {21}
  Scanned <- MCScanned
  MaxScans = 1
  MaxKeys = 4
INVARIANTS
  WithinLimits
  SoleAndReachable
  MatchesAreListed
PROPERTIES
  NobodyWaitsForever
  RequestsServed
  FeedDelivers
  PopupsKeepTheirWord
CHECK_DEADLOCK FALSE
