SPECIFICATION SupSpec
CONSTANTS
  RunId = {r1}
  Project = {p}
  Memory = {1}
  QueueTimeout = {0}
  LimitChoices <- OneSlot
  MaxTime = 0
  Client = {c1}
  Member = {}
  Faults = {}
  MaxStops = 0
PROPERTY CancelReachesRun
