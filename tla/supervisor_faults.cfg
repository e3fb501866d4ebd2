SPECIFICATION SupSpec
CONSTANTS
  RunId = {r1, r2}
  Project = {p}
  Memory = {1, 2}
  QueueTimeout = {0}
  LimitChoices <- OneSlot
  MaxTime = 0
  Client = {}
  Member = {}
  Faults = {"store", "thread"}
  MaxStops = 1
SYMMETRY Symmetry
PROPERTY SpawnOnlyAdmitted
