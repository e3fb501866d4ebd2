SPECIFICATION SupFairSpec
CONSTANTS
  RunId = {r1, r2}
  Project = {p}
  Memory = {1, 2}
  QueueTimeout = {0}
  LimitChoices <- OneSlot
  MaxTime = 0
  Client = {}
  Member = {}
  Faults = {}
  MaxStops = 1
INVARIANT RowsOwned
PROPERTY ImplementsRunContract
PROPERTY EveryRunFinishes
