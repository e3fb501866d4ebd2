SPECIFICATION SupSpec
CONSTANTS
  RunId = {r1, r2}
  Project = {p}
  Memory = {1, 2}
  QueueTimeout = {0}
  LimitChoices <- OneSlot
  MaxTime = 0
  Client = {c1}
  Member = {m}
  Faults = {}
  MaxStops = 0
SYMMETRY Symmetry
INVARIANTS
  SlotsHold
  CapacityCoversProcesses
PROPERTIES
  ImplementsRunContract
