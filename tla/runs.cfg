SPECIFICATION MCRunsSpec
CONSTANTS
  Leader = leader
  Others = {child1}
  Stranger = stranger
  w1 = w1
  w2 = w2
  Writer = {w1, w2}
  Output <- MCOutput
  StreamLimit = 2
  BudgetLimit = 2
  ChunkBytes = 1
  MaxStarts = 1
  Faulty = {w2}
INVARIANTS
  HardIsEnforced
  EndIsHonest
  LogsHonest
PROPERTIES
  RunsReturn
CHECK_DEADLOCK FALSE
