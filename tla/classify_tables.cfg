CONSTANTS
    Pid = {2, 3, 4}
    Top = 1
    Kinds <- MCKinds
    AgeHours = 8
    Rules <- V1
    Evidence <- MCEvidence
    None = None
    NoProject = NoProject
    MaxCandidates = 3
    Dir <- MCDir
    Up <- MCUp
SPECIFICATION MCSpec
INVARIANTS
  ItemsHold
  GitRootWins
PROPERTIES
  MarksHold
  PortsHold
  ResolverDecides
CHECK_DEADLOCK FALSE
