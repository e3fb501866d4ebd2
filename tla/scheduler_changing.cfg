SPECIFICATION Spec
CONSTANTS
  RunId = {r1, r2, r3, r4}
  Project = {p, q}
  Memory = {1, 2}
  QueueTimeout = {1}
  LimitChoices <- ChangingLimits
  MaxTime = 2
SYMMETRY RunSymmetry
INVARIANTS
  TypeOK
  OnePlace
PROPERTIES
  AdmissionWithinLimits
  NoIdleCapacity
  AdmissionOrder
