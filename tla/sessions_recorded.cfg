CONSTANTS
    a = a  m = m  h = h  n = n  v = v  Nobody = Nobody
    Proc = {a, m, h, n, v}
    Agent = {a}
    Vendor = {v}
    Helper = {h}
    Persistent = {}
    Parent <- MCParent
    Collector = {tui, web}
    Once = {web}
    Worlds <- MCWorlds
    Retention = 0
    MaxTime = 1
SPECIFICATION Spec
INVARIANTS
  TablesHold
PROPERTIES
  HistoryStands
  EndsMatchLives
  SurvivorMarked
CHECK_DEADLOCK FALSE
