SPECIFICATION WorkerSpec
CONSTANTS
  Leader = leader
  Others = {}
  Stranger = stranger
INVARIANT MonitoredIsWatched
CHECK_DEADLOCK FALSE
