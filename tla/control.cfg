CONSTANTS
    Pids <- MCPids
    Above <- MCAbove
    NoPid = 0
    Kind <- MCKind
    Name <- MCName
    Project <- MCProject
    Slug <- MCSlug
    Foreign = {3}
    Unreadable <- MCUnreadable
    DockerIds <- MCDocker
    DKind <- MCDKind
    Anonymous = {"data"}
    Mounts <- MCMounts
    ShortId <- MCShort
    Clients = {1, 2, 3}
    PlanIds = {p1, p2}
    Absent = Absent
    Empty = Empty
    Gone = Gone
    PlanTtl = 1
    Scenes <- MCScenes
    MaxNow = 2
    Runs = {r1, r2}
    Requests = {q1, q2, q3}
    Mcps = {m1, m2}
    AllowRun = {m1}
    Protected = {}
    Request = {key}
    Window = 0
    Retention = 0
    MaxRuns = 2
    MaxTicks = 1
    MaxReopens = 1
    Wanted = {mem, pids}
    Explicit = "explicit"
    Own = "own"
    Mount = "mount"
    DirAbove <- MCDirs
    NoDir = NoDir
    Job = {j1, j2}
    Setter = {c1, c2}
    Value = {1, 2}
    Unset = Unset
    Swap = TRUE
    MaxServes = 2
    Opener = {o1, o2}
    Columns <- MCColumns
    Epoch <- MCEpoch
    Current = 2
    MaxIds = 3
SYMMETRY Symmetry
SPECIFICATION MCControlSpec
INVARIANTS
  ActsOnIdentity
  ActionsHonest
  RunsAreGated
  OneRunPerKey
  CapsInForce
PROPERTIES
  PlansOnce
  RowsOnlyAdvance
  SchemaSafe
CHECK_DEADLOCK FALSE
