# A TLA+ model of wyd

`wyd` watches the processes that coding agents leave behind. It scans and
classifies them, records which session owns what, stops what the user confirms,
and runs commands for agents under a supervisor: with a bounded number at a time,
a memory budget, a queue, limits, and a cleanup whose completeness it reports.
This directory models its control: who is admitted when, what happens between a
request and its result, what survives a process that dies, and what an action
hits when the world has changed since it was asked for. Paths are relative to
the repository's `src/`.

| module | models | interacts with |
|---|---|---|
| `Scheduler` | `runner/scheduler.rs`, one action per method | |
| `Supervisor` | the threads of `runner/mod.rs`, the runs table, crash and recovery | EXTENDS `Scheduler`; implements `RunContract` |
| `RunContract` | abstract: what a client is promised about one run | |
| `Worker` | one run on its machine: `run_worker`, `setup_cgroup`, `stop_group`, `platform/pgroup.rs` | the one-step stop of `Supervisor` in detail |
| `RunTable` | rows, events and slots, and the views made of them: `store.rs`, `runner/mod.rs` | |
| `RunLogs` | `runner/logs.rs`, the drains, the readers of `main.rs` and `web/mod.rs` | |
| `CgroupRoot`, `Aggregate` | the search for a delegated cgroup; the shared cgroup and its caps: `platform/cgroup.rs`, `runner/mod.rs`, `server.rs` | |
| `Schema` | opening and migrating the store, boot ids: `store.rs`, `platform/boot.rs` | |
| `Daemon` | `server.rs`, `runner/client.rs`: one daemon per user, started on demand | |
| `Sessions` | the ownership tables of `store.rs`, the collectors of `collect.rs`, the vendor hooks | |
| `Classify`, `Resolver`, `Projects` | `classify/`, `source.rs`, `ports.rs`: items and marks; who owns a resource; the project cache | |
| `Barman` | `barman.rs`, `actions/`: plans, actions, signals, Docker calls | |
| `Web` | `web/mod.rs`, `web/proposal.rs`, the run tools of `mcp.rs` | EXTENDS `Barman`: the same processes and snapshots |
| `RunFeed`, `Terminal` | `tui/`: the thread that loads the run list; keys, rows and popups | |
| `MC*` | instances, and the composition of parts in one run | |
| `SchedulerProofs`, `SupervisorProofs`, `SessionsProofs` | TLAPS proofs about the module of that name | |
| `RunProofs` | TLAPS proofs about `Worker`, `RunLogs` and `Daemon` | |
| `StoreProofs` | TLAPS proofs about `RunTable`, `Schema`, `CgroupRoot` and `Aggregate` | |
| `ControlProofs` | TLAPS proofs about `Barman` and `Web` | |
| `SnapshotProofs` | TLAPS proofs about `Classify`, `Resolver`, `Projects`, `Terminal` and `RunFeed` | |
| `Recursion` | lemmas: functions defined by recursion along a rank, and induction along one | all proofs but the first two |

## Inventory

| part | state | operations | hard because |
|---|---|---|---|
| scheduler | limits, running, queue, held reservations; under one mutex | `submit`, `release`, `cancel_queued`, `expire`, `set_limits` | order, starvation, memory, held reservations and changing limits meet in one decision; time is the maximum of two clocks |
| supervisor | registry of slots, each under its own lock; one worker thread per run | `start`, `admit`, `transition`, `finish`, `cancel`, `cancel_all`, queue tick, `recover`, `prune`, `get` | five kinds of threads, four locks, and no step holds two of them across a decision |
| worker, groups, cgroups | the system's processes | sample, signal, probe, identify, limit | processes fork and die at will, ids are reused, a check and a kill are two calls |
| runs table | `runs`, `run_events`, `run_processes` | `run_insert`, `run_transition`, `run_finish`, `run_event`, `run_prune` | lags behind the slots; is all that survives a crash |
| run logs | bytes per stream, one global budget | bounded write, cursor read | drains and readers share files and a counter |
| daemon and clients | socket, lock file, client count | `serve`, handshake, start on demand, shutdown, idle exit | decides to exit on what it reads from other threads; several clients start daemons at once |
| store schema | version, columns, boots | open, migrate, register a boot | any process may open it, and die while it does |
| sessions and ownership | sessions, resources, members, owners, aliases | record a scan, end sessions, attribute, gc | several collectors write with scans of different age |
| classification | none but a cache | rules, grouping, marks, resolver | many rules whose order decides |
| plans, actions, proposals | plan files, pending proposals | plan, execute once, confirm, signal | processes and plans changed since they were shown |
| terminal | feed, cursor, marks, popups | load, filter, mark, confirm | two threads and a flag; rows move between a frame and a key |
| scanners, configuration, demo | views | reads and presentation | little of their own |

A client's request reaches `Supervisor::start` on a server thread, which inserts
the row, registers the slot and submits to the scheduler. An admitted run gets a
worker thread; that thread, a canceller, the queue tick or a refusing `admit`
ends the run through `finish`, which writes the slot, the row, the registry and
the scheduler in this order under a lock each, and starts the workers of whatever
the released slot admitted. Only the table, the files, the cgroups and the
processes outlive the supervisor; the next one closes what it finds unfinished
before it serves. Collectors, the terminal, the web server and the `wyd` commands
are processes of their own: they meet in the store, in plan files and in the
processes they signal.

## The models and the code

### Scheduler

The struct is one record, `sched`, which the operators take as the methods take
`self`. Every method is one action, since all run under one mutex; `Release` has
its whole admission loop (`PickAll`). Time is `mono`, the clock that pauses while
the machine sleeps, and `now >= mono`, the maximum with the wall clock; `Tick`
moves both, `WallStep` the wall clock alone, forward or back. Reservations are
small numbers of units; a sum over runs is the cardinality of a set of units.

### Supervisor and its contract

A thread is a program counter; a step is what it does under one lock. `slot` and
`registry` are the memory, `row` the table, `group` the living processes;
`starter`, `worker`, `canceller`, `expired` and `finishing` say where the calls
are; `mode` is "up", "draining", "down" or "recovering". `Stop` loses everything
in memory, `Recover` signals and counts only recorded processes of this boot.
`StopGroup` is one step that may leave any part of the group; `Worker` has it step
by step. `RunContract` says: a run is opened once, closed once with a result that
stays, has processes started only while open, and is complete only when none
lives, or, when a later supervisor closes it as lost, none that was recorded.
`ImplementsRunContract` maps rows, groups and recorded processes to it.

### Worker

Every look at the processes and every signal of `run_worker` and `stop_group` is a
step, between steps of processes that fork, exit, leave the group and keep the
pipe, of an OOM kill, and of a stranger that gets the group's id. `grouped` and
`caged` are who is in the group and in the cgroup; each step of `setup_cgroup`
may fail; a deadline may pass at any time. Usage is "over the limit" or not.

### RunTable, RunLogs

`RunTable` has the two-step transitions (memory, then row with event), the
request window of `run_insert`, the next supervisor's recovery and prune, and a
client that is shown the run from memory or row (`GetSlot`, then `GetView`).
`RunLogs` has the budget taken before the write, drains that end late, files
counted by the next supervisor, prune, and readers of four kinds: following,
reading once, printing after a run, and paging. One stream stands for both. The
worker sets `run_over` first (`SetRunOver`), then waits up to two seconds for its
drains and writes the row (`FinishRow`); what a drain reads in between it drops
(`late`).

### CgroupRoot, Aggregate, Schema

`CgroupRoot` tries the candidates in order, up a tree of directories that offer,
enable and are occupied as the kernel allows. `Aggregate` sweeps, makes and caps the
shared cgroup; a `set_limits` request reads, changes the scheduler and writes the
caps in three steps of a server thread. `Schema` has every statement of `init` as
a step of one of several openers that may be killed.

### Daemon

The path of the socket names one listener; a client shakes hands, locks, looks
again, unlinks, spawns and waits. Daemons end by a signal, by the idle exit, or
because another serves. A daemon that opens the table declares open rows lost.

### Sessions, Classify, Resolver, Projects

A collector's scan, its two ownership transactions, attribution and gc are steps,
interleaved with other collectors, a vendor's hook, and processes that die.
`Classify` takes process tables with the signatures each process hits and builds
the items as `group`, `attach`, `mark` and the session marks do, before and after
every exit, and beside them the list of ports, each with the agent that owns it or
the shell or supervisor it was started from. The walks of the code give up after 64 parents, those of the model do not: it
speaks of trees less deep. `Resolver` is `resolve` over any sequence of candidates;
its one caller outside tests passes a single one (`collect.rs:214`).
`Projects` is the cache of project lookups, one lookup a step.

### Barman, Web

A `wyd` process takes a snapshot, reads a plan, re-resolves ids, refreshes,
re-checks identities and signals one process after another, in steps between
which processes end, pids change hands and the classifier changes its mind. A
start time that could not be read is 0 (`Unreadable`): ids then do not tell two
processes in turn apart, and where either time is 0 the pid alone decides
(`IdentityHolds`). A group adds up the reports of its members and answers for all
of them at once (`SumUp`); a session as a target is accepted and always stale. `Web`
adds a thread per connection, the published snapshot, the map of proposals and
the supervisor that answers or does not.

### RunFeed, Terminal

`RunFeed` has the loader thread and the UI thread, a step per use of the lock;
the condition variable wakes only a thread that waits, and the list or a detail
may fail to load. `Terminal` has a snapshot
that is replaced between any frame and the key that answers it; `app` is `App`,
`drawn` what the popup on the screen names.

## Runs

Parts that share no state are checked in one run: a behaviour is one part, chosen
in its first state, and the others stand in a state where they can do nothing
(`part` in the MC modules). What interacts is composed in earnest: `Supervisor`
with `Scheduler`, `Web` with `Barman`. A property of a run is often a conjunction
of named statements about one concern, each with its own comment; most of these
have an operator beside the code they speak of, named "Mutant of", that breaks it.

| run | instance | shows |
|---|---|---|
| `scheduler_changing` | 4 runs, 2 projects, reservations of 1 and 2, limits that change in every number | type, `OnePlace`, `AdmissionWithinLimits`, `NoIdleCapacity`, `AdmissionOrder` |
| `supervisor_threads` | 2 runs, 1 slot, a client that cancels any run any number of times, one process left behind | `SlotsHold`, `CapacityCoversProcesses`, `ImplementsRunContract` |
| `supervisor_restarts` | 2 runs, one stop (crash, shutdown or idle exit) at any step, reboot or not, fair | `RowsOwned`, `ImplementsRunContract`, `EveryRunFinishes` |
| `supervisor_faults` | 2 runs, writes and thread creation may fail, one stop | `SpawnOnlyAdmitted` |
| `runs` | a worker with a leader and one child, under every enforcement, fair; two logged runs, one that fills its stream and one the disk fails, one restart | `HardIsEnforced`, `EndIsHonest`, `LogsHonest`, `RunsReturn` |
| `control` | three processes of which two share an id and one has no known start time at first, another none when its pid is used again; a container with an anonymous volume, a volume the user named, a dangling image; three `wyd` processes, two plans, three connections, two MCP servers, two runs; a request key over one restart; a root search over every layout of four directories; caps with two setters and two supervisors; a store with two openers and two boots | `ActsOnIdentity`, `ActionsHonest`, `PlansOnce`, `RunsAreGated`, `OneRunPerKey`, `RowsOnlyAdvance`, `CapsInForce`, `SchemaSafe` |
| `sessions_recorded` | an agent with a resource and its helper, another resource, a vendor's agent, two collectors of which one may be killed, fair | `TablesHold`, `HistoryStands`, `EndsMatchLives`, `SurvivorMarked` |
| `classify_tables` | every table of three processes of twelve kinds; every three candidates; every lookup in a tree of five directories | `ItemsHold`, `MarksHold`, `PortsHold`, `ResolverDecides`, `GitRootWins` |
| `service` | the queue with fixed limits, fair clock; two daemons and two clients, one stop, one retry, fair; the feed with two runs, fair; a terminal of three items, two resources and a run, one rescan, four keys | `WithinLimits`, `NobodyWaitsForever`, `SoleAndReachable`, `RequestsServed`, `FeedDelivers`, `PopupsKeepTheirWord`, `MatchesAreListed` |
| `supervisor_lost_cancel` | 1 run, 1 client | violated: `CancelReachesRun` |
| `daemon_two` | 2 clients, a daemon with room for one | violated: `OneSupervisor` |
| `runs_monitored` | a leader alone | violated: `MonitoredIsWatched` |

What the bounds leave room for, and why they are enough:

* *scheduler*: three runs are one that holds capacity and two that compete, the
  fourth is one that overtakes; a budget of 3 with reservations of 1 and 2 gives
  one that fits beside another and one that does not. `MaxTime` contains every
  deadline and the starvation threshold.
* *supervisor*: two runs for one slot are one that works and one that waits, is
  cancelled, expires, or is admitted by the other's `finish`. A timeout of 0 makes
  a queued run overdue from the start, so that the tick comes before or after any
  other step. Across a restart `CapacityCoversProcesses` does not hold (see the
  divergences): it is checked, and proved, up to the first stop. `Member = {}` in
  `supervisor_restarts` keeps a run to its leader, who may be recorded or not when
  the supervisor stops, and dies by itself or by recovery. With failed writes a slot may be lost until the next restart
  (`runner/mod.rs:777`, `1302`): `supervisor_faults` checks only that nothing
  unrecorded is spawned.
* *worker*: a child is what escapes, outlives its leader or holds the pipe; a
  second would repeat it. The stranger is the reuse of the group's id.
* *logs*: 3 and 1 bytes against 2 per stream and 2 in all: both limits are met,
  alone and together, and a chunk of 1 makes a reader come back. Of a run whose drain
  has not ended when the row is written (`missed`) the row promises nothing: the pipe
  is then held by a process that outlived the run.
* *control*: two processes under one id and one under another are what an action
  may confuse; an unknown start time before and one after a pid changes hands are the
  two ways in which the pid alone decides, and `ActsOnIdentity` excepts both by name
  (`PassesFor`); two clients that execute one plan, or a plan and an action, are
  what it may repeat. `Window = Retention = 0` is the tightest case the
  assumption `Window <= Retention` has: a row goes as soon as its key may be used
  again. Each scene gives the environment only the events that it needs (`MCScenes`).
* *sessions*: two collectors are an old and a new scan; `Retention = 0` lets gc
  take whatever it does not spare. `MaxTime = 1` tells before from after.
* *classify*: three processes are an agent, what it started and what is below that; the
  kinds are those that fold, roll up, hide or exempt one another. `ExitsNeverClear` leaves
  out databases, which `init` turns into services by adopting them, and browsers, which
  their controllers hide and show (`classify/group.rs:195`). Another item keeps its score
  unless a browser comes into view above it: below a wrapper named as playwright's, below
  an automation browser, an MCP server is at the top as long as the browser is not shown,
  and no longer when it is. The attempt to prove the property without that case found it,
  and the wrapper is among the kinds since.
* *daemons*: `Untimely = FALSE` assumes that a daemon opens the table before a
  handshake times out, and is gone before the next one has started. With `TRUE`,
  `OneSupervisor` and `ClientReturns` fail; no document promises them then. Two
  clients with room for two are never refused; `daemon_two` is the refused one.
* *terminal*: one rescan is what may come between a frame and a key; four keys
  open a filter, a popup, close it and open another.

Deadlock is not checked where the system may rest: every bounded environment
comes to an end, and so do the programs.

### Fairness

* `service`, queue: the clock and the queue tick, which are threads of the process
  (`QUEUE_TICK`); callers may never release anything.
* `service`, daemons: threads of daemons and clients run, a run ends (it has a
  timeout), an idle daemon is in the end seen idle between requests (SF).
* `service`, feed: both threads run; the refresh timer is not needed.
* `supervisor_restarts`: threads run, an accepted request is served, the tick runs,
  a supervisor that is down is started again (clients do so on demand), and a
  leader that was sent SIGKILL dies (`reaper.join`, `runner/mod.rs:1506`, has no
  bound).
* `runs`: the worker and its reaper run, a deadline looked at again and again
  passes (SF on `TimeOut`); nothing is asked of the processes. A reader reads on, a
  drain writes what it has read.
* `sessions_recorded`: a collector that stays scans again and again, and a write of
  it does not fail for ever (SF).

## Where code and documents part

Runs that exhibit a divergence, as findings in `PROJECT.json`:

* `supervisor_lost_cancel`: between `run_insert` and the registry insert a cancel
  sets the flag of a slot nobody else has (`runner/mod.rs:1074`).
* `daemon_two`: a client that is refused at `MAX_CLIENTS` takes the daemon for dead,
  removes its socket and starts a second one (`server.rs:145`, `runner/client.rs:200`).
* `runs_monitored`: where a cgroup exists, a monitored limit is not looked at
  (`runner/mod.rs:1385`).

Met while modelling; the models do as the code does and the properties are stated
up to it:

* `README.md:188` says that a request bypassed long enough wins the next slot;
  `submit` starts whatever fits past it (`runner/scheduler.rs:159`).
* A request "gives up" at its deadline (`scheduler.rs:101`), but a release before
  the next tick admits it (337).
* `cancel_all` waits for the slots, `finish` makes a slot terminal before it writes
  the row: a shutdown in between loses the result (`runner/mod.rs:1046`, `1646`).
* A cleanup is `unknown` when its processes cannot be identified
  (`model/run.rs:229`), and also when the group has just ended (`runner/mod.rs:1727`).
* Recovery may call complete a run of which a process lives that no sample saw
  (`runner/mod.rs:1234`; `managed-runs-plan.md:313`), and it forgets what incomplete
  runs occupy (573; `managed-runs-plan.md:510`).
* Clients start `serve` without `--auto` (`runner/client.rs:208`), so the idle exit
  `README.md:210` describes is for daemons somebody started with it.
* A vendor's session that an old scan ends is not opened again
  (`store.rs:1164`, `collect.rs:90`).
* An answer for one directory is cached for all above it (`classify/project.rs:72`):
  without a git root, the nearest marker need not win for a sibling (64).
* `execute` "re-checks identity and the protected list" (`barman.rs:1361`); the
  protected list is only applied when plans are made.
* Truncation "is reported" (`README.md:221`), but the worker sets `run_over`
  (`runner/mod.rs:1522`) before it waits for its drains, and what they read after that
  they drop with no flag (1808): the end of the output of a command that ended normally,
  still in the pipe when it ended, can be missing while the row says that nothing is.
  `PrintedIsKept` has this exception by name (`late`) and no other.
* Plans are "single-use files" (`docs/barman-api.md:120`), but `take_plan` reads the file
  before it removes it and ignores whether the removal was its own (`barman.rs:1091`): of
  executes that overlap each goes on. What holds is that an execute that starts after the
  removal has nothing to read (`PlansOnce`).
* Anonymous volumes are plan candidates in `docs/barman-api.md:106`, `barman.rs:594` and the
  test at `barman.rs:1578`, which sets their state by hand. The scanner marks every volume
  persistent (`scanner/docker.rs:208`), and no plan ever holds one (`VolumesKept`).
* "Re-checked by PID + start time" (`README.md:309`; `docs/barman-api.md:93`) holds where
  both times are known; with either unknown the pid is enough (`actions/process.rs:113`;
  `managed-runs-plan.md:279` names this fallback), and a process that took over the pid is
  signalled. The ids of two items whose times are unknown can be the same (`barman.rs:692`).
* A group may be a session, `session_*` (`docs/barman-api.md:98`), but `act_group` looks
  among the projects only and answers that it is stale (`barman.rs:1285`).
* `get_capacity` starts a supervisor when none runs, also without `--allow-run`
  (`mcp.rs:420`); it starts and cancels nothing, so that `RunToolsGated` holds.
* `wyd run` prints the first 64 KiB of each stream of a run it did not follow
  (`main.rs:452`).
* A cap that `set_limits` removes stays in the kernel (`runner/mod.rs:159`,
  `platform/cgroup.rs:184`).
* "Agent-spawned Chromium" is shown (`README.md:45`), but one that no MCP server above
  it controls may be left out (`ListenersShown` excepts browsers); a database whose
  agent died is exempt as a service, and the recorded session that is to flag it again
  (`classify/leftovers.rs:474`) does not look at what is persistent (`collect.rs:228`).
* The 409 for a stale proposal (`web/mod.rs:1105`) compares snapshot versions, and
  every snapshot the web server takes has version 1 (`collect.rs:49`).
* The prune popup counts at one snapshot, `y` prunes what is prunable at the next
  (`tui/mod.rs:642`).

## Proofs

Each theorem holds for every value of the constants that the modules' named
assumptions allow. The bounds of the runs are not among the assumptions: sets of runs,
requests, clients, collectors, processes and openers may have any size. What a theorem
assumes beyond them is written in its `ASSUME` and said here, with the reason.

| theorem | of | beyond the modules' assumptions |
|---|---|---|
| `TypeCorrect`, `OnePlaceAlways`, `AdmissionSafe`, `NothingIdles`, `OrderKept` | `Scheduler` | |
| `WithinLimitsAlways` | `Scheduler` | one configuration |
| `HardAlways`, `EndHonestAlways` | `Worker` | |
| `LogsAlwaysHonest` | `RunLogs` | |
| `WorkersHaveSlots`, `SpawnsOnlyAdmitted`, `KeepsTheContract` | `Supervisor`, with every fault, crash and restart | |
| `SlotsAlwaysHold`, `RowsAlwaysOwned` | `Supervisor`, with crashes and restarts | no write and no thread start fails |
| `CapacityAlwaysCovers` | `Supervisor`, with every fault | until the first stop |
| `DaemonTypeCorrect`, `OneRunPerRequestAlways` | `Daemon` | |
| `OneDaemon`, `LostRunsHadNoOwner` | `Daemon` | answers in time, room for every client |
| `RefusedOnlyOnStop` | `Daemon` | the same, and a process can be started |
| `TablesAlwaysHold`, `HistoryAlwaysStands` | `Sessions` | nobody descends from itself, finitely many collectors |
| `OneRunPerKeyAlways`, `RowsAlwaysAdvance`, `SchemaSafeAlways` | `RunTable`, `Schema` | |
| `CapsAlwaysInForce` | `CgroupRoot`, `Aggregate` | paths end at the mount, some amount exists |
| `IdentityIsActedOn`, `ActionsAlwaysHonest`, `PlansAlwaysOnce` | `Barman` and `Web` | items nest to a finite depth, finitely many processes |
| `RunsAlwaysGated` | `Barman` and `Web` | |
| `SnapshotsHold`, `MarksAlwaysHold`, `PortsAlwaysHold` | `Classify` | |
| `ResolverAlwaysDecides`, `GitRootAlwaysWins` | `Resolver`, `Projects` | |
| `MatchesAlwaysListed`, `PopupsAlwaysKeepTheirWord`, `FeedAlwaysHolds` | `Terminal`, `RunFeed` | |

`SchedulerProofs` (from `SchedulerAssumption`: reservations, timeouts, limits and the
bound on time are naturals)

* `TypeCorrect`: `Spec => []TypeOK`. The two loops of the code are recursive functions
  over the queue's length; what they compute is proved once, by induction over the
  naturals (a set that is closed under successor), and cited from then on.
* `OnePlaceAlways`: no run is in two places. `Without` embeds the queue that is left in
  the queue that was, so ids stay distinct; a turn of the release loop moves one request
  from the queue to the running set.
* `AdmissionSafe`: every admission respects slots, project slots and memory. Strengthened
  with finiteness of the sets; each turn admits a candidate that fits, and later turns
  never loosen an earlier check.
* `WithinLimitsAlways`: with a single configuration the limits hold in every state, not
  only at admission. A state with less in it is within the limits, one more run that can
  be admitted is, and so is a whole release. That the configuration is one is the
  theorem's hypothesis: after `set_limits` lowers a limit the property is false.
* `NothingIdles`: only `set_limits` leaves a request waiting for capacity that is there.
  Fitting is antitone in what runs, and the loop stops only when no candidate fits.
* `OrderKept`: over a whole release no request passes a peer in front of it, and idle
  projects come first until someone is starved. Each turn picks the least of the
  candidates; the lemmas carry the order from turn to turn through the shrinking queue.

`RunProofs` (from `WorkerAssumption`: the leader, what it forks and the stranger are
distinct; `LogAssumption`; `DaemonAssumption`)

* `HardAlways`, `EndHonestAlways`: neither property is inductive. `WorkerInv` adds where
  in its program the worker is when it knows what: before the command there is no process
  and nothing to clean up (`Nobody`), a conclusion is drawn only at its place (`NotYet`),
  the cgroup of a process is still there until the worker removes it (`CgroupSeen`), a
  hard request reaches the command with its limit only (`HardHasLimit`). A child is in the
  cgroup of its parent, so that nothing is left once nothing is seen in group and cgroup.
* `LogsAlwaysHonest`: `LogInv` follows a byte from the budget through the grant that waits
  to be written into the file (`PendingFits`, `DiskWithinBudget`), over all runs together,
  and says for each run what its sink, its slot and its row know of its file (`SinkCounts`,
  `RowTellsLoss`), also when the drain outlives its worker or the supervisor its drain, and
  what a client that pages has so far (`PageSoFar`). What the theorem calls dropped is what
  was dropped before `run_over`. That nothing else is missing is a count of its own: a byte
  is printed, read or written, or its run has lost some (`Conserved`). Sums over sets of runs have lemmas of
  their own, by induction over finite sets: adding to one run adds to the sum.
* `OneDaemon`, `LostRunsHadNoOwner`, `RefusedOnlyOnStop` follow the lock. Who is between
  the second handshake and the end of its wait holds it alone (`LockHeld`), a daemon that
  does not serve yet is the child of the one who waits (`StartedByHolder`), and while there
  is one nobody supervises (`NobodySupervises`). The second handshake establishes that: it
  fails only when nobody listens, provided no daemon is slower than the timeouts (`Timely`)
  or full (`RoomForAll`). Without room the statement is false: `daemon_two`.
* `OneRunPerRequestAlways` needs neither: however many daemons there are, the unique key
  of the table keeps a request to one run.

`SupervisorProofs` (from the assumptions of `Scheduler` and `Supervisor`)

One invariant, `SupInv`, ties every program counter to the scheduler's sets: each run is
in the hands of one thread (`Sole`, `OneEach`), the store, the registry and the processes
say what that thread believes (`Told`), and a supervisor that does not serve has no
threads (`Quiet`). No part is inductive without the others: a second thread with the same
run would write behind the first one's back, and after a crash all start from `Quiet`.

* `WorkersHaveSlots`, `SpawnsOnlyAdmitted`: whatever fails, who starts a run or works on
  it has its slot, and a process starts only for a row that says so.
* `SlotsAlwaysHold`, `RowsAlwaysOwned`: a slot that is taken, and a row that is open, has
  a thread that will see to it (`Cared`). With failed writes this is false, and the
  hypothesis `Faults = {}` says so: a worker whose first write fails returns and leaves
  its slot and row (`runner/mod.rs:1302`).
* `CapacityAlwaysCovers`: what still runs counts against the limits until a supervisor
  first stops. The next one's scheduler starts empty, hence `stops = 0`.
* `KeepsTheContract`: `SupSpec => ImplementsRunContract`, the refinement: `SupInv` gives
  each write of a row its guard (the row was open, the group is empty when a cleanup is
  called complete), and every step is a step of the contract or none.

`SessionsProofs` (from `SessionConstants`)

* `TablesAlwaysHold`, `HistoryAlwaysStands`: the ancestors and the roots of processes are
  recursive along parents; that they obey their equations is proved from an order in which
  parents come first (`ParentsFirst`), which start times are. Edges lead to rows since one
  transaction writes both. gc decides by a scan that is older than the tables: a process
  its scan missed is safe because its session is fresh (`UnseenIsFresh`), for which nobody
  may be recorded before it runs (`BornFirst`). A decision is added by a collector that
  found none, each at most once (`DecisionsCounted`).

`StoreProofs` (from `TableAssumption`: naturals, and the window of a request id is no
longer than the retention of its row; `SchemaAssumption`; `RootConstants`)

* `OneRunPerKeyAlways`: the invariant says what a look at the table is worth. A run that
  was made has its row still or is older than the retention (`Kept`), and ids are given in
  order (`InOrder`), so whoever finds no row in the window starts no second run in it. With
  a retention shorter than the window it would be false, which is why the assumption is
  there: `REQUEST_ID_WINDOW` and `RUN_RETENTION` are a day and seven days.
* `RowsAlwaysAdvance`: `AdvanceInv` says that each stage of a row has its own event, that
  memory is ahead of the row by at most the step that is being written, and that whoever
  was shown a stage is asked to believe no earlier one: what it saw in memory is in the row
  before memory is gone, or the next supervisor closes the row.
* `SchemaSafeAlways`: the whole of `SchemaSafe`, its action part too. A process in the
  middle of a migration has every column before the one it is at (`Migrated`), no step
  takes one away, two that migrate are known to race (`RaceSeen`), nobody gets past the
  version of a newer store (`NewerRefused`), and a boot is told by its row's place in the
  table (`Numbered`).
* `CapsAlwaysInForce`: a candidate that was refused stays refused, since enabling another
  one changes nothing in it, and one that comes twice would be taken the second time
  (`Refused`). The kernel is behind the limits only while one request is on its way, which
  will write all that is to change (`OneAtATime`); a cap that is cleared is never written,
  hence the `blurred` of the property.

`ControlProofs` (from `BarmanConstants`, `WebConstants`)

* `IdentityIsActedOn`, `ActionsAlwaysHonest`: one record invariant for a client between any
  two of its steps, `WorkOK`: what it was asked for, whose identities it has in hand, what
  it signalled and what it reports all belong together. The properties speak of what was
  signalled; what makes them true is in the list still in hand, because the refresh keeps
  only identities that hold (`Holding`) and the list came from an item that was asked for.
  An identity without a start time holds for whoever has the pid, hence `PassesFor` in the
  properties and `StartOf` in the invariant. That a report covers what it names needs to be
  followed through the whole item: of each of its processes that still runs, either a signal
  was sent, or it is in the list yet, or one failed (`DoneOK`); of a group also through the
  members that are behind, since one answer speaks for all of them.
  Below it are lemmas about the items above a process and the lists in post-order, which
  are recursive along the nesting of items; the families of a scan are trees, hence
  `ItemsNest`.
* `PlansAlwaysOnce`: who goes on with a plan found it young and has removed its file
  (`PlanInv`), and no file comes back, so that nobody who reads later goes on with it.
  Two who read before either removed it both do.
* `RunsAlwaysGated`: a proposal to cancel was shown, and who asks may ask (`GateInv`).

`SnapshotProofs` (from `ClassifyConstants`: processes are numbered in the order of their
start, of any kinds; `ResolverConstants`: any weights, with a margin above 0 and the
directory itself no lighter than the git root, as in `ResolverRules::v1`;
`ProjectsConstants`: finitely many directories in a tree; `TerminalAssumption`: finitely
many items, an item is nested in an earlier one; `FeedAssumption`)

* `SnapshotsHold`, `MarksAlwaysHold`, `PortsAlwaysHold`: the walks up the forest (who
  is above, the nearest item, what it folds into, the owner) are recursive along parents.
  That they obey their equations is proved once (`TheTree`, `TheItems`, `TheOwners`), and
  holds before and after any step. That the items are those of the table (`ItemsInv`) is
  all that one snapshot needs: what is grouped, what is rolled up and what is adopted are
  three disjoint parts of the processes, and each gives items that are disjoint. An exit
  is the long part: the trees after it are parts of the trees before, so what was above
  is, unless it is gone; no mark goes that was there. What is recorded joins the argument
  where an agent is gone: all that folds into an item has one owner on record, and what is
  below a running agent has none that has ended (`OnRecord`). The same ties the list of
  ports to the items, which the code derives apart from each other: the owner on record of a
  listener is that of the item it folds into, which is therefore marked (`PortsMarked`). The
  source of a port is the nearest of a set above it. An exit cuts off the far end of what is
  above, so that the nearest stays the nearest or none is left (`NearestFades`).
* `ResolverAlwaysDecides`: a decision is a function of the set of sessions with a counting
  candidate and of the best total of each; an exchange of two candidates changes neither,
  one that does not count changes neither, and support raises the winner alone.
* `GitRootAlwaysWins`: the cache may hold any project for a directory outside git trees;
  inside, what a lookup leaves in it is what the walk without a cache finds, which is the
  invariant (`ProjectsInv`), and the next lookup stops at a directory with such an entry.
* `MatchesAlwaysListed`: a list is the sorted set of what is shown; an item that matches is
  found, and all that it is nested in passes with it.
* `PopupsAlwaysKeepTheirWord`: `TermInv` ties what is drawn to what the popup has frozen,
  whatever the snapshots in between, and says that nothing is frozen without its popup.
* `FeedAlwaysHolds`: `FeedInv` compares what the thread has read with the store and what it
  waits for with the place where the other thread is: while it waits with a request or a
  stop set, the wake-up is still to come. This is the safety half of `FeedDelivers`.

What the proofs changed in the model: `ExitsNeverClear` claimed too much (see the bounds);
`ClassOf`, `RuleSet`, `IsCandidate` and the assumptions of `Projects` and `Terminal` say
now what was left to the instance.

## Only model-checked

Every invariant and every action property of a run is a theorem. Liveness is out of the
prover's reach and stays with TLC, up to the bounds above: `NobodyWaitsForever`,
`EveryRunFinishes`, `RunsReturn`, `EndsMatchLives`, `SurvivorMarked`, `ClientReturns` (in
`RequestsServed`), `DetailArrives` and `QuitReturns` (in `FeedDelivers`). The safety parts
of the last two are theorems of their own. The three violations are TLC's.

Left to do: `Worker` in place of `StopGroup` under `Supervisor`, which is now related to it
by reading only; the anchors of `Clock::now` over clock jumps.

## Not modelled, and why

Text: how a command line is matched to a signature, how names, ages and sizes are
written, how HTTP and JSON are parsed. Reads of the system: scanners and platform
probes keep nothing. Scores and advice of `barman.rs`, and the drawing
of the terminal, are functions of one snapshot, best tested. Configuration, tracing,
embedded web files and demo data have no behaviour over time. `PROJECT.json` lists
every part, and every hazard with the property that covers it or the reason why none
does.
