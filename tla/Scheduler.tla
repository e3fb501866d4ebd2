------------------------------ MODULE Scheduler ------------------------------
(***************************************************************************)
(* Admission control of the supervisor: src/runner/scheduler.rs.           *)
(*                                                                         *)
(* The Rust `Scheduler` is a plain struct behind one mutex, so one method  *)
(* call is one action here.  The struct is the variable `sched`; the       *)
(* operators take it as their first argument `s`, as the methods take      *)
(* `self`, so that the supervisor's modules can reuse them.                *)
(*                                                                         *)
(* Run ids are UUIDs and never come back.  In a finite model an id that    *)
(* has left the scheduler may be submitted again: the struct keeps nothing *)
(* of a run that left, so the second use is a new run.                     *)
(*                                                                         *)
(* Memory is counted in small units instead of bytes.                      *)
(***************************************************************************)
EXTENDS Naturals, FiniteSets, Sequences

CONSTANTS
  RunId,          \* ids of runs
  Project,        \* keys of the projects that submit runs
  Memory,         \* memory reservations a caller may ask for, in units
  QueueTimeout,   \* queue timeouts a request may end up with
  LimitChoices,   \* limits the configuration and `set_limits` may put in force
  MaxTime         \* bound: logical time stops here

Limits == [ max_parallel             : Nat,
            max_parallel_per_project : Nat,
            max_queued               : Nat,
            memory_budget            : Nat,
            starvation_after         : Nat ]

ASSUME SchedulerAssumption ==
  /\ Memory \subseteq Nat
  /\ QueueTimeout \subseteq Nat
  /\ LimitChoices \subseteq Limits
  /\ MaxTime \in Nat

VARIABLES
  sched,          \* the struct: limits, running, queue, held
  mono,           \* elapsed time on the monotonic clock, which pauses in a suspend
  now             \* the logical time callers pass in: max(monotonic, wall)

schedVars == <<sched, mono, now>>

Running == [id : RunId, project : Project, memory : Nat]

Queued == [id : RunId, project : Project, memory : Nat,
           enqueued_at : Nat, deadline : Nat]

AsRunning(q) == [id |-> q.id, project |-> q.project, memory |-> q.memory]

Ids(runs) == {r.id : r \in runs}

\* The entries of the queue, without their order.
Waiting(s) == {s.queue[i] : i \in DOMAIN s.queue}

-----------------------------------------------------------------------------
(* Capacity.                                                               *)

ProjectRuns(s, p) == {r \in s.running : r.project = p}

SlotFree(s) == Cardinality(s.running) < s.limits.max_parallel

ProjectSlotFree(s, p) ==
  Cardinality(ProjectRuns(s, p)) < s.limits.max_parallel_per_project

(***************************************************************************)
(* The sum of the reservations of running and held runs: a reservation of  *)
(* m units is m units tagged with the run's id, and the sum is their       *)
(* number.                                                                 *)
(***************************************************************************)
Units(r) == {r.id} \X (1 .. r.memory)

Reserved(s) == Cardinality(UNION {Units(r) : r \in s.running \cup s.held})

\* Mutant of Fits: the project's own limit is forgotten.
FitsAnyProject(s, r) == Reserved(s) + r.memory <= s.limits.memory_budget

Fits(s, r) ==
  /\ ProjectSlotFree(s, r.project)
  /\ Reserved(s) + r.memory <= s.limits.memory_budget

\* Mutant of CanAdmit: the slots are not counted.
CanAdmitWithoutSlot(s, r) == Fits(s, r)

CanAdmit(s, r) == SlotFree(s) /\ Fits(s, r)

-----------------------------------------------------------------------------
(* The queue.                                                              *)

\* `now.saturating_sub(enqueued_at)`: the wall clock may have been set back.
Waited(q, t) == IF t >= q.enqueued_at THEN t - q.enqueued_at ELSE 0

\* The queue without the requests `gone`, the others in their order.
Without(queue, gone) ==
  LET kept[i \in 0 .. Len(queue)] ==
        IF i = 0 THEN << >>
        ELSE IF queue[i].id \in gone THEN kept[i - 1]
        ELSE Append(kept[i - 1], queue[i])
  IN  kept[Len(queue)]

Fitting(s) == {i \in DOMAIN s.queue : Fits(s, s.queue[i])}

Starved(s, t) ==
  {i \in Fitting(s) : Waited(s.queue[i], t) >= s.limits.starvation_after}

Idle(s) == {i \in Fitting(s) : ProjectRuns(s, s.queue[i].project) = {}}

\* `find`: the first of the positions S.
First(S) == {i \in S : \A j \in S : i <= j}

\* Mutant of Oldest: the last of several equals.
OldestFromBack(s, S) ==
  {i \in S : \A j \in S :
      \/ s.queue[i].enqueued_at < s.queue[j].enqueued_at
      \/ s.queue[i].enqueued_at = s.queue[j].enqueued_at /\ i >= j}

\* `min_by_key(enqueued_at)`: the earliest, the first of several.
Oldest(s, S) ==
  {i \in S : \A j \in S :
      \/ s.queue[i].enqueued_at < s.queue[j].enqueued_at
      \/ s.queue[i].enqueued_at = s.queue[j].enqueued_at /\ i <= j}

\* The position of the request admitted next: a set of one element, or none.
CandidateIndex(s, t) ==
  CASE ~SlotFree(s)                              -> {}
    [] SlotFree(s) /\ Starved(s, t) # {}         -> First(Starved(s, t))
    [] SlotFree(s) /\ Starved(s, t) = {} /\ Idle(s) # {} -> Oldest(s, Idle(s))
    [] OTHER                                     -> Oldest(s, Fitting(s))

Started(s, r) == [s EXCEPT !.running = @ \cup {AsRunning(r)}]

\* Mutant of Take: the request is started and stays in the queue.
TakeAndLeave(s, i) == Started(s, s.queue[i])

Take(s, i) ==
  Started([s EXCEPT !.queue = Without(@, {s.queue[i].id})], s.queue[i])

\* One turn of the loop in `release`; without a candidate nothing changes.
PickNext(s, t) ==
  LET index == CandidateIndex(s, t)
  IN  IF index = {} THEN s ELSE Take(s, CHOOSE i \in index : TRUE)

\* Mutant of PickAll: `if let` for `while let`.
PickOne(s, t) == PickNext(s, t)

\* `while let Some(next) = self.pick_next(now)`: every turn shortens the queue.
PickAll(s, t) ==
  LET after[n \in 0 .. Len(s.queue)] ==
        IF n = 0 THEN s ELSE PickNext(after[n - 1], t)
  IN  after[Len(s.queue)]

\* The slot of run `id` given up, its reservation kept when `hold`.
Freed(s, id, hold) ==
  LET mine == {r \in s.running : r.id = id}
  IN  [s EXCEPT !.running = @ \ mine,
                !.held    = IF hold THEN @ \cup mine ELSE @]

-----------------------------------------------------------------------------
(* The operations.                                                         *)

Init ==
  /\ \E l \in LimitChoices :
        sched = [limits |-> l, running |-> {}, queue |-> << >>, held |-> {}]
  /\ mono = 0
  /\ now = 0

Request(id, p, m, timeout) ==
  [id |-> id, project |-> p, memory |-> m,
   enqueued_at |-> now, deadline |-> now + timeout]

\* Larger than the whole budget.
SubmitImpossible(r) ==
  /\ r.memory > sched.limits.memory_budget
  /\ UNCHANGED schedVars

SubmitStart(r) ==
  /\ r.memory <= sched.limits.memory_budget
  /\ CanAdmit(sched, r)
  /\ sched' = Started(sched, r)
  /\ UNCHANGED <<mono, now>>

SubmitQueueFull(r) ==
  /\ r.memory <= sched.limits.memory_budget
  /\ ~CanAdmit(sched, r)
  /\ Len(sched.queue) >= sched.limits.max_queued
  /\ UNCHANGED schedVars

SubmitQueued(r) ==
  /\ r.memory <= sched.limits.memory_budget
  /\ ~CanAdmit(sched, r)
  /\ Len(sched.queue) < sched.limits.max_queued
  /\ sched' = [sched EXCEPT !.queue = Append(@, r)]
  /\ UNCHANGED <<mono, now>>

\* An id the scheduler does not know, and a deadline inside the time bound.
Submit(id, p, m, timeout) ==
  /\ id \notin Ids(sched.running \cup sched.held \cup Waiting(sched))
  /\ now + timeout <= MaxTime
  /\ LET r == Request(id, p, m, timeout)
     IN  \/ SubmitImpossible(r)
         \/ SubmitStart(r)
         \/ SubmitQueueFull(r)
         \/ SubmitQueued(r)

\* The release of a run that is not running frees nothing and admits nothing.
Release(id, hold) ==
  /\ sched' = IF id \in Ids(sched.running)
              THEN PickAll(Freed(sched, id, hold), now)
              ELSE sched
  /\ UNCHANGED <<mono, now>>

CancelQueued(id) ==
  /\ sched' = [sched EXCEPT !.queue = Without(@, {id})]
  /\ UNCHANGED <<mono, now>>

Overdue(s, t) == {q \in Waiting(s) : t >= q.deadline}

\* The queue tick of the supervisor.
Expire ==
  /\ sched' = [sched EXCEPT !.queue = Without(@, Ids(Overdue(sched, now)))]
  /\ UNCHANGED <<mono, now>>

\* Nothing is admitted here, even when the new limits have room.
SetLimits(l) ==
  /\ sched' = [sched EXCEPT !.limits = l]
  /\ UNCHANGED <<mono, now>>

\* Both clocks advance.
Tick ==
  /\ mono < MaxTime
  /\ mono' = mono + 1
  /\ now' = IF now < MaxTime THEN now + 1 ELSE now
  /\ UNCHANGED sched

\* Mutant of WallStep: logical time follows the wall clock alone.
WallAlone ==
  /\ now' \in 0 .. MaxTime
  /\ UNCHANGED <<sched, mono>>

(***************************************************************************)
(* The wall clock alone moves: forward in a suspend or when it is set, or  *)
(* back.  A wall clock behind the monotonic one is not told apart from one *)
(* level with it, for the maximum hides it.                                *)
(***************************************************************************)
WallStep ==
  /\ now' \in mono .. MaxTime
  /\ UNCHANGED <<sched, mono>>

Next ==
  \/ \E id \in RunId, p \in Project, m \in Memory, timeout \in QueueTimeout :
        Submit(id, p, m, timeout)
  \/ \E id \in RunId, hold \in BOOLEAN : Release(id, hold)
  \/ \E id \in RunId : CancelQueued(id)
  \/ Expire
  \/ \E l \in LimitChoices : SetLimits(l)
  \/ Tick
  \/ WallStep

Spec == Init /\ [][Next]_schedVars

(***************************************************************************)
(* The clock runs and the queue tick thread wakes every 250 ms for as long *)
(* as the process lives.  Nothing is assumed of callers: a run may never   *)
(* finish and never release its slot.                                      *)
(***************************************************************************)
FairSpec == Spec /\ WF_schedVars(Tick) /\ WF_schedVars(Expire)

-----------------------------------------------------------------------------
(* Properties.                                                             *)

TypeOK ==
  /\ sched \in [limits : Limits, running : SUBSET Running,
                queue : Seq(Queued), held : SUBSET Running]
  /\ mono \in 0 .. MaxTime
  /\ now \in mono .. MaxTime

Newly == Ids(sched'.running) \ Ids(sched.running)

(***************************************************************************)
(* A run is in one place: running, waiting or held, once.  `release` finds *)
(* a run by its id and `cancel_queued` reports by it whether it was        *)
(* waiting, so an id in two places would be started and finished twice.    *)
(***************************************************************************)
Separate(s) ==
  /\ \A q, r \in s.running \cup s.held : q.id = r.id => q = r
  /\ s.running \cap s.held = {}
  /\ \A i, j \in DOMAIN s.queue : s.queue[i].id = s.queue[j].id => i = j
  /\ Ids(Waiting(s)) \cap Ids(s.running \cup s.held) = {}

OnePlace == Separate(sched)

\* The limits that concern run r are not exceeded.
RespectsLimits(s, r) ==
  /\ Cardinality(s.running) <= s.limits.max_parallel
  /\ Cardinality(ProjectRuns(s, r.project)) <= s.limits.max_parallel_per_project
  /\ Reserved(s) <= s.limits.memory_budget

(***************************************************************************)
(* Whatever admits a run (`submit` at once, or `release` several at a      *)
(* time) leaves slots, project slots and the memory budget respected for   *)
(* what was admitted, held reservations included, and with the limits in   *)
(* force at that moment, even if they were lowered below the use before.   *)
(***************************************************************************)
AdmissionWithinLimits ==
  [][ \A r \in sched'.running \ sched.running : RespectsLimits(sched', r)
    ]_schedVars

\* Some waiting request could be admitted now.
IdleCapacity(s) == \E q \in Waiting(s) : CanAdmit(s, q)

(***************************************************************************)
(* `release` admits until nothing fits, and `submit` queues only what does *)
(* not fit: while the limits stay, no operation leaves a request waiting   *)
(* for capacity that is there.  Only `set_limits` can, and the next        *)
(* release of a slot makes it good.                                        *)
(***************************************************************************)
NoIdleCapacity ==
  [][ sched'.limits = sched.limits /\ IdleCapacity(sched')
        => IdleCapacity(sched) /\ sched.running \subseteq sched'.running
    ]_schedVars

(***************************************************************************)
(* The part of "FIFO inside a project" that the code keeps: of two waiting *)
(* requests of one project, the one in front is not passed over by the     *)
(* other unless it asks for more memory or the clock was set back between  *)
(* them.  It holds across a whole release, starvation included.            *)
(***************************************************************************)
FifoAmongPeers ==
  [][ \A i, j \in DOMAIN sched.queue :
        LET q == sched.queue[i]  r == sched.queue[j]
        IN  /\ i < j
            /\ q.project = r.project
            /\ q.memory <= r.memory
            /\ q.enqueued_at <= r.enqueued_at
            /\ r.id \in Newly
            => q \notin Waiting(sched') ]_schedVars

(***************************************************************************)
(* Round-robin: a waiting request of a project that is already running     *)
(* something is admitted only if it is starved or no request of an idle    *)
(* project could have had its place.                                       *)
(***************************************************************************)
IdleProjectFirst ==
  [][ \A r \in Waiting(sched) :
        LET before == [sched' EXCEPT !.running = @ \ {AsRunning(r)}]
        IN  /\ Newly = {r.id}
            /\ ProjectRuns(before, r.project) # {}
            /\ Waited(r, now) < sched.limits.starvation_after
            => ~ \E q \in Waiting(sched') :
                    /\ ProjectRuns(before, q.project) = {}
                    /\ CanAdmit(before, q) ]_schedVars

(***************************************************************************)
(* Nobody waits forever: a request leaves the queue (admitted, cancelled   *)
(* or expired) even if no run ever finishes, and however the wall clock is *)
(* moved, because the monotonic clock bounds the logical time from below.  *)
(***************************************************************************)
NobodyWaitsForever ==
  \A id \in RunId :
    id \in Ids(Waiting(sched)) ~> id \notin Ids(Waiting(sched))

(***************************************************************************)
(* With limits that never change, what is in force is never exceeded.      *)
(***************************************************************************)
WithinLimits ==
  /\ Cardinality(sched.running) <= sched.limits.max_parallel
  /\ \A p \in Project : Cardinality(ProjectRuns(sched, p))
                          <= sched.limits.max_parallel_per_project
  /\ Reserved(sched) <= sched.limits.memory_budget
  /\ Len(sched.queue) <= sched.limits.max_queued

\* The order of admission (pick_locked): oldest first among runs of a project, a project
\* with nothing running before one that has, until a run has waited too long.
AdmissionOrder == FifoAmongPeers /\ IdleProjectFirst
=============================================================================
