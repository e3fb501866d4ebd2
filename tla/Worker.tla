------------------------------- MODULE Worker -------------------------------
(***************************************************************************)
(* One managed run on its machine: run_worker, setup_cgroup, stop_group    *)
(* and the threads that reap and drain (runner/mod.rs), on process groups  *)
(* (platform/pgroup.rs) and cgroups (platform/cgroup.rs).                  *)
(*                                                                         *)
(* Supervisor has the same thread among its peers and takes the stop as    *)
(* one step.  Here every look at the processes and every signal is a step  *)
(* of its own, between steps of processes that fork, exit, leave the       *)
(* process group and keep the output pipe, of the kernel that may kill for *)
(* memory, and of a stranger that gets the group's id once it is free.     *)
(*                                                                         *)
(* A process is named by its identity (boot, pid, start time).  A SIGKILL  *)
(* ends a process at once; it stays a zombie until it is waited for.  The  *)
(* two streams are one.  Deadlines may pass at any time.                   *)
(***************************************************************************)
EXTENDS Naturals, FiniteSets

CONSTANTS
  Leader,      \* the command's own process
  Others,      \* what it and its descendants may fork
  Stranger     \* a process of somebody else

ASSUME WorkerAssumption == Leader # Stranger /\ {Leader, Stranger} \cap Others = {}

VARIABLES
  asks,        \* its memory: "nothing" to enforce, "monitored" or "hard"
  delegated,   \* platform::cgroup_root() has found a subtree
  step,        \* where the worker is
  life,        \* every process: "unborn", "live", "zombie" or "gone"
  grouped,     \* processes whose group has the run's id
  caged,       \* processes in the run's cgroup
  pipe,        \* processes that hold the output pipe
  cgroup,      \* the run's: "none", "active", "removed", or "left" behind
  limited,     \* its memory.max is written
  known,       \* RunSlot.known
  cancelled,   \* RunSlot.cancel
  over,        \* the last sample of a monitored run was over what it asked for
  oom,         \* the kernel has killed in the cgroup
  reaper,      \* the thread that waits for the leader: "off", "waiting", "sent"
  status,      \* how the leader ended: "none", "exited" or "signaled"
  received,    \* the worker has it
  drain,       \* the threads that drain: "off", "reading" or "ended"
  result       \* stop_reason, then cleanup, then outcome

runVars == <<asks, delegated, cgroup, limited>>
processVars == <<life, grouped, caged, pipe, oom, status>>
threadVars == <<reaper, drain>>
heldVars == <<known, cancelled, over, received, result>>
workerVars == <<step, runVars, processVars, threadVars, heldVars>>

Run == {Leader} \cup Others
Process == Run \cup {Stranger}

Steps == {"checking", "refused", "setup", "spawn", "record", "loop", "sample", "ended",
          "stopping", "ours", "term", "grace", "kill", "again", "sigkill", "wait",
          "status", "join", "drains", "account", "remove", "finish", "done"}
Reasons == {"cancelled", "timed_out", "resource_limit"}
Outcomes == Reasons \cup {"exited", "signaled", "spawn_failed"}

WorkerTypeOK ==
  /\ asks \in {"nothing", "monitored", "hard"} /\ delegated \in BOOLEAN
  /\ step \in Steps
  /\ life \in [Process -> {"unborn", "live", "zombie", "gone"}]
  /\ grouped \subseteq Process /\ caged \subseteq Run /\ pipe \subseteq Run
  /\ cgroup \in {"none", "active", "removed", "left"} /\ limited \in BOOLEAN
  /\ known \subseteq Process /\ cancelled \in BOOLEAN
  /\ over \in BOOLEAN /\ oom \in BOOLEAN
  /\ reaper \in {"off", "waiting", "sent"} /\ drain \in {"off", "reading", "ended"}
  /\ status \in {"none", "exited", "signaled"} /\ received \in BOOLEAN
  /\ result \in [reason : Reasons \cup {"none"}, outcome : Outcomes \cup {"none"},
                 cleanup : {"pending", "complete", "incomplete", "unknown"}]

-----------------------------------------------------------------------------
(* What the worker can see of the processes, and do to them.               *)

Exists(p) == life[p] \in {"live", "zombie"}
Live == {p \in Process : life[p] = "live"}

\* members_of_group, group_identities: a zombie is still in the table
Members == {p \in grouped : Exists(p)}
\* kill(-pgid, 0) answers for a zombie, too
GroupAlive == Members # {}
\* cgroup.events counts no zombie; a run without a cgroup has nothing in it
Populated == cgroup = "active" /\ caged \cap Live # {}

\* group_is_ours
GroupIsOurs == Members \cap known # {}

\* Mutant of Gone: descendants that left the group are not looked for.
GoneFromGroup == ~GroupAlive
\* what both waits of stop_group look for
Gone == ~GroupAlive /\ ~Populated

\* the end of the processes in `dying`
Die(dying, how) ==
  /\ life' = [p \in Process |-> IF p \in dying THEN "zombie" ELSE life[p]]
  /\ pipe' = pipe \ dying
  /\ status' = IF Leader \in dying THEN how ELSE status

Go(next) == step' = next
Conclude(field, value) == result' = [result EXCEPT ![field] = value]
Fail == result' = [result EXCEPT !.outcome = "spawn_failed", !.cleanup = "complete"]

-----------------------------------------------------------------------------
(* The processes, the kernel, and a client that cancels.                   *)

\* A child is where its parent is; it may close the output pipe.
Fork ==
  \E p \in Live \cap Run, q \in Others, keeps \in BOOLEAN :
    /\ life[q] = "unborn"
    /\ life' = [life EXCEPT ![q] = "live"]
    /\ grouped' = IF p \in grouped THEN grouped \cup {q} ELSE grouped
    /\ caged' = IF p \in caged THEN caged \cup {q} ELSE caged
    /\ pipe' = IF keeps /\ p \in pipe THEN pipe \cup {q} ELSE pipe
    /\ UNCHANGED <<step, runVars, oom, status, threadVars, heldVars>>

\* setsid, by any but the leader of the group
Escape ==
  \E p \in Live \cap Others \cap grouped :
    /\ grouped' = grouped \ {p}
    /\ UNCHANGED <<step, runVars, life, caged, pipe, oom, status, threadVars, heldVars>>

Exit ==
  \E p \in Live \cap Run, how \in {"exited", "signaled"} :
    /\ p # Leader => how = "exited"
    /\ Die({p}, how)
    /\ UNCHANGED <<step, runVars, grouped, caged, oom, threadVars, heldVars>>

\* a parent, or init, waits for a child
ParentWaits ==
  \E p \in Others :
    /\ life[p] = "zombie" /\ life' = [life EXCEPT ![p] = "gone"]
    /\ UNCHANGED <<step, runVars, grouped, caged, pipe, oom, status, threadVars, heldVars>>

OomKill ==
  \E p \in Live \cap caged :
    /\ limited /\ oom' = TRUE
    /\ Die({p}, "signaled")
    /\ UNCHANGED <<step, runVars, grouped, caged, threadVars, heldVars>>

\* Nobody has the leader's pid or its group: the kernel may use the number again.
PidReused ==
  /\ life[Leader] = "gone" /\ Members = {} /\ life[Stranger] = "unborn"
  /\ life' = [life EXCEPT ![Stranger] = "live"]
  /\ grouped' = grouped \cup {Stranger}
  /\ UNCHANGED <<step, runVars, caged, pipe, oom, status, threadVars, heldVars>>

StrangerExits ==
  /\ life[Stranger] = "live" /\ life' = [life EXCEPT ![Stranger] = "gone"]
  /\ UNCHANGED <<step, runVars, grouped, caged, pipe, oom, status, threadVars, heldVars>>

\* after the loop nobody looks
CancelArrives ==
  /\ step \in {"record", "loop", "sample"} /\ ~cancelled
  /\ cancelled' = TRUE
  /\ UNCHANGED <<step, runVars, processVars, threadVars, known, over, received, result>>

\* child.wait() on its thread
Reap ==
  /\ reaper = "waiting" /\ life[Leader] = "zombie"
  /\ life' = [life EXCEPT ![Leader] = "gone"]
  /\ reaper' = "sent"
  /\ UNCHANGED <<step, runVars, grouped, caged, pipe, oom, status, drain, heldVars>>

DrainEnds ==
  /\ drain = "reading" /\ pipe = {}
  /\ drain' = "ended"
  /\ UNCHANGED <<step, runVars, processVars, reaper, heldVars>>

-----------------------------------------------------------------------------
(* Before the command exists.                                              *)

CheckCapabilities ==
  /\ step = "checking"
  /\ Go(IF asks = "hard" /\ ~delegated THEN "refused" ELSE "setup")
  /\ UNCHANGED <<runVars, processVars, threadVars, heldVars>>

\* Mutant of SetupFails: a hard request, too, goes on without its cgroup.
SetupFailsGoOn ==
  /\ step = "setup" /\ delegated
  /\ cgroup' \in {"none", "left"} /\ Go("spawn")
  /\ UNCHANGED <<asks, delegated, limited, processVars, threadVars, heldVars>>

\* The directory cannot be made, or a limit not be written to it.
SetupFails ==
  /\ step = "setup" /\ delegated
  /\ IF asks = "hard" THEN cgroup' \in {"none", "left"} /\ Go("finish") /\ Fail
                      ELSE cgroup' = "none" /\ Go("spawn") /\ UNCHANGED result
  /\ UNCHANGED <<asks, delegated, limited, processVars, threadVars,
                 known, cancelled, over, received>>

SetupCgroup ==
  /\ step = "setup" /\ Go("spawn")
  /\ cgroup' = IF delegated THEN "active" ELSE "none"
  /\ limited' = (delegated /\ asks = "hard")
  /\ UNCHANGED <<asks, delegated, processVars, threadVars, heldVars>>

\* A directory made for it stays.
SpawnFailed ==
  /\ step = "spawn" /\ Go("finish") /\ Fail
  /\ cgroup' = IF cgroup = "active" THEN "left" ELSE cgroup
  /\ UNCHANGED <<asks, delegated, limited, processVars, threadVars,
                 known, cancelled, over, received>>

\* isolate and attach_self: between fork and exec, or there is no command
SpawnCommand ==
  /\ step = "spawn" /\ Go("record")
  /\ life' = [life EXCEPT ![Leader] = "live"]
  /\ grouped' = {Leader} /\ pipe' = {Leader}
  /\ caged' = IF cgroup = "active" THEN {Leader} ELSE {}
  /\ UNCHANGED <<runVars, oom, status, threadVars, heldVars>>

\* identity_of may fail; the threads start.
RecordLeader ==
  /\ step = "record" /\ Go("loop")
  /\ known' \in {{}, {Leader}}
  /\ reaper' = "waiting" /\ drain' = "reading"
  /\ UNCHANGED <<runVars, processVars, cancelled, over, received, result>>

-----------------------------------------------------------------------------
(* The loop.                                                               *)

\* What the cgroup applied replaces what was asked for.
EffectiveMemory == IF cgroup = "active" THEN limited ELSE asks # "nothing"
MonitoredMemory == asks = "monitored" /\ EffectiveMemory

TryStatus ==
  /\ step = "loop"
  /\ received' = (reaper = "sent")
  /\ Go(IF received' THEN "ended" ELSE "sample")
  /\ UNCHANGED <<runVars, processVars, threadVars, known, cancelled, over, result>>

StopFor(reason) == Go("stopping") /\ Conclude("reason", reason)

HeedCancel ==
  IF cancelled THEN StopFor("cancelled") ELSE Go("loop") /\ UNCHANGED result

\* sample_group and group_usage, then the flag
SampleUsage ==
  /\ step = "sample"
  /\ known' = known \cup Members
  /\ over' \in {FALSE, asks = "monitored"}
  /\ IF over' /\ MonitoredMemory THEN StopFor("resource_limit") ELSE HeedCancel
  /\ UNCHANGED <<runVars, processVars, threadVars, cancelled, received>>

\* less than SAMPLE_INTERVAL since the last sample
NoSample ==
  /\ step = "sample"
  /\ HeedCancel
  /\ UNCHANGED <<runVars, processVars, threadVars, known, cancelled, over, received>>

TimeOut ==
  /\ step = "sample" /\ ~cancelled
  /\ StopFor("timed_out")
  /\ UNCHANGED <<runVars, processVars, threadVars, known, cancelled, over, received>>

LeaderEnded ==
  /\ step = "ended"
  /\ IF GroupAlive \/ Populated THEN Go("stopping") /\ UNCHANGED result
                                ELSE Go("join") /\ Conclude("cleanup", "complete")
  /\ UNCHANGED <<runVars, processVars, threadVars, known, cancelled, over, received>>

-----------------------------------------------------------------------------
(* stop_group.                                                             *)

Stopping ==
  /\ step = "stopping" /\ Go("ours")
  /\ known' = known \cup Members
  /\ UNCHANGED <<runVars, processVars, threadVars, cancelled, over, received, result>>

Attribute ==
  /\ step = "ours"
  /\ IF ~GroupIsOurs /\ cgroup # "active"
     THEN Go("status") /\ Conclude("cleanup", "unknown")
     ELSE Go(IF GroupIsOurs THEN "term" ELSE "grace") /\ UNCHANGED result
  /\ UNCHANGED <<runVars, processVars, threadVars, known, cancelled, over, received>>

\* SIGTERM ends those that do not handle it
SoftStop ==
  /\ step = "term" /\ Go("grace")
  /\ \E dying \in SUBSET (Live \cap grouped) : Die(dying, "signaled")
  /\ UNCHANGED <<runVars, grouped, caged, oom, threadVars, heldVars>>

SeenGone(here) ==
  /\ step = here /\ Gone
  /\ Go("status") /\ Conclude("cleanup", "complete")
  /\ UNCHANGED <<runVars, processVars, threadVars, known, cancelled, over, received>>

GraceOver ==
  /\ step = "grace" /\ Go("kill")
  /\ UNCHANGED <<runVars, processVars, threadVars, heldVars>>

\* an old kernel has no cgroup.kill, and the error is ignored
KillCgroup ==
  /\ step = "kill" /\ Go("again")
  /\ \/ cgroup = "active" /\ Die(Live \cap caged, "signaled")
     \/ UNCHANGED <<life, pipe, status>>
  /\ UNCHANGED <<runVars, grouped, caged, oom, threadVars, heldVars>>

AttributeAgain ==
  /\ step = "again" /\ Go(IF GroupIsOurs THEN "sigkill" ELSE "wait")
  /\ UNCHANGED <<runVars, processVars, threadVars, heldVars>>

HardStop ==
  /\ step = "sigkill" /\ Go("wait")
  /\ Die(Live \cap grouped, "signaled")
  /\ UNCHANGED <<runVars, grouped, caged, oom, threadVars, heldVars>>

WaitOver ==
  /\ step = "wait" /\ Go("status")
  /\ Conclude("cleanup", "incomplete")
  /\ UNCHANGED <<runVars, processVars, threadVars, known, cancelled, over, received>>

-----------------------------------------------------------------------------
(* After it.                                                               *)

\* five seconds for a status that the loop has not had
AwaitStatus ==
  /\ step = "status" /\ Go("join")
  /\ received' \in {received, received \/ reaper = "sent"}
  /\ UNCHANGED <<runVars, processVars, threadVars, known, cancelled, over, result>>

JoinReaper ==
  /\ step = "join" /\ reaper = "sent" /\ Go("drains")
  /\ UNCHANGED <<runVars, processVars, threadVars, heldVars>>

\* Mutant of JoinDrains: the worker waits until nobody holds the pipe.
JoinDrainsForever ==
  /\ step = "drains" /\ drain = "ended" /\ Go("account")
  /\ UNCHANGED <<runVars, processVars, threadVars, heldVars>>

\* both streams end, or their two seconds do
JoinDrains ==
  /\ step = "drains" /\ Go("account")
  /\ UNCHANGED <<runVars, processVars, threadVars, heldVars>>

\* the reason of the stop, else what is known of the leader
Ended ==
  CASE result.reason # "none"                    -> result.reason
    [] result.reason = "none" /\ received        -> status
    [] OTHER                                     -> "signaled"

Outcome == IF oom /\ Ended \in {"signaled", "exited"} THEN "resource_limit" ELSE Ended

Account ==
  /\ step = "account"
  /\ Go(IF cgroup = "active" THEN "remove" ELSE "finish")
  /\ Conclude("outcome", Outcome)
  /\ UNCHANGED <<runVars, processVars, threadVars, known, cancelled, over, received>>

\* rmdir fails while a process is in it, and for two seconds it is tried again
RemoveCgroup ==
  /\ step = "remove" /\ Go("finish")
  /\ \/ ~Populated /\ cgroup' = "removed"
     \/ cgroup' = "left"
  /\ UNCHANGED <<asks, delegated, limited, processVars, threadVars, heldVars>>

FinishWorker ==
  /\ step = "finish" /\ Go("done")
  /\ UNCHANGED <<runVars, processVars, threadVars, heldVars>>

-----------------------------------------------------------------------------
WorkerInit ==
  /\ asks \in {"nothing", "monitored", "hard"} /\ delegated \in BOOLEAN
  /\ step = "checking"
  /\ life = [p \in Process |-> "unborn"]
  /\ grouped = {} /\ caged = {} /\ pipe = {}
  /\ cgroup = "none" /\ limited = FALSE
  /\ known = {} /\ cancelled = FALSE /\ over = FALSE /\ oom = FALSE
  /\ reaper = "off" /\ status = "none" /\ received = FALSE /\ drain = "off"
  /\ result = [reason |-> "none", outcome |-> "none", cleanup |-> "pending"]

Surroundings ==
  /\ step # "done"
  /\ \/ Fork \/ Escape \/ Exit \/ ParentWaits \/ OomKill \/ PidReused \/ StrangerExits
     \/ CancelArrives

RunWorker ==
  \/ CheckCapabilities \/ SetupFails \/ SetupCgroup \/ SpawnFailed \/ SpawnCommand
  \/ RecordLeader \/ TryStatus \/ SampleUsage \/ NoSample \/ TimeOut \/ LeaderEnded
  \/ Stopping \/ Attribute \/ SoftStop \/ SeenGone("grace") \/ GraceOver
  \/ KillCgroup \/ AttributeAgain \/ HardStop \/ SeenGone("wait") \/ WaitOver
  \/ AwaitStatus \/ JoinReaper \/ JoinDrains \/ Account \/ RemoveCgroup \/ FinishWorker

WorkerNext == Surroundings \/ RunWorker \/ Reap \/ DrainEnds

(***************************************************************************)
(* Threads run, a deadline that is looked at again and again passes, and   *)
(* nothing is asked of the processes.                                      *)
(***************************************************************************)
WorkerFairness ==
  /\ WF_workerVars(RunWorker) /\ WF_workerVars(Reap) /\ SF_workerVars(TimeOut)

WorkerSpec == WorkerInit /\ [][WorkerNext]_workerVars
WorkerFairSpec == WorkerSpec /\ WorkerFairness

-----------------------------------------------------------------------------
(* Properties.                                                             *)

\* A hard request is never downgraded: whatever cgroup step fails, no process
\* of the run exists outside a cgroup with its limit (check_capabilities,
\* setup_cgroup, attach_self; Enforcement::Hard).
HardIsEnforced ==
  asks = "hard" => \A p \in Run : Exists(p) => limited /\ p \in caged

\* When the worker calls the cleanup complete, no process of the run is alive in
\* its group, nor anywhere in its cgroup, and none comes back: not one that was
\* forked, or left the group, while the worker looked (stop_group).
CompleteIsGone ==
  result.cleanup = "complete" => Live \cap Run \cap (grouped \cup caged) = {}

\* A run ends as resource_limit only because the kernel counted an OOM kill
\* or a sample of a monitored run was over its limit; a SIGKILL alone is no
\* evidence (CgroupEvents, run_worker).
OomClaimed ==
  result.outcome = "resource_limit" => oom \/ (asks = "monitored" /\ over)

\* Once its threads run, a worker ends, whatever its processes do: ignore
\* SIGTERM, escape, or keep the pipe open for ever (run_worker: the run's
\* result must never depend on a stranger's pipe).
WorkerEnds == (step = "loop") ~> (step = "done")

\* What the worker says of its run is so: "complete" only when nothing of it is left, and
\* "out of memory" only on evidence (stop_group, run_worker's outcome).
EndIsHonest == WorkerTypeOK /\ CompleteIsGone /\ OomClaimed

\* A monitored run that was seen over its limit is being stopped for it
\* (Enforcement::Monitored).
MonitoredIsWatched ==
  asks = "monitored" /\ over => result.reason = "resource_limit"
=============================================================================
