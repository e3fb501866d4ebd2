----------------------------- MODULE Supervisor -----------------------------
(***************************************************************************)
(* The life of managed runs under the supervisor: src/runner/mod.rs with   *)
(* the runs table of src/store.rs and the shutdown of src/server.rs.       *)
(*                                                                         *)
(* Every thread is a program counter, and a step of a thread is what it    *)
(* does under one lock (or several whose interleavings nobody can see):    *)
(* the threads that serve start and cancel requests, one worker per run,   *)
(* the queue tick, the shutdown thread, and `finish`, which any of them    *)
(* may be in.  The scheduler is the module Scheduler: a thread's step      *)
(* takes the scheduler's action as a conjunct.                             *)
(*                                                                         *)
(* Environment: a run's processes fork and die by themselves, the          *)
(* supervisor may be killed at any step and the machine may reboot before  *)
(* the next one starts.  Faults names what else may fail.                  *)
(*                                                                         *)
(* Abstracted: argv, environment, output, events, usage samples, details   *)
(* and times in the reports; exit codes, signals and OOM kills are the one *)
(* outcome "exited", a timeout and the monitored limit "timed_out".  A     *)
(* run's project, reservation and queue timeout are chosen when it is      *)
(* submitted, for nothing looks at them before.                            *)
(***************************************************************************)
EXTENDS Scheduler

CONSTANTS
  Client,         \* threads that serve cancel requests
  Member,         \* what a command may leave in its process group, beside itself
  Faults,         \* "store": a write fails; "thread": a thread cannot start
  MaxStops        \* bound: how often the supervisor stops

ASSUME SupervisorAssumption ==
  /\ 0 \in QueueTimeout
  /\ Faults \subseteq {"store", "thread"}
  /\ MaxStops \in Nat

VARIABLES
  mode,           \* "up", "draining", "down" or "recovering"
  stops,
  slot,           \* the RunSlot of every run: state, revision, cancel flag
  registry,       \* runs whose slot the supervisor can still look up
  row,            \* table runs, with run_processes
  group,          \* living processes of every run's group
  starter,        \* where the thread that starts a run is
  worker,         \* where the run's worker is, and what it has found out
  finishing,      \* the calls of `finish` that won their run
  canceller,      \* where the threads that cancel are
  expired         \* runs the queue tick has taken and not yet finished

supVars == <<mode, stops, slot, registry, row, group, starter, worker,
             finishing, canceller, expired>>

vars == <<sched, mono, now, supVars>>

Process == {"leader"} \cup Member

Canceller == Client \cup {"shutdown"}

Outcome == {"exited", "timed_out", "cancelled", "spawn_failed",
            "supervisor_lost"}

Result == [outcome : Outcome, cleanup : {"complete", "incomplete", "unknown"}]

NoResult == [outcome |-> "none", cleanup |-> "pending"]

FreshSlot == [state |-> "queued", revision |-> 0, cancel |-> FALSE]

NoRow == [state |-> "absent", revision |-> 0, result |-> NoResult,
          leader |-> "none", recorded |-> {}]

NoWorker == [at |-> "none", revision |-> 0, result |-> NoResult]

NotCancelling == [at |-> "idle", id |-> "none", live |-> TRUE,
                  revision |-> 0, todo |-> {}]

Serving == mode \in {"up", "draining"}

Finished(id) == slot[id].state = "finished"

\* `active_runs`: what shutdown and the idle exit wait for.
Active == {id \in registry : ~Finished(id)}

Unfinished(id) == row[id].state \notin {"absent", "finished"}

-----------------------------------------------------------------------------
(* `transition`: the slot under its lock, the row later and only if its    *)
(* revision is older.                                                      *)

Enter(id, state) ==
  slot' = [slot EXCEPT ![id].state = state, ![id].revision = @ + 1]

\* What run_transition makes of the row; a failed write counts as refused.
Advanced(id, state) ==
  IF row[id].revision < worker[id].revision
  THEN [row EXCEPT ![id].state = state, ![id].revision = worker[id].revision]
  ELSE row

\* Where the worker is next, with the revision it took from the slot.
GoWith(id, at, revision) ==
  worker' = [worker EXCEPT ![id].at = at, ![id].revision = revision]

Go(id, at) == worker' = [worker EXCEPT ![id].at = at]

\* The thread ends.
Leave(id) == worker' = [worker EXCEPT ![id] = [NoWorker EXCEPT !.at = "done"]]

Decide(id, at, outcome, cleanup) ==
  worker' = [worker EXCEPT ![id].at = at,
               ![id].result = [outcome |-> outcome, cleanup |-> cleanup]]

-----------------------------------------------------------------------------
(* `finish`: first the slot, which lets one call win; the row, the         *)
(* registry and the scheduler follow, each under a lock of its own.        *)

Ending(id, by, revision, outcome, cleanup) ==
  [id |-> id, by |-> by, at |-> "store", revision |-> revision,
   result |-> [outcome |-> outcome, cleanup |-> cleanup], next |-> {}]

Finish(id, by, outcome, cleanup) ==
  IF Finished(id) THEN UNCHANGED <<slot, finishing>>
  ELSE /\ Enter(id, "finished")
       /\ finishing' = finishing \cup
            {Ending(id, by, slot[id].revision + 1, outcome, cleanup)}

\* A caller goes on when its `finish` has returned.
Returned(by) == \A f \in finishing : f.by # by

Moved(f, g) == finishing' = (finishing \ {f}) \cup {g}

\* run_finish leaves a finished row alone; its error is ignored.
FinishStore(f) ==
  /\ f.at = "store"
  /\ Moved(f, [f EXCEPT !.at = "registry"])
  /\ \/ /\ Unfinished(f.id)
        /\ row' = [row EXCEPT ![f.id].state = "finished",
                              ![f.id].revision = f.revision,
                              ![f.id].result = f.result]
     \/ /\ ~Unfinished(f.id) \/ "store" \in Faults
        /\ UNCHANGED row
  /\ UNCHANGED <<schedVars, mode, stops, slot, registry, group, starter,
                 worker, canceller, expired>>

FinishRegistry(f) ==
  /\ f.at = "registry"
  /\ Moved(f, [f EXCEPT !.at = "release"])
  /\ registry' = registry \ {f.id}
  /\ UNCHANGED <<schedVars, mode, stops, slot, row, group, starter, worker,
                 canceller, expired>>

\* Mutant of Holds: an incomplete cleanup is taken for a complete one.
HoldsUnknown(f) == f.result.cleanup = "unknown"

\* What an incomplete cleanup keeps is the reservation.
Holds(f) == f.result.cleanup # "complete"

\* Mutant of FinishRelease: what `release` admitted is not started.
FinishReleaseUnheeded(f) ==
  /\ f.at = "release"
  /\ Release(f.id, Holds(f))
  /\ Moved(f, [f EXCEPT !.at = "spawn"])
  /\ UNCHANGED <<mode, stops, slot, registry, row, group, starter, worker,
                 canceller, expired>>

FinishRelease(f) ==
  /\ f.at = "release"
  /\ Release(f.id, Holds(f))
  /\ Moved(f, [f EXCEPT !.at = "spawn", !.next = Newly])
  /\ UNCHANGED <<mode, stops, slot, registry, row, group, starter, worker,
                 canceller, expired>>

\* spawn_worker: a thread that cannot start is only reported.
SpawnWorker(id) ==
  \/ Go(id, "starting")
  \/ "thread" \in Faults /\ UNCHANGED worker

FinishSpawn(f) ==
  /\ f.at = "spawn"
  /\ \/ \E id \in f.next :
          /\ Moved(f, [f EXCEPT !.next = @ \ {id}])
          /\ IF id \in registry THEN SpawnWorker(id) ELSE UNCHANGED worker
     \/ /\ f.next = {}
        /\ finishing' = finishing \ {f}
        /\ UNCHANGED worker
  /\ UNCHANGED <<schedVars, mode, stops, slot, registry, row, group, starter,
                 canceller, expired>>

FinishStep(f) ==
  FinishStore(f) \/ FinishRegistry(f) \/ FinishRelease(f) \/ FinishSpawn(f)

-----------------------------------------------------------------------------
(* `start` and `admit`, on the thread that serves the request.  A repeated *)
(* request_id changes nothing here and is left out.                        *)

At(id, here, next) ==
  /\ starter[id] = here
  /\ starter' = [starter EXCEPT ![id] = next]

Insert(id) ==
  /\ Serving
  /\ At(id, "idle", "inserted")
  /\ row' = [row EXCEPT ![id] = [NoRow EXCEPT !.state = "queued"]]
  /\ UNCHANGED <<schedVars, mode, stops, slot, registry, group, worker,
                 finishing, canceller, expired>>

Register(id) ==
  /\ At(id, "inserted", "registered")
  /\ registry' = registry \cup {id}
  /\ UNCHANGED <<schedVars, mode, stops, slot, row, group, worker, finishing,
                 canceller, expired>>

\* The "created" event cannot be written: `start` returns the error.
CreatedFails(id) ==
  /\ "store" \in Faults
  /\ At(id, "registered", "done")
  /\ UNCHANGED <<schedVars, mode, stops, slot, registry, row, group, worker,
                 finishing, canceller, expired>>

Admit(id) ==
  /\ starter[id] = "registered"
  /\ \E p \in Project, m \in Memory, timeout \in QueueTimeout :
        Submit(id, p, m, timeout)
  /\ starter' = [starter EXCEPT ![id] =
                   CASE id \in Ids(sched'.running)  -> "admitted"
                     [] id \in Ids(Waiting(sched')) -> "done"
                     [] OTHER                       -> "rejected"]
  /\ UNCHANGED <<mode, stops, slot, registry, row, group, worker, finishing,
                 canceller, expired>>

StartAdmitted(id) ==
  /\ At(id, "admitted", "done")
  /\ SpawnWorker(id)
  /\ UNCHANGED <<schedVars, mode, stops, slot, registry, row, group,
                 finishing, canceller, expired>>

Reject(id) ==
  /\ At(id, "rejected", "done")
  /\ Finish(id, id, "spawn_failed", "complete")
  /\ UNCHANGED <<schedVars, mode, stops, registry, row, group, worker,
                 canceller, expired>>

StarterStep(id) ==
  Register(id) \/ CreatedFails(id) \/ Admit(id) \/ StartAdmitted(id) \/ Reject(id)

-----------------------------------------------------------------------------
(* `run_worker`.                                                           *)

\* One of the three transitions of a worker: the slot, then the row.
Transition(id, at, state, saving, refused) ==
  /\ worker[id].at = at
  /\ IF Finished(id)
     THEN /\ IF refused = "done" THEN Leave(id) ELSE Go(id, refused)
          /\ UNCHANGED slot
     ELSE Enter(id, state) /\ GoWith(id, saving, slot[id].revision + 1)
  /\ UNCHANGED <<schedVars, mode, stops, registry, row, group, starter,
                 finishing, canceller, expired>>

Save(id, at, state, next) ==
  /\ worker[id].at = at
  /\ \/ row' = Advanced(id, state)
     \/ "store" \in Faults /\ UNCHANGED row
  /\ Go(id, next)
  /\ UNCHANGED <<schedVars, mode, stops, slot, registry, group, starter,
                 finishing, canceller, expired>>

\* Only the first transition is heeded: without it nothing is spawned.
EnterStarting(id) ==
  Transition(id, "starting", "starting", "save_starting", "done")

\* Mutant of SaveStarting: the worker goes on although the row did not change.
SaveStartingUnheeded(id) == Save(id, "save_starting", "starting", "launch")

SaveStarting(id) ==
  /\ worker[id].at = "save_starting"
  /\ \/ /\ row[id].revision < worker[id].revision
        /\ row' = Advanced(id, "starting")
        /\ Go(id, "launch")
     \/ /\ row[id].revision >= worker[id].revision \/ "store" \in Faults
        /\ UNCHANGED row
        /\ Leave(id)
  /\ UNCHANGED <<schedVars, mode, stops, slot, registry, group, starter,
                 finishing, canceller, expired>>

(***************************************************************************)
(* The cancel flag, the run directory, the cgroup and the spawn itself.    *)
(* The flag is not read again before the process exists.                   *)
(***************************************************************************)
Launch(id) ==
  /\ worker[id].at = "launch"
  /\ \/ /\ slot[id].cancel
        /\ Decide(id, "finish", "cancelled", "complete")
        /\ UNCHANGED group
     \/ /\ ~slot[id].cancel
        /\ Decide(id, "finish", "spawn_failed", "complete")
        /\ UNCHANGED group
     \/ /\ ~slot[id].cancel
        /\ Go(id, "record")
        /\ group' = [group EXCEPT ![id] = {"leader"}]
  /\ UNCHANGED <<schedVars, mode, stops, slot, registry, row, starter,
                 finishing, canceller, expired>>

(***************************************************************************)
(* The leader's identity, in run_processes and in the run's row.  The      *)
(* system may not tell it; then neither is written.                        *)
(***************************************************************************)
Record(id) ==
  /\ worker[id].at = "record"
  /\ \E processes, leader \in BOOLEAN :
        /\ processes = leader \/ "store" \in Faults
        /\ row' = [row EXCEPT
             ![id].recorded = IF processes THEN @ \cup {"leader"} ELSE @,
             ![id].leader   = IF leader THEN "this_boot" ELSE @]
  /\ Go(id, "running")
  /\ UNCHANGED <<schedVars, mode, stops, slot, registry, group, starter,
                 finishing, canceller, expired>>

EnterRunning(id) ==
  Transition(id, "running", "running", "save_running", "watch")

SaveRunning(id) == Save(id, "save_running", "running", "watch")

\* The loop samples the group every 200 ms.
Sample(id) ==
  /\ worker[id].at = "watch"
  /\ row' = [row EXCEPT ![id].recorded = @ \cup group[id]]
  /\ UNCHANGED <<schedVars, mode, stops, slot, registry, group, starter,
                 worker, finishing, canceller, expired>>

(***************************************************************************)
(* The ways out of the loop.  The leader has exited: stop what it left     *)
(* behind, if anything.  Or cancel, the timeout or the monitored limit ask *)
(* for a stop.                                                             *)
(***************************************************************************)
Watch(id) ==
  /\ worker[id].at = "watch"
  /\ \/ /\ "leader" \notin group[id]
        /\ Decide(id, IF group[id] = {} THEN "finish" ELSE "stopping",
                  "exited", "complete")
     \/ /\ slot[id].cancel
        /\ Decide(id, "stopping", "cancelled", "complete")
     \/ Decide(id, "stopping", "timed_out", "complete")
  /\ UNCHANGED <<schedVars, mode, stops, slot, registry, row, group, starter,
                 finishing, canceller, expired>>

EnterStopping(id) ==
  Transition(id, "stopping", "stopping", "save_stopping", "signal")

SaveStopping(id) == Save(id, "save_stopping", "stopping", "signal")

\* What the stop algorithm reports when `left` is what survives it.
Cleaned(left) == IF left = {} THEN "complete" ELSE "incomplete"

(***************************************************************************)
(* `stop_group`.  It samples the group and then asks whether a recorded    *)
(* process is in it: when the group is empty by then, the answer is no,    *)
(* and without a cgroup the cleanup is "unknown".  Otherwise SIGTERM, the  *)
(* grace period, SIGKILL and the wait leave some part of the group.        *)
(***************************************************************************)
StopGroup(id) ==
  /\ worker[id].at = "signal"
  /\ row' = [row EXCEPT ![id].recorded = @ \cup group[id]]
  /\ \/ /\ group[id] = {}
        /\ \E cleanup \in {"unknown", "complete"} :
              Decide(id, "reap", worker[id].result.outcome, cleanup)
        /\ UNCHANGED group
     \/ /\ group[id] # {}
        /\ \E left \in SUBSET group[id] :
              /\ group' = [group EXCEPT ![id] = left]
              /\ Decide(id, "reap", worker[id].result.outcome, Cleaned(left))
  /\ UNCHANGED <<schedVars, mode, stops, slot, registry, starter, finishing,
                 canceller, expired>>

\* `reaper.join()`: a leader that SIGKILL has not ended yet is waited for.
Reap(id) ==
  /\ worker[id].at = "reap"
  /\ "leader" \notin group[id]
  /\ Go(id, "finish")
  /\ UNCHANGED <<schedVars, mode, stops, slot, registry, row, group, starter,
                 finishing, canceller, expired>>

WorkerFinish(id) ==
  /\ worker[id].at = "finish"
  /\ Finish(id, id, worker[id].result.outcome, worker[id].result.cleanup)
  /\ Leave(id)
  /\ UNCHANGED <<schedVars, mode, stops, registry, row, group, starter,
                 canceller, expired>>

WorkerStep(id) ==
  \/ EnterStarting(id) \/ SaveStarting(id) \/ Launch(id) \/ Record(id)
  \/ EnterRunning(id) \/ SaveRunning(id) \/ Watch(id)
  \/ EnterStopping(id) \/ SaveStopping(id) \/ StopGroup(id)
  \/ Reap(id) \/ WorkerFinish(id)

-----------------------------------------------------------------------------
(* `cancel`, and `cancel_all`, which does the same to every slot it finds  *)
(* in the registry, one after the other.                                   *)

Here(c, at) == canceller[c].at = at /\ Returned(c)

\* A cancel request ends; `cancel_all` keeps what it has yet to do.
CancelDone(c) ==
  canceller' = [canceller EXCEPT ![c] = 
    [NotCancelling EXCEPT !.todo = canceller[c].todo]]

CancelGo(c, at) == canceller' = [canceller EXCEPT ![c].at = at]

\* The registry, then, when the run is not there, the store.
CancelRequest(c, id) ==
  /\ Serving
  /\ Here(c, "idle")
  /\ row[id].state # "absent"
  /\ canceller' = [canceller EXCEPT
       ![c].id = id,
       ![c].at = IF id \in registry THEN "look" ELSE "load"]
  /\ UNCHANGED <<schedVars, mode, stops, slot, registry, row, group, starter,
                 worker, finishing, expired>>

\* The slot made from the row is nobody else's: it is not in the registry.
CancelLoad(c) ==
  /\ Here(c, "load")
  /\ LET found == row[canceller[c].id]
     IN  IF found.state = "finished" THEN CancelDone(c)
         ELSE canceller' = [canceller EXCEPT
                ![c].live = FALSE, ![c].revision = found.revision,
                ![c].at = IF found.state = "queued" THEN "dequeue" ELSE "flag"]
  /\ UNCHANGED <<schedVars, mode, stops, slot, registry, row, group, starter,
                 worker, finishing, expired>>

CancelLook(c) ==
  /\ Here(c, "look")
  /\ LET found == slot[canceller[c].id]
     IN  CASE found.state = "finished" -> CancelDone(c)
           [] found.state = "queued"   -> CancelGo(c, "dequeue")
           [] OTHER                    -> CancelGo(c, "flag")
  /\ UNCHANGED <<schedVars, mode, stops, slot, registry, row, group, starter,
                 worker, finishing, expired>>

\* Mutant of CancelDequeue: the answer of cancel_queued is not looked at.
CancelDequeueUnheeded(c) ==
  /\ Here(c, "dequeue")
  /\ CancelQueued(canceller[c].id)
  /\ CancelGo(c, "dequeued")
  /\ UNCHANGED <<mode, stops, slot, registry, row, group, starter, worker,
                 finishing, expired>>

\* Whoever takes a run from the queue finishes it.
CancelDequeue(c) ==
  /\ Here(c, "dequeue")
  /\ CancelQueued(canceller[c].id)
  /\ CancelGo(c, IF canceller[c].id \in Ids(Waiting(sched)) THEN "dequeued"
                                                           ELSE "flag")
  /\ UNCHANGED <<mode, stops, slot, registry, row, group, starter, worker,
                 finishing, expired>>

CancelFinish(c) ==
  /\ Here(c, "dequeued")
  /\ LET asked == canceller[c]
     IN  IF asked.live THEN Finish(asked.id, c, "cancelled", "complete")
         ELSE /\ finishing' = finishing \cup
                   {Ending(asked.id, c, asked.revision + 1,
                           "cancelled", "complete")}
              /\ UNCHANGED slot
  /\ CancelDone(c)
  /\ UNCHANGED <<schedVars, mode, stops, registry, row, group, starter,
                 worker, expired>>

CancelFlag(c) ==
  /\ Here(c, "flag")
  /\ slot' = IF canceller[c].live
             THEN [slot EXCEPT ![canceller[c].id].cancel = TRUE]
             ELSE slot
  /\ CancelDone(c)
  /\ UNCHANGED <<schedVars, mode, stops, registry, row, group, starter,
                 worker, finishing, expired>>

CancelNext ==
  /\ Here("shutdown", "idle")
  /\ \E id \in canceller["shutdown"].todo :
        canceller' = [canceller EXCEPT !["shutdown"].at = "look",
                                       !["shutdown"].id = id,
                                       !["shutdown"].todo = @ \ {id}]
  /\ UNCHANGED <<schedVars, mode, stops, slot, registry, row, group, starter,
                 worker, finishing, expired>>

CancelStep(c) ==
  \/ CancelLoad(c) \/ CancelLook(c) \/ CancelDequeue(c)
  \/ CancelFinish(c) \/ CancelFlag(c)
  \/ c = "shutdown" /\ CancelNext

-----------------------------------------------------------------------------
(* The queue tick: it takes every overdue run, then finishes them in turn. *)

QueueTick ==
  /\ Serving /\ expired = {} /\ Returned("tick")
  /\ Expire
  /\ expired' = Ids(Overdue(sched, now))
  /\ UNCHANGED <<mode, stops, slot, registry, row, group, starter, worker,
                 finishing, canceller>>

FinishExpired(id) ==
  /\ id \in expired /\ Returned("tick")
  /\ expired' = expired \ {id}
  /\ IF id \in registry THEN Finish(id, "tick", "timed_out", "complete")
                         ELSE UNCHANGED <<slot, finishing>>
  /\ UNCHANGED <<schedVars, mode, stops, registry, row, group, starter,
                 worker, canceller>>

SupSetLimits ==
  /\ Serving
  /\ \E l \in LimitChoices : SetLimits(l)
  /\ UNCHANGED supVars

Clock ==
  /\ Serving
  /\ Tick \/ WallStep
  /\ UNCHANGED supVars

-----------------------------------------------------------------------------
(* The processes.                                                          *)

Fork(id) ==
  /\ group[id] # {}
  /\ \E p \in Member \ group[id] :
        group' = [group EXCEPT ![id] = @ \cup {p}]
  /\ UNCHANGED <<schedVars, mode, stops, slot, registry, row, starter, worker,
                 finishing, canceller, expired>>

Exit(id) ==
  /\ \E p \in group[id] : group' = [group EXCEPT ![id] = @ \ {p}]
  /\ UNCHANGED <<schedVars, mode, stops, slot, registry, row, starter, worker,
                 finishing, canceller, expired>>

-----------------------------------------------------------------------------
(* The supervisor's own life.                                              *)

\* What is in memory is gone; the rows and the processes are not.
Stop ==
  /\ stops < MaxStops
  /\ stops' = stops + 1
  /\ mode' = "down"
  /\ slot' = [id \in RunId |-> FreshSlot]
  /\ registry' = {}
  /\ starter' = [id \in RunId |-> IF starter[id] = "idle" THEN "idle" ELSE "done"]
  /\ worker' = [id \in RunId |-> NoWorker]
  /\ finishing' = {}
  /\ canceller' = [c \in Canceller |-> NotCancelling]
  /\ expired' = {}
  /\ \E l \in LimitChoices :
        sched' = [limits |-> l, running |-> {}, queue |-> << >>, held |-> {}]
  /\ mono' = 0
  /\ now' = 0
  /\ UNCHANGED <<row, group>>

Crash == mode # "down" /\ Stop

\* A signal or the idle exit finds no active run.
LeaveIdle == mode = "up" /\ Active = {} /\ Stop

\* SIGTERM: `cancel_all` over the registry of this moment.
Drain ==
  /\ mode = "up"
  /\ stops < MaxStops
  /\ Active # {}
  /\ mode' = "draining"
  /\ canceller' = [canceller EXCEPT !["shutdown"].todo = registry]
  /\ UNCHANGED <<schedVars, stops, slot, registry, row, group, starter, worker,
                 finishing, expired>>

Drained ==
  /\ mode = "draining"
  /\ Here("shutdown", "idle")
  /\ canceller["shutdown"].todo = {}

\* Nothing is active any more, or the grace period is over.
LeaveDrained == Drained /\ Active = {} /\ Stop

LeaveAnyway == Drained /\ Active # {} /\ Stop

Reboot ==
  /\ mode = "down"
  /\ group' = [id \in RunId |-> {}]
  /\ row' = [id \in RunId |->
               [row[id] EXCEPT !.leader =
                  IF @ = "this_boot" THEN "earlier_boot" ELSE @]]
  /\ UNCHANGED <<schedVars, mode, stops, slot, registry, starter, worker,
                 finishing, canceller, expired>>

Restart ==
  /\ mode = "down"
  /\ mode' = "recovering"
  /\ UNCHANGED <<schedVars, stops, slot, registry, row, group, starter, worker,
                 finishing, canceller, expired>>

\* Mutant of ToRecover: rows whose leader is not recorded are passed over.
ToRecoverLed(id) == Unfinished(id) /\ row[id].leader # "none"

\* Mutant of ToRecover: finished rows are not left out.
ToRecoverFinished(id) == row[id].state # "absent"

\* `run_unfinished`.
ToRecover(id) == Unfinished(id)

(***************************************************************************)
(* `recover`, one row.  With a leader of this boot a group is signaled     *)
(* when a recorded process still lives in it, and survivors are counted    *)
(* among the recorded; without one nothing is signaled or known.           *)
(***************************************************************************)
Recover(id) ==
  /\ mode = "recovering"
  /\ ToRecover(id)
  /\ \E left \in SUBSET group[id] :
        LET same_boot == row[id].leader = "this_boot"
            signaled  == same_boot /\ row[id].recorded \cap group[id] # {}
            cleanup   == IF same_boot THEN Cleaned(row[id].recorded \cap left)
                                      ELSE "unknown"
        IN  /\ ~signaled => left = group[id]
            /\ group' = [group EXCEPT ![id] = left]
            /\ row' = [row EXCEPT
                 ![id].state = "finished",
                 ![id].revision = @ + 1,
                 ![id].result = [outcome |-> "supervisor_lost",
                                 cleanup |-> cleanup]]
  /\ UNCHANGED <<schedVars, mode, stops, slot, registry, starter, worker,
                 finishing, canceller, expired>>

\* A row that cannot be written ends `Supervisor::new` with the error.
RecoverFails ==
  /\ "store" \in Faults
  /\ mode = "recovering"
  /\ \E id \in RunId : ToRecover(id)
  /\ mode' = "down"
  /\ UNCHANGED <<schedVars, stops, slot, registry, row, group, starter, worker,
                 finishing, canceller, expired>>

Serve ==
  /\ mode = "recovering"
  /\ \A id \in RunId : ~ToRecover(id)
  /\ mode' = "up"
  /\ UNCHANGED <<schedVars, stops, slot, registry, row, group, starter, worker,
                 finishing, canceller, expired>>

-----------------------------------------------------------------------------
SupInit ==
  /\ Init
  /\ mode = "up"
  /\ stops = 0
  /\ slot = [id \in RunId |-> FreshSlot]
  /\ registry = {}
  /\ row = [id \in RunId |-> NoRow]
  /\ group = [id \in RunId |-> {}]
  /\ starter = [id \in RunId |-> "idle"]
  /\ worker = [id \in RunId |-> NoWorker]
  /\ finishing = {}
  /\ canceller = [c \in Canceller |-> NotCancelling]
  /\ expired = {}

SupNext ==
  \/ \E id \in RunId :
        \/ Insert(id) \/ StarterStep(id)
        \/ WorkerStep(id) \/ Sample(id)
        \/ Fork(id) \/ Exit(id)
        \/ FinishExpired(id)
        \/ Recover(id)
  \/ \E f \in finishing : FinishStep(f)
  \/ \E c \in Client, id \in RunId : CancelRequest(c, id)
  \/ \E c \in Canceller : CancelStep(c)
  \/ QueueTick \/ SupSetLimits \/ Clock
  \/ Crash \/ LeaveIdle \/ Drain \/ LeaveDrained \/ LeaveAnyway
  \/ Reboot \/ Restart \/ RecoverFails \/ Serve

SupSpec == SupInit /\ [][SupNext]_vars

FinishOf(id) == \E f \in finishing : f.id = id /\ FinishStep(f)

(***************************************************************************)
(* Threads that can go on do, the clock and the queue tick run, and a      *)
(* supervisor that is down is started by the next client.  An accepted     *)
(* request is served to its end.  The run's own timeout is one of the ways *)
(* out of Watch, so that step is always possible in the loop.  A leader    *)
(* that was sent SIGKILL dies at last.                                     *)
(***************************************************************************)
SupFairSpec ==
  /\ SupSpec
  /\ \A id \in RunId :
        /\ WF_vars(StarterStep(id))
        /\ WF_vars(WorkerStep(id))
        /\ WF_vars(FinishOf(id))
        /\ WF_vars(FinishExpired(id))
        /\ WF_vars(Recover(id))
        /\ WF_vars(worker[id].at = "reap" /\ Exit(id) /\ "leader" \notin group'[id])
  /\ \A c \in Canceller : WF_vars(CancelStep(c))
  /\ WF_vars(QueueTick)
  /\ WF_vars(Serving /\ Tick /\ UNCHANGED supVars)
  /\ WF_vars(Restart)
  /\ WF_vars(Serve)

-----------------------------------------------------------------------------
(* Properties.                                                             *)

SlotStates == {"queued", "starting", "running", "stopping", "finished"}

SupTypeOK ==
  /\ TypeOK
  /\ mode \in {"up", "draining", "down", "recovering"}
  /\ stops \in 0 .. MaxStops
  /\ slot \in [RunId -> [state : SlotStates, revision : Nat, cancel : BOOLEAN]]
  /\ registry \subseteq RunId
  /\ row \in [RunId ->
        [state : SlotStates \cup {"absent"}, revision : Nat,
         result : Result \cup {NoResult},
         leader : {"none", "this_boot", "earlier_boot"},
         recorded : SUBSET Process]]
  /\ group \in [RunId -> SUBSET Process]
  /\ starter \in [RunId -> {"idle", "inserted", "registered", "admitted",
                            "rejected", "done"}]
  /\ worker \in [RunId ->
        [at : {"none", "starting", "save_starting", "launch", "record",
               "running", "save_running", "watch", "stopping",
               "save_stopping", "signal", "reap", "finish", "done"},
         revision : Nat, result : Result \cup {NoResult}]]
  /\ finishing \subseteq
        [id : RunId, by : RunId \cup Canceller \cup {"tick"},
         at : {"store", "registry", "release", "spawn"}, revision : Nat,
         result : Result, next : SUBSET RunId]
  /\ canceller \in [Canceller ->
        [at : {"idle", "load", "look", "dequeue", "dequeued", "flag"},
         id : RunId \cup {"none"}, live : BOOLEAN, revision : Nat,
         todo : SUBSET RunId]]
  /\ expired \subseteq RunId

Working(id) == worker[id].at \notin {"none", "done"}

\* A `finish` of the run that has not released its slot yet.
Ends(id) == \E f \in finishing : f.id = id /\ f.at # "spawn"

\* Admitted, its worker about to be started.
Admitted(id) == starter[id] = "admitted" \/ \E f \in finishing : id \in f.next

(***************************************************************************)
(* A slot of the scheduler belongs to a run that somebody is about to      *)
(* start, is working on or is about to release: no slot is lost on the way *)
(* between the threads.  And nobody works on a run without a slot, so the  *)
(* scheduler's limits bound the workers that really run.                   *)
(***************************************************************************)
SlotsAccounted ==
  \A id \in RunId :
    /\ id \in Ids(sched.running) => Admitted(id) \/ Working(id) \/ Ends(id)
    /\ Admitted(id) \/ Working(id) => id \in Ids(sched.running)

Dequeued(id) ==
  \/ id \in expired
  \/ \E c \in Canceller : canceller[c].at = "dequeued" /\ canceller[c].id = id

(***************************************************************************)
(* While the supervisor serves, every unfinished row is in the care of a   *)
(* thread or waits in the queue, rows of an earlier supervisor included:   *)
(* `finish` writes the row before it lets go of the run, and `recover`     *)
(* leaves none behind.                                                     *)
(***************************************************************************)
RowsOwned ==
  Serving => \A id \in RunId : Unfinished(id) =>
    \/ starter[id] \in {"inserted", "registered", "rejected"}
    \/ id \in Ids(Waiting(sched))
    \/ Dequeued(id) \/ Admitted(id) \/ Working(id) \/ Ends(id)

(***************************************************************************)
(* A run with a living process keeps its reservation, also after an        *)
(* incomplete cleanup: "pretending the capacity is free would let the next *)
(* run bypass the budget" (src/runner/mod.rs:1674).                        *)
(***************************************************************************)
CapacityCoversProcesses ==
  Serving => \A id \in RunId :
    group[id] # {} => id \in Ids(sched.running \cup sched.held)

(***************************************************************************)
(* A process is started only for a run that holds a slot and whose row     *)
(* says "starting" by then, with no result yet: whatever is cancelled,     *)
(* expired or recovered before that is never started, even if a write of   *)
(* the row fails.                                                          *)
(***************************************************************************)
SpawnOnlyAdmitted ==
  [][ \A id \in RunId : group[id] = {} /\ group'[id] # {} =>
        /\ id \in Ids(sched.running)
        /\ row[id].state = "starting"
        /\ ~Finished(id)
    ]_vars

Contract == INSTANCE RunContract WITH
  status <- [id \in RunId |-> CASE row[id].state = "absent"   -> "absent"
                                [] row[id].state = "finished" -> "closed"
                                [] OTHER                      -> "open"],
  result <- [id \in RunId |-> row[id].result],
  alive  <- [id \in RunId |->
               CASE group[id] = {}                         -> "none"
                 [] group[id] \cap row[id].recorded # {}   -> "seen"
                 [] OTHER                                  -> "unseen"]

(***************************************************************************)
(* The runs table and the process groups behave as RunContract says,       *)
(* whatever the threads and the processes do and wherever the supervisor   *)
(* stops: one result per run, for good; no process for a finished run;     *)
(* "complete" only for a group that is gone or, from `recover`, of which   *)
(* no recorded process lives.                                              *)
(***************************************************************************)
ImplementsRunContract == Contract!ContractSpec

(***************************************************************************)
(* Every run that is in the store finishes, though it waits behind         *)
(* reservations that are never given back or its supervisor stops.         *)
(***************************************************************************)
EveryRunFinishes ==
  \A id \in RunId : (row[id].state = "queued") ~> (row[id].state = "finished")

-----------------------------------------------------------------------------
(* What the documentation says and the code does not keep.                 *)

(***************************************************************************)
(* "Ask a run to stop" (src/runner/mod.rs:958): a cancel request that is   *)
(* answered has reached the run, or the run is finished.                   *)
(***************************************************************************)
CancelReachesRun ==
  [][ \A c \in Client : canceller[c].at = "flag" /\ CancelFlag(c) =>
        LET asked == slot'[canceller[c].id]
        IN  asked.cancel \/ asked.state = "finished"
    ]_vars

\* The threads are where their code can be, and a slot of the scheduler is held by exactly
\* the runs that some thread has still to start, run or end (finish releases it).
SlotsHold == SupTypeOK /\ SlotsAccounted
=============================================================================
