------------------------------- MODULE MCRuns -------------------------------
(***************************************************************************)
(* A run on its machine and what it prints: one run of Worker, and the     *)
(* output of two in RunLogs.  A behaviour is one of the two, chosen in its *)
(* first state; the other stands still where none of its actions can       *)
(* happen, so that its fairness asks for nothing.                          *)
(***************************************************************************)
EXTENDS Worker, RunLogs

VARIABLE part

runLogVars == <<drainVars, starts, reader>>
partVars == <<part, workerVars, runLogVars>>

CONSTANTS w1, w2
\* one run that fills its stream, and one that the disk fails
MCOutput == [w \in {w1, w2} |-> IF w = w1 THEN 3 ELSE 1]

NoWorker ==
  /\ asks = "nothing" /\ delegated = FALSE /\ step = "done"
  /\ life = [p \in Process |-> "gone"] /\ grouped = {} /\ caged = {} /\ pipe = {}
  /\ cgroup = "none" /\ limited = FALSE /\ known = {} /\ cancelled = FALSE
  /\ over = FALSE /\ oom = FALSE /\ reaper = "off" /\ status = "none" /\ received = FALSE
  /\ drain = "off"
  /\ result = [reason |-> "none", outcome |-> "none", cleanup |-> "pending"]

NoLogsRead ==
  /\ phase = [w \in Writer |-> "pruned"] /\ left = [w \in Writer |-> 0]
  /\ drainer = [w \in Writer |-> "off"] /\ files = {} /\ size = [w \in Writer |-> 0]
  /\ sink = [w \in Writer |-> NoLogs] /\ pending = [w \in Writer |-> NotPending]
  /\ logs = [w \in Writer |-> NoLogs] /\ row = [w \in Writer |-> NoLogs]
  /\ lost = {} /\ late = {} /\ missed = {} /\ used = 0 /\ starts = 0 /\ reader = NotReading

MCRunsInit ==
  \/ part = "worker" /\ WorkerInit /\ NoLogsRead
  \/ part = "logs" /\ LogInit /\ NoWorker

MCRunsNext ==
  /\ part' = part
  /\ \/ part = "worker" /\ WorkerNext /\ UNCHANGED runLogVars
     \/ part = "logs" /\ LogNext /\ UNCHANGED workerVars

MCRunsSpec ==
  MCRunsInit /\ [][MCRunsNext]_partVars /\ WorkerFairness /\ LogFairness

\* Whatever the processes and the pipes do, the worker ends, and whoever follows the
\* output gets to its end (run_worker's joins, run_logs).
RunsReturn == WorkerEnds /\ FollowReturns
=============================================================================
