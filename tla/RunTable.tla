------------------------------ MODULE RunTable ------------------------------
(***************************************************************************)
(* The rows and events of runs (store.rs), the slots the supervisor keeps  *)
(* of them in memory, and what a client is shown of both (runner/mod.rs:   *)
(* start, get, view, list).                                                *)
(*                                                                         *)
(* A step of a run is first in memory, then in its row with its event; a   *)
(* view is put together from memory and row, one after the other.          *)
(* Statements under one lock of the store are one step.  The supervisor    *)
(* may be killed between any two; the next one closes the rows it finds    *)
(* open and prunes the old ones.  A get that names a revision is also      *)
(* given the events after it; that they are read before the memory, and a  *)
(* step's event can be missed so, is not modelled.                         *)
(***************************************************************************)
EXTENDS Naturals, FiniteSets

CONSTANTS
  Request,      \* request ids
  Window,       \* REQUEST_ID_WINDOW
  Retention,    \* RUN_RETENTION
  MaxRuns,      \* bounds the runs
  MaxTicks,     \* bounds the clock
  MaxReopens    \* bounds the supervisors

ASSUME TableAssumption ==
  /\ {Window, Retention, MaxRuns, MaxTicks, MaxReopens} \subseteq Nat
  /\ Window <= Retention

VARIABLES
  clock,     \* now_secs
  rows,      \* table runs, by id
  runEvents,  \* table run_events
  made,      \* every row there ever was: its request, and when
  registry,  \* ids that have a live slot
  slots,     \* RunSlot.inner of every id this supervisor has had
  thread,    \* how far start, the worker and finish are with an id
  viewer,    \* a client that asks for one run again and again
  reopens    \* supervisors there have been after the first

tableVars == <<clock, rows, runEvents, made, registry, slots, thread, viewer, reopens>>

Ids == 1 .. MaxRuns
Stages == <<"queued", "starting", "running", "stopping", "finished">>
RunStages == {Stages[i] : i \in 1 .. 5}
NoRow == [state |-> "none", cleanup |-> "none", revision |-> 0, effective |-> "none",
          outcome |-> "none", request |-> "none", created |-> 0]
HasRow(id) == rows[id].state # "none"
Finished(x) == x.state = "finished"

\* RunInner
Queued == [state |-> "queued", cleanup |-> "pending", revision |-> 0, outcome |-> "none"]
NoView == [Queued EXCEPT !.state = "none"]

Put(f, x, value) == [f EXCEPT ![x] = value]
Update(f, x, fields) == [f EXCEPT ![x] = [k \in DOMAIN @ |-> IF k \in DOMAIN fields THEN fields[k] ELSE @[k]]]

TableTypeOK ==
  /\ clock \in 0 .. MaxTicks /\ registry \subseteq Ids /\ reopens \in 0 .. MaxReopens
  /\ \A id \in Ids :
       /\ rows[id].state \in RunStages \cup {"none"} /\ rows[id].revision \in 0 .. 4
       /\ slots[id].state \in RunStages \cup {"none"}
       /\ thread[id] \in {"none", "inserted", "registered", "admit", "waiting", "worker",
                          "row", "ending", "closed", "ended"}
       /\ id \in registry => slots[id].state # "none"
  /\ \A e \in runEvents : e.id \in Ids /\ HasRow(e.id)
  /\ viewer.at \in {"idle", "slot"}

-----------------------------------------------------------------------------
(* Tables.                                                                 *)

\* run_event: INSERT OR REPLACE, keyed by id and revision
WithEvent(set, id, revision, what) ==
  {e \in set : ~(e.id = id /\ e.revision = revision)}
    \cup {[id |-> id, revision |-> revision, kind |-> what]}

\* Mutant of InWindow: a row that is exactly as old as the window has left it.
InWindowStrictly(created) == created + Window > clock
InWindow(created) == created + Window >= clock

\* run_insert, in one transaction: a row of the request in the window, of the same
\* fingerprint or another, is answered with and changes nothing
SameRequest(request) == {id \in Ids : HasRow(id) /\ rows[id].request = request /\ InWindow(rows[id].created)}
Fresh == CHOOSE id \in Ids : thread[id] = "none" /\ \A j \in 1 .. id - 1 : thread[j] # "none"

InsertRun ==
  \E request \in Request :
    /\ SameRequest(request) = {}
    /\ \E id \in Ids : thread[id] = "none"
    /\ rows' = Put(rows, Fresh,
         [NoRow EXCEPT !.state = "queued", !.cleanup = "pending",
                       !.request = request, !.created = clock])
    /\ made' = made \cup {[id |-> Fresh, request |-> request, created |-> clock]}
    /\ thread' = Put(thread, Fresh, "inserted")
    /\ UNCHANGED <<clock, runEvents, registry, slots, viewer, reopens>>

\* run_transition: never back, never twice
RowStep(id, state, cleanup, revision) ==
  IF rows[id].revision < revision
  THEN /\ rows' = Update(rows, id, [state |-> state, cleanup |-> cleanup, revision |-> revision])
       /\ runEvents' = WithEvent(runEvents, id, revision, state)
  ELSE UNCHANGED <<rows, runEvents>>

\* run_finish: only the first counts
Close(row, outcome, cleanup, revision) ==
  IF Finished(row) THEN row
  ELSE [row EXCEPT !.state = "finished", !.outcome = outcome, !.cleanup = cleanup,
                   !.revision = revision]

-----------------------------------------------------------------------------
(* start, the worker and finish.                                           *)

Register(id) ==
  /\ thread[id] = "inserted" /\ thread' = Put(thread, id, "registered")
  /\ slots' = Put(slots, id, Queued) /\ registry' = registry \cup {id}
  /\ UNCHANGED <<clock, rows, runEvents, made, viewer, reopens>>

CreatedEvent(id) ==
  /\ thread[id] = "registered" /\ thread' = Put(thread, id, "admit")
  /\ runEvents' = WithEvent(runEvents, id, 0, "created")
  /\ UNCHANGED <<clock, rows, made, registry, slots, viewer, reopens>>

\* admit: a worker at once, or a place in the queue and its event
AdmitNow(id) ==
  /\ thread[id] \in {"admit", "waiting"} /\ thread' = Put(thread, id, "worker")
  /\ UNCHANGED <<clock, rows, runEvents, made, registry, slots, viewer, reopens>>

Enqueue(id) ==
  /\ thread[id] = "admit" /\ thread' = Put(thread, id, "waiting")
  /\ runEvents' = WithEvent(runEvents, id, 0, "queued")
  /\ UNCHANGED <<clock, rows, made, registry, slots, viewer, reopens>>

\* transition, in memory
StepMemory(id) ==
  /\ thread[id] = "worker" /\ thread' = Put(thread, id, "row")
  /\ \E i \in 2 .. 4 :
       /\ Stages[i - 1] = slots[id].state
       /\ slots' = Update(slots, id, [state |-> Stages[i], revision |-> slots[id].revision + 1])
  /\ UNCHANGED <<clock, rows, runEvents, made, registry, viewer, reopens>>

\* transition, in the row; setup_cgroup has told what it applied
StepRow(id) ==
  /\ thread[id] = "row" /\ thread' = Put(thread, id, "worker")
  /\ RowStep(id, slots[id].state, slots[id].cleanup, slots[id].revision)
  /\ UNCHANGED <<clock, made, registry, slots, viewer, reopens>>

RecordEffective(id) ==
  /\ thread[id] = "worker" /\ slots[id].state = "starting" /\ rows[id].effective = "none"
  /\ rows' = [rows EXCEPT ![id].effective = "applied"]
  /\ UNCHANGED <<clock, runEvents, made, registry, slots, thread, viewer, reopens>>

\* Mutant of FinishRevision: the end of a run is no revision of its own.
FinishRevisionKept(revision) == revision
FinishRevision(revision) == revision + 1

\* from the queue, after a refusal, or by the worker at any stage
FinishMemory(id) ==
  /\ thread[id] \in {"admit", "waiting", "worker"} /\ thread' = Put(thread, id, "ending")
  /\ slots' = Update(slots, id, [state |-> "finished", cleanup |-> "complete", outcome |-> "exited",
                                 revision |-> FinishRevision(slots[id].revision)])
  /\ UNCHANGED <<clock, rows, runEvents, made, registry, viewer, reopens>>

\* run_set_effective, unless the backend's is there, and run_finish
FinishRow(id) ==
  /\ thread[id] = "ending" /\ thread' = Put(thread, id, "closed")
  /\ LET row == Close(rows[id], slots[id].outcome, slots[id].cleanup, slots[id].revision)
     IN rows' = Put(rows, id, IF row.effective = "none" THEN [row EXCEPT !.effective = "requested"]
                                                        ELSE row)
  /\ runEvents' = WithEvent(runEvents, id, slots[id].revision, "finished")
  /\ UNCHANGED <<clock, made, registry, slots, viewer, reopens>>

Unregister(id) ==
  /\ thread[id] = "closed" /\ thread' = Put(thread, id, "ended")
  /\ registry' = registry \ {id}
  /\ UNCHANGED <<clock, rows, runEvents, made, slots, viewer, reopens>>

-----------------------------------------------------------------------------
(* The next supervisor: recover, then prune.                               *)

Pruned(row) == Finished(row) /\ row.created + Retention < clock

Reopen ==
  /\ reopens < MaxReopens /\ reopens' = reopens + 1
  /\ LET closed == [id \in Ids |-> IF HasRow(id)
                                   THEN Close(rows[id], "supervisor_lost", "unknown", rows[id].revision + 1)
                                   ELSE NoRow]
         told == runEvents \cup {[id |-> id, revision |-> closed[id].revision, kind |-> "finished"] :
                                 id \in {i \in Ids : HasRow(i) /\ ~Finished(rows[i])}}
     IN /\ rows' = [id \in Ids |-> IF Pruned(closed[id]) THEN NoRow ELSE closed[id]]
        /\ runEvents' = {e \in told : ~Pruned(closed[e.id])}
  /\ registry' = {} /\ slots' = [id \in Ids |-> NoView]
  /\ thread' = [id \in Ids |-> IF thread[id] = "none" THEN "none" ELSE "ended"]
  /\ viewer' = [viewer EXCEPT !.at = "idle", !.live = FALSE, !.copy = NoView]
  /\ UNCHANGED <<clock, made>>

-----------------------------------------------------------------------------
(* get, by a client that keeps the last view it has had.                   *)

\* A row as a slot: slot_or_load.  What has no result has an unknown cleanup.
Loaded(row) ==
  [state |-> row.state, revision |-> row.revision, outcome |-> row.outcome,
   cleanup |-> IF row.outcome = "none" THEN "unknown" ELSE row.cleanup]

\* a live slot is looked at when the view is made, a loaded one is a copy
GetSlot ==
  /\ viewer.at = "idle"
  /\ \E id \in Ids :
       /\ viewer.id \in {0, id} /\ (id \in registry \/ HasRow(id))
       /\ viewer' = [viewer EXCEPT !.at = "slot", !.id = id, !.live = id \in registry,
                       !.copy = IF id \in registry THEN NoView ELSE Loaded(rows[id])]
  /\ UNCHANGED <<clock, rows, runEvents, made, registry, slots, thread, reopens>>

\* view: the memory of a live slot as it is by now
GetView ==
  /\ viewer.at = "slot"
  /\ LET view == IF viewer.live THEN slots[viewer.id] ELSE viewer.copy
     IN viewer' = [viewer EXCEPT !.at = "idle", !.view = view, !.live = FALSE, !.copy = NoView]
  /\ UNCHANGED <<clock, rows, runEvents, made, registry, slots, thread, reopens>>

TickClock ==
  /\ clock < MaxTicks /\ clock' = clock + 1
  /\ UNCHANGED <<rows, runEvents, made, registry, slots, thread, viewer, reopens>>

-----------------------------------------------------------------------------
TableInit ==
  /\ clock = 0 /\ rows = [id \in Ids |-> NoRow] /\ runEvents = {} /\ made = {}
  /\ registry = {} /\ slots = [id \in Ids |-> NoView] /\ thread = [id \in Ids |-> "none"]
  /\ viewer = [at |-> "idle", id |-> 0, live |-> FALSE, copy |-> NoView,
               view |-> NoView]
  /\ reopens = 0

TableNext ==
  \/ InsertRun \/ Reopen \/ GetSlot \/ GetView \/ TickClock
  \/ \E id \in Ids :
       \/ Register(id) \/ CreatedEvent(id) \/ AdmitNow(id) \/ Enqueue(id)
       \/ StepMemory(id) \/ StepRow(id) \/ RecordEffective(id)
       \/ FinishMemory(id) \/ FinishRow(id) \/ Unregister(id)

TableSpec == TableInit /\ [][TableNext]_tableVars

-----------------------------------------------------------------------------
(* What should hold.                                                       *)

\* A request id starts one run in REQUEST_ID_WINDOW, whatever was pruned or killed
\* in between: "two clients racing on the same key cannot both create" (run_insert).
OneRunPerKey ==
  \A a, b \in made :
    (a.id < b.id /\ a.request = b.request) => a.created + Window < b.created

\* Every step in a row has an event of its own: none replaces another, and none is
\* of a revision the row has not reached (run_transition, run_finish, run_event).
StepsTold ==
  \A id \in Ids : HasRow(id) =>
    /\ {e.revision : e \in {x \in runEvents : x.id = id}} \ {0} = 1 .. rows[id].revision
    /\ Finished(rows[id]) =>
         \E e \in runEvents : e.id = id /\ e.kind = "finished" /\ e.revision = rows[id].revision
    /\ \A i \in 2 .. 4 :
         (rows[id].state = Stages[i] \/ (Finished(rows[id]) /\ rows[id].revision >= i))
           => \E e \in runEvents : e.id = id /\ e.kind = Stages[i] /\ e.revision = i - 1
EveryStepHasItsEvent ==
  [][ /\ StepsTold'
      /\ \A e \in runEvents : e.revision > 0 /\ HasRow(e.id)' => e \in runEvents' ]_tableVars

\* What a client is shown of a run never goes back: not from memory to a row that is
\* behind, not from finished to running, not across supervisors (get, slot_or_load).
ViewMonotone ==
  [][ /\ viewer'.view.revision >= viewer.view.revision
      /\ Finished(viewer.view) => Finished(viewer'.view) ]_tableVars

\* The rows of runs go forward: each step has its event, and no client is shown a run
\* going back (run_transition, run_event, get).
RowsOnlyAdvance == []TableTypeOK /\ EveryStepHasItsEvent /\ ViewMonotone
=============================================================================
