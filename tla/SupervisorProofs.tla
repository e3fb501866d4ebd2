-------------------------- MODULE SupervisorProofs --------------------------
(***************************************************************************)
(* Theorems about Supervisor, for every set of runs, of cancellers and of  *)
(* processes of a run, all limits, any number of restarts, and, where not  *)
(* said otherwise, every fault.                                            *)
(*                                                                         *)
(* One inductive invariant, SupInv, carries them all: every run is in the  *)
(* hands of one thread, and what is said of it in the store, the registry  *)
(* and the scheduler is what that thread believes. The module first says   *)
(* what a step of each kind of thread changes, then keeps the parts of the *)
(* invariant one by one, and draws the theorems from it.                   *)
(*                                                                         *)
(* Two theorems assume that no write and no thread start fails (Faults =   *)
(* {}), one that the supervisor has not stopped yet (stops = 0): the code  *)
(* gives no more than that, and each says why.                             *)
(***************************************************************************)
EXTENDS Supervisor, SchedulerProofs

\* The values of the records a thread works with, each set named once.
SlotRecord == [state : SlotStates, revision : Nat, cancel : BOOLEAN]

RowRecord == [state : SlotStates \cup {"absent"}, revision : Nat,
              result : Result \cup {NoResult},
              leader : {"none", "this_boot", "earlier_boot"},
              recorded : SUBSET Process]

WorkerPlaces == {"none", "starting", "save_starting", "launch", "record",
                 "running", "save_running", "watch", "stopping",
                 "save_stopping", "signal", "reap", "finish", "done"}

WorkerRecord == [at : WorkerPlaces, revision : Nat, result : Result \cup {NoResult}]

FinishRecord == [id : RunId, by : RunId \cup Canceller \cup {"tick"},
                 at : {"store", "registry", "release", "spawn"}, revision : Nat,
                 result : Result, next : SUBSET RunId]

CancelRecord == [at : {"idle", "load", "look", "dequeue", "dequeued", "flag"},
                 id : RunId \cup {"none"}, live : BOOLEAN, revision : Nat,
                 todo : SUBSET RunId]

\* The type invariant, in terms of the sets just named.
LEMMA TypeMeans ==
  SupTypeOK <=>
    /\ TypeOK
    /\ mode \in {"up", "draining", "down", "recovering"}
    /\ stops \in 0 .. MaxStops
    /\ slot \in [RunId -> SlotRecord]
    /\ registry \subseteq RunId
    /\ row \in [RunId -> RowRecord]
    /\ group \in [RunId -> SUBSET Process]
    /\ starter \in [RunId -> {"idle", "inserted", "registered", "admitted",
                              "rejected", "done"}]
    /\ worker \in [RunId -> WorkerRecord]
    /\ finishing \subseteq FinishRecord
    /\ canceller \in [Canceller -> CancelRecord]
    /\ expired \subseteq RunId
BY DEF SupTypeOK, SlotRecord, RowRecord, WorkerRecord, WorkerPlaces, FinishRecord, CancelRecord

\* The run waits in the queue of the scheduler.
Waits(id) == id \in InQueue(sched)

\* The run holds a slot of the scheduler.
Runs(id) == id \in InSlot(sched)

\* `release` admitted the run and the caller of `finish` has yet to spawn it.
Picked(id) == \E f \in finishing : id \in f.next

\* Some thread is inside `finish` for the run.
Ended(id) == \E f \in finishing : f.id = id

\* A canceller took the run from the queue and has yet to finish it.
Taken(id) ==
  \E c \in Canceller : canceller[c].at = "dequeued" /\ canceller[c].id = id

(***************************************************************************)
(* A run is in the hands of one thread. Its starter has it until `submit`  *)
(* returns; after that it waits, or was admitted, or has a worker, or      *)
(* expired, or was taken from the queue, or is being finished, and never   *)
(* two of these at once. Whoever is about to start it or works on it holds *)
(* its slot.                                                               *)
(***************************************************************************)
Sole(id) ==
  /\ starter[id] \in {"idle", "inserted", "registered", "rejected"} => ~Runs(id)
  /\ starter[id] = "admitted" => Runs(id)
  /\ starter[id] # "done" =>
       /\ ~Waits(id) /\ ~Picked(id) /\ worker[id].at = "none"
       /\ id \notin expired /\ ~Taken(id) /\ ~Ended(id)
  /\ Picked(id) => Runs(id) /\ ~Working(id) /\ ~Ended(id)
  /\ Working(id) => Runs(id) /\ ~Ended(id)
  /\ Waits(id) => /\ ~Runs(id) /\ worker[id].at = "none"
                  /\ id \notin expired /\ ~Taken(id) /\ ~Ended(id)
  /\ id \in expired => ~Runs(id) /\ ~Taken(id) /\ ~Ended(id)
  /\ Taken(id) => ~Runs(id) /\ ~Ended(id)

(***************************************************************************)
(* The threads do not overlap: one call of `finish` for a run, one call of *)
(* `release` that admitted it, one canceller that took it from the queue.  *)
(* Without this the other parts are not inductive: a second thread with    *)
(* the same run would finish or start it behind the first one's back.      *)
(***************************************************************************)
OneEach ==
  /\ \A f, g \in finishing : f.id = g.id => f = g
  /\ \A f, g \in finishing, id \in RunId : id \in f.next /\ id \in g.next => f = g
  /\ \A f \in finishing : f.at # "spawn" => f.next = {}
  /\ \A c, d \in Canceller :
       canceller[c].at = "dequeued" /\ canceller[d].at = "dequeued"
       /\ canceller[c].id = canceller[d].id => c = d
  /\ \A c \in Canceller : canceller[c].at # "idle" => canceller[c].id \in RunId

\* The request for the run is on its way through `start`.
Asking == {"inserted", "registered", "rejected", "admitted"}

\* No process of the run was started yet, and one still may be.
Pending(id) ==
  \/ starter[id] \in Asking \/ Waits(id) \/ Picked(id)
  \/ id \in expired \/ Taken(id)
  \/ worker[id].at \in {"starting", "save_starting", "launch"}

\* A thread that reads or writes the live entry of the run is to come.
Listed(id) ==
  \/ starter[id] \in {"registered", "admitted", "rejected"}
  \/ Waits(id) \/ Picked(id) \/ Working(id) \/ id \in expired

(***************************************************************************)
(* What the store, the registry and the processes of the run say at each   *)
(* point of its way: the row is unfinished as long as someone may still    *)
(* start or stop the run, the entry is live, no process is there before    *)
(* the launch, and a worker that decided on "complete" left none.          *)
(***************************************************************************)
Told(id) ==
  /\ starter[id] = "idle" => row[id] = NoRow /\ group[id] = {} /\ ~Finished(id)
  /\ starter[id] # "idle" => row[id].state # "absent"
  /\ Pending(id) \/ Working(id) => ~Finished(id) /\ Unfinished(id)
  /\ \A f \in finishing : f.id = id /\ f.at = "store" => Unfinished(id)
  /\ Listed(id) => id \in registry
  /\ Pending(id) => group[id] = {}
  /\ Pending(id) /\ worker[id].at # "launch" => row[id].revision = 0
  /\ worker[id].at = "save_starting" => worker[id].revision > 0
  /\ worker[id].at = "launch" => row[id].state = "starting"
  /\ worker[id].at \in {"stopping", "save_stopping", "signal", "reap", "finish"}
       => worker[id].result \in Result
  /\ worker[id].at \in {"reap", "finish"} /\ worker[id].result.cleanup = "complete"
       => group[id] = {}
  /\ \A f \in finishing : f.id = id /\ f.result.cleanup = "complete" => group[id] = {}

\* A supervisor that does not serve has no threads: it starts with an empty
\* queue.
Quiet ==
  ~Serving => /\ finishing = {} /\ expired = {} /\ sched.queue = << >>
              /\ canceller = [c \in Canceller |-> NotCancelling]
              /\ \A id \in RunId : starter[id] \in {"idle", "done"} /\ worker[id] = NoWorker

(***************************************************************************)
(* The inductive invariant. None of its parts is inductive alone: that a   *)
(* slot has one thread (Sole) needs that ids are in one place (OnePlace)   *)
(* and threads apart (OneEach), what the row says (Told) needs to know     *)
(* that nobody else writes it (Sole), and after a crash all of them start  *)
(* from Quiet.                                                             *)
(***************************************************************************)
SupInv ==
  /\ SupTypeOK /\ OnePlace /\ Quiet /\ OneEach
  /\ \A id \in RunId : Sole(id)
  /\ \A id \in RunId : Told(id)


-----------------------------------------------------------------------------
(* What the steps of each kind of thread do to its own record.             *)

(***************************************************************************)
(* A thread that works for a run changes the records of that run only.     *)
(***************************************************************************)
PutsSlot(id) ==
  slot'[id] \in SlotRecord /\ slot' = [slot EXCEPT ![id] = slot'[id]]

PutsRow(id) ==
  row'[id] \in RowRecord /\ row' = [row EXCEPT ![id] = row'[id]]

PutsGroup(id) ==
  group'[id] \in SUBSET Process /\ group' = [group EXCEPT ![id] = group'[id]]

PutsWorker(id) ==
  worker'[id] \in WorkerRecord /\ worker' = [worker EXCEPT ![id] = worker'[id]]

\* A record left alone is one of that run only.
LEMMA Keeps ==
  ASSUME SupInv, NEW id \in RunId
  PROVE  /\ UNCHANGED slot => PutsSlot(id)
         /\ UNCHANGED row => PutsRow(id)
         /\ UNCHANGED group => PutsGroup(id)
         /\ UNCHANGED worker => PutsWorker(id)
BY TypeMeans DEF SupInv, PutsSlot, PutsRow, PutsGroup, PutsWorker

\* A slot enters its next state with the next revision.
LEMMA Enters ==
  ASSUME SupInv, NEW id \in RunId, NEW state \in SlotStates, Enter(id, state)
  PROVE  /\ PutsSlot(id)
         /\ slot'[id].state = state
         /\ slot'[id].revision = slot[id].revision + 1
<1> DEFINE s == [state |-> state, revision |-> slot[id].revision + 1,
                 cancel |-> slot[id].cancel]
<1>0. slot[id] \in SlotRecord /\ slot \in [RunId -> SlotRecord]
  BY TypeMeans DEF SupInv
<1>1. s \in SlotRecord /\ s.state = state /\ s.revision = slot[id].revision + 1
  BY <1>0 DEF SlotRecord
<1>2. slot' = [slot EXCEPT ![id] = s]
  BY <1>0 DEF Enter, SlotRecord
<1> HIDE DEF s
<1> QED BY <1>0, <1>1, <1>2 DEF PutsSlot

\* A worker that decides the result notes it with its own record and goes on.
LEMMA Decides ==
  ASSUME SupInv, NEW id \in RunId, NEW at \in WorkerPlaces, NEW outcome \in Outcome,
         NEW cleanup \in {"complete", "incomplete", "unknown"},
         Decide(id, at, outcome, cleanup)
  PROVE  /\ PutsWorker(id)
         /\ worker'[id].at = at
         /\ worker'[id].revision = worker[id].revision
         /\ worker'[id].result.outcome = outcome
         /\ worker'[id].result.cleanup = cleanup
         /\ worker'[id].result \in Result
<1> DEFINE told == [outcome |-> outcome, cleanup |-> cleanup]
           w == [worker[id] EXCEPT !.at = at, !.result = told]
<1>0. worker[id] \in WorkerRecord /\ worker \in [RunId -> WorkerRecord]
  BY TypeMeans DEF SupInv
<1>1. told \in Result /\ told.outcome = outcome /\ told.cleanup = cleanup
  BY DEF Result
<1>2. worker' = [worker EXCEPT ![id] = w]
  BY DEF Decide
<1> HIDE DEF told
<1>3. /\ w \in WorkerRecord
      /\ w.at = at /\ w.revision = worker[id].revision /\ w.result = told
  BY <1>0, <1>1 DEF WorkerRecord
<1> HIDE DEF w
<1>4. PutsWorker(id) /\ worker'[id] = w
  BY <1>0, <1>2, <1>3 DEF PutsWorker
<1> QED BY <1>1, <1>3, <1>4

\* A worker that moves on changes its own record and nothing else of it.
LEMMA Gos ==
  ASSUME SupInv, NEW id \in RunId, NEW at \in WorkerPlaces
  PROVE  /\ Go(id, at) =>
              /\ PutsWorker(id)
              /\ worker'[id].at = at
              /\ worker'[id].revision = worker[id].revision
              /\ worker'[id].result = worker[id].result
         /\ \A revision \in Nat : GoWith(id, at, revision) =>
              /\ PutsWorker(id)
              /\ worker'[id].at = at
              /\ worker'[id].revision = revision
              /\ worker'[id].result = worker[id].result
         /\ Leave(id) =>
              /\ PutsWorker(id)
              /\ worker'[id].at = "done"
<1>0. worker[id] \in WorkerRecord /\ worker \in [RunId -> WorkerRecord]
  BY TypeMeans DEF SupInv
<1>1. ASSUME NEW w, worker' = [worker EXCEPT ![id] = w]
      PROVE  /\ worker'[id] = w
             /\ w \in WorkerRecord => PutsWorker(id)
  BY <1>0, <1>1 DEF PutsWorker
<1>2. ASSUME Go(id, at)
      PROVE  /\ PutsWorker(id)
             /\ worker'[id].at = at
             /\ worker'[id].revision = worker[id].revision
             /\ worker'[id].result = worker[id].result
  <2> DEFINE w == [worker[id] EXCEPT !.at = at]
  <2>1. /\ w \in WorkerRecord
        /\ w.at = at /\ w.revision = worker[id].revision /\ w.result = worker[id].result
    BY <1>0 DEF WorkerRecord
  <2>2. worker' = [worker EXCEPT ![id] = w]
    BY <1>2 DEF Go
  <2> HIDE DEF w
  <2> QED BY <1>1, <2>1, <2>2
<1>3. ASSUME NEW revision \in Nat, GoWith(id, at, revision)
      PROVE  /\ PutsWorker(id)
             /\ worker'[id].at = at
             /\ worker'[id].revision = revision
             /\ worker'[id].result = worker[id].result
  <2> DEFINE w == [worker[id] EXCEPT !.at = at, !.revision = revision]
  <2>1. /\ w \in WorkerRecord
        /\ w.at = at /\ w.revision = revision /\ w.result = worker[id].result
    BY <1>0 DEF WorkerRecord
  <2>2. worker' = [worker EXCEPT ![id] = w]
    BY <1>3 DEF GoWith
  <2> HIDE DEF w
  <2> QED BY <1>1, <2>1, <2>2
<1>4. ASSUME Leave(id)
      PROVE  PutsWorker(id) /\ worker'[id].at = "done"
  <2> DEFINE w == [NoWorker EXCEPT !.at = "done"]
  <2>1. w \in WorkerRecord /\ w.at = "done"
    BY DEF WorkerRecord, WorkerPlaces, NoWorker
  <2>2. worker' = [worker EXCEPT ![id] = w]
    BY <1>4 DEF Leave
  <2> HIDE DEF w
  <2> QED BY <1>1, <2>1, <2>2
<1> QED BY <1>2, <1>3, <1>4

\* A record of the table that keeps its place among the values it may have.
LEMMA RowPuts ==
  ASSUME SupInv, NEW id \in RunId, NEW r \in RowRecord, row' = [row EXCEPT ![id] = r]
  PROVE  PutsRow(id) /\ row'[id] = r
BY TypeMeans DEF SupInv, PutsRow

\* A save with a revision: written when it is newer than the row, dropped when
\* not.
LEMMA Advances ==
  ASSUME SupInv, NEW id \in RunId, NEW state \in SlotStates, row' = Advanced(id, state)
  PROVE  /\ PutsRow(id)
         /\ \/ UNCHANGED row
            \/ row'[id].state = state /\ row'[id].revision = worker[id].revision
         /\ row[id].revision < worker[id].revision => row'[id].state = state
         /\ row'[id].result = row[id].result
<1> DEFINE r == [row[id] EXCEPT !.state = state, !.revision = worker[id].revision]
<1>0. row[id] \in RowRecord /\ worker[id].revision \in Nat
  BY TypeMeans DEF SupInv, WorkerRecord
<1>1. /\ r \in RowRecord
      /\ r.state = state /\ r.revision = worker[id].revision
      /\ r.result = row[id].result
  BY <1>0 DEF RowRecord
<1>2. \/ row[id].revision < worker[id].revision /\ row' = [row EXCEPT ![id] = r]
      \/ ~ (row[id].revision < worker[id].revision) /\ UNCHANGED row
  BY DEF Advanced
<1> HIDE DEF r
<1> QED BY <1>1, <1>2, RowPuts, Keeps

\* The processes seen are added to the row, which stays in its state.
LEMMA Records ==
  ASSUME SupInv, NEW id \in RunId, NEW seen \in SUBSET Process,
         row' = [row EXCEPT ![id].recorded = @ \cup seen]
  PROVE  /\ PutsRow(id)
         /\ row'[id].state = row[id].state
         /\ row'[id].revision = row[id].revision
         /\ row'[id].result = row[id].result
<1> DEFINE r == [row[id] EXCEPT !.recorded = @ \cup seen]
<1>0. row[id] \in RowRecord
  BY TypeMeans DEF SupInv
<1>1. /\ r \in RowRecord
      /\ r.state = row[id].state /\ r.revision = row[id].revision
      /\ r.result = row[id].result
  BY <1>0 DEF RowRecord
<1>2. row' = [row EXCEPT ![id] = r]
  OBVIOUS
<1> HIDE DEF r
<1> QED BY <1>1, <1>2, RowPuts

\* A call of `finish` for run `id` begins.
Joins(id, e) ==
  /\ e \in FinishRecord
  /\ e.id = id /\ e.at = "store" /\ e.next = {}
  /\ finishing' = finishing \cup {e}

\* A call of `finish` goes on to its next step.
Moves(f, g) ==
  /\ g \in FinishRecord
  /\ g.id = f.id /\ g.by = f.by /\ g.revision = f.revision /\ g.result = f.result
  /\ finishing' = (finishing \ {f}) \cup {g}

\* The first `finish` of a run begins a call and enters the slot.
LEMMA FinishJoins ==
  ASSUME SupInv, NEW id \in RunId, NEW by \in RunId \cup Canceller \cup {"tick"},
         NEW outcome \in Outcome,
         NEW cleanup \in {"complete", "incomplete", "unknown"},
         Finish(id, by, outcome, cleanup), ~Finished(id)
  PROVE  /\ \E e : /\ Joins(id, e)
                   /\ e.result = [outcome |-> outcome, cleanup |-> cleanup]
         /\ PutsSlot(id)
<1> DEFINE e == Ending(id, by, slot[id].revision + 1, outcome, cleanup)
<1>0. slot[id] \in SlotRecord
  BY TypeMeans DEF SupInv
<1>1. e \in FinishRecord
  BY <1>0 DEF FinishRecord, Ending, Result, SlotRecord
<1>2. /\ e.id = id /\ e.at = "store" /\ e.next = {}
      /\ e.result = [outcome |-> outcome, cleanup |-> cleanup]
  BY DEF Ending
<1>3. finishing' = finishing \cup {e} /\ Enter(id, "finished")
  BY DEF Finish
<1> HIDE DEF e
<1>4. PutsSlot(id)
  BY <1>3, Enters DEF SlotStates
<1> QED BY <1>1, <1>2, <1>3, <1>4 DEF Joins

\* The store, then the registry, then the scheduler, then what it admitted.
LEMMA FinishMoves ==
  ASSUME SupInv, NEW f \in finishing
  PROVE  /\ FinishStore(f) =>
              \E g : Moves(f, g) /\ g.at = "registry" /\ g.next = f.next
         /\ FinishRegistry(f) =>
              \E g : Moves(f, g) /\ g.at = "release" /\ g.next = f.next
         /\ FinishRelease(f) /\ Newly \in SUBSET RunId =>
              \E g : Moves(f, g) /\ g.at = "spawn" /\ g.next = Newly
         /\ \A id : Moved(f, [f EXCEPT !.next = @ \ {id}]) =>
              \E g : Moves(f, g) /\ g.at = f.at /\ g.next = f.next \ {id}
<1>0. f \in FinishRecord
  BY TypeMeans DEF SupInv
<1>1. ASSUME FinishStore(f)
      PROVE  \E g : Moves(f, g) /\ g.at = "registry" /\ g.next = f.next
  <2> DEFINE g == [f EXCEPT !.at = "registry"]
  <2>1. /\ g \in FinishRecord
        /\ g.id = f.id /\ g.by = f.by /\ g.revision = f.revision
        /\ g.result = f.result /\ g.at = "registry" /\ g.next = f.next
    BY <1>0 DEF FinishRecord
  <2>2. Moved(f, g)
    BY <1>1 DEF FinishStore
  <2> HIDE DEF g
  <2> QED BY <2>1, <2>2 DEF Moves, Moved
<1>2. ASSUME FinishRegistry(f)
      PROVE  \E g : Moves(f, g) /\ g.at = "release" /\ g.next = f.next
  <2> DEFINE g == [f EXCEPT !.at = "release"]
  <2>1. /\ g \in FinishRecord
        /\ g.id = f.id /\ g.by = f.by /\ g.revision = f.revision
        /\ g.result = f.result /\ g.at = "release" /\ g.next = f.next
    BY <1>0 DEF FinishRecord
  <2>2. Moved(f, g)
    BY <1>2 DEF FinishRegistry
  <2> HIDE DEF g
  <2> QED BY <2>1, <2>2 DEF Moves, Moved
<1>3. ASSUME FinishRelease(f), Newly \in SUBSET RunId
      PROVE  \E g : Moves(f, g) /\ g.at = "spawn" /\ g.next = Newly
  <2> DEFINE g == [f EXCEPT !.at = "spawn", !.next = Newly]
  <2>1. /\ g \in FinishRecord
        /\ g.id = f.id /\ g.by = f.by /\ g.revision = f.revision
        /\ g.result = f.result /\ g.at = "spawn" /\ g.next = Newly
    BY <1>0, <1>3 DEF FinishRecord
  <2>2. Moved(f, g)
    BY <1>3 DEF FinishRelease
  <2> HIDE DEF g
  <2> QED BY <2>1, <2>2 DEF Moves, Moved
<1>4. ASSUME NEW id, Moved(f, [f EXCEPT !.next = @ \ {id}])
      PROVE  \E g : Moves(f, g) /\ g.at = f.at /\ g.next = f.next \ {id}
  <2> DEFINE g == [f EXCEPT !.next = @ \ {id}]
  <2>1. /\ g \in FinishRecord
        /\ g.id = f.id /\ g.by = f.by /\ g.revision = f.revision
        /\ g.result = f.result /\ g.at = f.at /\ g.next = f.next \ {id}
    BY <1>0 DEF FinishRecord
  <2>2. Moved(f, g)
    BY <1>4
  <2> HIDE DEF g
  <2> QED BY <2>1, <2>2 DEF Moves, Moved
<1> QED BY <1>1, <1>2, <1>3, <1>4

(***************************************************************************)
(* A canceller goes where it has taken no run from the queue, about a run  *)
(* of the store; only CancelDequeue goes on with one.                      *)
(***************************************************************************)
Goes(c, r) ==
  /\ r \in CancelRecord
  /\ r.at # "dequeued"
  /\ r.at # "idle" => r.id \in RunId
  /\ canceller' = [canceller EXCEPT ![c] = r]

Asks(c) ==
  \/ c \in Client /\ \E id \in RunId : CancelRequest(c, id)
  \/ CancelLoad(c) \/ CancelLook(c) \/ CancelFinish(c) \/ CancelFlag(c)
  \/ c = "shutdown" /\ CancelNext

LEMMA CancelGoes ==
  ASSUME SupInv, NEW c \in Canceller, Asks(c)
  PROVE  \E r : Goes(c, r)
<1>0. /\ canceller \in [Canceller -> CancelRecord]
      /\ canceller[c] \in CancelRecord
      /\ canceller[c].at # "idle" => canceller[c].id \in RunId
      /\ row \in [RunId -> RowRecord]
  BY TypeMeans DEF SupInv, OneEach
<1>1. CASE CancelDone(c)
  <2> DEFINE r == [NotCancelling EXCEPT !.todo = canceller[c].todo]
  <2>1. r \in CancelRecord /\ r.at = "idle"
    BY <1>0 DEF CancelRecord, NotCancelling
  <2> HIDE DEF r
  <2> QED BY <1>1, <2>1 DEF CancelDone, Goes, r
<1>2. ASSUME NEW at \in {"dequeue", "flag"}, CancelGo(c, at), canceller[c].at # "idle"
      PROVE  \E r : Goes(c, r)
  <2> DEFINE r == [canceller[c] EXCEPT !.at = at]
  <2>1. r \in CancelRecord /\ r.at = at /\ r.id = canceller[c].id
    BY <1>0 DEF CancelRecord
  <2> HIDE DEF r
  <2> QED BY <1>0, <1>2, <2>1 DEF CancelGo, Goes, r
<1>3. ASSUME NEW id \in RunId, CancelRequest(c, id)
      PROVE  \E r : Goes(c, r)
  <2> DEFINE r == [canceller[c] EXCEPT
                     !.id = id, !.at = IF id \in registry THEN "look" ELSE "load"]
  <2>1. r \in CancelRecord /\ r.at \in {"look", "load"} /\ r.id = id
    BY <1>0 DEF CancelRecord
  <2>2. canceller' = [canceller EXCEPT ![c] = r]
    BY <1>3 DEF CancelRequest
  <2> HIDE DEF r
  <2> QED BY <2>1, <2>2 DEF Goes
<1>4. CASE CancelLoad(c)
  <2> DEFINE found == row[canceller[c].id]
             r == [canceller[c] EXCEPT
                     !.live = FALSE, !.revision = found.revision,
                     !.at = IF found.state = "queued" THEN "dequeue" ELSE "flag"]
  <2>1. canceller[c].id \in RunId
    BY <1>0, <1>4 DEF CancelLoad, Here
  <2>2. r \in CancelRecord /\ r.at \in {"dequeue", "flag"} /\ r.id = canceller[c].id
    BY <1>0, <2>1 DEF CancelRecord, RowRecord
  <2>3. CancelDone(c) \/ canceller' = [canceller EXCEPT ![c] = r]
    BY <1>4 DEF CancelLoad
  <2> HIDE DEF r
  <2> QED BY <1>1, <2>1, <2>2, <2>3 DEF Goes
<1>5. CASE CancelLook(c)
  <2>1. canceller[c].at # "idle"
    BY <1>5 DEF CancelLook, Here
  <2>2. CancelDone(c) \/ CancelGo(c, "dequeue") \/ CancelGo(c, "flag")
    BY <1>5 DEF CancelLook
  <2> QED BY <1>1, <1>2, <2>1, <2>2
<1>6. CASE CancelFinish(c) \/ CancelFlag(c)
  BY <1>1, <1>6 DEF CancelFinish, CancelFlag
<1>7. CASE c = "shutdown" /\ CancelNext
  <2>0. PICK id \in canceller["shutdown"].todo :
          canceller' = [canceller EXCEPT !["shutdown"].at = "look", !["shutdown"].id = id,
                                         !["shutdown"].todo = @ \ {id}]
    BY <1>7 DEF CancelNext
  <2>1. id \in canceller[c].todo
        /\ canceller' = [canceller EXCEPT ![c] =
             [canceller[c] EXCEPT !.at = "look", !.id = id, !.todo = @ \ {id}]]
    BY <1>7, <2>0
  <2> DEFINE r == [canceller[c] EXCEPT !.at = "look", !.id = id, !.todo = @ \ {id}]
  <2>2. r \in CancelRecord /\ r.at = "look" /\ r.id = id /\ id \in RunId
    BY <1>0, <2>1 DEF CancelRecord
  <2> HIDE DEF r
  <2> QED BY <2>1, <2>2 DEF Goes, r
<1> QED BY <1>3, <1>4, <1>5, <1>6, <1>7 DEF Asks

(***************************************************************************)
(* A step of a worker: it has a slot, nobody else has the run in hand, and *)
(* what it changes is its own run's.                                       *)
(***************************************************************************)
Own(id) == PutsSlot(id) /\ PutsRow(id) /\ PutsGroup(id) /\ PutsWorker(id)

LEMMA WorkerOwns ==
  ASSUME SupInv, NEW id \in RunId, WorkerStep(id)
  PROVE  /\ Working(id)
         /\ Own(id)
         /\ UNCHANGED <<schedVars, mode, stops, registry, starter, canceller, expired>>
         /\ \/ UNCHANGED finishing
            \/ /\ \E e : Joins(id, e) /\ e.result = worker[id].result
               /\ worker[id].at = "finish"
               /\ worker'[id].at = "done"
<1> USE DEF Own
<1>0. /\ Told(id)
      /\ worker[id] \in WorkerRecord
      /\ slot[id].revision + 1 \in Nat
      /\ UNCHANGED slot => PutsSlot(id)
      /\ UNCHANGED row => PutsRow(id)
      /\ UNCHANGED group => PutsGroup(id)
      /\ UNCHANGED worker => PutsWorker(id)
  BY Keeps, TypeMeans DEF SupInv, SlotRecord
<1>1. /\ \A at \in WorkerPlaces : Go(id, at) => PutsWorker(id)
      /\ \A at \in WorkerPlaces, revision \in Nat :
            GoWith(id, at, revision) => PutsWorker(id)
      /\ \A at \in WorkerPlaces, outcome \in Outcome,
            cleanup \in {"complete", "incomplete", "unknown"} :
            Decide(id, at, outcome, cleanup) => PutsWorker(id)
      /\ Leave(id) => PutsWorker(id) /\ worker'[id].at = "done"
  <2>1. "done" \in WorkerPlaces
    BY DEF WorkerPlaces
  <2> QED BY <2>1, Gos, Decides
<1>2. \A state \in SlotStates : Enter(id, state) => PutsSlot(id)
  BY Enters
<1>3. \A state \in SlotStates : row' = Advanced(id, state) => PutsRow(id)
  BY Advances
<1>4. ASSUME NEW at \in WorkerPlaces, NEW state \in SlotStates,
             NEW saving \in WorkerPlaces, NEW refused \in WorkerPlaces,
             Transition(id, at, state, saving, refused)
      PROVE  PutsSlot(id) /\ PutsWorker(id)
  BY <1>0, <1>1, <1>2, <1>4 DEF Transition
<1>5. CASE EnterStarting(id) \/ EnterRunning(id) \/ EnterStopping(id)
  <2>b. ASSUME EnterStarting(id) PROVE PutsSlot(id) /\ PutsWorker(id)
    <3>1. Transition(id, "starting", "starting", "save_starting", "done")
      BY <2>b DEF EnterStarting
    <3>2. /\ "starting" \in WorkerPlaces /\ "starting" \in SlotStates
          /\ "save_starting" \in WorkerPlaces /\ "done" \in WorkerPlaces
      BY DEF WorkerPlaces, SlotStates
    <3> QED BY <1>4, <3>1, <3>2
  <2>c. ASSUME EnterRunning(id) PROVE PutsSlot(id) /\ PutsWorker(id)
    <3>1. Transition(id, "running", "running", "save_running", "watch")
      BY <2>c DEF EnterRunning
    <3>2. /\ "running" \in WorkerPlaces /\ "running" \in SlotStates
          /\ "save_running" \in WorkerPlaces /\ "watch" \in WorkerPlaces
      BY DEF WorkerPlaces, SlotStates
    <3> QED BY <1>4, <3>1, <3>2
  <2>d. ASSUME EnterStopping(id) PROVE PutsSlot(id) /\ PutsWorker(id)
    <3>1. Transition(id, "stopping", "stopping", "save_stopping", "signal")
      BY <2>d DEF EnterStopping
    <3>2. /\ "stopping" \in WorkerPlaces /\ "stopping" \in SlotStates
          /\ "save_stopping" \in WorkerPlaces /\ "signal" \in WorkerPlaces
      BY DEF WorkerPlaces, SlotStates
    <3> QED BY <1>4, <3>1, <3>2
  <2>1. PutsSlot(id) /\ PutsWorker(id)
    BY <1>5, <2>b, <2>c, <2>d
  <2> QED BY <1>0, <1>5, <2>1
            DEF EnterStarting, EnterRunning, EnterStopping, Transition, Working
<1>6. CASE SaveStarting(id)
  <2>1. PutsRow(id) /\ PutsWorker(id)
    BY <1>0, <1>1, <1>3, <1>6 DEF SaveStarting, WorkerPlaces, SlotStates
  <2> QED BY <1>0, <1>6, <2>1 DEF SaveStarting, Working
<1>7. CASE SaveRunning(id) \/ SaveStopping(id)
  <2>1. PutsRow(id) /\ PutsWorker(id)
    BY <1>0, <1>1, <1>3, <1>7 DEF SaveRunning, SaveStopping, Save, WorkerPlaces, SlotStates
  <2> QED BY <1>0, <1>7, <2>1 DEF SaveRunning, SaveStopping, Save, Working
<1>8. CASE Launch(id)
  <2>1. PutsWorker(id)
    BY <1>1, <1>8 DEF Launch, WorkerPlaces, Outcome
  <2>2. PutsGroup(id)
    BY <1>0, <1>8, TypeMeans DEF Launch, PutsGroup, Process, SupInv
  <2> QED BY <1>0, <1>8, <2>1, <2>2 DEF Launch, Working
<1>9. CASE Record(id)
  <2>1. PutsWorker(id)
    BY <1>1, <1>9 DEF Record, WorkerPlaces
  <2>2. PICK processes, leader \in BOOLEAN :
          row' = [row EXCEPT
            ![id].recorded = IF processes THEN @ \cup {"leader"} ELSE @,
            ![id].leader   = IF leader THEN "this_boot" ELSE @]
    BY <1>9 DEF Record
  <2> DEFINE r == [row[id] EXCEPT
                     !.recorded = IF processes THEN @ \cup {"leader"} ELSE @,
                     !.leader   = IF leader THEN "this_boot" ELSE @]
  <2>a. row[id] \in RowRecord
    BY TypeMeans DEF SupInv
  <2>b. "leader" \in Process
    BY DEF Process
  <2>3. r \in RowRecord
    BY <2>a, <2>b DEF RowRecord
  <2>4. row' = [row EXCEPT ![id] = r]
    BY <2>2
  <2> HIDE DEF r
  <2>5. PutsRow(id)
    BY <2>3, <2>4, RowPuts
  <2> QED BY <1>0, <1>9, <2>1, <2>5 DEF Record, Working
<1>10. CASE Watch(id)
  <2>1. PutsWorker(id)
    BY <1>1, <1>10 DEF Watch, WorkerPlaces, Outcome
  <2> QED BY <1>0, <1>10, <2>1 DEF Watch, Working
<1>11. CASE StopGroup(id)
  <2>1. group[id] \in SUBSET Process /\ group \in [RunId -> SUBSET Process]
    BY TypeMeans DEF SupInv
  <2>2. worker[id].result.outcome \in Outcome
    BY <1>0, <1>11 DEF StopGroup, Told, Result
  <2>3. PutsWorker(id)
    BY <1>1, <1>11, <2>2 DEF StopGroup, Cleaned, WorkerPlaces
  <2>4. PutsRow(id)
    BY <1>11, <2>1, Records DEF StopGroup
  <2>5. PutsGroup(id)
    BY <1>0, <1>11, <2>1 DEF StopGroup, PutsGroup
  <2> QED BY <1>0, <1>11, <2>3, <2>4, <2>5 DEF StopGroup, Working
<1>12. CASE Reap(id)
  <2>1. PutsWorker(id)
    BY <1>1, <1>12 DEF Reap, WorkerPlaces
  <2> QED BY <1>0, <1>12, <2>1 DEF Reap, Working
<1>13. CASE WorkerFinish(id)
  <2>1. /\ worker[id].result \in Result
        /\ worker[id].at = "finish"
        /\ ~Finished(id)
    BY <1>0, <1>13 DEF WorkerFinish, Told, Working
  <2>2. /\ worker[id].result.outcome \in Outcome
        /\ worker[id].result.cleanup \in {"complete", "incomplete", "unknown"}
        /\ worker[id].result = [outcome |-> worker[id].result.outcome,
                                cleanup |-> worker[id].result.cleanup]
    BY <2>1 DEF Result
  <2>3. Finish(id, id, worker[id].result.outcome, worker[id].result.cleanup)
    BY <1>13 DEF WorkerFinish
  <2> DEFINE outcome == worker[id].result.outcome
             cleanup == worker[id].result.cleanup
  <2>4. /\ \E e : Joins(id, e) /\ e.result = [outcome |-> outcome, cleanup |-> cleanup]
        /\ PutsSlot(id)
    <3>1. outcome \in Outcome /\ cleanup \in {"complete", "incomplete", "unknown"}
      BY <2>2
    <3>2. Finish(id, id, outcome, cleanup) /\ ~Finished(id)
      BY <2>1, <2>3
    <3> HIDE DEF outcome, cleanup
    <3> QED BY <3>1, <3>2, FinishJoins
  <2>5. PutsWorker(id) /\ worker'[id].at = "done"
    BY <1>1, <1>13 DEF WorkerFinish
  <2>6. \E e : Joins(id, e) /\ e.result = worker[id].result
    BY <2>2, <2>4
  <2> QED BY <1>0, <1>13, <2>1, <2>4, <2>5, <2>6 DEF WorkerFinish, Working
<1> QED BY <1>5, <1>6, <1>7, <1>8, <1>9, <1>10, <1>11, <1>12, <1>13 DEF WorkerStep

-----------------------------------------------------------------------------
(* One place for every run, one thread for every run.                      *)

\* The step of a supervisor that stays up is a step of its scheduler.
LEMMA SchedulerSteps ==
  ASSUME SupInv, SupNext
  PROVE  [Next]_schedVars \/ Stop
<1>1. ASSUME NEW id \in RunId, Admit(id) PROVE Next
  BY <1>1 DEF Admit, Next
<1>2. ASSUME NEW f \in finishing, FinishRelease(f) PROVE Next
  <2>1. f.id \in RunId /\ Holds(f) \in BOOLEAN
    BY TypeMeans DEF SupInv, FinishRecord, Holds
  <2> QED BY <1>2, <2>1 DEF FinishRelease, Next
<1>3. ASSUME NEW c \in Canceller, CancelDequeue(c) PROVE Next
  <2>1. canceller[c].id \in RunId
    BY <1>3 DEF SupInv, OneEach, CancelDequeue, Here
  <2> QED BY <1>3, <2>1 DEF CancelDequeue, Next
<1>4. CASE QueueTick \/ SupSetLimits \/ Clock
  BY <1>4 DEF QueueTick, SupSetLimits, Clock, Next
<1>5. CASE Crash \/ LeaveIdle \/ LeaveDrained \/ LeaveAnyway
  BY <1>5 DEF Crash, LeaveIdle, LeaveDrained, LeaveAnyway
<1>6. CASE UNCHANGED schedVars
  BY <1>6
<1>7. ASSUME NEW id \in RunId, WorkerStep(id) PROVE UNCHANGED schedVars
  BY <1>7, WorkerOwns
<1>8. ASSUME NEW id \in RunId,
             \/ Insert(id) \/ Register(id) \/ CreatedFails(id) \/ StartAdmitted(id)
             \/ Reject(id) \/ Sample(id) \/ Fork(id) \/ Exit(id)
             \/ FinishExpired(id) \/ Recover(id)
      PROVE  UNCHANGED schedVars
  BY <1>8 DEF Insert, Register, CreatedFails, StartAdmitted, Reject, Sample, Fork,
              Exit, FinishExpired, Recover
<1>9. ASSUME NEW f \in finishing,
             FinishStore(f) \/ FinishRegistry(f) \/ FinishSpawn(f)
      PROVE  UNCHANGED schedVars
  BY <1>9 DEF FinishStore, FinishRegistry, FinishSpawn
<1>10. ASSUME NEW c \in Canceller, Asks(c)
       PROVE  UNCHANGED schedVars
  BY <1>10 DEF Asks, CancelRequest, CancelLoad, CancelLook, CancelFinish,
               CancelFlag, CancelNext
<1>11. CASE Drain \/ Reboot \/ Restart \/ RecoverFails \/ Serve
  BY <1>11 DEF Drain, Reboot, Restart, RecoverFails, Serve
<1> QED
  BY <1>1, <1>2, <1>3, <1>4, <1>5, <1>7, <1>8, <1>9, <1>10, <1>11
  DEF SupNext, StarterStep, FinishStep, CancelStep, Asks, Canceller

\* A scheduler that starts anew.
LEMMA StopEmpties ==
  ASSUME SupInv, Stop
  PROVE  /\ TypeOK' /\ OnePlace'
         /\ InSlot(sched') = {} /\ InQueue(sched') = {} /\ sched'.queue = << >>
<1>1. PICK l \in LimitChoices :
        sched' = [limits |-> l, running |-> {}, queue |-> << >>, held |-> {}]
  BY DEF Stop
<1>2. mono' = 0 /\ now' = 0
  BY DEF Stop
<1>3. TypeOK'
  BY <1>1, <1>2, SchedulerAssumption DEF TypeOK
<1>4. InSlot(sched') = {} /\ InQueue(sched') = {}
  BY <1>1 DEF InSlot, InQueue, Ids, Waiting
<1>5. OnePlace'
  BY <1>1 DEF OnePlace, Separate, Ids, Waiting
<1> QED BY <1>1, <1>3, <1>4, <1>5

\* So what the scheduler keeps by itself, it keeps in the supervisor.
LEMMA SchedulerKeeps ==
  ASSUME SupInv, SupNext
  PROVE  TypeOK' /\ OnePlace'
<1>1. TypeOK /\ OnePlace
  BY TypeMeans DEF SupInv
<1> QED BY <1>1, SchedulerSteps, StopEmpties, TypeStep, OnePlaceStep

(***************************************************************************)
(* Handing a run over leaves it in one hand: whichever thread takes a run  *)
(* from another one does it in the same critical section in which the      *)
(* other one lets go.                                                      *)
(***************************************************************************)
LEMMA SoleStep ==
  ASSUME SupInv, SupNext
  PROVE  \A id \in RunId : Sole(id)'
<1> USE DEF Runs, Waits, Picked, Ended, Taken, Working, schedVars
<1>0. /\ TypeOK /\ OnePlace /\ OneEach
      /\ \A id \in RunId : Sole(id)
      /\ starter \in [RunId -> {"idle", "inserted", "registered", "admitted",
                                "rejected", "done"}]
      /\ worker \in [RunId -> WorkerRecord]
      /\ finishing \subseteq FinishRecord
      /\ canceller \in [Canceller -> CancelRecord]
      /\ expired \subseteq RunId
  BY TypeMeans DEF SupInv
<1>1. ASSUME NEW id \in RunId, Insert(id) \/ Register(id) \/ CreatedFails(id)
      PROVE  \A j \in RunId : Sole(j)'
  BY <1>0, <1>1 DEF Insert, Register, CreatedFails, At, Sole
<1>2. ASSUME NEW id \in RunId, Admit(id)
      PROVE  \A j \in RunId : Sole(j)'
  <2>1. /\ id \notin InSlot(sched) \cup InQueue(sched)
        /\ \/ InSlot(sched') = InSlot(sched) /\ InQueue(sched') = InQueue(sched)
           \/ /\ InSlot(sched') = InSlot(sched) \cup {id}
              /\ InQueue(sched') = InQueue(sched)
           \/ /\ InSlot(sched') = InSlot(sched)
              /\ InQueue(sched') = InQueue(sched) \cup {id}
    BY <1>0, <1>2, SubmitIds DEF Admit
  <2>2. /\ starter[id] = "registered"
        /\ starter' = [starter EXCEPT ![id] = CASE id \in InSlot(sched')  -> "admitted"
                                                [] id \in InQueue(sched') -> "done"
                                                [] OTHER                  -> "rejected"]
        /\ UNCHANGED <<worker, finishing, canceller, expired>>
    BY <1>2 DEF Admit, InSlot, InQueue
  <2> QED BY <1>0, <2>1, <2>2 DEF Sole
<1>3. ASSUME NEW id \in RunId, StartAdmitted(id)
      PROVE  \A j \in RunId : Sole(j)'
  BY <1>0, <1>3 DEF StartAdmitted, At, SpawnWorker, Go, WorkerRecord, Sole
<1>4. ASSUME NEW id \in RunId, Reject(id)
      PROVE  \A j \in RunId : Sole(j)'
  BY <1>0, <1>4 DEF Reject, At, Finish, Ending, Sole
<1>5. ASSUME NEW id \in RunId, WorkerStep(id)
      PROVE  \A j \in RunId : Sole(j)'
  BY <1>0, <1>5, WorkerOwns DEF Own, PutsWorker, Joins, Sole
<1>6. ASSUME NEW id \in RunId, FinishExpired(id)
      PROVE  \A j \in RunId : Sole(j)'
  BY <1>0, <1>6 DEF FinishExpired, Finish, Ending, Sole
<1>7. ASSUME NEW f \in finishing, FinishStore(f) \/ FinishRegistry(f)
      PROVE  \A j \in RunId : Sole(j)'
  <2>1. PICK g : Moves(f, g) /\ g.next = f.next
    BY <1>7, FinishMoves
  <2> QED BY <1>0, <1>7, <2>1 DEF FinishStore, FinishRegistry, Moves, Sole
<1>8. ASSUME NEW f \in finishing, FinishRelease(f)
      PROVE  \A j \in RunId : Sole(j)'
  <2>1. f.id \in RunId /\ Holds(f) \in BOOLEAN /\ Release(f.id, Holds(f))
    BY <1>0, <1>8 DEF FinishRecord, Holds, FinishRelease
  <2>2. /\ f.id \notin InSlot(sched) => sched' = sched
        /\ InSlot(sched) \ {f.id} \subseteq InSlot(sched')
        /\ f.id \in InSlot(sched) => f.id \notin InSlot(sched') \cup InQueue(sched')
        /\ InSlot(sched') \cup InQueue(sched')
             = (InSlot(sched) \ {f.id}) \cup InQueue(sched)
    BY <1>0, <2>1, ReleaseIds
  <2>3. OnePlace'
    BY SchedulerKeeps
  <2>4. InSlot(sched') \cap InQueue(sched') = {}
    BY <2>3 DEF OnePlace, Separate, InSlot, InQueue, Ids
  <2>5. Newly = InSlot(sched') \ InSlot(sched)
    BY DEF Newly, InSlot
  <2>6. Newly \in SUBSET RunId
    <3>1. sched'.running \in SUBSET Running
      BY SchedulerKeeps DEF TypeOK
    <3> QED BY <3>1 DEF Newly, Ids, Running
  <2>7. PICK g : Moves(f, g) /\ g.next = Newly
    BY <1>8, <2>6, FinishMoves
  <2>8. UNCHANGED <<starter, worker, canceller, expired>> /\ f.next = {}
    BY <1>0, <1>8 DEF FinishRelease, OneEach
  <2>9. \A j : Picked(j)' <=> Picked(j) \/ j \in Newly
    BY <2>7, <2>8 DEF Moves
  <2>10. \A j : Ended(j)' <=> Ended(j)
    BY <2>7 DEF Moves
  <2>11. \A j : /\ Waits(j)' => Waits(j)
                /\ Waits(j) => Waits(j)' \/ j \in Newly
                /\ Runs(j)' <=> (Runs(j) /\ j # f.id) \/ j \in Newly
                /\ j \in Newly => Waits(j) /\ ~Waits(j)'
    <3>1. InSlot(sched) \cap InQueue(sched) = {}
      BY <1>0 DEF OnePlace, Separate, InSlot, InQueue, Ids
    <3> QED BY <2>2, <2>4, <2>5, <3>1
  <2>12. \A j : ~ (Ended(j) /\ Waits(j) /\ j \in RunId) /\ Ended(f.id)
    BY <1>0 DEF Sole
  <2> HIDE DEF Runs, Waits, Picked, Ended
  <2> QED BY <1>0, <2>1, <2>8, <2>9, <2>10, <2>11, <2>12 DEF Sole
<1>9. ASSUME NEW f \in finishing, FinishSpawn(f)
      PROVE  \A j \in RunId : Sole(j)'
  BY <1>0, <1>9 DEF OneEach, FinishSpawn, Moved, SpawnWorker, Go, FinishRecord,
                    WorkerRecord, Sole
<1>10. ASSUME NEW c \in Canceller, Asks(c), ~CancelFinish(c)
       PROVE  \A j \in RunId : Sole(j)'
  <2>1. PICK r : Goes(c, r)
    BY <1>10, CancelGoes
  <2>2. UNCHANGED <<sched, starter, worker, finishing, expired>>
    BY <1>10 DEF Asks, CancelRequest, CancelLoad, CancelLook, CancelFlag, CancelNext
  <2> QED BY <1>0, <2>1, <2>2 DEF Goes, Sole
<1>11. ASSUME NEW c \in Canceller, CancelDequeue(c)
       PROVE  \A j \in RunId : Sole(j)'
  <2> DEFINE id == canceller[c].id
  <2>1. sched' = [sched EXCEPT !.queue = Without(@, {id})]
    BY <1>11 DEF CancelDequeue, CancelQueued
  <2>2. InSlot(sched') = InSlot(sched) /\ InQueue(sched') = InQueue(sched) \ {id}
    BY <1>0, <2>1, RemovalIds
  <2>3. /\ canceller' = [canceller EXCEPT ![c].at =
                           IF id \in InQueue(sched) THEN "dequeued" ELSE "flag"]
        /\ UNCHANGED <<starter, worker, finishing, expired>>
    BY <1>11 DEF CancelDequeue, CancelGo, InQueue
  <2>4. InSlot(sched) \cap InQueue(sched) = {}
    BY <1>0 DEF OnePlace, Separate, InSlot, InQueue, Ids
  <2>5. canceller[c].at # "dequeued"
    BY <1>11 DEF CancelDequeue, Here
  <2> QED BY <1>0, <2>2, <2>3, <2>4, <2>5 DEF CancelRecord, Sole
<1>12. ASSUME NEW c \in Canceller, CancelFinish(c)
       PROVE  \A j \in RunId : Sole(j)'
  BY <1>0, <1>12 DEF CancelFinish, Here, CancelDone, NotCancelling, Finish, Ending,
                     CancelRecord, OneEach, Sole
<1>13. CASE QueueTick
  <2> DEFINE late == Ids(Overdue(sched, now))
  <2>1. sched' = [sched EXCEPT !.queue = Without(@, late)]
    BY <1>13 DEF QueueTick, Expire
  <2>2. InSlot(sched') = InSlot(sched) /\ InQueue(sched') = InQueue(sched) \ late
    BY <1>0, <2>1, RemovalIds
  <2>3. late \subseteq InQueue(sched)
    BY DEF Overdue, InQueue, Ids
  <2>4. expired = {} /\ expired' = late /\ UNCHANGED <<starter, worker, finishing, canceller>>
    BY <1>13 DEF QueueTick
  <2> HIDE DEF late
  <2>5. InSlot(sched) \cap InQueue(sched) = {}
    BY <1>0 DEF OnePlace, Separate, InSlot, InQueue, Ids
  <2> QED BY <1>0, <2>2, <2>3, <2>4, <2>5 DEF Sole
<1>14. CASE SupSetLimits \/ Clock
  <2>1. UNCHANGED <<starter, worker, finishing, canceller, expired>>
    BY <1>14 DEF SupSetLimits, Clock, supVars
  <2>2. sched'.running = sched.running /\ sched'.queue = sched.queue
    BY <1>0, <1>14 DEF SupSetLimits, SetLimits, Clock, Tick, WallStep, TypeOK
  <2>3. InSlot(sched') = InSlot(sched) /\ InQueue(sched') = InQueue(sched)
    BY <2>2 DEF InSlot, InQueue, Waiting
  <2> QED BY <1>0, <2>1, <2>3 DEF Sole
<1>15. CASE Stop
  <2>1. /\ starter' = [id \in RunId |-> IF starter[id] = "idle" THEN "idle" ELSE "done"]
        /\ worker' = [id \in RunId |-> NoWorker]
        /\ finishing' = {} /\ expired' = {}
        /\ canceller' = [c \in Canceller |-> NotCancelling]
    BY <1>15 DEF Stop
  <2>2. InSlot(sched') = {} /\ InQueue(sched') = {}
    BY <1>15, StopEmpties
  <2> QED BY <2>1, <2>2 DEF NoWorker, NotCancelling, Sole
<1>16. ASSUME NEW id \in RunId, Sample(id) \/ Fork(id) \/ Exit(id) \/ Recover(id)
       PROVE  \A j \in RunId : Sole(j)'
  BY <1>0, <1>16 DEF Sample, Fork, Exit, Recover, Sole
<1>17. CASE Drain
  <2>1. \A j : Taken(j)' <=> Taken(j)
    BY <1>0, <1>17 DEF Drain, CancelRecord
  <2>2. UNCHANGED <<sched, starter, worker, finishing, expired>>
    BY <1>17 DEF Drain
  <2> QED BY <1>0, <2>1, <2>2 DEF Sole
<1>18. CASE Reboot \/ Restart \/ RecoverFails \/ Serve
  BY <1>0, <1>18 DEF Reboot, Restart, RecoverFails, Serve, Sole
<1> QED
  BY <1>1, <1>2, <1>3, <1>4, <1>5, <1>6, <1>7, <1>8, <1>9, <1>10, <1>11, <1>12,
     <1>13, <1>14, <1>15, <1>16, <1>17, <1>18
  DEF SupNext, StarterStep, FinishStep, CancelStep, Asks, Canceller, Crash,
      LeaveIdle, LeaveDrained, LeaveAnyway

(***************************************************************************)
(* A thread's step leaves the threads' own records apart: one call of      *)
(* `finish` for a run, one caller for every run that `release` admitted,   *)
(* one canceller for every run taken from the queue.                       *)
(***************************************************************************)
LEMMA OneEachStep ==
  ASSUME SupInv, SupNext
  PROVE  OneEach'
<1>0. /\ OneEach
      /\ \A id \in RunId : Sole(id)
      /\ finishing \subseteq FinishRecord
      /\ canceller \in [Canceller -> CancelRecord]
  BY TypeMeans DEF SupInv
<1>1. ASSUME UNCHANGED <<finishing, canceller>>
      PROVE  OneEach'
  BY <1>0, <1>1 DEF OneEach
<1>2. ASSUME NEW id \in RunId, ~Ended(id), NEW e, Joins(id, e), UNCHANGED canceller
      PROVE  OneEach'
  BY <1>0, <1>2 DEF Joins, Ended, OneEach
<1>3. ASSUME NEW f \in finishing, NEW g, Moves(f, g), g.next \subseteq f.next,
             f.at # "spawn" \/ g.at = "spawn", UNCHANGED canceller
      PROVE  OneEach'
  <2>1. \A h \in finishing' : h = g \/ (h \in finishing /\ h # f)
    BY <1>3 DEF Moves
  <2>2. g.id = f.id
    BY <1>3 DEF Moves
  <2>3. \A h, k \in finishing' : h.id = k.id => h = k
    BY <1>0, <2>1, <2>2 DEF OneEach
  <2>4. \A h, k \in finishing', id \in RunId : id \in h.next /\ id \in k.next => h = k
    BY <1>0, <1>3, <2>1 DEF OneEach
  <2>5. \A h \in finishing' : h.at # "spawn" => h.next = {}
    BY <1>0, <1>3, <2>1 DEF OneEach
  <2> QED BY <1>0, <1>3, <2>3, <2>4, <2>5 DEF OneEach
<1>4. ASSUME NEW id \in RunId, Insert(id) \/ Register(id) \/ CreatedFails(id)
               \/ Admit(id) \/ StartAdmitted(id) \/ Sample(id) \/ Fork(id)
               \/ Exit(id) \/ Recover(id)
      PROVE  OneEach'
  <2>1. UNCHANGED <<finishing, canceller>>
    BY <1>4 DEF Insert, Register, CreatedFails, Admit, StartAdmitted, Sample, Fork,
                Exit, Recover
  <2> QED BY <1>1, <2>1
<1>5. ASSUME NEW id \in RunId, Reject(id)
      PROVE  OneEach'
  <2>1. ~Ended(id) /\ UNCHANGED canceller
    BY <1>0, <1>5 DEF Reject, At, Sole
  <2>2. UNCHANGED finishing \/ \E e : Joins(id, e)
    <3>1. Finish(id, id, "spawn_failed", "complete")
      BY <1>5 DEF Reject
    <3> QED BY <3>1, FinishJoins DEF Outcome, Finish
  <2> QED BY <1>1, <1>2, <2>1, <2>2
<1>6. ASSUME NEW id \in RunId, WorkerStep(id)
      PROVE  OneEach'
  <2>1. ~Ended(id) /\ UNCHANGED canceller
    BY <1>0, <1>6, WorkerOwns DEF Sole
  <2>2. UNCHANGED finishing \/ \E e : Joins(id, e)
    BY <1>6, WorkerOwns
  <2> QED BY <1>1, <1>2, <2>1, <2>2
<1>7. ASSUME NEW id \in RunId, FinishExpired(id)
      PROVE  OneEach'
  <2>1. ~Ended(id) /\ UNCHANGED canceller
    BY <1>0, <1>7 DEF FinishExpired, Sole
  <2>2. UNCHANGED finishing \/ \E e : Joins(id, e)
    <3>1. Finish(id, "tick", "timed_out", "complete") \/ UNCHANGED finishing
      BY <1>7 DEF FinishExpired
    <3> QED BY <3>1, FinishJoins DEF Outcome, Finish
  <2> QED BY <1>1, <1>2, <2>1, <2>2
<1>8. ASSUME NEW f \in finishing, FinishStore(f) \/ FinishRegistry(f)
      PROVE  OneEach'
  <2>1. PICK g : Moves(f, g) /\ g.next = f.next
    BY <1>8, FinishMoves
  <2>2. f.at # "spawn" /\ UNCHANGED canceller
    BY <1>8 DEF FinishStore, FinishRegistry
  <2> QED BY <1>3, <2>1, <2>2
<1>9. ASSUME NEW f \in finishing, FinishRelease(f)
      PROVE  OneEach'
  <2>1. f.at = "release" /\ UNCHANGED canceller
    BY <1>9 DEF FinishRelease
  <2>2. Newly \in SUBSET RunId
    <3>1. sched'.running \in SUBSET Running
      BY SchedulerKeeps DEF TypeOK
    <3> QED BY <3>1 DEF Newly, Ids, Running
  <2>3. PICK g : Moves(f, g) /\ g.at = "spawn" /\ g.next = Newly
    BY <1>9, <2>2, FinishMoves
  <2>4. \A id \in Newly : ~Runs(id)
    BY DEF Newly, Runs, InSlot
  <2>5. \A h \in finishing, id \in RunId : id \in h.next => Runs(id)
    BY <1>0 DEF Sole, Picked
  <2>6. \A h \in finishing' : h = g \/ (h \in finishing /\ h # f)
    BY <2>3 DEF Moves
  <2>7. g.id = f.id
    BY <2>3 DEF Moves
  <2>8. \A h, k \in finishing' : h.id = k.id => h = k
    BY <1>0, <2>6, <2>7 DEF OneEach
  <2>9. \A h, k \in finishing', id \in RunId : id \in h.next /\ id \in k.next => h = k
    BY <1>0, <2>3, <2>4, <2>5, <2>6 DEF OneEach
  <2>10. \A h \in finishing' : h.at # "spawn" => h.next = {}
    BY <1>0, <2>3, <2>6 DEF OneEach
  <2> QED BY <1>0, <2>1, <2>8, <2>9, <2>10 DEF OneEach
<1>10. ASSUME NEW f \in finishing, FinishSpawn(f)
       PROVE  OneEach'
  <2>1. f.at = "spawn" /\ UNCHANGED canceller
    BY <1>10 DEF FinishSpawn
  <2>2. CASE finishing' = finishing \ {f}
    BY <1>0, <2>1, <2>2 DEF OneEach
  <2>3. ASSUME NEW id, Moved(f, [f EXCEPT !.next = @ \ {id}])
        PROVE  OneEach'
    <3>1. PICK g : Moves(f, g) /\ g.at = f.at /\ g.next = f.next \ {id}
      BY <2>3, FinishMoves
    <3> QED BY <1>3, <2>1, <3>1
  <2> QED BY <1>10, <2>2, <2>3 DEF FinishSpawn
<1>11. ASSUME NEW c \in Canceller, Asks(c)
       PROVE  OneEach'
  <2>1. PICK r : Goes(c, r)
    BY <1>11, CancelGoes
  <2>2. /\ \A b, d \in Canceller :
             /\ canceller'[b].at = "dequeued"
             /\ canceller'[d].at = "dequeued"
             /\ canceller'[b].id = canceller'[d].id
             => b = d
        /\ \A d \in Canceller : canceller'[d].at # "idle" => canceller'[d].id \in RunId
    BY <1>0, <2>1 DEF Goes, OneEach
  <2>3. CASE ~CancelFinish(c)
    <3>1. UNCHANGED finishing
      BY <1>11, <2>3 DEF Asks, CancelRequest, CancelLoad, CancelLook, CancelFlag,
                         CancelNext
    <3> QED BY <1>0, <2>2, <3>1 DEF OneEach
  <2>4. CASE CancelFinish(c)
    <3> DEFINE id == canceller[c].id
    <3>1. id \in RunId /\ ~Ended(id)
      BY <1>0, <2>4 DEF CancelFinish, Here, OneEach, Sole, Taken
    <3>2. UNCHANGED finishing \/
            \E e : e.id = id /\ e.next = {} /\ finishing' = finishing \cup {e}
      BY <2>4 DEF CancelFinish, Finish, Ending
    <3> HIDE DEF id
    <3>3. /\ \A h, k \in finishing' : h.id = k.id => h = k
          /\ \A h, k \in finishing', j \in RunId : j \in h.next /\ j \in k.next => h = k
          /\ \A h \in finishing' : h.at # "spawn" => h.next = {}
      BY <1>0, <3>1, <3>2 DEF OneEach, Ended
    <3> QED BY <2>2, <3>3 DEF OneEach
  <2> QED BY <2>3, <2>4
<1>12. ASSUME NEW c \in Canceller, CancelDequeue(c)
       PROVE  OneEach'
  <2> DEFINE id == canceller[c].id
  <2>1. /\ canceller' = [canceller EXCEPT ![c].at =
                           IF id \in InQueue(sched) THEN "dequeued" ELSE "flag"]
        /\ UNCHANGED finishing
    BY <1>12 DEF CancelDequeue, CancelGo, InQueue
  <2>2. id \in RunId
    BY <1>0, <1>12 DEF CancelDequeue, Here, OneEach
  <2>3. id \in InQueue(sched) => ~Taken(id)
    BY <1>0, <2>2 DEF Sole, Waits
  <2> QED BY <1>0, <2>1, <2>2, <2>3 DEF CancelRecord, OneEach, Taken
<1>13. CASE QueueTick \/ SupSetLimits \/ Clock \/ Reboot \/ Restart \/ RecoverFails \/ Serve
  <2>1. UNCHANGED <<finishing, canceller>>
    BY <1>13 DEF QueueTick, SupSetLimits, Clock, supVars, Reboot, Restart,
                 RecoverFails, Serve
  <2> QED BY <1>1, <2>1
<1>14. CASE Drain
  BY <1>0, <1>14 DEF Drain, CancelRecord, OneEach
<1>15. CASE Stop
  BY <1>15 DEF Stop, NotCancelling, OneEach
<1> QED
  BY <1>4, <1>5, <1>6, <1>7, <1>8, <1>9, <1>10, <1>11, <1>12, <1>13, <1>14, <1>15
  DEF SupNext, StarterStep, FinishStep, CancelStep, Asks, Canceller, Crash,
      LeaveIdle, LeaveDrained, LeaveAnyway

\* Only a serving supervisor has threads.
LEMMA QuietStep ==
  ASSUME SupInv, SupNext
  PROVE  Quiet'
<1>0. /\ Quiet
      /\ mode \in {"up", "draining", "down", "recovering"}
      /\ \A id \in RunId : worker[id].at = "none" => ~Working(id)
  BY TypeMeans DEF SupInv, Working
<1>1. ASSUME mode' = mode, Serving
      PROVE  Quiet'
  BY <1>1 DEF Quiet, Serving
<1>2. ASSUME NEW id \in RunId,
             Insert(id) \/ StarterStep(id) \/ WorkerStep(id) \/ FinishExpired(id)
      PROVE  mode' = mode /\ Serving
  <2>1. WorkerStep(id) => mode' = mode /\ Serving
    BY <1>0, WorkerOwns DEF Quiet, NoWorker
  <2>2. Insert(id) \/ FinishExpired(id) => mode' = mode /\ Serving
    BY <1>0 DEF Insert, FinishExpired, Quiet
  <2>3. StarterStep(id) => mode' = mode /\ Serving
    BY <1>0 DEF StarterStep, Register, CreatedFails, Admit, StartAdmitted, Reject, At,
                Quiet
  <2> QED BY <1>2, <2>1, <2>2, <2>3
<1>3. ASSUME NEW f \in finishing, FinishStep(f)
      PROVE  mode' = mode /\ Serving
  BY <1>0, <1>3 DEF FinishStep, FinishStore, FinishRegistry, FinishRelease, FinishSpawn,
                    Quiet
<1>4. ASSUME NEW c \in Canceller, Asks(c) \/ CancelDequeue(c)
      PROVE  mode' = mode /\ Serving
  <2>1. mode' = mode
    BY <1>4 DEF Asks, CancelRequest, CancelLoad, CancelLook, CancelFinish, CancelFlag,
                CancelNext, CancelDequeue
  <2>2. \/ Serving
        \/ canceller[c].at # "idle"
        \/ c = "shutdown" /\ canceller[c].todo # {}
    BY <1>4 DEF Asks, CancelRequest, CancelLoad, CancelLook, CancelFinish, CancelFlag,
                CancelNext, CancelDequeue, Here
  <2>3. ~Serving => canceller[c].at = "idle" /\ canceller[c].todo = {}
    BY <1>0 DEF Quiet, NotCancelling
  <2> QED BY <2>1, <2>2, <2>3
<1>5. CASE QueueTick \/ SupSetLimits \/ Clock
  BY <1>1, <1>5 DEF QueueTick, SupSetLimits, Clock, supVars
<1>6. CASE Stop
  <2>1. sched'.queue = << >>
    BY <1>6, StopEmpties
  <2> QED BY <1>6, <2>1 DEF Stop, Quiet
<1>7. CASE Drain
  BY <1>7 DEF Drain, Quiet, Serving
<1>8. ASSUME NEW id \in RunId, Sample(id) \/ Fork(id) \/ Exit(id) \/ Recover(id)
      PROVE  Quiet'
  BY <1>0, <1>8 DEF Sample, Fork, Exit, Recover, schedVars, Quiet, Serving
<1>9. CASE Reboot \/ Restart \/ RecoverFails \/ Serve
  BY <1>0, <1>9 DEF Reboot, Restart, RecoverFails, Serve, schedVars, Quiet, Serving
<1> QED
  BY <1>1, <1>2, <1>3, <1>4, <1>5, <1>6, <1>7, <1>8, <1>9
  DEF SupNext, CancelStep, Asks, Canceller, Crash, LeaveIdle, LeaveDrained, LeaveAnyway

\* `finish` writes the row of a run that is not finished, unless the write
\* fails.
LEMMA StorePuts ==
  ASSUME SupInv, NEW f \in finishing, FinishStore(f)
  PROVE  /\ PutsRow(f.id)
         /\ \/ UNCHANGED row
            \/ /\ Unfinished(f.id)
               /\ row'[f.id].state = "finished"
               /\ row'[f.id].result = f.result
               /\ row'[f.id].recorded = row[f.id].recorded
         /\ Faults = {} => ~Unfinished(f.id) \/ row'[f.id].state = "finished"
<1> DEFINE r == [row[f.id] EXCEPT !.state = "finished", !.revision = f.revision,
                                  !.result = f.result]
<1>0. f \in FinishRecord /\ f.id \in RunId /\ row[f.id] \in RowRecord
  BY TypeMeans DEF SupInv, FinishRecord
<1>1. /\ r \in RowRecord
      /\ r.state = "finished" /\ r.result = f.result /\ r.recorded = row[f.id].recorded
  BY <1>0 DEF FinishRecord, RowRecord, SlotStates
<1>2. \/ Unfinished(f.id) /\ row' = [row EXCEPT ![f.id] = r]
      \/ (~Unfinished(f.id) \/ "store" \in Faults) /\ UNCHANGED row
  BY DEF FinishStore
<1> HIDE DEF r
<1> QED BY <1>0, <1>1, <1>2, RowPuts, Keeps

(***************************************************************************)
(* Recovery finishes a run of the store, kills no more than what is there  *)
(* and calls the cleanup complete only when nothing recorded is left.      *)
(***************************************************************************)
LEMMA RecoverPuts ==
  ASSUME SupInv, NEW id \in RunId, Recover(id)
  PROVE  /\ PutsRow(id)
         /\ PutsGroup(id)
         /\ row[id].state \notin {"absent", "finished"}
         /\ row'[id].state = "finished"
         /\ row'[id].recorded = row[id].recorded
         /\ row'[id].result \in Result
         /\ row'[id].result.outcome = "supervisor_lost"
         /\ row'[id].result.cleanup = "complete" => row[id].recorded \cap group'[id] = {}
         /\ group'[id] \subseteq group[id]
<1>0. row[id] \in RowRecord /\ group \in [RunId -> SUBSET Process]
  BY TypeMeans DEF SupInv
<1> DEFINE same_boot == row[id].leader = "this_boot"
<1>1. PICK left \in SUBSET group[id] :
        /\ group' = [group EXCEPT ![id] = left]
        /\ row' = [row EXCEPT
             ![id].state = "finished", ![id].revision = @ + 1,
             ![id].result = [outcome |-> "supervisor_lost",
                             cleanup |-> IF same_boot
                                         THEN Cleaned(row[id].recorded \cap left)
                                         ELSE "unknown"]]
  BY DEF Recover
<1> DEFINE cleanup == IF same_boot THEN Cleaned(row[id].recorded \cap left) ELSE "unknown"
           told == [outcome |-> "supervisor_lost", cleanup |-> cleanup]
           revision == row[id].revision + 1
           r == [row[id] EXCEPT !.state = "finished", !.revision = revision,
                                !.result = told]
<1>2. /\ cleanup \in {"complete", "incomplete", "unknown"}
      /\ cleanup = "complete" => row[id].recorded \cap left = {}
  BY DEF Cleaned
<1>3. row' = [row EXCEPT ![id] = r]
  BY <1>1
<1> HIDE DEF cleanup
<1>4. /\ told \in Result
      /\ told.outcome = "supervisor_lost" /\ told.cleanup = cleanup
  BY <1>2 DEF Result, Outcome
<1> HIDE DEF told
<1>5. revision \in Nat
  BY <1>0 DEF RowRecord
<1> HIDE DEF revision
<1>6. /\ r \in RowRecord
      /\ r.state = "finished" /\ r.result = told /\ r.recorded = row[id].recorded
  BY <1>0, <1>4, <1>5 DEF RowRecord, SlotStates
<1> HIDE DEF r
<1>7. PutsRow(id) /\ row'[id] = r
  BY <1>3, <1>6, RowPuts
<1>8. PutsGroup(id) /\ group'[id] = left
  BY <1>0, <1>1 DEF PutsGroup
<1>9. row[id].state \notin {"absent", "finished"}
  BY DEF Recover, ToRecover, Unfinished
<1> QED BY <1>2, <1>4, <1>6, <1>7, <1>8, <1>9

\* The flag of a cancellation leaves the slot in its state.
LEMMA FlagPuts ==
  ASSUME SupInv, NEW c \in Canceller, CancelFlag(c)
  PROVE  LET id == canceller[c].id
         IN  PutsSlot(id) /\ slot'[id].state = slot[id].state
<1> DEFINE id == canceller[c].id
           s == [slot[id] EXCEPT !.cancel = TRUE]
<1>0. id \in RunId /\ slot[id] \in SlotRecord /\ slot \in [RunId -> SlotRecord]
  BY TypeMeans DEF SupInv, OneEach, CancelFlag, Here
<1>1. s \in SlotRecord
  BY <1>0, Zenon DEF SlotRecord
<1>2. s.state = slot[id].state
  BY <1>0 DEF SlotRecord
<1>3. slot' = [slot EXCEPT ![id] = s] \/ UNCHANGED slot
  BY DEF CancelFlag
<1> HIDE DEF s
<1> QED BY <1>0, <1>1, <1>2, <1>3 DEF PutsSlot

\* The part of the type invariant that is not the scheduler's.
ThreadsTyped ==
  /\ mode \in {"up", "draining", "down", "recovering"}
  /\ stops \in 0 .. MaxStops
  /\ slot \in [RunId -> SlotRecord]
  /\ registry \subseteq RunId
  /\ row \in [RunId -> RowRecord]
  /\ group \in [RunId -> SUBSET Process]
  /\ starter \in [RunId -> {"idle", "inserted", "registered", "admitted",
                            "rejected", "done"}]
  /\ worker \in [RunId -> WorkerRecord]
  /\ finishing \subseteq FinishRecord
  /\ canceller \in [Canceller -> CancelRecord]
  /\ expired \subseteq RunId

\* Every step leaves the records of the threads well formed.
LEMMA ThreadsTypedStep ==
  ASSUME SupInv, SupNext
  PROVE  ThreadsTyped'
<1>0. ThreadsTyped /\ OneEach
  BY TypeMeans DEF SupInv, ThreadsTyped
<1>1. \A id \in RunId :
        /\ PutsSlot(id) => slot' \in [RunId -> SlotRecord]
        /\ PutsRow(id) => row' \in [RunId -> RowRecord]
        /\ PutsGroup(id) => group' \in [RunId -> SUBSET Process]
        /\ PutsWorker(id) => worker' \in [RunId -> WorkerRecord]
  BY <1>0 DEF ThreadsTyped, PutsSlot, PutsRow, PutsGroup, PutsWorker
<1>2. /\ \A id, e : Joins(id, e) => finishing' \subseteq FinishRecord
      /\ \A f, g : Moves(f, g) => finishing' \subseteq FinishRecord
      /\ \A c \in Canceller : \A r : Goes(c, r) => canceller' \in [Canceller -> CancelRecord]
  BY <1>0 DEF ThreadsTyped, Joins, Moves, Goes
<1>3. ASSUME NEW id \in RunId, Insert(id)
      PROVE  ThreadsTyped'
  <2> DEFINE r == [NoRow EXCEPT !.state = "queued"]
  <2>1. r \in RowRecord
    BY DEF NoRow, RowRecord, SlotStates
  <2>2. row' = [row EXCEPT ![id] = r]
    BY <1>3 DEF Insert
  <2> HIDE DEF r
  <2>3. row' \in [RunId -> RowRecord]
    BY <1>1, <2>1, <2>2, RowPuts
  <2> QED BY <1>0, <1>3, <2>3 DEF Insert, At, ThreadsTyped
<1>4. ASSUME NEW id \in RunId, Register(id) \/ CreatedFails(id) \/ Admit(id)
      PROVE  ThreadsTyped'
  BY <1>0, <1>4 DEF Register, CreatedFails, Admit, At, ThreadsTyped
<1>5. ASSUME NEW id \in RunId, StartAdmitted(id)
      PROVE  ThreadsTyped'
  <2>1. worker' \in [RunId -> WorkerRecord]
    <3>1. "starting" \in WorkerPlaces
      BY DEF WorkerPlaces
    <3> QED BY <1>0, <1>1, <1>5, <3>1, Gos DEF StartAdmitted, SpawnWorker, ThreadsTyped
  <2> QED BY <1>0, <1>5, <2>1 DEF StartAdmitted, At, ThreadsTyped
<1>6. ASSUME NEW id \in RunId, NEW by \in RunId \cup Canceller \cup {"tick"},
             NEW outcome \in Outcome,
             NEW cleanup \in {"complete", "incomplete", "unknown"},
             Finish(id, by, outcome, cleanup)
      PROVE  slot' \in [RunId -> SlotRecord] /\ finishing' \subseteq FinishRecord
  <2>1. CASE Finished(id)
    BY <1>0, <1>6, <2>1 DEF Finish, ThreadsTyped
  <2>2. CASE ~Finished(id)
    <3>1. PutsSlot(id) /\ \E e : Joins(id, e)
      BY <1>6, <2>2, FinishJoins
    <3> QED BY <1>1, <1>2, <3>1
  <2> QED BY <2>1, <2>2
<1>7. ASSUME NEW id \in RunId, Reject(id)
      PROVE  ThreadsTyped'
  <2>1. slot' \in [RunId -> SlotRecord] /\ finishing' \subseteq FinishRecord
    BY <1>6, <1>7 DEF Reject, Outcome
  <2> QED BY <1>0, <1>7, <2>1 DEF Reject, At, ThreadsTyped
<1>8. ASSUME NEW id \in RunId, WorkerStep(id)
      PROVE  ThreadsTyped'
  <2>1. /\ slot' \in [RunId -> SlotRecord]
        /\ row' \in [RunId -> RowRecord]
        /\ group' \in [RunId -> SUBSET Process]
        /\ worker' \in [RunId -> WorkerRecord]
    BY <1>1, <1>8, WorkerOwns DEF Own
  <2>2. finishing' \subseteq FinishRecord
    BY <1>0, <1>2, <1>8, WorkerOwns DEF ThreadsTyped
  <2>3. UNCHANGED <<mode, stops, registry, starter, canceller, expired>>
    BY <1>8, WorkerOwns
  <2> QED BY <1>0, <2>1, <2>2, <2>3 DEF ThreadsTyped
<1>9. ASSUME NEW id \in RunId, Sample(id)
      PROVE  ThreadsTyped'
  <2>1. group[id] \in SUBSET Process
    BY <1>0 DEF ThreadsTyped
  <2>2. row' \in [RunId -> RowRecord]
    BY <1>1, <1>9, <2>1, Records DEF Sample
  <2> QED BY <1>0, <1>9, <2>2 DEF Sample, ThreadsTyped
<1>10. ASSUME NEW id \in RunId, Fork(id) \/ Exit(id)
       PROVE  ThreadsTyped'
  <2>1. group' \in [RunId -> SUBSET Process]
    <3>1. PICK left \in SUBSET Process : group' = [group EXCEPT ![id] = left]
      <4>1. group[id] \in SUBSET Process /\ Member \subseteq Process
        BY <1>0 DEF ThreadsTyped, Process
      <4>2. \/ \E p \in Member \ group[id] : group' = [group EXCEPT ![id] = group[id] \cup {p}]
            \/ \E p \in group[id] : group' = [group EXCEPT ![id] = group[id] \ {p}]
        BY <1>10 DEF Fork, Exit
      <4> QED BY <4>1, <4>2
    <3> QED BY <1>0, <3>1 DEF ThreadsTyped
  <2>2. UNCHANGED <<mode, stops, slot, registry, row, starter, worker, finishing,
                    canceller, expired>>
    BY <1>10 DEF Fork, Exit
  <2> QED BY <1>0, <2>1, <2>2 DEF ThreadsTyped
<1>11. ASSUME NEW id \in RunId, FinishExpired(id)
       PROVE  ThreadsTyped'
  <2>1. slot' \in [RunId -> SlotRecord] /\ finishing' \subseteq FinishRecord
    <3>1. CASE UNCHANGED <<slot, finishing>>
      BY <1>0, <3>1 DEF ThreadsTyped
    <3>2. CASE Finish(id, "tick", "timed_out", "complete")
      BY <1>6, <3>2 DEF Outcome
    <3> QED BY <1>11, <3>1, <3>2 DEF FinishExpired
  <2> QED BY <1>0, <1>11, <2>1 DEF FinishExpired, ThreadsTyped
<1>12. ASSUME NEW id \in RunId, Recover(id)
       PROVE  ThreadsTyped'
  <2>1. PutsGroup(id) /\ PutsRow(id)
    BY <1>12, RecoverPuts
  <2>2. group' \in [RunId -> SUBSET Process] /\ row' \in [RunId -> RowRecord]
    BY <1>1, <2>1
  <2> QED BY <1>0, <1>12, <2>1, <2>2 DEF Recover, ThreadsTyped
<1>13. ASSUME NEW f \in finishing, FinishStore(f)
       PROVE  ThreadsTyped'
  <2>1. finishing' \subseteq FinishRecord
    BY <1>2, <1>13, FinishMoves
  <2>2. row' \in [RunId -> RowRecord]
    <3>1. f.id \in RunId
      BY <1>0 DEF ThreadsTyped, FinishRecord
    <3> QED BY <1>0, <1>1, <1>13, <3>1, StorePuts DEF ThreadsTyped
  <2> QED BY <1>0, <1>13, <2>1, <2>2 DEF FinishStore, ThreadsTyped
<1>14. ASSUME NEW f \in finishing, FinishRegistry(f) \/ FinishRelease(f)
       PROVE  ThreadsTyped'
  <2>1. Newly \in SUBSET RunId
    <3>1. sched'.running \in SUBSET Running
      BY SchedulerKeeps DEF TypeOK
    <3> QED BY <3>1 DEF Newly, Ids, Running
  <2>2. finishing' \subseteq FinishRecord
    BY <1>2, <1>14, <2>1, FinishMoves
  <2> QED BY <1>0, <1>14, <2>2 DEF FinishRegistry, FinishRelease, ThreadsTyped
<1>15. ASSUME NEW f \in finishing, FinishSpawn(f)
       PROVE  ThreadsTyped'
  <2>1. finishing' \subseteq FinishRecord
    <3>1. CASE finishing' = finishing \ {f}
      BY <1>0, <3>1 DEF ThreadsTyped
    <3>2. ASSUME NEW id, Moved(f, [f EXCEPT !.next = @ \ {id}])
          PROVE  finishing' \subseteq FinishRecord
      BY <1>2, <3>2, FinishMoves
    <3> QED BY <1>15, <3>1, <3>2 DEF FinishSpawn
  <2>2. worker' \in [RunId -> WorkerRecord]
    <3>1. CASE UNCHANGED worker
      BY <1>0, <3>1 DEF ThreadsTyped
    <3>2. ASSUME NEW id \in f.next, Go(id, "starting")
          PROVE  worker' \in [RunId -> WorkerRecord]
      <4>1. id \in RunId /\ "starting" \in WorkerPlaces
        BY <1>0 DEF ThreadsTyped, FinishRecord, WorkerPlaces
      <4> QED BY <1>1, <3>2, <4>1, Gos
    <3> QED BY <1>15, <3>1, <3>2 DEF FinishSpawn, SpawnWorker
  <2> QED BY <1>0, <1>15, <2>1, <2>2 DEF FinishSpawn, ThreadsTyped
<1>16. ASSUME NEW c \in Canceller, Asks(c)
       PROVE  ThreadsTyped'
  <2>1. canceller' \in [Canceller -> CancelRecord]
    BY <1>2, <1>16, CancelGoes
  <2>2. slot' \in [RunId -> SlotRecord] /\ finishing' \subseteq FinishRecord
    <3>1. CASE UNCHANGED <<slot, finishing>>
      BY <1>0, <3>1 DEF ThreadsTyped
    <3>2. CASE CancelFinish(c)
      <4> DEFINE id == canceller[c].id
      <4>1. id \in RunId /\ canceller[c].revision + 1 \in Nat
        BY <1>0, <3>2 DEF CancelFinish, Here, OneEach, ThreadsTyped, CancelRecord
      <4>2. CASE Finish(id, c, "cancelled", "complete")
        BY <1>6, <4>1, <4>2 DEF Outcome
      <4>3. CASE /\ finishing' = finishing \cup
                      {Ending(id, c, canceller[c].revision + 1, "cancelled", "complete")}
                 /\ UNCHANGED slot
        <5> HIDE DEF id
        <5>1. Ending(id, c, canceller[c].revision + 1, "cancelled", "complete")
                \in FinishRecord
          BY <4>1 DEF Ending, FinishRecord, Result, Outcome
        <5> QED BY <1>0, <4>3, <5>1 DEF ThreadsTyped
      <4> QED BY <3>2, <4>2, <4>3 DEF CancelFinish
    <3>3. CASE CancelFlag(c)
      <4>1. canceller[c].id \in RunId
        BY <1>0, <3>3 DEF CancelFlag, Here, OneEach
      <4>2. UNCHANGED finishing /\ PutsSlot(canceller[c].id)
        BY <3>3, <4>1, FlagPuts DEF CancelFlag
      <4> QED BY <1>0, <1>1, <4>1, <4>2 DEF ThreadsTyped
    <3> QED BY <1>16, <3>1, <3>2, <3>3
            DEF Asks, CancelRequest, CancelLoad, CancelLook, CancelNext
  <2>3. UNCHANGED <<mode, stops, registry, row, group, starter, worker, expired>>
    BY <1>16 DEF Asks, CancelRequest, CancelLoad, CancelLook, CancelFinish, CancelFlag,
                 CancelNext
  <2> QED BY <1>0, <2>1, <2>2, <2>3 DEF ThreadsTyped
<1>17. ASSUME NEW c \in Canceller, CancelDequeue(c)
       PROVE  ThreadsTyped'
  <2>1. canceller[c] \in CancelRecord
    BY <1>0 DEF ThreadsTyped
  <2>2. \A at \in {"dequeued", "flag"} : [canceller[c] EXCEPT !.at = at] \in CancelRecord
    BY <2>1 DEF CancelRecord
  <2>3. \E at \in {"dequeued", "flag"} :
          canceller' = [canceller EXCEPT ![c] = [canceller[c] EXCEPT !.at = at]]
    BY <1>17 DEF CancelDequeue, CancelGo
  <2> QED BY <1>0, <1>17, <2>2, <2>3 DEF CancelDequeue, ThreadsTyped
<1>18. CASE QueueTick
  <2>1. Waiting(sched) \subseteq Queued
    BY TypeMeans DEF SupInv, TypeOK, Waiting
  <2>3. expired' \subseteq RunId
    BY <1>18, <2>1 DEF QueueTick, Overdue, Ids, Queued
  <2> QED BY <1>0, <1>18, <2>3 DEF QueueTick, ThreadsTyped
<1>19. CASE SupSetLimits \/ Clock
  BY <1>0, <1>19 DEF SupSetLimits, Clock, supVars, ThreadsTyped
<1>20. CASE Stop
  <2>1. /\ FreshSlot \in SlotRecord /\ NoWorker \in WorkerRecord
        /\ NotCancelling \in CancelRecord
    BY DEF FreshSlot, SlotRecord, SlotStates, NoWorker, WorkerRecord, WorkerPlaces,
           NotCancelling, CancelRecord
  <2>2. stops' \in 0 .. MaxStops
    BY <1>0, <1>20, SupervisorAssumption DEF Stop, ThreadsTyped
  <2>3. /\ slot' \in [RunId -> SlotRecord] /\ worker' \in [RunId -> WorkerRecord]
        /\ canceller' \in [Canceller -> CancelRecord]
    BY <1>20, <2>1 DEF Stop
  <2>4. starter' \in [RunId -> {"idle", "inserted", "registered", "admitted", "rejected", "done"}]
    BY <1>20 DEF Stop
  <2>5. /\ mode' = "down" /\ registry' = {} /\ finishing' = {} /\ expired' = {}
        /\ UNCHANGED <<row, group>>
    BY <1>20 DEF Stop
  <2> QED BY <1>0, <2>2, <2>3, <2>4, <2>5 DEF ThreadsTyped
<1>21. CASE Drain
  <2> DEFINE r == [canceller["shutdown"] EXCEPT !.todo = registry]
  <2>1. r \in CancelRecord
    BY <1>0 DEF ThreadsTyped, CancelRecord, Canceller
  <2>2. canceller' = [canceller EXCEPT !["shutdown"] = r]
    BY <1>21 DEF Drain
  <2> HIDE DEF r
  <2>3. canceller' \in [Canceller -> CancelRecord]
    BY <1>0, <2>1, <2>2 DEF ThreadsTyped
  <2> QED BY <1>0, <1>21, <2>3 DEF Drain, ThreadsTyped
<1>22. CASE Reboot
  <2>1. \A id \in RunId :
          [row[id] EXCEPT !.leader = IF @ = "this_boot" THEN "earlier_boot" ELSE @]
            \in RowRecord
    <3>1. row \in [RunId -> RowRecord]
      BY <1>0 DEF ThreadsTyped
    <3>2. \A r \in RowRecord :
            [r EXCEPT !.leader = IF @ = "this_boot" THEN "earlier_boot" ELSE @] \in RowRecord
      BY DEF RowRecord
    <3> QED BY <3>1, <3>2
  <2> QED BY <1>0, <1>22, <2>1 DEF Reboot, ThreadsTyped
<1>23. CASE Restart \/ RecoverFails \/ Serve
  BY <1>0, <1>23 DEF Restart, RecoverFails, Serve, ThreadsTyped
<1> QED
  BY <1>3, <1>4, <1>5, <1>7, <1>8, <1>9, <1>10, <1>11, <1>12, <1>13, <1>14, <1>15,
     <1>16, <1>17, <1>18, <1>19, <1>20, <1>21, <1>22, <1>23
  DEF SupNext, StarterStep, FinishStep, CancelStep, Asks, Canceller, Crash,
      LeaveIdle, LeaveDrained, LeaveAnyway

\* The type invariant is kept, the scheduler's part included.
LEMMA SupTypeStep ==
  ASSUME SupInv, SupNext
  PROVE  SupTypeOK'
<1>1. TypeOK' /\ ThreadsTyped'
  BY SchedulerKeeps, ThreadsTypedStep
<1> QED BY <1>1 DEF SupTypeOK, ThreadsTyped, SlotRecord, RowRecord, WorkerRecord,
                    WorkerPlaces, FinishRecord, CancelRecord

(***************************************************************************)
(* What a worker's step leaves said of its own run: it saves what it       *)
(* entered before it goes on, launches once, and reports "complete" only   *)
(* after the group is gone.                                                *)
(***************************************************************************)
LEMMA WorkerTold ==
  ASSUME SupInv, NEW id \in RunId, WorkerStep(id)
  PROVE  Told(id)'
<1> DEFINE Begins == worker[id].at \in {"starting", "save_starting", "launch"}
           Coherent ==
             /\ Working(id) => ~Finished(id) /\ Unfinished(id)
             /\ Begins => group[id] = {}
             /\ Begins /\ worker[id].at # "launch" => row[id].revision = 0
             /\ worker[id].at = "save_starting" => worker[id].revision > 0
             /\ worker[id].at = "launch" => row[id].state = "starting"
             /\ worker[id].at \in {"stopping", "save_stopping", "signal", "reap", "finish"}
                  => worker[id].result \in Result
             /\ worker[id].at \in {"reap", "finish"} /\ worker[id].result.cleanup = "complete"
                  => group[id] = {}
<1>0. /\ Working(id) /\ Own(id)
      /\ UNCHANGED <<schedVars, mode, stops, registry, starter, canceller, expired>>
      /\ \/ UNCHANGED finishing
         \/ /\ \E e : Joins(id, e) /\ e.result = worker[id].result
            /\ worker[id].at = "finish"
            /\ worker'[id].at = "done"
  BY WorkerOwns
<1>1. /\ starter[id] = "done" /\ ~Ended(id) /\ ~Waits(id) /\ ~Picked(id)
      /\ id \notin expired /\ ~Taken(id)
      /\ id \in registry
      /\ Coherent
  <2>1. Told(id) /\ Sole(id)
    BY DEF SupInv
  <2> QED BY <1>0, <2>1 DEF Sole, Told, Listed, Pending, Working
<1>2. ASSUME Coherent', UNCHANGED finishing, row'[id].state # "absent"
      PROVE  Told(id)'
  BY <1>0, <1>1, <1>2 DEF Told, Listed, Pending, Asking, Waits, Picked, Taken, Ended,
                          schedVars, Working
<1>3. row[id].state \notin {"absent", "finished"} /\ ~Finished(id)
  BY <1>0, <1>1 DEF Unfinished
<1>4. slot[id].revision \in Nat /\ worker[id].at \in WorkerPlaces
  BY TypeMeans DEF SupInv, SlotRecord, WorkerRecord
<1>5. \A at \in WorkerPlaces, state \in SlotStates, saving \in WorkerPlaces,
         refused \in WorkerPlaces :
        Transition(id, at, state, saving, refused) =>
          /\ worker[id].at = at /\ worker'[id].at = saving
          /\ worker'[id].revision = slot[id].revision + 1
          /\ worker'[id].result = worker[id].result
          /\ slot'[id].state = state
          /\ UNCHANGED <<row, group, finishing>>
  BY <1>3, <1>4, Enters, Gos DEF Transition
<1>6. CASE EnterStarting(id)
  <2>1. /\ worker[id].at = "starting" /\ worker'[id].at = "save_starting"
        /\ worker'[id].revision > 0
        /\ slot'[id].state = "starting"
        /\ UNCHANGED <<row, group, finishing>>
    <3>1. Transition(id, "starting", "starting", "save_starting", "done")
      BY <1>6 DEF EnterStarting
    <3>2. /\ "starting" \in WorkerPlaces /\ "save_starting" \in WorkerPlaces
          /\ "done" \in WorkerPlaces /\ "starting" \in SlotStates
      BY DEF WorkerPlaces, SlotStates
    <3> QED BY <1>4, <1>5, <3>1, <3>2
  <2>2. Coherent'
    BY <1>1, <1>3, <2>1 DEF Working, Finished, Unfinished
  <2> QED BY <1>2, <1>3, <2>1, <2>2
<1>7. CASE EnterRunning(id) \/ EnterStopping(id)
  <2>1. /\ \/ worker[id].at = "running" /\ worker'[id].at = "save_running"
           \/ worker[id].at = "stopping" /\ worker'[id].at = "save_stopping"
        /\ worker'[id].result = worker[id].result
        /\ slot'[id].state \in {"running", "stopping"}
        /\ UNCHANGED <<row, group, finishing>>
    <3>1. \/ Transition(id, "running", "running", "save_running", "watch")
          \/ Transition(id, "stopping", "stopping", "save_stopping", "signal")
      BY <1>7 DEF EnterRunning, EnterStopping
    <3>2. /\ {"running", "save_running", "watch"} \subseteq WorkerPlaces
          /\ {"stopping", "save_stopping", "signal"} \subseteq WorkerPlaces
          /\ {"running", "stopping"} \subseteq SlotStates
      BY DEF WorkerPlaces, SlotStates
    <3> QED BY <1>5, <3>1, <3>2
  <2>2. Coherent'
    BY <1>1, <1>3, <2>1 DEF Working, Finished, Unfinished
  <2> QED BY <1>2, <1>3, <2>1, <2>2
<1>8. CASE SaveStarting(id)
  <2>1. worker[id].at = "save_starting" /\ UNCHANGED <<slot, group, finishing>>
    BY <1>8 DEF SaveStarting
  <2>2. \/ /\ row'[id].state = "starting"
           /\ worker'[id].at = "launch"
        \/ UNCHANGED row /\ worker'[id].at = "done"
    <3>1. CASE /\ row[id].revision < worker[id].revision
               /\ row' = Advanced(id, "starting")
               /\ Go(id, "launch")
      BY <3>1, Advances, Gos DEF WorkerPlaces, SlotStates
    <3>2. CASE UNCHANGED row /\ Leave(id)
      BY <1>4, <3>2, Gos
    <3> QED BY <1>8, <3>1, <3>2 DEF SaveStarting
  <2>3. Coherent'
    BY <1>1, <1>3, <2>1, <2>2 DEF Working, Finished, Unfinished
  <2> QED BY <1>2, <1>3, <2>1, <2>2, <2>3
<1>9. CASE SaveRunning(id) \/ SaveStopping(id)
  <2>1. PICK state \in {"running", "stopping"} :
          /\ row' = Advanced(id, state) \/ UNCHANGED row
          /\ \/ worker[id].at = "save_running" /\ Go(id, "watch")
             \/ worker[id].at = "save_stopping" /\ Go(id, "signal")
          /\ UNCHANGED <<slot, group, finishing>>
    BY <1>9 DEF SaveRunning, SaveStopping, Save
  <2>2. row'[id].state \notin {"absent", "finished"}
    BY <1>3, <2>1, Advances DEF SlotStates
  <2>3. /\ \/ worker[id].at = "save_running" /\ worker'[id].at = "watch"
           \/ worker[id].at = "save_stopping" /\ worker'[id].at = "signal"
        /\ worker'[id].result = worker[id].result
    BY <2>1, Gos DEF WorkerPlaces
  <2>4. Coherent'
    BY <1>1, <1>3, <2>1, <2>2, <2>3 DEF Working, Finished, Unfinished
  <2> QED BY <1>2, <2>1, <2>2, <2>4
<1>10. CASE Launch(id)
  <2>1. worker[id].at = "launch" /\ UNCHANGED <<slot, row, finishing>>
    BY <1>10 DEF Launch
  <2>2. \/ /\ worker'[id].at = "finish" /\ worker'[id].result \in Result
           /\ UNCHANGED group
        \/ worker'[id].at = "record"
    BY <1>10, Gos, Decides DEF Launch, WorkerPlaces, Outcome
  <2>3. Coherent'
    BY <1>1, <1>3, <2>1, <2>2 DEF Working, Finished, Unfinished
  <2> QED BY <1>2, <1>3, <2>1, <2>3
<1>11. CASE Record(id)
  <2>1. worker[id].at = "record" /\ UNCHANGED <<slot, group, finishing>>
    BY <1>11 DEF Record
  <2>2. worker'[id].at = "running"
    BY <1>11, Gos DEF Record, WorkerPlaces
  <2>3. row'[id].state = row[id].state
    BY <1>11, TypeMeans DEF Record, SupInv, RowRecord
  <2>4. Coherent'
    BY <1>1, <1>3, <2>1, <2>2, <2>3 DEF Working, Finished, Unfinished
  <2> QED BY <1>2, <1>3, <2>1, <2>3, <2>4
<1>12. CASE Watch(id)
  <2>1. worker[id].at = "watch" /\ UNCHANGED <<slot, row, group, finishing>>
    BY <1>12 DEF Watch
  <2>2. /\ worker'[id].at \in {"stopping", "finish"}
        /\ worker'[id].at = "finish" => group[id] = {}
        /\ worker'[id].result \in Result
    <3>1. PICK at \in {"stopping", "finish"},
               outcome \in {"exited", "cancelled", "timed_out"} :
            /\ Decide(id, at, outcome, "complete")
            /\ at = "finish" => group[id] = {}
      BY <1>12 DEF Watch
    <3>2. at \in WorkerPlaces /\ outcome \in Outcome
      BY DEF WorkerPlaces, Outcome
    <3>3. worker'[id].at = at /\ worker'[id].result \in Result
      BY <3>1, <3>2, Decides
    <3> QED BY <3>1, <3>3
  <2>3. Coherent'
    BY <1>1, <1>3, <2>1, <2>2 DEF Working, Finished, Unfinished
  <2> QED BY <1>2, <1>3, <2>1, <2>3
<1>13. CASE StopGroup(id)
  <2>1. worker[id].at = "signal" /\ UNCHANGED <<slot, finishing>>
    BY <1>13 DEF StopGroup
  <2>2. row'[id].state = row[id].state
    <3>1. group[id] \in SUBSET Process
      BY TypeMeans DEF SupInv
    <3> QED BY <1>13, <3>1, Records DEF StopGroup
  <2>3. worker[id].result.outcome \in Outcome
    BY <1>1, <2>1 DEF Result
  <2>4. /\ worker'[id].at = "reap"
        /\ worker'[id].result \in Result
        /\ worker'[id].result.cleanup = "complete" => group'[id] = {}
    <3>1. CASE /\ group[id] = {} /\ UNCHANGED group
               /\ \E cleanup \in {"unknown", "complete"} :
                     Decide(id, "reap", worker[id].result.outcome, cleanup)
      BY <2>3, <3>1, Decides DEF WorkerPlaces
    <3>2. ASSUME NEW left \in SUBSET group[id], group' = [group EXCEPT ![id] = left],
                 Decide(id, "reap", worker[id].result.outcome, Cleaned(left))
          PROVE  /\ worker'[id].at = "reap"
                 /\ worker'[id].result \in Result
                 /\ worker'[id].result.cleanup = "complete" => group'[id] = {}
      <4>1. /\ Cleaned(left) \in {"complete", "incomplete", "unknown"}
            /\ Cleaned(left) = "complete" => left = {}
        BY DEF Cleaned
      <4>2. group'[id] = left
        BY <3>2, TypeMeans DEF SupInv
      <4>3. /\ worker'[id].at = "reap"
            /\ worker'[id].result.cleanup = Cleaned(left)
            /\ worker'[id].result \in Result
        <5> DEFINE outcome == worker[id].result.outcome
                   cleanup == Cleaned(left)
        <5>1. /\ Decide(id, "reap", outcome, cleanup)
              /\ cleanup \in {"complete", "incomplete", "unknown"}
              /\ outcome \in Outcome /\ "reap" \in WorkerPlaces
          BY <2>3, <3>2, <4>1 DEF WorkerPlaces
        <5> HIDE DEF outcome, cleanup
        <5>2. /\ worker'[id].at = "reap"
              /\ worker'[id].result.cleanup = cleanup
              /\ worker'[id].result \in Result
          BY <5>1, Decides
        <5> QED BY <5>2 DEF cleanup
      <4> QED BY <4>1, <4>2, <4>3
    <3> QED BY <1>13, <3>1, <3>2 DEF StopGroup
  <2>5. Coherent'
    BY <1>1, <1>3, <2>1, <2>2, <2>4 DEF Working, Finished, Unfinished
  <2> QED BY <1>2, <1>3, <2>1, <2>2, <2>5
<1>14. CASE Reap(id)
  <2>1. worker[id].at = "reap" /\ UNCHANGED <<slot, row, group, finishing>>
    BY <1>14 DEF Reap
  <2>2. worker'[id].at = "finish" /\ worker'[id].result = worker[id].result
    BY <1>14, Gos DEF Reap, WorkerPlaces
  <2>3. Coherent'
    BY <1>1, <1>3, <2>1, <2>2 DEF Working, Finished, Unfinished
  <2> QED BY <1>2, <1>3, <2>1, <2>3
<1>15. CASE WorkerFinish(id)
  <2>1. worker[id].at = "finish" /\ UNCHANGED <<row, group>>
    BY <1>15 DEF WorkerFinish
  <2>2. worker'[id].at = "done"
    BY <1>4, <1>15, Gos DEF WorkerFinish
  <2>3. \A f \in finishing' : f.id = id =>
          /\ worker[id].result.cleanup = "complete" <=> f.result.cleanup = "complete"
          /\ f.next = {}
    BY <1>0, <1>1, <2>2 DEF Joins, Ended
  <2>4. ~Picked(id)'
    BY <1>0, <1>1 DEF Joins, Picked
  <2> QED BY <1>0, <1>1, <1>3, <2>1, <2>2, <2>3, <2>4
          DEF Told, Listed, Pending, Asking, Waits, Taken, schedVars, Working, Unfinished
<1> QED BY <1>6, <1>7, <1>8, <1>9, <1>10, <1>11, <1>12, <1>13, <1>14, <1>15 DEF WorkerStep

(***************************************************************************)
(* Every step keeps what is said of a run. A step of a thread concerns the *)
(* run it has in hand, and Sole says that nobody else has that one.        *)
(***************************************************************************)
LEMMA ToldStep ==
  ASSUME SupInv, SupNext
  PROVE  \A id \in RunId : Told(id)'
<1>0. /\ TypeOK /\ OnePlace /\ OneEach /\ Quiet
      /\ \A id \in RunId : Sole(id)
      /\ \A id \in RunId : Told(id)
      /\ slot \in [RunId -> SlotRecord]
      /\ row \in [RunId -> RowRecord]
      /\ group \in [RunId -> SUBSET Process]
      /\ starter \in [RunId -> {"idle", "inserted", "registered", "admitted",
                                "rejected", "done"}]
      /\ worker \in [RunId -> WorkerRecord]
      /\ finishing \subseteq FinishRecord
      /\ canceller \in [Canceller -> CancelRecord]
      /\ registry \subseteq RunId /\ expired \subseteq RunId
  BY TypeMeans DEF SupInv
<1>1. ASSUME NEW j \in RunId,
             UNCHANGED <<slot, row, group, worker>>,
             starter'[j] = "idle" <=> starter[j] = "idle",
             Pending(j)' => Pending(j) \/ Working(j),
             Pending(j)' => Pending(j),
             Listed(j)' => j \in registry',
             \A g \in finishing' : g.id = j =>
               \E f \in finishing : /\ f.id = j /\ f.result = g.result
                                    /\ g.at = "store" => f.at = "store"
      PROVE  Told(j)'
  BY <1>0, <1>1 DEF Told, Working, Unfinished, Finished
<1>2. ASSUME UNCHANGED <<slot, row, group, worker, starter, registry, finishing>>,
             \A j \in RunId : \/ Waits(j)' \/ j \in expired' \/ Taken(j)'
                              => Waits(j) \/ j \in expired \/ Taken(j),
             \A j \in RunId : Waits(j)' \/ j \in expired' => Waits(j) \/ j \in expired
      PROVE  \A j \in RunId : Told(j)'
  BY <1>0, <1>1, <1>2 DEF Pending, Listed, Picked, Working, Told
<1>3. ASSUME NEW id \in RunId, Insert(id)
      PROVE  \A j \in RunId : Told(j)'
  <2> DEFINE r == [NoRow EXCEPT !.state = "queued"]
  <2>1. r \in RowRecord /\ r.state = "queued" /\ r.revision = 0
    BY DEF NoRow, RowRecord, SlotStates
  <2>2. row' = [row EXCEPT ![id] = r]
    BY <1>3 DEF Insert
  <2> HIDE DEF r
  <2>3. /\ starter[id] = "idle"
        /\ starter' = [starter EXCEPT ![id] = "inserted"]
        /\ UNCHANGED <<schedVars, slot, registry, group, worker, finishing, canceller,
                       expired>>
    BY <1>3 DEF Insert, At
  <2> QED BY <1>0, <2>1, <2>2, <2>3
          DEF Told, Sole, Listed, Pending, Asking, Waits, Picked, Taken, Ended, schedVars,
              Working, Unfinished, Finished
<1>4. ASSUME NEW id \in RunId, Register(id) \/ CreatedFails(id)
      PROVE  \A j \in RunId : Told(j)'
  BY <1>0, <1>4 DEF Register, CreatedFails, At, Told, Listed, Pending, Asking, Waits,
                    Picked, Taken, schedVars, Working, Unfinished, Finished
<1>5. ASSUME NEW id \in RunId, Admit(id)
      PROVE  \A j \in RunId : Told(j)'
  <2>1. InQueue(sched') \subseteq InQueue(sched) \cup {id}
    BY <1>0, <1>5, SubmitIds DEF Admit
  <2>2. /\ starter[id] = "registered"
        /\ starter' = [starter EXCEPT ![id] = CASE id \in InSlot(sched')  -> "admitted"
                                                [] id \in InQueue(sched') -> "done"
                                                [] OTHER                  -> "rejected"]
        /\ UNCHANGED <<slot, registry, row, group, worker, finishing, canceller, expired>>
    BY <1>5 DEF Admit, InSlot, InQueue
  <2>3. starter'[id] \in {"admitted", "done", "rejected"} /\ Pending(id) /\ Listed(id)
    BY <1>0, <2>2 DEF Pending, Listed, Asking
  <2>4. \A j \in RunId : /\ Pending(j)' => Pending(j)
                         /\ Listed(j)' => Listed(j)
                         /\ starter'[j] = "idle" <=> starter[j] = "idle"
    BY <1>0, <2>1, <2>2, <2>3 DEF Pending, Listed, Asking, Waits, Picked, Taken, Working
  <2> QED BY <1>0, <1>1, <2>2, <2>4 DEF Told
<1>6. ASSUME NEW id \in RunId, StartAdmitted(id)
      PROVE  \A j \in RunId : Told(j)'
  BY <1>0, <1>6 DEF StartAdmitted, At, SpawnWorker, Go, WorkerRecord, Told, Sole, Listed,
                    Pending, Asking, Waits, Picked, Taken, schedVars, Working, Unfinished,
                    Finished
<1>7. ASSUME NEW id \in RunId, Reject(id)
      PROVE  \A j \in RunId : Told(j)'
  BY <1>0, <1>7 DEF Reject, At, Finish, Enter, Ending, SlotRecord, Told, Sole, Listed,
                    Pending, Asking, Waits, Picked, Taken, schedVars, Working, Unfinished,
                    Finished
<1>8. ASSUME NEW id \in RunId, WorkerStep(id)
      PROVE  \A j \in RunId : Told(j)'
  <2>1. /\ Own(id)
        /\ UNCHANGED <<schedVars, mode, stops, registry, starter, canceller, expired>>
        /\ UNCHANGED finishing \/ \E e : Joins(id, e)
    BY <1>8, WorkerOwns
  <2>2. ASSUME NEW j \in RunId, j # id
        PROVE  Told(j)'
    <3>1. /\ slot'[j] = slot[j] /\ row'[j] = row[j] /\ group'[j] = group[j]
          /\ worker'[j] = worker[j]
      BY <1>0, <2>1, <2>2 DEF Own, PutsSlot, PutsRow, PutsGroup, PutsWorker
    <3>2. \A f \in finishing' : f \in finishing \/ (f.id = id /\ f.next = {})
      BY <2>1 DEF Joins
    <3> QED BY <1>0, <2>1, <2>2, <3>1, <3>2
            DEF Told, Listed, Pending, Waits, Picked, Taken, schedVars, Working,
                Unfinished, Finished
  <2> QED BY <1>8, <2>2, WorkerTold
<1>9. ASSUME NEW id \in RunId, Sample(id) \/ Fork(id) \/ Exit(id)
      PROVE  \A j \in RunId : Told(j)'
  <2>1. ASSUME Sample(id)
        PROVE  \A j \in RunId : Told(j)'
    BY <1>0, <2>1 DEF Sample, RowRecord, Told, Sole, Listed, Pending, Asking, Waits, Picked,
                      Taken, schedVars, Working, Unfinished, Finished
  <2>2. ASSUME Fork(id) \/ Exit(id)
        PROVE  \A j \in RunId : Told(j)'
    <3>1. \A j \in RunId : group[j] = {} => group'[j] = {}
      BY <1>0, <2>2 DEF Fork, Exit
    <3>2. UNCHANGED <<schedVars, mode, slot, registry, row, starter, worker, finishing,
                      canceller, expired>>
      BY <2>2 DEF Fork, Exit
    <3> QED BY <1>0, <3>1, <3>2 DEF Told, Listed, Pending, Waits, Picked, Taken, schedVars,
                                    Working, Unfinished, Finished
  <2> QED BY <1>9, <2>1, <2>2
<1>10. ASSUME NEW id \in RunId, FinishExpired(id)
       PROVE  \A j \in RunId : Told(j)'
  BY <1>0, <1>10 DEF FinishExpired, Finish, Enter, Ending, SlotRecord, Told, Sole, Listed,
                     Pending, Asking, Waits, Picked, Taken, schedVars, Working,
                     Unfinished, Finished
<1>11. ASSUME NEW id \in RunId, Recover(id)
       PROVE  \A j \in RunId : Told(j)'
  <2>1. /\ PutsRow(id) /\ PutsGroup(id)
        /\ row[id].state # "absent" /\ row'[id].state = "finished"
        /\ group'[id] \subseteq group[id]
    BY <1>11, RecoverPuts
  <2>2. /\ ~Serving
        /\ UNCHANGED <<schedVars, slot, registry, starter, worker, finishing, canceller,
                       expired>>
    BY <1>11 DEF Recover, Serving
  <2>3. /\ starter[id] \in {"idle", "done"} /\ worker[id].at = "none"
        /\ finishing = {} /\ expired = {} /\ InQueue(sched) = {}
        /\ \A c \in Canceller : canceller[c].at = "idle"
    BY <1>0, <2>2 DEF Quiet, NoWorker, NotCancelling, InQueue, Ids, Waiting
  <2>4. starter[id] = "done"
    BY <1>0, <2>1, <2>3 DEF Told, NoRow
  <2>5. \A j \in RunId \ {id} : row'[j] = row[j] /\ group'[j] = group[j]
    BY <1>0, <2>1 DEF PutsRow, PutsGroup
  <2>6. ~Pending(id)' /\ ~Working(id)'
    BY <2>2, <2>3, <2>4 DEF Pending, Asking, Waits, Picked, Taken, schedVars, Working
  <2>7. Told(id)'
    BY <2>1, <2>2, <2>3, <2>4, <2>6 DEF Told, Listed, Waits, Picked, schedVars, Working
  <2>8. \A j \in RunId \ {id} : Told(j)'
    BY <1>0, <2>2, <2>5 DEF Told, Listed, Pending, Waits, Picked, Taken, schedVars, Working,
                            Unfinished, Finished
  <2> QED BY <2>7, <2>8
<1>12. ASSUME NEW f \in finishing, FinishStore(f)
       PROVE  \A j \in RunId : Told(j)'
  <2>1. PICK g : Moves(f, g) /\ g.at = "registry" /\ g.next = f.next
    BY <1>12, FinishMoves
  <2>2. /\ f.id \in RunId
        /\ UNCHANGED <<schedVars, slot, registry, group, starter, worker, canceller, expired>>
    BY <1>0, <1>12 DEF FinishRecord, FinishStore
  <2>3. /\ PutsRow(f.id)
        /\ UNCHANGED row \/ row'[f.id].state = "finished"
    BY <1>12, StorePuts
  <2>4. /\ starter[f.id] = "done" /\ ~Pending(f.id) /\ ~Working(f.id)
    BY <1>0, <2>2 DEF Sole, Ended, Pending, Asking, Working
  <2>5. \A j : Pending(j)' <=> Pending(j)
    BY <2>1, <2>2 DEF Moves, Pending, Waits, Picked, Taken, schedVars
  <2>6. \A j : Listed(j)' <=> Listed(j)
    BY <2>1, <2>2 DEF Moves, Listed, Waits, Picked, schedVars, Working
  <2>7. \A h \in finishing' : h.id = f.id => h.at # "store" /\ h.result = f.result
    BY <1>0, <2>1 DEF Moves, OneEach
  <2>8. Told(f.id)'
    BY <1>0, <2>2, <2>3, <2>4, <2>5, <2>6, <2>7 DEF Told, Working
  <2>9. \A j \in RunId \ {f.id} : row'[j] = row[j]
    BY <1>0, <2>3 DEF PutsRow
  <2>10. \A j \in RunId \ {f.id} : Told(j)'
    BY <1>0, <2>1, <2>2, <2>5, <2>6, <2>9 DEF Moves, Told, Working, Unfinished, Finished
  <2> QED BY <2>8, <2>10
<1>13. ASSUME NEW f \in finishing, FinishRegistry(f)
       PROVE  \A j \in RunId : Told(j)'
  <2>1. PICK g : Moves(f, g) /\ g.at = "release" /\ g.next = f.next
    BY <1>13, FinishMoves
  <2>2. /\ registry' = registry \ {f.id}
        /\ UNCHANGED <<schedVars, slot, row, group, starter, worker, canceller, expired>>
    BY <1>13 DEF FinishRegistry
  <2>3. \A j : Pending(j)' <=> Pending(j)
    BY <2>1, <2>2 DEF Moves, Pending, Waits, Picked, Taken, schedVars
  <2>4. \A j : Listed(j)' <=> Listed(j)
    BY <2>1, <2>2 DEF Moves, Listed, Waits, Picked, schedVars, Working
  <2>5. f.id \in RunId => ~Listed(f.id)
    BY <1>0 DEF Sole, Ended, Listed
  <2> QED BY <1>0, <1>1, <2>1, <2>2, <2>3, <2>4, <2>5 DEF Moves, Told
<1>14. ASSUME NEW f \in finishing, FinishRelease(f)
       PROVE  \A j \in RunId : Told(j)'
  <2>1. f.id \in RunId /\ Holds(f) \in BOOLEAN /\ Release(f.id, Holds(f))
    BY <1>0, <1>14 DEF FinishRecord, Holds, FinishRelease
  <2>2. InSlot(sched') \cup InQueue(sched') \subseteq InSlot(sched) \cup InQueue(sched)
    BY <1>0, <2>1, ReleaseIds
  <2>3. Newly = InSlot(sched') \ InSlot(sched)
    BY DEF Newly, InSlot
  <2>4. InSlot(sched) \ {f.id} \subseteq InSlot(sched')
    BY <1>0, <2>1, ReleaseIds
  <2>5. OnePlace'
    BY SchedulerKeeps
  <2>6. InSlot(sched') \cap InQueue(sched') = {}
    BY <2>5 DEF OnePlace, Separate, InSlot, InQueue, Ids
  <2>7. f.id \notin InQueue(sched')
    <3>1. f.id \notin InQueue(sched)
      BY <1>0, <2>1 DEF Sole, Ended, Waits
    <3> QED BY <1>0, <2>1, <2>2, <3>1, ReleaseIds
  <2>8. \A j \in RunId : (Waits(j)' => Waits(j)) /\ (j \in Newly => Waits(j))
    BY <2>2, <2>3, <2>4, <2>6, <2>7 DEF Waits
  <2>9. Newly \in SUBSET RunId
    <3>1. sched'.running \in SUBSET Running
      BY SchedulerKeeps DEF TypeOK
    <3> QED BY <3>1 DEF Newly, Ids, Running
  <2>10. PICK g : Moves(f, g) /\ g.next = Newly /\ g.at = "spawn"
    BY <1>14, <2>9, FinishMoves
  <2>11. UNCHANGED <<slot, registry, row, group, starter, worker, canceller, expired>>
    BY <1>14 DEF FinishRelease
  <2>12. \A j \in RunId : Picked(j)' => Picked(j) \/ Waits(j)
    BY <2>8, <2>10 DEF Moves, Picked
  <2>13. \A j \in RunId : (Pending(j)' => Pending(j)) /\ (Listed(j)' => Listed(j))
    BY <2>8, <2>11, <2>12 DEF Pending, Listed, Taken, Working
  <2> QED BY <1>0, <1>1, <2>10, <2>11, <2>13 DEF Moves, Told
<1>15. ASSUME NEW f \in finishing, FinishSpawn(f)
       PROVE  \A j \in RunId : Told(j)'
  <2>1. UNCHANGED <<schedVars, slot, registry, row, group, starter, canceller, expired>>
    BY <1>15 DEF FinishSpawn
  <2>2. CASE finishing' = finishing \ {f} /\ UNCHANGED worker
    <3>1. \A j \in RunId : (Pending(j)' => Pending(j)) /\ (Listed(j)' => Listed(j))
      BY <2>1, <2>2 DEF Pending, Listed, Waits, Picked, Taken, schedVars, Working
    <3> QED BY <1>0, <1>1, <2>1, <2>2, <3>1 DEF Told
  <2>3. ASSUME NEW id \in f.next, Moved(f, [f EXCEPT !.next = @ \ {id}]),
               UNCHANGED worker \/ Go(id, "starting")
        PROVE  \A j \in RunId : Told(j)'
    <3>1. id \in RunId /\ Picked(id)
      BY <1>0 DEF FinishRecord, Picked
    <3>2. PICK g : Moves(f, g) /\ g.at = f.at /\ g.next = f.next \ {id}
      BY <2>3, FinishMoves
    <3>3. \A j : Picked(j)' => Picked(j)
      BY <3>2 DEF Moves, Picked
    <3>4. CASE UNCHANGED worker
      <4>1. \A j \in RunId : (Pending(j)' => Pending(j)) /\ (Listed(j)' => Listed(j))
        BY <2>1, <3>3, <3>4 DEF Pending, Listed, Waits, Taken, schedVars, Working
      <4> QED BY <1>0, <1>1, <2>1, <3>2, <3>4, <4>1 DEF Moves, Told
    <3>5. CASE Go(id, "starting")
      <4>1. /\ worker'[id].at = "starting"
            /\ \A j \in RunId \ {id} : worker'[j] = worker[j]
        <5>1. "starting" \in WorkerPlaces
          BY DEF WorkerPlaces
        <5> QED BY <1>0, <3>1, <3>5, <5>1, Gos DEF PutsWorker
      <4>2. \A j \in RunId \ {id} : (Pending(j)' => Pending(j)) /\ (Listed(j)' => Listed(j))
        BY <2>1, <3>3, <4>1 DEF Pending, Listed, Waits, Taken, schedVars, Working
      <4>3. \A h \in finishing' :
              \E k \in finishing : h.id = k.id /\ h.result = k.result /\ h.at = k.at
        BY <3>2 DEF Moves
      <4>4. \A j \in RunId \ {id} : Told(j)'
        BY <1>0, <2>1, <4>1, <4>2, <4>3 DEF Told, Working, Unfinished, Finished
      <4>5. /\ Pending(id) /\ Listed(id) /\ starter[id] = "done"
            /\ worker[id].at # "launch"
        BY <1>0, <3>1 DEF Sole, Pending, Listed, Working
      <4>6. Told(id)'
        BY <1>0, <2>1, <3>1, <4>1, <4>3, <4>5 DEF Told, Working, Unfinished, Finished
      <4> QED BY <4>4, <4>6
    <3> QED BY <2>3, <3>4, <3>5
  <2> QED BY <1>15, <2>2, <2>3 DEF FinishSpawn, SpawnWorker
<1>16. ASSUME NEW c \in Canceller, Asks(c), ~CancelFinish(c), ~CancelFlag(c)
       PROVE  \A j \in RunId : Told(j)'
  <2>1. PICK r : Goes(c, r)
    BY <1>16, CancelGoes
  <2>2. UNCHANGED <<schedVars, slot, registry, row, group, starter, worker, finishing, expired>>
    BY <1>16 DEF Asks, CancelRequest, CancelLoad, CancelLook, CancelNext
  <2>3. \A j : Taken(j)' => Taken(j)
    BY <1>0, <2>1 DEF Goes, Taken
  <2> QED BY <1>2, <2>2, <2>3 DEF Waits, schedVars
<1>17. ASSUME NEW c \in Canceller, CancelFlag(c)
       PROVE  \A j \in RunId : Told(j)'
  <2>1. PICK r : Goes(c, r)
    BY <1>17, CancelGoes DEF Asks
  <2>2. UNCHANGED <<schedVars, registry, row, group, starter, worker, finishing, expired>>
    BY <1>17 DEF CancelFlag
  <2>3. \A j : Taken(j)' => Taken(j)
    BY <1>0, <2>1 DEF Goes, Taken
  <2>4. \A j \in RunId : slot'[j].state = slot[j].state
    BY <1>0, <1>17, FlagPuts DEF PutsSlot
  <2>5. \A j \in RunId : (Pending(j)' => Pending(j)) /\ (Listed(j)' <=> Listed(j))
    BY <2>2, <2>3 DEF Pending, Listed, Waits, Picked, schedVars, Working
  <2> QED BY <1>0, <2>2, <2>4, <2>5 DEF Told, Working, Unfinished, Finished
<1>18. ASSUME NEW c \in Canceller, CancelFinish(c)
       PROVE  \A j \in RunId : Told(j)'
  BY <1>0, <1>18 DEF CancelFinish, Here, CancelDone, NotCancelling, Finish, Enter, Ending,
                     CancelRecord, SlotRecord, OneEach, Told, Sole, Listed, Pending, Asking,
                     Waits, Picked, Taken, schedVars, Working, Unfinished, Finished
<1>19. ASSUME NEW c \in Canceller, CancelDequeue(c)
       PROVE  \A j \in RunId : Told(j)'
  <2> DEFINE id == canceller[c].id
  <2>1. sched' = [sched EXCEPT !.queue = Without(@, {id})]
    BY <1>19 DEF CancelDequeue, CancelQueued
  <2>2. InQueue(sched') = InQueue(sched) \ {id}
    BY <1>0, <2>1, RemovalIds
  <2>3. /\ canceller' = [canceller EXCEPT ![c].at =
                           IF id \in InQueue(sched) THEN "dequeued" ELSE "flag"]
        /\ UNCHANGED <<slot, row, group, worker, starter, registry, finishing, expired>>
    BY <1>19 DEF CancelDequeue, CancelGo, InQueue
  <2>4. \A j : Taken(j)' => Taken(j) \/ (j = id /\ Waits(j))
    BY <1>0, <2>3 DEF CancelRecord, Taken, Waits
  <2> QED BY <1>2, <2>2, <2>3, <2>4 DEF Waits
<1>20. CASE QueueTick
  <2> DEFINE late == Ids(Overdue(sched, now))
  <2>1. sched' = [sched EXCEPT !.queue = Without(@, late)]
    BY <1>20 DEF QueueTick, Expire
  <2>2. InQueue(sched') = InQueue(sched) \ late
    BY <1>0, <2>1, RemovalIds
  <2>3. late \subseteq InQueue(sched)
    BY DEF Overdue, InQueue, Ids
  <2>4. /\ expired' = late
        /\ UNCHANGED <<slot, row, group, worker, starter, registry, finishing, canceller>>
    BY <1>20 DEF QueueTick
  <2> HIDE DEF late
  <2> QED BY <1>2, <2>2, <2>3, <2>4 DEF Waits, Taken
<1>21. CASE SupSetLimits \/ Clock
  <2>1. UNCHANGED <<slot, registry, row, group, starter, worker, finishing, canceller, expired>>
    BY <1>21 DEF SupSetLimits, Clock, supVars
  <2>2. sched'.queue = sched.queue
    BY <1>0, <1>21 DEF SupSetLimits, SetLimits, Clock, Tick, WallStep, TypeOK
  <2> QED BY <1>2, <2>1, <2>2 DEF Waits, InQueue, Waiting, Taken
<1>22. CASE Stop
  <2>1. /\ starter' = [id \in RunId |-> IF starter[id] = "idle" THEN "idle" ELSE "done"]
        /\ worker' = [id \in RunId |-> NoWorker]
        /\ slot' = [id \in RunId |-> FreshSlot]
        /\ finishing' = {} /\ expired' = {}
        /\ canceller' = [c \in Canceller |-> NotCancelling]
        /\ UNCHANGED <<row, group>>
    BY <1>22 DEF Stop
  <2>2. InQueue(sched') = {}
    BY <1>22, StopEmpties
  <2> QED BY <1>0, <2>1, <2>2
          DEF NoWorker, NotCancelling, FreshSlot, Told, Listed, Pending, Asking, Waits,
              Picked, Taken, Working, Finished
<1>23. CASE Drain
  <2>1. \A j : Taken(j)' <=> Taken(j)
    BY <1>0, <1>23 DEF Drain, CancelRecord, Taken
  <2>2. UNCHANGED <<sched, slot, row, group, starter, worker, registry, finishing, expired>>
    BY <1>23 DEF Drain, schedVars
  <2> QED BY <1>2, <2>1, <2>2 DEF Waits
<1>24. CASE Reboot
  <2>1. UNCHANGED <<schedVars, slot, registry, starter, worker, finishing, canceller, expired>>
    BY <1>24 DEF Reboot
  <2>2. \A j \in RunId :
          /\ group'[j] = {}
          /\ row'[j].state = row[j].state /\ row'[j].revision = row[j].revision
          /\ row[j] = NoRow => row'[j] = NoRow
    <3>1. ASSUME NEW j \in RunId
          PROVE  /\ group'[j] = {}
                 /\ row'[j] = [row[j] EXCEPT
                       !.leader = IF @ = "this_boot" THEN "earlier_boot" ELSE @]
      BY <1>24 DEF Reboot
    <3>2. \A j \in RunId : row'[j].state = row[j].state /\ row'[j].revision = row[j].revision
      BY <1>0, <3>1 DEF RowRecord
    <3>3. [NoRow EXCEPT !.leader = IF @ = "this_boot" THEN "earlier_boot" ELSE @] = NoRow
      BY DEF NoRow
    <3>4. ASSUME NEW j \in RunId, row[j] = NoRow
          PROVE  row'[j] = NoRow
      BY <3>1, <3>3, <3>4
    <3> QED BY <3>1, <3>2, <3>4
  <2>3. \A j \in RunId : (Pending(j)' <=> Pending(j)) /\ (Listed(j)' <=> Listed(j))
    BY <2>1 DEF Pending, Listed, Waits, Picked, Taken, schedVars, Working
  <2> QED BY <1>0, <2>1, <2>2, <2>3 DEF Told, Working, Unfinished, Finished
<1>25. CASE Restart \/ RecoverFails \/ Serve
  <2>1. UNCHANGED <<schedVars, slot, registry, row, group, starter, worker, finishing,
                    canceller, expired>>
    BY <1>25 DEF Restart, RecoverFails, Serve
  <2> QED BY <1>2, <2>1 DEF Waits, Taken, schedVars
<1> QED
  BY <1>3, <1>4, <1>5, <1>6, <1>7, <1>8, <1>9, <1>10, <1>11, <1>12, <1>13, <1>14,
     <1>15, <1>16, <1>17, <1>18, <1>19, <1>20, <1>21, <1>22, <1>23, <1>24, <1>25
  DEF SupNext, StarterStep, FinishStep, CancelStep, Asks, Canceller, Crash,
      LeaveIdle, LeaveDrained, LeaveAnyway

\* The invariant is inductive: every step of the supervisor keeps it.
LEMMA SupInvStep == SupInv /\ [SupNext]_vars => SupInv'
<1>1. ASSUME SupInv, SupNext
      PROVE  SupInv'
  BY <1>1, SupTypeStep, SchedulerKeeps, QuietStep, OneEachStep, SoleStep, ToldStep DEF SupInv
<1>2. ASSUME SupInv, UNCHANGED vars
      PROVE  SupInv'
  <2>1. /\ UNCHANGED <<sched, mono, now, mode, stops, slot, registry, row, group, starter>>
        /\ UNCHANGED <<worker, finishing, canceller, expired>>
    BY <1>2 DEF vars, supVars
  <2>2. SupTypeOK' /\ OnePlace' /\ Quiet' /\ OneEach'
    BY <1>2, <2>1 DEF SupInv, SupTypeOK, TypeOK, OnePlace, Quiet, OneEach, Serving
  <2>3. \A id \in RunId : Sole(id)'
    BY <1>2, <2>1 DEF SupInv, Sole, Runs, Waits, Picked, Taken, Ended, Working
  <2>4. \A id \in RunId : Told(id)'
    BY <1>2, <2>1 DEF SupInv, Told, Listed, Pending, Waits, Picked, Taken, Working, Unfinished,
                      Finished
  <2> QED BY <2>2, <2>3, <2>4 DEF SupInv
<1> QED BY <1>1, <1>2

\* It holds in the initial states.
LEMMA SupInvInit == SupInit => SupInv
<1> SUFFICES ASSUME SupInit PROVE SupInv
  OBVIOUS
<1>1. /\ TypeOK /\ OnePlace
      /\ InQueue(sched) = {} /\ InSlot(sched) = {} /\ sched.queue = << >>
  BY SchedulerAssumption DEF SupInit, Init, TypeOK, OnePlace, Separate, InQueue, InSlot, Ids,
                             Waiting
<1>2. /\ mode = "up" /\ stops = 0 /\ registry = {} /\ finishing = {} /\ expired = {}
      /\ slot = [id \in RunId |-> FreshSlot] /\ row = [id \in RunId |-> NoRow]
      /\ group = [id \in RunId |-> {}] /\ starter = [id \in RunId |-> "idle"]
      /\ worker = [id \in RunId |-> NoWorker]
      /\ canceller = [c \in Canceller |-> NotCancelling]
  BY DEF SupInit
<1>3. SupTypeOK
  <2>1. /\ FreshSlot \in SlotRecord /\ NoWorker \in WorkerRecord
        /\ NotCancelling \in CancelRecord /\ NoRow \in RowRecord
    BY DEF FreshSlot, SlotRecord, SlotStates, NoWorker, WorkerRecord, WorkerPlaces,
           NotCancelling, CancelRecord, NoRow, RowRecord
  <2> QED BY <1>1, <1>2, <2>1, TypeMeans, SupervisorAssumption
<1>4. Quiet /\ OneEach
  BY <1>2 DEF Quiet, Serving, OneEach, NotCancelling
<1>5. \A id \in RunId : Sole(id) /\ Told(id)
  BY <1>1, <1>2 DEF Sole, Told, Listed, Pending, Asking, Runs, Waits, Picked, Taken, Ended,
                    Working, Finished, Unfinished, NoWorker, NotCancelling, FreshSlot
<1> QED BY <1>1, <1>3, <1>4, <1>5 DEF SupInv

(***************************************************************************)
(* The inductive invariant holds in every state the supervisor reaches.    *)
(***************************************************************************)
LEMMA SupInvAlways == SupSpec => []SupInv
BY SupInvInit, SupInvStep, PTL DEF SupSpec

-----------------------------------------------------------------------------
(* Without faults nothing is lost on the way between the threads.          *)

\* Someone who holds the slot of the run will give it back.
Placed(id) == Admitted(id) \/ Working(id) \/ Ends(id)

\* Someone will finish the run.
InCare(id) ==
  \/ starter[id] \in {"inserted", "registered", "rejected"}
  \/ Waits(id) \/ Dequeued(id) \/ Placed(id)

(***************************************************************************)
(* While nothing fails, a slot has a thread that will free it and an       *)
(* unfinished row has one that will finish it. A failed write or a thread  *)
(* that cannot be started does break this: the worker that gives up        *)
(* returns without `finish`, and its slot and its row stay.                *)
(***************************************************************************)
Cared(id) ==
  /\ Runs(id) => Placed(id)
  /\ Serving /\ Unfinished(id) => InCare(id)
  /\ \A f \in finishing : f.id = id /\ f.at # "store" => ~Unfinished(id)

\* Without faults a worker stops working only by calling `finish`.
LEMMA WorkerStays ==
  ASSUME Faults = {}, SupInv, NEW id \in RunId, WorkerStep(id)
  PROVE  Working(id)' \/ (\E e : Joins(id, e) /\ UNCHANGED row)
<1>0. Told(id) /\ Working(id) /\ UNCHANGED <<starter>>
  BY WorkerOwns DEF SupInv
<1>1. ~Finished(id) /\ worker[id].at \in WorkerPlaces
  BY <1>0, TypeMeans DEF Told, SupInv, WorkerRecord
<1>2. ASSUME NEW at \in WorkerPlaces \ {"none", "done"},
             Go(id, at) \/ \E revision \in Nat : GoWith(id, at, revision)
      PROVE  Working(id)'
  BY <1>2, Gos DEF Working
<1>3. CASE EnterStarting(id) \/ EnterRunning(id) \/ EnterStopping(id)
  <2>1. slot[id].revision + 1 \in Nat
    BY TypeMeans DEF SupInv, SlotRecord
  <2>2. \E at \in {"save_starting", "save_running", "save_stopping"} :
          GoWith(id, at, slot[id].revision + 1)
    BY <1>1, <1>3 DEF EnterStarting, EnterRunning, EnterStopping, Transition
  <2> QED BY <1>2, <2>1, <2>2 DEF WorkerPlaces
<1>4. CASE SaveStarting(id)
  <2>1. row[id].revision = 0 /\ worker[id].revision > 0
    BY <1>0, <1>4 DEF SaveStarting, Told, Pending
  <2>2. worker[id].revision \in Nat
    BY TypeMeans DEF SupInv, WorkerRecord
  <2>3. Go(id, "launch")
    BY <1>4, <2>1, <2>2 DEF SaveStarting
  <2> QED BY <1>2, <2>3 DEF WorkerPlaces
<1>5. CASE SaveRunning(id) \/ SaveStopping(id) \/ Record(id) \/ Reap(id)
  <2>1. \E at \in {"watch", "signal", "running", "finish"} : Go(id, at)
    BY <1>5 DEF SaveRunning, SaveStopping, Save, Record, Reap
  <2> QED BY <1>2, <2>1 DEF WorkerPlaces
<1>6. CASE Launch(id) \/ Watch(id)
  <2>1. \/ Go(id, "record")
        \/ \E at \in {"stopping", "finish"},
              outcome \in {"exited", "cancelled", "timed_out", "spawn_failed"} :
              Decide(id, at, outcome, "complete")
    BY <1>6 DEF Launch, Watch
  <2>2. ASSUME NEW at \in {"stopping", "finish"},
               NEW outcome \in {"exited", "cancelled", "timed_out", "spawn_failed"},
               Decide(id, at, outcome, "complete")
        PROVE  Working(id)'
    <3>1. at \in WorkerPlaces /\ outcome \in Outcome
      BY DEF WorkerPlaces, Outcome
    <3>2. worker'[id].at = at
      BY <2>2, <3>1, Decides
    <3> QED BY <3>2 DEF Working
  <2>3. Go(id, "record") => Working(id)'
    BY <1>2 DEF WorkerPlaces
  <2> QED BY <2>1, <2>2, <2>3
<1>7. CASE StopGroup(id)
  <2>1. worker[id].result.outcome \in Outcome
    BY <1>0, <1>7 DEF StopGroup, Told, Result
  <2>2. PICK cleanup \in {"complete", "incomplete", "unknown"} :
          Decide(id, "reap", worker[id].result.outcome, cleanup)
    BY <1>7 DEF StopGroup, Cleaned
  <2>3. worker'[id].at = "reap"
    BY <2>1, <2>2, Decides DEF WorkerPlaces
  <2> QED BY <2>3 DEF Working
<1>8. CASE WorkerFinish(id)
  <2>1. ~ UNCHANGED finishing
    <3>1. ~Ended(id)
      BY <1>0 DEF SupInv, Sole
    <3>2. \E e : e.id = id /\ finishing' = finishing \cup {e}
      BY <1>1, <1>8 DEF WorkerFinish, Finish, Ending
    <3> QED BY <3>1, <3>2 DEF Ended
  <2> QED BY <1>8, <2>1, WorkerOwns DEF WorkerFinish
<1> QED BY <1>3, <1>4, <1>5, <1>6, <1>7, <1>8 DEF WorkerStep

\* Without faults every step leaves every slot and every open row with its
\* thread.
LEMMA CaredStep ==
  ASSUME Faults = {}, SupInv, \A id \in RunId : Cared(id), SupNext
  PROVE  \A id \in RunId : Cared(id)'
<1>0. /\ TypeOK /\ OnePlace /\ OneEach /\ Quiet
      /\ \A id \in RunId : Sole(id)
      /\ \A id \in RunId : Told(id)
      /\ slot \in [RunId -> SlotRecord]
      /\ row \in [RunId -> RowRecord]
      /\ starter \in [RunId -> {"idle", "inserted", "registered", "admitted",
                                "rejected", "done"}]
      /\ worker \in [RunId -> WorkerRecord]
      /\ finishing \subseteq FinishRecord
      /\ canceller \in [Canceller -> CancelRecord]
      /\ registry \subseteq RunId /\ expired \subseteq RunId
  BY TypeMeans DEF SupInv
<1> USE DEF Placed, InCare, Admitted
<1>1. ASSUME UNCHANGED <<row, starter, worker, finishing>>, Serving' => Serving,
             \A j \in RunId : Runs(j)' => Runs(j),
             \A j \in RunId : Waits(j) \/ Dequeued(j) => Waits(j)' \/ Dequeued(j)'
      PROVE  \A j \in RunId : Cared(j)'
  BY <1>1 DEF Cared, Working, Ends, Unfinished
<1>2. ASSUME NEW id \in RunId, Insert(id)
      PROVE  \A j \in RunId : Cared(j)'
  <2> DEFINE r == [NoRow EXCEPT !.state = "queued"]
  <2>1. row' = [row EXCEPT ![id] = r]
    BY <1>2 DEF Insert
  <2> HIDE DEF r
  <2>2. /\ starter[id] = "idle" /\ starter' = [starter EXCEPT ![id] = "inserted"]
        /\ UNCHANGED <<schedVars, mode, worker, finishing, canceller, expired>>
    BY <1>2 DEF Insert, At
  <2>3. /\ starter'[id] = "inserted" /\ ~Runs(id) /\ ~Ended(id)
        /\ \A j \in RunId \ {id} : row'[j] = row[j] /\ starter'[j] = starter[j]
    BY <1>0, <2>1, <2>2 DEF Sole
  <2>4. \A j \in RunId \ {id} : Cared(j)'
    BY <2>2, <2>3 DEF Cared, Runs, Waits, Dequeued, Working, Ends, Unfinished, Serving,
                      schedVars
  <2>5. Cared(id)'
    BY <2>2, <2>3 DEF Cared, Runs, Ended, schedVars
  <2> QED BY <2>4, <2>5
<1>3. ASSUME NEW id \in RunId, Register(id) \/ CreatedFails(id)
      PROVE  \A j \in RunId : Cared(j)'
  BY <1>0, <1>3 DEF Register, CreatedFails, At, Cared, Runs, Waits, Dequeued, Working, Ends,
                    Unfinished, Serving, schedVars
<1>4. ASSUME NEW id \in RunId, Admit(id)
      PROVE  \A j \in RunId : Cared(j)'
  <2>1. /\ InSlot(sched') \subseteq InSlot(sched) \cup {id}
        /\ InQueue(sched) \subseteq InQueue(sched')
    BY <1>0, <1>4, SubmitIds DEF Admit
  <2>2. /\ starter[id] = "registered"
        /\ starter' = [starter EXCEPT ![id] = CASE id \in InSlot(sched')  -> "admitted"
                                                [] id \in InQueue(sched') -> "done"
                                                [] OTHER                  -> "rejected"]
        /\ UNCHANGED <<mode, row, worker, finishing, canceller, expired>>
    BY <1>4 DEF Admit, InSlot, InQueue
  <2>3. \/ starter'[id] = "admitted"
        \/ starter'[id] = "done" /\ Waits(id)' /\ ~Runs(id)'
        \/ starter'[id] = "rejected" /\ ~Runs(id)'
    <3>1. CASE id \in InSlot(sched')
      <4>1. OnePlace'
        BY SchedulerKeeps
      <4>2. id \notin InQueue(sched')
        BY <3>1, <4>1 DEF OnePlace, Separate, InSlot, InQueue, Ids
      <4> QED BY <1>0, <2>2, <3>1, <4>2
    <3>2. CASE id \notin InSlot(sched') /\ id \in InQueue(sched')
      <4>1. starter'[id] = "done"
        BY <1>0, <2>2, <3>2
      <4> QED BY <3>2, <4>1 DEF Waits, Runs
    <3>3. CASE id \notin InSlot(sched') /\ id \notin InQueue(sched')
      <4>1. starter'[id] = "rejected"
        BY <1>0, <2>2, <3>3
      <4> QED BY <3>3, <4>1 DEF Runs
    <3> QED BY <3>1, <3>2, <3>3
  <2>4. ~Ended(id) /\ \A j \in RunId \ {id} : starter'[j] = starter[j]
    BY <1>0, <2>2 DEF Sole
  <2>5. Cared(id)'
    BY <2>2, <2>3, <2>4 DEF Cared, Ended
  <2>6. \A j \in RunId \ {id} : Cared(j)'
    BY <2>1, <2>2, <2>4 DEF Cared, Runs, Waits, Dequeued, Working, Ends, Unfinished, Serving
  <2> QED BY <2>5, <2>6
<1>5. ASSUME NEW id \in RunId, StartAdmitted(id)
      PROVE  \A j \in RunId : Cared(j)'
  <2>1. /\ Go(id, "starting") /\ At(id, "admitted", "done")
        /\ UNCHANGED <<schedVars, mode, row, finishing, canceller, expired>>
    BY <1>5 DEF StartAdmitted, SpawnWorker
  <2>2. worker'[id].at = "starting" /\ \A j \in RunId \ {id} : worker'[j] = worker[j]
    <3>1. "starting" \in WorkerPlaces
      BY DEF WorkerPlaces
    <3> QED BY <1>0, <2>1, <3>1, Gos DEF PutsWorker
  <2> QED BY <1>0, <2>1, <2>2 DEF At, Cared, Runs, Waits, Dequeued, Working, Ends,
                                  Unfinished, Serving, schedVars
<1>6. ASSUME NEW id \in RunId, NEW e, Joins(id, e), ~Ended(id)
      PROVE  /\ Ends(id)'
             /\ \A j \in RunId : Ends(j) => Ends(j)'
             /\ \A j : Picked(j)' <=> Picked(j)
             /\ \A f \in finishing' : f \in finishing \/ (f.id = id /\ f.at = "store")
  BY <1>6 DEF Joins, Ends, Picked
<1>7. ASSUME NEW id \in RunId, Reject(id)
      PROVE  \A j \in RunId : Cared(j)'
  <2>1. ~Finished(id) /\ ~Ended(id) /\ starter[id] = "rejected"
    BY <1>0, <1>7 DEF Reject, At, Told, Pending, Asking, Sole
  <2>2. PICK e : Joins(id, e)
    BY <1>7, <2>1, FinishJoins DEF Reject, Outcome
  <2>3. /\ starter' = [starter EXCEPT ![id] = "done"]
        /\ UNCHANGED <<schedVars, mode, row, worker, canceller, expired>>
    BY <1>7 DEF Reject, At
  <2> QED BY <1>0, <1>6, <2>1, <2>2, <2>3
          DEF Cared, Runs, Waits, Dequeued, Working, Picked, Unfinished, Serving, schedVars
<1>8. ASSUME NEW id \in RunId, WorkerStep(id)
      PROVE  \A j \in RunId : Cared(j)'
  <2>1. /\ Own(id) /\ Working(id)
        /\ UNCHANGED <<schedVars, mode, starter, canceller, expired>>
        /\ UNCHANGED finishing \/ \E e : Joins(id, e)
    BY <1>8, WorkerOwns
  <2>2. ~Ended(id)
    BY <1>0, <2>1 DEF Sole
  <2>3. \A j \in RunId \ {id} : row'[j] = row[j] /\ worker'[j] = worker[j]
    BY <1>0, <2>1 DEF Own, PutsRow, PutsWorker
  <2>4. /\ \A j \in RunId : Ends(j) => Ends(j)'
        /\ \A j : Picked(j)' <=> Picked(j)
        /\ \A f \in finishing' : f \in finishing \/ (f.id = id /\ f.at = "store")
    BY <1>6, <2>1, <2>2 DEF Ends, Picked
  <2>5. \A j \in RunId \ {id} : Cared(j)'
    BY <2>1, <2>3, <2>4 DEF Cared, Runs, Waits, Dequeued, Working, Picked, Unfinished,
                            Serving, schedVars
  <2>6. Working(id)' \/ Ends(id)'
    BY <1>6, <1>8, <2>2, WorkerStays
  <2>7. Cared(id)'
    BY <2>2, <2>4, <2>6 DEF Cared, Ended
  <2> QED BY <2>5, <2>7
<1>9. ASSUME NEW id \in RunId, Sample(id) \/ Fork(id) \/ Exit(id)
      PROVE  \A j \in RunId : Cared(j)'
  <2>1. \A j \in RunId : row'[j].state = row[j].state
    <3>1. CASE Sample(id)
      <4>1. group[id] \in SUBSET Process
        BY TypeMeans DEF SupInv
      <4> QED BY <1>0, <3>1, <4>1, Records DEF Sample, PutsRow
    <3> QED BY <1>9, <3>1 DEF Fork, Exit
  <2>2. UNCHANGED <<schedVars, mode, starter, worker, finishing, canceller, expired>>
    BY <1>9 DEF Sample, Fork, Exit
  <2> QED BY <2>1, <2>2 DEF Cared, Runs, Waits, Dequeued, Working, Ends, Unfinished,
                            Serving, schedVars
<1>10. ASSUME NEW id \in RunId, FinishExpired(id)
       PROVE  \A j \in RunId : Cared(j)'
  <2>1. ~Finished(id) /\ ~Ended(id) /\ id \in registry
    BY <1>0, <1>10 DEF FinishExpired, Told, Pending, Listed, Sole
  <2>2. PICK e : Joins(id, e)
    BY <1>10, <2>1, FinishJoins DEF FinishExpired, Outcome
  <2>3. /\ expired' = expired \ {id}
        /\ UNCHANGED <<schedVars, mode, row, starter, worker, canceller>>
    BY <1>10 DEF FinishExpired
  <2>4. \A j : Dequeued(j) => Dequeued(j)' \/ j = id
    BY <2>3 DEF Dequeued
  <2>5. /\ Ends(id)'
        /\ \A j \in RunId : Ends(j) => Ends(j)'
        /\ \A j : Picked(j)' <=> Picked(j)
        /\ \A f \in finishing' : f \in finishing \/ (f.id = id /\ f.at = "store")
    BY <1>6, <2>1, <2>2
  <2> QED BY <2>3, <2>4, <2>5
          DEF Cared, Runs, Waits, Working, Picked, Unfinished, Serving, schedVars
<1>11. ASSUME NEW id \in RunId, Recover(id)
       PROVE  \A j \in RunId : Cared(j)'
  <2>1. /\ ~Serving /\ UNCHANGED <<schedVars, mode, starter, worker, finishing>>
    BY <1>11 DEF Recover, Serving
  <2>2. finishing = {} /\ \A j \in RunId : ~Working(j)
    BY <1>0, <2>1 DEF Quiet, NoWorker, Working
  <2> QED BY <2>1, <2>2 DEF Cared, Runs, Serving, schedVars, Working, Ends
<1>12. ASSUME NEW f \in finishing, FinishStore(f)
       PROVE  \A j \in RunId : Cared(j)'
  <2>1. PICK g : Moves(f, g) /\ g.at = "registry" /\ g.next = f.next
    BY <1>12, FinishMoves
  <2>2. /\ f.at = "store" /\ f.id \in RunId
        /\ UNCHANGED <<schedVars, mode, starter, worker, canceller, expired>>
    BY <1>0, <1>12 DEF FinishRecord, FinishStore
  <2>3. ~Unfinished(f.id)' /\ \A j \in RunId \ {f.id} : row'[j] = row[j]
    BY <1>0, <1>12, <2>2, StorePuts DEF PutsRow, Unfinished
  <2>4. \A j : (Ends(j) => Ends(j)') /\ (Picked(j) => Picked(j)')
    BY <2>1 DEF Moves, Ends, Picked
  <2> QED BY <1>0, <2>1, <2>2, <2>3, <2>4
          DEF Moves, Cared, Runs, Waits, Dequeued, Working, Picked, Unfinished, Serving,
              schedVars
<1>13. ASSUME NEW f \in finishing, FinishRegistry(f)
       PROVE  \A j \in RunId : Cared(j)'
  <2>1. PICK g : Moves(f, g) /\ g.at = "release" /\ g.next = f.next
    BY <1>13, FinishMoves
  <2>2. /\ f.at = "registry"
        /\ UNCHANGED <<schedVars, mode, row, starter, worker, canceller, expired>>
    BY <1>13 DEF FinishRegistry
  <2>3. \A j : (Ends(j) => Ends(j)') /\ (Picked(j) => Picked(j)')
    BY <2>1 DEF Moves, Ends, Picked
  <2> QED BY <2>1, <2>2, <2>3
          DEF Moves, Cared, Runs, Waits, Dequeued, Working, Picked, Unfinished, Serving,
              schedVars
<1>14. ASSUME NEW f \in finishing, FinishRelease(f)
       PROVE  \A j \in RunId : Cared(j)'
  <2>1. f.id \in RunId /\ Holds(f) \in BOOLEAN /\ Release(f.id, Holds(f))
    BY <1>0, <1>14 DEF FinishRecord, Holds, FinishRelease
  <2>2. Newly = InSlot(sched') \ InSlot(sched)
    BY DEF Newly, InSlot
  <2>3. Newly \in SUBSET RunId
    <3>1. sched'.running \in SUBSET Running
      BY SchedulerKeeps DEF TypeOK
    <3> QED BY <3>1 DEF Newly, Ids, Running
  <2>4. PICK g : Moves(f, g) /\ g.at = "spawn" /\ g.next = Newly
    BY <1>14, <2>3, FinishMoves
  <2>5. /\ f.at = "release" /\ f.next = {}
        /\ UNCHANGED <<mode, row, starter, worker, canceller, expired>>
    BY <1>0, <1>14 DEF FinishRelease, OneEach
  <2>6. g \in finishing' /\ g.id = f.id
    BY <2>4 DEF Moves
  <2>7. \A j : (Picked(j)' <=> Picked(j) \/ j \in Newly)
    BY <2>4, <2>5 DEF Moves, Picked
  <2>8. \A j : j # f.id => (Ends(j) => Ends(j)')
    BY <2>4, <2>5 DEF Moves, Ends
  <2>9. \A j \in RunId : Waits(j) => Waits(j)' \/ j \in Newly
    <3>1. \A j \in RunId : j \in InQueue(sched) => j \in InSlot(sched') \cup InQueue(sched')
      BY <1>0, <2>1, ReleaseIds
    <3>2. \A j \in RunId : Waits(j) => ~Runs(j)
      BY <1>0 DEF Sole
    <3> QED BY <2>2, <3>1, <3>2 DEF Waits, Runs
  <2>10. \A j \in RunId : Runs(j)' => (Runs(j) /\ j # f.id) \/ j \in Newly
    BY <1>0, <2>1, <2>2, ReleaseIds DEF Runs
  <2>11. ~Unfinished(f.id)
    BY <2>1, <2>5 DEF Cared
  <2>12. \A j \in RunId : Dequeued(j)' <=> Dequeued(j)
    BY <2>5 DEF Dequeued
  <2>13. \A h \in finishing' : h.at # "store" => h.id = f.id \/ h \in finishing
    BY <2>4, <2>6 DEF Moves
  <2> QED BY <2>5, <2>7, <2>8, <2>9, <2>10, <2>11, <2>12, <2>13
          DEF Cared, Working, Picked, Unfinished, Serving
<1>15. ASSUME NEW f \in finishing, FinishSpawn(f)
       PROVE  \A j \in RunId : Cared(j)'
  <2>1. /\ f.at = "spawn"
        /\ UNCHANGED <<schedVars, mode, row, starter, canceller, expired>>
    BY <1>15 DEF FinishSpawn
  <2>2. CASE finishing' = finishing \ {f} /\ f.next = {} /\ UNCHANGED worker
    <3>1. \A j : (Ends(j) => Ends(j)') /\ (Picked(j) => Picked(j)')
      BY <2>1, <2>2 DEF Ends, Picked
    <3> QED BY <2>1, <2>2, <3>1
            DEF Cared, Runs, Waits, Dequeued, Working, Picked, Unfinished, Serving, schedVars
  <2>3. ASSUME NEW id \in f.next, Moved(f, [f EXCEPT !.next = @ \ {id}]),
               id \in registry => Go(id, "starting")
        PROVE  \A j \in RunId : Cared(j)'
    <3>1. id \in RunId /\ Picked(id)
      BY <1>0 DEF FinishRecord, Picked
    <3>2. PICK g : Moves(f, g) /\ g.at = f.at /\ g.next = f.next \ {id}
      BY <2>3, FinishMoves
    <3>3. Go(id, "starting")
      BY <1>0, <2>3, <3>1 DEF Told, Listed
    <3>4. /\ worker'[id].at = "starting"
          /\ \A j \in RunId \ {id} : worker'[j] = worker[j]
      <4>1. "starting" \in WorkerPlaces
        BY DEF WorkerPlaces
      <4> QED BY <1>0, <3>1, <3>3, <4>1, Gos DEF PutsWorker
    <3>5. \A j : (Ends(j) => Ends(j)') /\ (j # id => (Picked(j) => Picked(j)'))
      BY <2>1, <3>2 DEF Moves, Ends, Picked
    <3> QED BY <2>1, <3>2, <3>4, <3>5
            DEF Moves, Cared, Runs, Waits, Dequeued, Working, Picked, Unfinished, Serving,
                schedVars
  <2> QED BY <1>15, <2>2, <2>3 DEF FinishSpawn, SpawnWorker
<1>16. ASSUME NEW c \in Canceller, Asks(c), ~CancelFinish(c)
       PROVE  \A j \in RunId : Cared(j)'
  <2>1. UNCHANGED <<schedVars, mode, row, starter, worker, finishing, expired>>
    BY <1>16 DEF Asks, CancelRequest, CancelLoad, CancelLook, CancelFlag, CancelNext
  <2>2. PICK r : Goes(c, r)
    BY <1>16, CancelGoes
  <2>3. canceller[c].at # "dequeued"
    BY <1>16 DEF Asks, CancelRequest, CancelLoad, CancelLook, CancelFlag, CancelNext, Here
  <2>4. \A j : Dequeued(j)' <=> Dequeued(j)
    BY <1>0, <2>1, <2>2, <2>3 DEF Goes, Dequeued
  <2> QED BY <1>1, <2>1, <2>4 DEF Runs, Waits, Serving, schedVars
<1>17. ASSUME NEW c \in Canceller, CancelFinish(c)
       PROVE  \A j \in RunId : Cared(j)'
  <2>1. PICK id \in RunId : id = canceller[c].id /\ Taken(id)
    BY <1>0, <1>17 DEF CancelFinish, Here, OneEach, Taken
  <2>2. ~Finished(id) /\ ~Ended(id)
    BY <1>0, <2>1 DEF Told, Pending, Sole
  <2>3. PICK e : e.id = id /\ e.at = "store" /\ e.next = {} /\ finishing' = finishing \cup {e}
    BY <1>17, <2>1, <2>2 DEF CancelFinish, Finish, Ending
  <2>4. UNCHANGED <<schedVars, mode, row, starter, worker, expired>>
    BY <1>17 DEF CancelFinish
  <2>5. \A j : Dequeued(j) => Dequeued(j)' \/ j = id
    BY <1>0, <1>17, <2>1 DEF CancelFinish, CancelDone, Dequeued
  <2>6. e \in finishing' /\ finishing \subseteq finishing'
    BY <2>3
  <2>7. Ends(id)'
    BY <2>3, <2>6 DEF Ends
  <2>8. \A j : (Ends(j) => Ends(j)') /\ (Picked(j) => Picked(j)')
    BY <2>6 DEF Ends, Picked
  <2>9. \A f \in finishing' : f.at # "store" => f \in finishing
    BY <2>3
  <2> QED BY <2>4, <2>5, <2>7, <2>8, <2>9
          DEF Cared, Runs, Waits, Working, Picked, Unfinished, Serving, schedVars
<1>18. ASSUME NEW c \in Canceller, CancelDequeue(c)
       PROVE  \A j \in RunId : Cared(j)'
  <2> DEFINE id == canceller[c].id
  <2>1. sched' = [sched EXCEPT !.queue = Without(@, {id})]
    BY <1>18 DEF CancelDequeue, CancelQueued
  <2>2. InSlot(sched') = InSlot(sched) /\ InQueue(sched') = InQueue(sched) \ {id}
    BY <1>0, <2>1, RemovalIds
  <2>3. /\ canceller' = [canceller EXCEPT ![c].at =
                           IF id \in InQueue(sched) THEN "dequeued" ELSE "flag"]
        /\ UNCHANGED <<mode, row, starter, worker, finishing, expired>>
    BY <1>18 DEF CancelDequeue, CancelGo, InQueue
  <2>4. canceller[c].at # "dequeued"
    BY <1>18 DEF CancelDequeue, Here
  <2>5. \A j : Dequeued(j) \/ (j = id /\ Waits(j)) => Dequeued(j)'
    BY <1>0, <2>3, <2>4 DEF CancelRecord, Dequeued, Waits
  <2> QED BY <1>1, <2>2, <2>3, <2>5 DEF Waits, Runs, Serving
<1>19. CASE QueueTick
  <2> DEFINE late == Ids(Overdue(sched, now))
  <2>1. sched' = [sched EXCEPT !.queue = Without(@, late)]
    BY <1>19 DEF QueueTick, Expire
  <2>2. InSlot(sched') = InSlot(sched) /\ InQueue(sched') = InQueue(sched) \ late
    BY <1>0, <2>1, RemovalIds
  <2>3. /\ expired = {} /\ expired' = late
        /\ UNCHANGED <<mode, row, starter, worker, finishing, canceller>>
    BY <1>19 DEF QueueTick
  <2> HIDE DEF late
  <2> QED BY <1>1, <2>2, <2>3 DEF Waits, Runs, Dequeued, Serving
<1>20. CASE SupSetLimits \/ Clock
  <2>1. UNCHANGED <<mode, row, starter, worker, finishing, canceller, expired>>
    BY <1>20 DEF SupSetLimits, Clock, supVars
  <2>2. sched'.running = sched.running /\ sched'.queue = sched.queue
    BY <1>0, <1>20 DEF SupSetLimits, SetLimits, Clock, Tick, WallStep, TypeOK
  <2> QED BY <1>1, <2>1, <2>2 DEF Waits, Runs, InSlot, InQueue, Waiting, Dequeued, Serving
<1>21. CASE Stop
  <2>1. mode' = "down" /\ finishing' = {}
    BY <1>21 DEF Stop
  <2>2. InSlot(sched') = {}
    BY <1>21, StopEmpties
  <2> QED BY <2>1, <2>2 DEF Cared, Runs, Serving
<1>22. CASE Drain
  <2>1. \A j : Dequeued(j)' <=> Dequeued(j)
    BY <1>0, <1>22 DEF Drain, CancelRecord, Dequeued
  <2>2. UNCHANGED <<schedVars, row, starter, worker, finishing, expired>> /\ Serving
    BY <1>22 DEF Drain, Serving
  <2> QED BY <1>1, <2>1, <2>2 DEF Waits, Runs, schedVars
<1>23. CASE Reboot \/ Restart \/ RecoverFails
  <2>1. UNCHANGED <<schedVars, starter, worker, finishing>> /\ ~Serving'
    BY <1>23 DEF Reboot, Restart, RecoverFails, Serving
  <2>2. finishing = {}
    BY <1>0, <1>23 DEF Quiet, Serving, Reboot, Restart, RecoverFails
  <2> QED BY <2>1, <2>2 DEF Cared, Runs, Working, Ends, schedVars
<1>24. CASE Serve
  <2>1. \A j \in RunId : ~Unfinished(j)'
    BY <1>24 DEF Serve, ToRecover, Unfinished
  <2>2. UNCHANGED <<schedVars, starter, worker, finishing>>
    BY <1>24 DEF Serve
  <2> QED BY <2>1, <2>2 DEF Cared, Runs, Working, Ends, schedVars
<1> QED
  BY <1>2, <1>3, <1>4, <1>5, <1>7, <1>8, <1>9, <1>10, <1>11, <1>12, <1>13, <1>14,
     <1>15, <1>16, <1>17, <1>18, <1>19, <1>20, <1>21, <1>22, <1>23, <1>24
  DEF SupNext, StarterStep, FinishStep, CancelStep, Asks, Canceller, Crash,
      LeaveIdle, LeaveDrained, LeaveAnyway

\* So it is in every state that a supervisor without faults reaches.
LEMMA CaredAlways ==
  ASSUME Faults = {}
  PROVE  SupSpec => [](\A id \in RunId : Cared(id))
<1>1. SupInit => \A id \in RunId : Cared(id)
  BY DEF SupInit, Init, Cared, Runs, InSlot, Ids, Unfinished, NoRow
<1>2. SupInv /\ (\A id \in RunId : Cared(id)) /\ [SupNext]_vars
        => (\A id \in RunId : Cared(id))'
  <2>1. ASSUME SupInv, \A id \in RunId : Cared(id), SupNext
        PROVE  (\A id \in RunId : Cared(id))'
    BY <2>1, CaredStep
  <2>2. ASSUME \A id \in RunId : Cared(id), UNCHANGED vars
        PROVE  (\A id \in RunId : Cared(id))'
    BY <2>2 DEF vars, supVars, Cared, Runs, Serving, Unfinished, InCare, Waits, Dequeued,
                Placed, Admitted, Working, Ends
  <2> QED BY <2>1, <2>2
<1> QED BY <1>1, <1>2, SupInvAlways, PTL DEF SupSpec

(***************************************************************************)
(* Whatever fails: a thread that is about to start a run or works on one   *)
(* holds a slot of the scheduler, so the limits the scheduler keeps bound  *)
(* the workers that are there.                                             *)
(***************************************************************************)
THEOREM WorkersHaveSlots ==
  SupSpec => [](\A id \in RunId : Admitted(id) \/ Working(id) => id \in Ids(sched.running))
<1>1. SupInv => \A id \in RunId : Admitted(id) \/ Working(id) => id \in Ids(sched.running)
  BY DEF SupInv, Sole, Admitted, Picked, Runs, InSlot
<1> QED BY <1>1, SupInvAlways, PTL

(***************************************************************************)
(* SlotsHold for every number of runs, cancellers, stops and processes: a  *)
(* slot the scheduler has given out belongs to a run that is about to      *)
(* start, works or is being finished, and each of those has its slot. The  *)
(* hypothesis is the absence of failed writes and failed thread starts,    *)
(* for with them the code does lose slots.                                 *)
(***************************************************************************)
THEOREM SlotsAlwaysHold ==
  ASSUME Faults = {}
  PROVE  SupSpec => []SlotsHold
<1>1. SupInv /\ (\A id \in RunId : Cared(id)) => SlotsHold
  BY DEF SupInv, Sole, Admitted, Picked, Runs, InSlot, Cared, Placed, SlotsHold,
         SlotsAccounted
<1> QED BY <1>1, SupInvAlways, CaredAlways, PTL

(***************************************************************************)
(* RowsOwned under the same hypothesis: while the supervisor serves, every *)
(* row that is not finished has a thread that will finish it, so no run    *)
(* stays open for want of anybody who knows of it.                         *)
(***************************************************************************)
THEOREM RowsAlwaysOwned ==
  ASSUME Faults = {}
  PROVE  SupSpec => []RowsOwned
<1>1. (\A id \in RunId : Cared(id)) => RowsOwned
  BY DEF Cared, InCare, Placed, Waits, InQueue, RowsOwned
<1> QED BY <1>1, CaredAlways, PTL

\* A process of a run is covered by its slot or by what `release` held back.
Covers(id) ==
  stops = 0 /\ group[id] # {} => Runs(id) \/ id \in Ids(sched.held)

\* A slot given up with processes left over becomes a reservation that is held.
LEMMA CoversStep ==
  ASSUME SupInv, \A id \in RunId : Covers(id), SupNext
  PROVE  \A id \in RunId : Covers(id)'
<1>0. /\ TypeOK /\ OnePlace
      /\ \A id \in RunId : Sole(id) /\ Told(id)
      /\ finishing \subseteq FinishRecord
      /\ group \in [RunId -> SUBSET Process]
      /\ stops \in Nat
  BY TypeMeans, SupervisorAssumption DEF SupInv
<1>1. ASSUME stops' = stops,
             \A j \in RunId : group[j] = {} => group'[j] = {},
             InSlot(sched) \subseteq InSlot(sched'),
             Ids(sched.held) \subseteq Ids(sched'.held)
      PROVE  \A j \in RunId : Covers(j)'
  BY <1>1 DEF Covers, Runs
<1>2. ASSUME UNCHANGED <<sched, stops>>,
             \A j \in RunId : group[j] = {} => group'[j] = {}
      PROVE  \A j \in RunId : Covers(j)'
  BY <1>1, <1>2
<1>3. ASSUME NEW id \in RunId, Insert(id) \/ Register(id) \/ CreatedFails(id)
               \/ StartAdmitted(id) \/ Reject(id) \/ FinishExpired(id) \/ Sample(id)
      PROVE  \A j \in RunId : Covers(j)'
  BY <1>2, <1>3 DEF Insert, Register, CreatedFails, StartAdmitted, Reject, FinishExpired,
                    Sample, schedVars
<1>4. ASSUME NEW id \in RunId, Admit(id)
      PROVE  \A j \in RunId : Covers(j)'
  <2>1. InSlot(sched) \subseteq InSlot(sched') /\ Ids(sched'.held) = Ids(sched.held)
    BY <1>0, <1>4, SubmitIds DEF Admit
  <2> QED BY <1>1, <1>4, <2>1 DEF Admit
<1>5. ASSUME NEW id \in RunId, WorkerStep(id)
      PROVE  \A j \in RunId : Covers(j)'
  <2>1. Working(id) /\ PutsGroup(id) /\ UNCHANGED <<schedVars, stops>>
    BY <1>5, WorkerOwns DEF Own
  <2>2. Runs(id)
    BY <1>0, <2>1 DEF Sole
  <2>3. \A j \in RunId \ {id} : group'[j] = group[j]
    BY <1>0, <2>1 DEF PutsGroup
  <2> QED BY <2>1, <2>2, <2>3 DEF Covers, Runs, schedVars
<1>6. ASSUME NEW id \in RunId, Fork(id) \/ Exit(id) \/ Recover(id)
      PROVE  \A j \in RunId : Covers(j)'
  <2>1. UNCHANGED <<sched, stops>>
    BY <1>6 DEF Fork, Exit, Recover, schedVars
  <2>2. \A j \in RunId : group[j] = {} => group'[j] = {}
    <3>1. CASE Fork(id) \/ Exit(id)
      BY <1>0, <3>1 DEF Fork, Exit
    <3>2. CASE Recover(id)
      BY <1>0, <3>2, RecoverPuts DEF PutsGroup
    <3> QED BY <1>6, <3>1, <3>2
  <2> QED BY <1>2, <2>1, <2>2
<1>7. ASSUME NEW f \in finishing, FinishStore(f) \/ FinishRegistry(f) \/ FinishSpawn(f)
      PROVE  \A j \in RunId : Covers(j)'
  BY <1>2, <1>7 DEF FinishStore, FinishRegistry, FinishSpawn, schedVars
<1>8. ASSUME NEW f \in finishing, FinishRelease(f)
      PROVE  \A j \in RunId : Covers(j)'
  <2>1. f.id \in RunId /\ Holds(f) \in BOOLEAN /\ Release(f.id, Holds(f))
    BY <1>0, <1>8 DEF FinishRecord, Holds, FinishRelease
  <2>2. /\ InSlot(sched) \ {f.id} \subseteq InSlot(sched')
        /\ Ids(sched.held) \subseteq Ids(sched'.held)
        /\ Holds(f) /\ f.id \in InSlot(sched) => f.id \in Ids(sched'.held)
    BY <1>0, <2>1, ReleaseIds
  <2>3. ~Holds(f) => group[f.id] = {}
    BY <1>0, <2>1 DEF Holds, Told
  <2>4. UNCHANGED <<stops, group>>
    BY <1>8 DEF FinishRelease
  <2> QED BY <2>1, <2>2, <2>3, <2>4 DEF Covers, Runs
<1>9. ASSUME NEW c \in Canceller, Asks(c)
      PROVE  \A j \in RunId : Covers(j)'
  BY <1>2, <1>9 DEF Asks, CancelRequest, CancelLoad, CancelLook, CancelFinish, CancelFlag,
                    CancelNext, schedVars
<1>10. ASSUME NEW gone, sched' = [sched EXCEPT !.queue = Without(@, gone)],
              UNCHANGED <<stops, group>>
       PROVE  \A j \in RunId : Covers(j)'
  <2>1. sched'.held = sched.held /\ InSlot(sched') = InSlot(sched)
    BY <1>0, <1>10, RemovalIds
  <2> QED BY <1>1, <1>10, <2>1
<1>11. ASSUME NEW c \in Canceller, CancelDequeue(c)
       PROVE  \A j \in RunId : Covers(j)'
  BY <1>10, <1>11 DEF CancelDequeue, CancelQueued
<1>12. CASE QueueTick
  BY <1>10, <1>12 DEF QueueTick, Expire
<1>13. CASE SupSetLimits \/ Clock
  <2>1. UNCHANGED <<stops, group>>
    BY <1>13 DEF SupSetLimits, Clock, supVars
  <2>2. sched'.running = sched.running /\ sched'.held = sched.held
    BY <1>0, <1>13 DEF SupSetLimits, SetLimits, Clock, Tick, WallStep, TypeOK
  <2> QED BY <1>1, <2>1, <2>2 DEF InSlot
<1>14. CASE Stop
  BY <1>0, <1>14 DEF Stop, Covers
<1>15. CASE Drain \/ Reboot \/ Restart \/ RecoverFails \/ Serve
  BY <1>2, <1>15 DEF Drain, Reboot, Restart, RecoverFails, Serve, schedVars
<1> QED
  BY <1>3, <1>4, <1>5, <1>6, <1>7, <1>8, <1>9, <1>11, <1>12, <1>13, <1>14, <1>15
  DEF SupNext, StarterStep, FinishStep, CancelStep, Asks, Canceller, Crash,
      LeaveIdle, LeaveDrained, LeaveAnyway

(***************************************************************************)
(* CapacityCoversProcesses, whatever fails, until the supervisor first     *)
(* stops: whatever still runs for a run counts against the limits. After a *)
(* stop it does not hold: the scheduler of the next supervisor starts      *)
(* empty, and what recovery could not kill runs outside of it.             *)
(***************************************************************************)
THEOREM CapacityAlwaysCovers ==
  SupSpec => [](stops = 0 => CapacityCoversProcesses)
<1>1. SupInit => \A id \in RunId : Covers(id)
  BY DEF SupInit, Covers
<1>2. SupInv /\ (\A id \in RunId : Covers(id)) /\ [SupNext]_vars
        => (\A id \in RunId : Covers(id))'
  <2>1. ASSUME SupInv, \A id \in RunId : Covers(id), SupNext
        PROVE  (\A id \in RunId : Covers(id))'
    BY <2>1, CoversStep
  <2>2. ASSUME \A id \in RunId : Covers(id), UNCHANGED vars
        PROVE  (\A id \in RunId : Covers(id))'
    BY <2>2 DEF vars, supVars, Covers, Runs
  <2> QED BY <2>1, <2>2
<1>3. (\A id \in RunId : Covers(id)) => (stops = 0 => CapacityCoversProcesses)
  BY DEF Covers, Runs, InSlot, Ids, CapacityCoversProcesses
<1> QED BY <1>1, <1>2, <1>3, SupInvAlways, PTL DEF SupSpec

-----------------------------------------------------------------------------
(* What starts a process.                                                  *)

\* Only Launch makes a process where there was none.
LEMMA OnlyLaunch ==
  ASSUME SupInv, SupNext, NEW id \in RunId, group[id] = {}, group'[id] # {}
  PROVE  Launch(id)
<1>0. group \in [RunId -> SUBSET Process]
  BY TypeMeans DEF SupInv
<1>1. ASSUME NEW j \in RunId, WorkerStep(j)
      PROVE  Launch(id)
  <2>1. PutsGroup(j)
    BY <1>1, WorkerOwns DEF Own
  <2>2. j = id
    BY <1>0, <2>1 DEF PutsGroup
  <2>3. ~StopGroup(id)
    BY <1>0 DEF StopGroup
  <2> QED BY <1>1, <2>2, <2>3
          DEF WorkerStep, EnterStarting, SaveStarting, Record, EnterRunning, SaveRunning, Watch,
              EnterStopping, SaveStopping, Reap, WorkerFinish, Transition, Save
<1>2. ASSUME NEW j \in RunId, Recover(j)
      PROVE  FALSE
  BY <1>0, <1>2, RecoverPuts DEF PutsGroup
<1>3. ASSUME NEW j \in RunId, Fork(j) \/ Exit(j)
      PROVE  FALSE
  BY <1>0, <1>3 DEF Fork, Exit
<1>4. ASSUME NEW j \in RunId, Insert(j) \/ StarterStep(j) \/ Sample(j) \/ FinishExpired(j)
      PROVE  FALSE
  BY <1>4 DEF Insert, StarterStep, Register, CreatedFails, Admit, StartAdmitted, Reject, Sample,
              FinishExpired
<1>5. ASSUME NEW f \in finishing, FinishStep(f)
      PROVE  FALSE
  BY <1>5 DEF FinishStep, FinishStore, FinishRegistry, FinishRelease, FinishSpawn
<1>6. ASSUME NEW c \in Canceller, Asks(c) \/ CancelDequeue(c)
      PROVE  FALSE
  BY <1>6 DEF Asks, CancelRequest, CancelLoad, CancelLook, CancelFinish, CancelFlag,
              CancelNext, CancelDequeue
<1>7. CASE QueueTick \/ SupSetLimits \/ Clock \/ Stop \/ Drain \/ Reboot \/ Restart
           \/ RecoverFails \/ Serve
  BY <1>7 DEF QueueTick, SupSetLimits, Clock, supVars, Stop, Drain, Reboot, Restart,
              RecoverFails, Serve
<1> QED
  BY <1>1, <1>2, <1>3, <1>4, <1>5, <1>6, <1>7
  DEF SupNext, CancelStep, Asks, Canceller, Crash, LeaveIdle, LeaveDrained, LeaveAnyway

(***************************************************************************)
(* SpawnOnlyAdmitted, whatever fails and however often the supervisor      *)
(* restarts: a process is started only for a run that holds a slot, whose  *)
(* row says so, and that nobody has finished.                              *)
(***************************************************************************)
THEOREM SpawnsOnlyAdmitted == SupSpec => SpawnOnlyAdmitted
<1> DEFINE Justified ==
             \A id \in RunId : group[id] = {} /\ group'[id] # {} =>
               /\ id \in Ids(sched.running)
               /\ row[id].state = "starting"
               /\ ~Finished(id)
<1>1. SupInv /\ [SupNext]_vars => [Justified]_vars
  <2> SUFFICES ASSUME SupInv, SupNext, NEW id \in RunId, group[id] = {}, group'[id] # {}
               PROVE  /\ id \in Ids(sched.running)
                      /\ row[id].state = "starting"
                      /\ ~Finished(id)
    OBVIOUS
  <2>1. worker[id].at = "launch"
    BY OnlyLaunch DEF Launch
  <2> QED BY <2>1 DEF SupInv, Sole, Told, Pending, Working, Runs, InSlot
<1> QED BY <1>1, SupInvAlways, PTL DEF SupSpec, SpawnOnlyAdmitted

-----------------------------------------------------------------------------
(* The abstract contract.                                                  *)

\* What the contract sees of a row and of the processes of a run.
StatusIn(r) ==
  CASE r.state = "absent"   -> "absent"
    [] r.state = "finished" -> "closed"
    [] OTHER                -> "open"

AliveIn(g, recorded) ==
  CASE g = {}               -> "none"
    [] g \cap recorded # {} -> "seen"
    [] OTHER                -> "unseen"

Status == [id \in RunId |-> StatusIn(row[id])]

Reported == [id \in RunId |-> row[id].result]

Alive == [id \in RunId |-> AliveIn(group[id], row[id].recorded)]

\* The three things the contract tells apart about the processes.
LEMMA AliveCases ==
  ASSUME NEW g, NEW recorded
  PROVE  /\ AliveIn(g, recorded) \in {"none", "unseen", "seen"}
         /\ AliveIn(g, recorded) = "none" <=> g = {}
         /\ AliveIn(g, recorded) = "seen" => g \cap recorded # {}
<1>1. CASE g = {}
  BY <1>1 DEF AliveIn
<1>2. CASE g # {} /\ g \cap recorded # {}
  BY <1>2 DEF AliveIn
<1>3. CASE g # {} /\ g \cap recorded = {}
  BY <1>3 DEF AliveIn
<1> QED BY <1>1, <1>2, <1>3

\* The actions of the contract, in terms of what it sees.
LEMMA ContractReads ==
  /\ Contract!contractVars = <<Status, Reported, Alive>>
  /\ Contract!ContractInit <=>
       /\ Status = [id \in RunId |-> "absent"]
       /\ Alive = [id \in RunId |-> "none"]
  /\ \A id : Contract!Open(id) <=>
       /\ Status[id] = "absent"
       /\ Status' = [Status EXCEPT ![id] = "open"]
       /\ UNCHANGED <<Reported, Alive>>
  /\ \A id : Contract!Spawn(id) <=>
       /\ Status[id] = "open" /\ Alive[id] = "none"
       /\ \E living \in {"unseen", "seen"} : Alive' = [Alive EXCEPT ![id] = living]
       /\ UNCHANGED <<Status, Reported>>
  /\ \A id : Contract!Live(id) <=>
       /\ Alive[id] # "none"
       /\ \E living \in Contract!Living : Alive' = [Alive EXCEPT ![id] = living]
       /\ UNCHANGED <<Status, Reported>>
  /\ \A id : Contract!Close(id) <=>
       /\ Status[id] = "open"
       /\ Status' = [Status EXCEPT ![id] = "closed"]
       /\ \E r \in Result, living \in Contract!Living :
             /\ Alive[id] = "none" => living = "none"
             /\ Contract!Honest(r, living)
             /\ Reported' = [Reported EXCEPT ![id] = r]
             /\ Alive' = [Alive EXCEPT ![id] = living]
  /\ Contract!AllDie <=>
       /\ Alive' = [id \in RunId |-> "none"]
       /\ UNCHANGED <<Status, Reported>>
<1> USE DEF Status, Reported, Alive, StatusIn, AliveIn
<1>1. Contract!contractVars = <<Status, Reported, Alive>>
  BY DEF Contract!contractVars
<1>2. Contract!ContractInit <=>
       /\ Status = [id \in RunId |-> "absent"]
       /\ Alive = [id \in RunId |-> "none"]
  BY DEF Contract!ContractInit
<1>3. ASSUME NEW id
      PROVE Contract!Open(id) <=>
       /\ Status[id] = "absent"
       /\ Status' = [Status EXCEPT ![id] = "open"]
       /\ UNCHANGED <<Reported, Alive>>
  BY DEF Contract!Open
<1>4. ASSUME NEW id
      PROVE  Contract!Spawn(id) <=>
       /\ Status[id] = "open" /\ Alive[id] = "none"
       /\ \E living \in {"unseen", "seen"} : Alive' = [Alive EXCEPT ![id] = living]
       /\ UNCHANGED <<Status, Reported>>
  BY DEF Contract!Spawn
<1>5. ASSUME NEW id
      PROVE Contract!Live(id) <=>
       /\ Alive[id] # "none"
       /\ \E living \in Contract!Living : Alive' = [Alive EXCEPT ![id] = living]
       /\ UNCHANGED <<Status, Reported>>
  BY DEF Contract!Live
<1>6. ASSUME NEW id
      PROVE Contract!Close(id) <=>
       /\ Status[id] = "open"
       /\ Status' = [Status EXCEPT ![id] = "closed"]
       /\ \E r \in Result, living \in Contract!Living :
             /\ Alive[id] = "none" => living = "none"
             /\ Contract!Honest(r, living)
             /\ Reported' = [Reported EXCEPT ![id] = r]
             /\ Alive' = [Alive EXCEPT ![id] = living]
  BY DEF Contract!Close
<1>7. Contract!AllDie <=>
       /\ Alive' = [id \in RunId |-> "none"]
       /\ UNCHANGED <<Status, Reported>>
  BY DEF Contract!AllDie
<1> QED BY <1>1, <1>2, <1>3, <1>4, <1>5, <1>6, <1>7

\* What the contract sees of a run stays as it is.
Same(id) ==
  /\ row'[id].state = row[id].state
  /\ row'[id].result = row[id].result
  /\ AliveIn(group'[id], row'[id].recorded) = AliveIn(group[id], row[id].recorded)

(***************************************************************************)
(* A step that changes what is seen of one run only is a step of the       *)
(* contract when it opens the run, starts its processes, lets them live or *)
(* die, or closes it with a result that is true.                           *)
(***************************************************************************)
LEMMA ContractSees ==
  ASSUME NEW id \in RunId, \A j \in RunId \ {id} : Same(j),
         group[id] = {} /\ group'[id] # {}
           => row[id].state \notin {"absent", "finished"} /\ row'[id].state = row[id].state,
         \/ /\ StatusIn(row'[id]) = StatusIn(row[id])
            /\ row'[id].result = row[id].result
         \/ /\ row[id].state = "absent" /\ row'[id].state \notin {"absent", "finished"}
            /\ row'[id].result = row[id].result
            /\ group[id] = {} /\ group'[id] = {}
         \/ /\ row[id].state \notin {"absent", "finished"} /\ row'[id].state = "finished"
            /\ row'[id].result \in Result
            /\ row'[id].result.cleanup = "complete" =>
                 IF row'[id].result.outcome = "supervisor_lost"
                 THEN group'[id] \cap row'[id].recorded = {} ELSE group'[id] = {}
  PROVE  Contract!ContractNext \/ UNCHANGED <<Status, Reported, Alive>>
<1> DEFINE living == AliveIn(group'[id], row'[id].recorded)
<1>1. /\ Status' = [Status EXCEPT ![id] = StatusIn(row'[id])]
      /\ Reported' = [Reported EXCEPT ![id] = row'[id].result]
      /\ Alive' = [Alive EXCEPT ![id] = living]
  BY DEF Same, Status, Reported, Alive, StatusIn
<1>2. /\ StatusIn(row'[id]) = Status[id] => UNCHANGED Status
      /\ row'[id].result = row[id].result => UNCHANGED Reported
      /\ living = Alive[id] => UNCHANGED Alive
  BY DEF Same, Status, Reported, Alive, StatusIn
<1>3. /\ Status[id] = StatusIn(row[id])
      /\ Alive[id] = AliveIn(group[id], row[id].recorded)
  BY DEF Status, Alive
<1>4. /\ Alive[id] = "none" <=> group[id] = {}
      /\ living = "none" <=> group'[id] = {}
      /\ living = "seen" => group'[id] \cap row'[id].recorded # {}
      /\ living \in {"none", "unseen", "seen"}
  BY <1>3, AliveCases
<1>5. /\ \A r : r.state = "absent" => StatusIn(r) = "absent"
      /\ \A r : r.state = "finished" => StatusIn(r) = "closed"
      /\ \A r : r.state \notin {"absent", "finished"} => StatusIn(r) = "open"
  BY DEF StatusIn
<1> HIDE DEF living
<1>6. CASE StatusIn(row'[id]) = StatusIn(row[id]) /\ row'[id].result = row[id].result
  <2>1. CASE group[id] = {} /\ group'[id] = {}
    BY <1>2, <1>3, <1>4, <1>6, <2>1
  <2>2. CASE group[id] # {}
    <3>1. Contract!Live(id)
      BY <1>1, <1>2, <1>3, <1>4, <1>6, <2>2, ContractReads DEF Contract!Living
    <3> QED BY <3>1 DEF Contract!ContractNext
  <2>3. CASE group[id] = {} /\ group'[id] # {}
    <3>1. Status[id] = "open"
      BY <1>3, <1>5, <2>3
    <3>2. Contract!Spawn(id)
      BY <1>1, <1>2, <1>3, <1>4, <1>6, <2>3, <3>1, ContractReads
    <3> QED BY <3>2 DEF Contract!ContractNext
  <2> QED BY <2>1, <2>2, <2>3
<1>7. CASE /\ row[id].state = "absent" /\ row'[id].state \notin {"absent", "finished"}
           /\ row'[id].result = row[id].result
           /\ group[id] = {} /\ group'[id] = {}
  <2>1. Contract!Open(id)
    BY <1>1, <1>2, <1>3, <1>4, <1>5, <1>7, ContractReads
  <2> QED BY <2>1 DEF Contract!ContractNext
<1>8. CASE /\ row[id].state \notin {"absent", "finished"} /\ row'[id].state = "finished"
           /\ row'[id].result \in Result
           /\ row'[id].result.cleanup = "complete" =>
                IF row'[id].result.outcome = "supervisor_lost"
                THEN group'[id] \cap row'[id].recorded = {} ELSE group'[id] = {}
  <2>1. Contract!Honest(row'[id].result, living)
    BY <1>4, <1>8 DEF Contract!Honest
  <2>2. Alive[id] = "none" => living = "none"
    BY <1>4, <1>8
  <2>3. Status[id] = "open" /\ Status' = [Status EXCEPT ![id] = "closed"]
    BY <1>1, <1>3, <1>5, <1>8
  <2>4. Contract!Close(id)
    <3>1. living \in Contract!Living
      BY <1>4 DEF Contract!Living
    <3> QED BY <1>1, <1>8, <2>1, <2>2, <2>3, <3>1, ContractReads
  <2> QED BY <2>4 DEF Contract!ContractNext
<1> QED BY <1>6, <1>7, <1>8

\* A worker leaves its run open and its result unset.
LEMMA WorkerRow ==
  ASSUME SupInv, NEW id \in RunId, WorkerStep(id)
  PROVE  /\ row[id].state \notin {"absent", "finished"}
         /\ row'[id].state \notin {"absent", "finished"}
         /\ row'[id].result = row[id].result
         /\ Launch(id) => UNCHANGED row
<1>1. row[id].state \notin {"absent", "finished"}
  BY WorkerOwns DEF SupInv, Told, Unfinished
<1>2. \A state \in {"starting", "running", "stopping"} :
        row' = Advanced(id, state) =>
          row'[id].state \in {row[id].state, state} /\ row'[id].result = row[id].result
  BY Advances DEF SlotStates
<1>3. CASE SaveStarting(id) \/ SaveRunning(id) \/ SaveStopping(id)
  BY <1>1, <1>2, <1>3 DEF SaveStarting, SaveRunning, SaveStopping, Save, Launch
<1>4. CASE StopGroup(id)
  <2>1. group[id] \in SUBSET Process
    BY TypeMeans DEF SupInv
  <2> QED BY <1>1, <1>4, <2>1, Records DEF StopGroup, Launch
<1>5. CASE Record(id)
  <2>1. row \in [RunId -> RowRecord] /\ row[id] \in RowRecord
    BY TypeMeans DEF SupInv
  <2>2. PICK processes, leader \in BOOLEAN :
          row' = [row EXCEPT
            ![id].recorded = IF processes THEN @ \cup {"leader"} ELSE @,
            ![id].leader   = IF leader THEN "this_boot" ELSE @]
    BY <1>5 DEF Record
  <2>3. row'[id].state = row[id].state /\ row'[id].result = row[id].result
    BY <2>1, <2>2 DEF RowRecord
  <2> QED BY <1>1, <1>5, <2>3 DEF Record, Launch
<1>6. CASE UNCHANGED row
  BY <1>1, <1>6
<1> QED BY <1>3, <1>4, <1>5, <1>6
        DEF WorkerStep, EnterStarting, Launch, EnterRunning, Watch, EnterStopping, Reap,
            WorkerFinish, Transition

(***************************************************************************)
(* Every step of the supervisor is a step of the contract, or one the      *)
(* contract does not see. A crash with a reboot is AllDie; of the rest,    *)
(* each touches one run.                                                   *)
(***************************************************************************)
LEMMA ContractStep ==
  ASSUME SupInv, SupNext
  PROVE  Contract!ContractNext \/ UNCHANGED <<Status, Reported, Alive>>
<1>0. /\ \A id \in RunId : Told(id)
      /\ row \in [RunId -> RowRecord]
      /\ group \in [RunId -> SUBSET Process]
      /\ finishing \subseteq FinishRecord
  BY TypeMeans DEF SupInv
<1>1. ASSUME UNCHANGED <<row, group>>
      PROVE  UNCHANGED <<Status, Reported, Alive>>
  BY <1>1 DEF Status, Reported, Alive
<1>2. ASSUME NEW id \in RunId, PutsRow(id), PutsGroup(id)
      PROVE  \A j \in RunId \ {id} : Same(j)
  BY <1>0, <1>2 DEF PutsRow, PutsGroup, Same
<1>3. UNCHANGED row => \A id \in RunId : PutsRow(id)
  BY Keeps
<1>4. UNCHANGED group => \A id \in RunId : PutsGroup(id)
  BY Keeps
<1>5. \A r, q : r.state \notin {"absent", "finished"} /\ q.state \notin {"absent", "finished"}
        => StatusIn(r) = StatusIn(q)
  BY DEF StatusIn
<1>6. \A r, q : r.state = q.state => StatusIn(r) = StatusIn(q)
  BY DEF StatusIn
<1>7. ASSUME NEW id \in RunId, Insert(id)
      PROVE  Contract!ContractNext \/ UNCHANGED <<Status, Reported, Alive>>
  <2> DEFINE r == [NoRow EXCEPT !.state = "queued"]
  <2>1. r \in RowRecord /\ r.state = "queued" /\ r.result = NoRow.result
    BY DEF NoRow, RowRecord, SlotStates
  <2>2. row' = [row EXCEPT ![id] = r]
    BY <1>7 DEF Insert
  <2> HIDE DEF r
  <2>3. PutsRow(id) /\ row'[id] = r
    BY <2>1, <2>2, RowPuts
  <2>4. /\ row[id] = NoRow /\ NoRow.state = "absent" /\ group[id] = {} /\ UNCHANGED group
    BY <1>0, <1>7 DEF Insert, At, Told, NoRow
  <2> QED BY <1>2, <1>4, <2>1, <2>3, <2>4, ContractSees
<1>8. ASSUME NEW id \in RunId, WorkerStep(id)
      PROVE  Contract!ContractNext \/ UNCHANGED <<Status, Reported, Alive>>
  <2>1. PutsRow(id) /\ PutsGroup(id)
    BY <1>8, WorkerOwns DEF Own
  <2>2. group[id] = {} /\ group'[id] # {} => row'[id].state = row[id].state
    <3>1. ASSUME group[id] = {}, group'[id] # {} PROVE Launch(id)
      BY <1>8, <3>1, OnlyLaunch
    <3> QED BY <1>8, <3>1, WorkerRow
  <2>3. /\ row[id].state \notin {"absent", "finished"}
        /\ row'[id].state \notin {"absent", "finished"}
        /\ row'[id].result = row[id].result
    BY <1>8, WorkerRow
  <2> QED BY <1>2, <1>5, <2>1, <2>2, <2>3, ContractSees
<1>9. ASSUME NEW id \in RunId, Sample(id) \/ Fork(id) \/ Exit(id)
      PROVE  Contract!ContractNext \/ UNCHANGED <<Status, Reported, Alive>>
  <2>1. /\ PutsRow(id) /\ PutsGroup(id)
        /\ row'[id].state = row[id].state /\ row'[id].result = row[id].result
        /\ group[id] = {} => group'[id] = {}
    <3>1. CASE Sample(id)
      <4>1. group[id] \in SUBSET Process
        BY <1>0
      <4> QED BY <1>4, <3>1, <4>1, Records DEF Sample
    <3>2. CASE Fork(id) \/ Exit(id)
      <4>1. /\ group[id] \in SUBSET Process /\ Member \subseteq Process
            /\ UNCHANGED row
        BY <1>0, <3>2 DEF Process, Fork, Exit
      <4>2. group[id] # {} /\ \E left \in SUBSET Process : group' = [group EXCEPT ![id] = left]
        <5>1. \/ \E p \in Member \ group[id] : group' = [group EXCEPT ![id] = group[id] \cup {p}]
              \/ \E p \in group[id] : group' = [group EXCEPT ![id] = group[id] \ {p}]
          BY <3>2 DEF Fork, Exit
        <5> QED BY <3>2, <4>1, <5>1 DEF Fork, Exit
      <4>3. PutsGroup(id)
        BY <1>0, <4>2 DEF PutsGroup
      <4> QED BY <1>3, <4>1, <4>2, <4>3
    <3> QED BY <1>9, <3>1, <3>2
  <2> QED BY <1>2, <1>6, <2>1, ContractSees
<1>10. ASSUME NEW id \in RunId, Recover(id)
       PROVE  Contract!ContractNext \/ UNCHANGED <<Status, Reported, Alive>>
  <2>1. /\ PutsRow(id) /\ PutsGroup(id)
        /\ row[id].state \notin {"absent", "finished"}
        /\ row'[id].state = "finished"
        /\ row'[id].recorded = row[id].recorded
        /\ row'[id].result \in Result
        /\ row'[id].result.outcome = "supervisor_lost"
        /\ row'[id].result.cleanup = "complete" => row[id].recorded \cap group'[id] = {}
        /\ group'[id] \subseteq group[id]
    BY <1>10, RecoverPuts
  <2> QED BY <1>2, <2>1, ContractSees
<1>11. ASSUME NEW f \in finishing, FinishStore(f)
       PROVE  Contract!ContractNext \/ UNCHANGED <<Status, Reported, Alive>>
  <2>1. UNCHANGED group /\ f.at = "store" /\ f.id \in RunId /\ f.result \in Result
    BY <1>0, <1>11 DEF FinishStore, FinishRecord
  <2>2. f.result.cleanup = "complete" => group[f.id] = {}
    BY <1>0, <2>1 DEF Told
  <2>3. CASE UNCHANGED row
    BY <1>1, <2>1, <2>3
  <2>4. CASE /\ Unfinished(f.id) /\ row'[f.id].state = "finished"
             /\ row'[f.id].result = f.result /\ PutsRow(f.id)
    <3>1. group'[f.id] \cap row'[f.id].recorded = {} \/ group'[f.id] # {}
      OBVIOUS
    <3>2. PutsGroup(f.id)
      BY <1>4, <2>1
    <3>3. row[f.id].state \notin {"absent", "finished"}
      BY <2>4 DEF Unfinished
    <3>4. /\ row'[f.id].result \in Result
          /\ row'[f.id].result.cleanup = "complete" => group'[f.id] = {}
      BY <2>1, <2>2, <2>4
    <3> QED BY <1>2, <2>1, <2>4, <3>1, <3>2, <3>3, <3>4, ContractSees
  <2> QED BY <1>11, <2>3, <2>4, StorePuts
<1>12. CASE Reboot
  <2>1. \A id \in RunId :
          /\ group'[id] = {} /\ row'[id].state = row[id].state
          /\ row'[id].result = row[id].result
    <3>1. ASSUME NEW id \in RunId
          PROVE  /\ group'[id] = {}
                 /\ row'[id] = [row[id] EXCEPT
                      !.leader = IF @ = "this_boot" THEN "earlier_boot" ELSE @]
      BY <1>12 DEF Reboot
    <3> QED BY <1>0, <3>1 DEF RowRecord
  <2>2. UNCHANGED <<Status, Reported>>
    BY <2>1, <1>6 DEF Status, Reported
  <2>3. Alive' = [id \in RunId |-> "none"]
    BY <2>1 DEF Alive, AliveIn
  <2>4. Contract!AllDie
    BY <2>2, <2>3, ContractReads
  <2> QED BY <2>4 DEF Contract!ContractNext
<1>13. ASSUME NEW id \in RunId, StarterStep(id) \/ FinishExpired(id)
       PROVE  UNCHANGED <<row, group>>
  BY <1>13 DEF StarterStep, Register, CreatedFails, Admit, StartAdmitted, Reject, FinishExpired
<1>14. ASSUME NEW f \in finishing, FinishRegistry(f) \/ FinishRelease(f) \/ FinishSpawn(f)
       PROVE  UNCHANGED <<row, group>>
  BY <1>14 DEF FinishRegistry, FinishRelease, FinishSpawn
<1>15. ASSUME NEW c \in Canceller, Asks(c) \/ CancelDequeue(c)
       PROVE  UNCHANGED <<row, group>>
  BY <1>15 DEF Asks, CancelRequest, CancelLoad, CancelLook, CancelFinish, CancelFlag,
               CancelNext, CancelDequeue
<1>16. CASE QueueTick \/ SupSetLimits \/ Clock \/ Stop \/ Drain \/ Restart \/ RecoverFails
            \/ Serve
  <2>1. UNCHANGED <<row, group>>
    BY <1>16 DEF QueueTick, SupSetLimits, Clock, supVars, Stop, Drain, Restart, RecoverFails,
                 Serve
  <2> QED BY <1>1, <2>1
<1> QED
  BY <1>1, <1>7, <1>8, <1>9, <1>10, <1>11, <1>12, <1>13, <1>14, <1>15, <1>16
  DEF SupNext, FinishStep, CancelStep, Asks, Canceller, Crash, LeaveIdle, LeaveDrained,
      LeaveAnyway

(***************************************************************************)
(* ImplementsRunContract: a run is opened once, its processes start only   *)
(* while it is open, it is closed once, and what it is closed with is      *)
(* true: "complete" means that nothing of the run is left, or nothing that *)
(* was recorded of it when a later supervisor says so. This is a           *)
(* refinement of the whole supervisor, with its faults, crashes and        *)
(* restarts.                                                               *)
(***************************************************************************)
THEOREM KeepsTheContract == SupSpec => ImplementsRunContract
<1>1. SupInit => Contract!ContractInit
  <2> SUFFICES ASSUME SupInit PROVE Contract!ContractInit
    OBVIOUS
  <2>1. row = [id \in RunId |-> NoRow] /\ group = [id \in RunId |-> {}]
    BY DEF SupInit
  <2>2. \A id \in RunId : StatusIn(row[id]) = "absent" /\ group[id] = {}
    BY <2>1 DEF StatusIn, NoRow
  <2>3. /\ Status = [id \in RunId |-> "absent"]
        /\ Alive = [id \in RunId |-> "none"]
    BY <2>2, AliveCases DEF Status, Alive
  <2> QED BY <2>3, ContractReads
<1>2. SupInv /\ [SupNext]_vars => [Contract!ContractNext]_(Contract!contractVars)
  <2>1. ASSUME SupInv, SupNext
        PROVE  [Contract!ContractNext]_(Contract!contractVars)
    <3>1. Contract!ContractNext \/ UNCHANGED <<Status, Reported, Alive>>
      BY <2>1, ContractStep
    <3>2. UNCHANGED <<Status, Reported, Alive>> => UNCHANGED Contract!contractVars
      BY DEF Contract!contractVars, Status, Reported, Alive, StatusIn, AliveIn
    <3> QED BY <3>1, <3>2
  <2>2. ASSUME UNCHANGED vars
        PROVE  UNCHANGED Contract!contractVars
    BY <2>2 DEF vars, supVars, Contract!contractVars
  <2> QED BY <2>1, <2>2
<1> QED
  BY <1>1, <1>2, SupInvAlways, PTL DEF SupSpec, ImplementsRunContract, Contract!ContractSpec
=============================================================================
