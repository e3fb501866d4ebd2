---------------------------- MODULE StoreProofs -----------------------------
(***************************************************************************)
(* What outlives a supervisor: the rows of runs (module RunTable), the     *)
(* schema of the store (module Schema) and the cgroups (modules CgroupRoot *)
(* and Aggregate).                                                         *)
(*                                                                         *)
(* A request id starts one run in its window, for any number of requests,  *)
(* runs and supervisors, whatever is pruned in between. The invariant says *)
(* what a look at the table is worth: a run that was made has its row      *)
(* still, or is older than the retention and so than the window; and that  *)
(* ids are given in the order of the runs.                                 *)
(*                                                                         *)
(* Opening the store is safe, by any number of processes, with any columns *)
(* to add, over any number of boots. The invariant says what a process in  *)
(* the middle of a migration has done: every column before the one it is   *)
(* at is there, and stays, because no step takes a column away. Two of     *)
(* them at it are known to race.                                           *)
(*                                                                         *)
(* The search for a root of the cgroups misses none, for any tree of       *)
(* directories; the kernel's caps follow the limits, for any requests and  *)
(* supervisors. The invariants say what was refused stays refused, and     *)
(* what a request on its way has still to write.                           *)
(***************************************************************************)
EXTENDS RunTable, Aggregate, Schema, Recursion, TLAPS

-----------------------------------------------------------------------------
(* The runs of a request                                                   *)

RowColumns == DOMAIN NoRow
SlotFields == DOMAIN Queued

\* Every row is a row, every slot a slot.
Shaped ==
  /\ DOMAIN rows = Ids /\ DOMAIN slots = Ids /\ DOMAIN thread = Ids
  /\ \A id \in Ids : DOMAIN rows[id] = RowColumns /\ DOMAIN slots[id] = SlotFields

\* A slot whose row is about to be written is somewhere in its life.
SlotIsLive == \A id \in Ids : thread[id] = "row" => slots[id].state # "none"

\* Ids are given in order.
InOrder == \A id \in Ids : thread[id] # "none" => \A j \in 1 .. id - 1 : thread[j] # "none"

\* A run that was made has its row, or its row is out of every window.
Kept(m) ==
  \/ HasRow(m.id) /\ rows[m.id].request = m.request /\ rows[m.id].created = m.created
  \/ m.created + Retention < clock

MadeIsKept ==
  \A m \in made :
    m.id \in Ids /\ thread[m.id] # "none" /\ m.created \in 0 .. clock /\ Kept(m)

TableInv ==
  /\ clock \in Nat /\ Shaped /\ SlotIsLive /\ InOrder /\ MadeIsKept /\ OneRunPerKey

-----------------------------------------------------------------------------
\* The id of a new run is one that no run has had (run_insert).
LEMMA FreshIsFree ==
  ASSUME \E id \in Ids : thread[id] = "none"
  PROVE  Fresh \in Ids /\ thread[Fresh] = "none" /\ \A j \in 1 .. Fresh - 1 : thread[j] # "none"
<1> DEFINE T == {id \in Ids : thread[id] = "none"}
<1>1. T \subseteq Nat /\ T # {}
  BY TableAssumption DEF Ids
<1>2. PICK x \in T : \A y \in T : x <= y
  BY <1>1, LeastElement, Zenon
<1>3. \A j \in 1 .. x - 1 : thread[j] # "none"
  BY <1>2, TableAssumption DEF Ids
<1> QED BY <1>2, <1>3 DEF Fresh

\* Only the fields named change, and only of that row.
LEMMA Updated ==
  ASSUME NEW f, NEW x \in DOMAIN f, NEW fields
  PROVE  /\ DOMAIN Update(f, x, fields) = DOMAIN f
         /\ \A y \in DOMAIN f : y # x => Update(f, x, fields)[y] = f[y]
         /\ DOMAIN Update(f, x, fields)[x] = DOMAIN f[x]
         /\ \A k \in DOMAIN f[x] :
              Update(f, x, fields)[x][k] = IF k \in DOMAIN fields THEN fields[k] ELSE f[x][k]
BY DEF Update

-----------------------------------------------------------------------------
\* Nothing is made, no row written (RunStore::open on a new file).
LEMMA TableInitially == TableInit => TableInv
BY DEF TableInit, TableInv, Shaped, SlotIsLive, InOrder, MadeIsKept, OneRunPerKey,
       RowColumns, SlotFields, NoView, Queued, NoRow

\* What a step that leaves the made runs alone has to keep.
LEMMA SameRuns ==
  ASSUME TableInv, clock' \in Nat, clock' >= clock, made' = made,
         \A id \in Ids : thread[id] = "none" <=> thread'[id] = "none",
         Shaped', SlotIsLive',
         \A m \in made : Kept(m) => Kept(m)'
  PROVE  TableInv'
<1> USE TableAssumption DEF TableInv
<1>1. InOrder'
  BY DEF InOrder, Ids
<1>2. MadeIsKept'
  BY DEF MadeIsKept
<1>3. OneRunPerKey'
  BY DEF OneRunPerKey
<1> QED BY <1>1, <1>2, <1>3

\* No step of a start, a worker, a client, the clock or the next supervisor
\* breaks the invariant.
LEMMA TableStepping ==
  ASSUME TableInv, [TableNext]_tableVars
  PROVE  TableInv'
<1> USE TableAssumption DEF TableInv
<1>1. CASE InsertRun
  <2> SUFFICES ASSUME NEW request \in Request,
                      SameRequest(request) = {},
                      \E id \in Ids : thread[id] = "none",
                      rows' = Put(rows, Fresh,
                        [NoRow EXCEPT !.state = "queued", !.cleanup = "pending",
                                      !.request = request, !.created = clock]),
                      made' = made \cup {[id |-> Fresh, request |-> request, created |-> clock]},
                      thread' = Put(thread, Fresh, "inserted"),
                      UNCHANGED <<clock, slots>>
               PROVE  TableInv'
    BY <1>1 DEF InsertRun
  <2>1. Fresh \in Ids /\ thread[Fresh] = "none" /\ \A j \in 1 .. Fresh - 1 : thread[j] # "none"
    BY FreshIsFree
  <2> DEFINE new == [id |-> Fresh, request |-> request, created |-> clock]
  <2> HIDE DEF Fresh
  <2>2. Shaped'
    BY <2>1 DEF Shaped, Put, RowColumns, NoRow
  <2>3. SlotIsLive'
    BY <2>1 DEF SlotIsLive, Put, Shaped
  <2>4. InOrder'
    BY <2>1 DEF InOrder, Put, Shaped, Ids
  <2>5. MadeIsKept'
    <3>1. \A m \in made : m.id # Fresh
      BY <2>1 DEF MadeIsKept
    <3>2. \A m \in made : Kept(m)'
      BY <2>1, <3>1 DEF MadeIsKept, Kept, HasRow, Put, Shaped
    <3>3. \A m : m = new => Kept(m)'
      BY <2>1 DEF Kept, HasRow, Put, Shaped, NoRow
    <3>4. new.id = Fresh /\ new.created = clock
      OBVIOUS
    <3>5. \A m \in made' : m \in made \/ m = new
      OBVIOUS
    <3>6. \A i \in Ids : thread[i] # "none" => thread'[i] # "none"
      BY <2>1 DEF Put, Shaped
    <3>7. thread'[Fresh] # "none"
      BY <2>1 DEF Put, Shaped
    <3> HIDE DEF new
    <3>8. \A m \in made : m.id \in Ids /\ thread[m.id] # "none" /\ m.created \in 0 .. clock
      BY DEF MadeIsKept
    <3> QED BY <2>1, <3>2, <3>3, <3>4, <3>5, <3>6, <3>7, <3>8 DEF MadeIsKept
  <2>6. \A m \in made : m.id < Fresh
    BY <2>1 DEF MadeIsKept, InOrder, Ids
  <2>7. \A m \in made : m.request = request => m.created + Window < clock
    BY DEF MadeIsKept, Kept, SameRequest, InWindow
  <2>8. OneRunPerKey'
    <3> SUFFICES ASSUME NEW a \in made', NEW b \in made', a.id < b.id, a.request = b.request
                 PROVE  a.created + Window < b.created
      BY DEF OneRunPerKey
    <3>1. CASE a \in made /\ b \in made
      BY <3>1 DEF OneRunPerKey
    <3>2. CASE a \in made /\ b = new
      BY <3>2, <2>7
    <3>3. CASE a = new
      BY <3>3, <2>6, <2>1 DEF Ids, MadeIsKept
    <3> QED BY <3>1, <3>2, <3>3
  <2> QED BY <2>2, <2>3, <2>4, <2>5, <2>8
<1>2. CASE Reopen
  <2> DEFINE closed == [id \in Ids |->
        IF HasRow(id) THEN Close(rows[id], "supervisor_lost", "unknown", rows[id].revision + 1)
                      ELSE NoRow]
  <2>1. /\ rows' = [id \in Ids |-> IF Pruned(closed[id]) THEN NoRow ELSE closed[id]]
        /\ slots' = [id \in Ids |-> NoView]
        /\ thread' = [id \in Ids |-> IF thread[id] = "none" THEN "none" ELSE "ended"]
        /\ clock' = clock /\ made' = made
    BY <1>2 DEF Reopen
  <2>2. \A id \in Ids : HasRow(id) =>
          /\ DOMAIN closed[id] = RowColumns /\ closed[id].state # "none"
          /\ closed[id].request = rows[id].request /\ closed[id].created = rows[id].created
    BY DEF Close, HasRow, Finished, Shaped, RowColumns, NoRow
  <2>3. \A id \in Ids : ~HasRow(id) => closed[id] = NoRow
    OBVIOUS
  <2> HIDE DEF closed
  <2>4. Shaped'
    BY <2>1, <2>2, <2>3 DEF Shaped, RowColumns, SlotFields, NoView, Queued, NoRow
  <2>5. SlotIsLive'
    BY <2>1 DEF SlotIsLive
  <2>6. \A m \in made : Kept(m) => Kept(m)'
    BY <2>1, <2>2 DEF Kept, HasRow, Pruned, MadeIsKept
  <2> QED BY <2>1, <2>4, <2>5, <2>6, SameRuns
<1>3. CASE GetSlot \/ GetView \/ UNCHANGED tableVars
  <2>1. UNCHANGED <<clock, rows, made, slots, thread>>
    BY <1>3 DEF GetSlot, GetView, tableVars
  <2> QED BY <2>1 DEF Shaped, SlotIsLive, InOrder, MadeIsKept, Kept, HasRow, OneRunPerKey
<1>4. CASE TickClock
  <2>1. clock' = clock + 1 /\ UNCHANGED <<rows, made, slots, thread>>
    BY <1>4 DEF TickClock
  <2>2. Shaped' /\ SlotIsLive'
    BY <2>1 DEF Shaped, SlotIsLive
  <2>3. \A m \in made : Kept(m) => Kept(m)'
    BY <2>1 DEF Kept, HasRow, MadeIsKept
  <2> QED BY <2>1, <2>2, <2>3, SameRuns
<1>5. ASSUME NEW id \in Ids,
             \/ Register(id) \/ CreatedEvent(id) \/ AdmitNow(id) \/ Enqueue(id) \/ Unregister(id)
      PROVE  TableInv'
  <2>1. UNCHANGED <<clock, rows, made>>
    BY <1>5 DEF Register, CreatedEvent, AdmitNow, Enqueue, Unregister
  <2>2. /\ thread[id] # "none"
        /\ \E where \in {"registered", "admit", "waiting", "worker", "ended"} :
             thread' = Put(thread, id, where)
    BY <1>5 DEF Register, CreatedEvent, AdmitNow, Enqueue, Unregister
  <2>3. slots' = slots \/ slots' = Put(slots, id, Queued)
    BY <1>5 DEF Register, CreatedEvent, AdmitNow, Enqueue, Unregister
  <2>4. Shaped'
    BY <2>1, <2>2, <2>3 DEF Shaped, Put, SlotFields
  <2>5. SlotIsLive'
    BY <2>2, <2>3 DEF SlotIsLive, Put, Shaped
  <2>6. \A m \in made : Kept(m) => Kept(m)'
    BY <2>1 DEF Kept, HasRow
  <2>7. \A i \in Ids : thread[i] = "none" <=> thread'[i] = "none"
    BY <2>2 DEF Put, Shaped
  <2> QED BY <2>1, <2>4, <2>5, <2>6, <2>7, SameRuns
<1>6. ASSUME NEW id \in Ids, StepMemory(id) \/ FinishMemory(id)
      PROVE  TableInv'
  <2>1. UNCHANGED <<clock, rows, made>>
    BY <1>6 DEF StepMemory, FinishMemory
  <2>2. thread[id] # "none" /\ thread' \in {Put(thread, id, "row"), Put(thread, id, "ending")}
    BY <1>6 DEF StepMemory, FinishMemory
  <2>3. PICK fields : /\ slots' = Update(slots, id, fields)
                      /\ "state" \in DOMAIN fields /\ fields.state # "none"
    BY <1>6 DEF StepMemory, FinishMemory, Stages
  <2>4. /\ DOMAIN slots' = DOMAIN slots /\ DOMAIN slots'[id] = DOMAIN slots[id]
        /\ \A i \in Ids : i # id => slots'[i] = slots[i]
        /\ slots'[id].state # "none"
    BY <2>3, Updated DEF Shaped, SlotFields, Queued
  <2>5. Shaped'
    BY <2>1, <2>2, <2>4 DEF Shaped, Put
  <2>6. SlotIsLive'
    BY <2>2, <2>4 DEF SlotIsLive, Put, Shaped
  <2>7. \A m \in made : Kept(m) => Kept(m)'
    BY <2>1 DEF Kept, HasRow
  <2>8. \A i \in Ids : thread[i] = "none" <=> thread'[i] = "none"
    BY <2>2 DEF Put, Shaped
  <2> QED BY <2>1, <2>5, <2>6, <2>7, <2>8, SameRuns
<1>7. ASSUME NEW id \in Ids, StepRow(id)
      PROVE  TableInv'
  <2>1. /\ UNCHANGED <<clock, made, slots>>
        /\ thread[id] = "row" /\ thread' = Put(thread, id, "worker")
    BY <1>7 DEF StepRow
  <2> DEFINE fields == [state |-> slots[id].state, cleanup |-> slots[id].cleanup,
                        revision |-> slots[id].revision]
  <2>2. rows' = rows \/ rows' = Update(rows, id, fields)
    BY <1>7 DEF StepRow, RowStep
  <2>3. /\ DOMAIN rows' = DOMAIN rows /\ DOMAIN rows'[id] = DOMAIN rows[id]
        /\ \A i \in Ids : i # id => rows'[i] = rows[i]
        /\ rows'[id].state \in {rows[id].state, slots[id].state}
        /\ rows'[id].request = rows[id].request /\ rows'[id].created = rows[id].created
    <3>1. CASE rows' = rows
      BY <3>1
    <3>2. CASE rows' = Update(rows, id, fields)
      BY <3>2, Updated DEF Shaped, RowColumns, NoRow
    <3> QED BY <2>2, <3>1, <3>2
  <2> HIDE DEF fields
  <2>4. Shaped'
    BY <2>1, <2>3 DEF Shaped, Put
  <2>5. SlotIsLive'
    BY <2>1 DEF SlotIsLive, Put, Shaped
  <2>6. slots[id].state # "none"
    BY <2>1 DEF SlotIsLive
  <2>7. \A m \in made : Kept(m) => Kept(m)'
    BY <2>1, <2>3, <2>6 DEF Kept, HasRow, MadeIsKept
  <2>8. \A i \in Ids : thread[i] = "none" <=> thread'[i] = "none"
    BY <2>1 DEF Put, Shaped
  <2> QED BY <2>1, <2>4, <2>5, <2>7, <2>8, SameRuns
<1>8. ASSUME NEW id \in Ids, RecordEffective(id) \/ FinishRow(id)
      PROVE  TableInv'
  <2>1. /\ UNCHANGED <<clock, made, slots>>
        /\ thread' \in {thread, Put(thread, id, "closed")} /\ thread[id] # "none"
    BY <1>8 DEF RecordEffective, FinishRow
  <2>2. PICK row : /\ rows' = Put(rows, id, row)
                   /\ DOMAIN row = RowColumns
                   /\ row.state # rows[id].state => row.state # "none"
                   /\ row.request = rows[id].request /\ row.created = rows[id].created
    <3>1. CASE RecordEffective(id)
      <4>1. rows' = Put(rows, id, [rows[id] EXCEPT !.effective = "applied"])
        BY <3>1 DEF RecordEffective, Put, Shaped
      <4> QED BY <4>1 DEF Shaped, RowColumns, NoRow
    <3>2. CASE FinishRow(id)
      <4> DEFINE row == Close(rows[id], slots[id].outcome, slots[id].cleanup, slots[id].revision)
      <4>1. /\ DOMAIN row = RowColumns
            /\ row.state # rows[id].state => row.state # "none"
            /\ row.request = rows[id].request /\ row.created = rows[id].created
        BY DEF Close, Finished, Shaped, RowColumns, NoRow
      <4>2. rows' = Put(rows, id, IF row.effective = "none"
                                  THEN [row EXCEPT !.effective = "requested"] ELSE row)
        BY <3>2 DEF FinishRow
      <4> HIDE DEF row
      <4> QED BY <4>1, <4>2 DEF RowColumns, NoRow
    <3> QED BY <1>8, <3>1, <3>2
  <2>3. Shaped'
    BY <2>1, <2>2 DEF Shaped, Put
  <2>4. SlotIsLive'
    BY <2>1 DEF SlotIsLive, Put, Shaped
  <2>5. \A m \in made : Kept(m) => Kept(m)'
    BY <2>1, <2>2 DEF Kept, HasRow, MadeIsKept, Put, Shaped
  <2>6. \A i \in Ids : thread[i] = "none" <=> thread'[i] = "none"
    BY <2>1 DEF Put, Shaped
  <2> QED BY <2>1, <2>3, <2>4, <2>5, <2>6, SameRuns
<1> QED
  BY <1>1, <1>2, <1>3, <1>4, <1>5, <1>6, <1>7, <1>8 DEF TableNext

\* Two clients that race on one request id start one run: any two runs of the
\* same id are further apart than the window, over any number of supervisors
\* that recover and prune (run_insert, recover, prune).
THEOREM OneRunPerKeyAlways == TableSpec => []OneRunPerKey
<1>1. TableInv => OneRunPerKey
  BY DEF TableInv
<1> QED BY <1>1, TableInitially, TableStepping, PTL DEF TableSpec

-----------------------------------------------------------------------------
(* How far a run is                                                        *)

Pipeline == {"registered", "admit", "waiting", "worker", "row", "ending", "closed"}

\* How far the slot and the row of a run are, at each place of its life.
Life(id) ==
  LET row == rows[id] slot == slots[id] at == thread[id] IN
  /\ at \in {"none", "inserted", "ended"} \cup Pipeline
  /\ id \in registry <=> at \in Pipeline
  /\ at \in {"none", "inserted"} => slot.state = "none"
  /\ at = "none" => row.state = "none"
  /\ at \in {"inserted", "registered", "admit", "waiting"} => row.state = "queued" /\ row.revision = 0
  /\ at \in {"registered", "admit", "waiting"} => slot.state = "queued" /\ slot.revision = 0
  /\ at \in {"worker", "row", "ending"} =>
       row.revision \in 0 .. 3 /\ row.state = Stages[row.revision + 1]
  /\ at = "worker" => slot.state = row.state /\ slot.revision = row.revision
  /\ at = "row" => /\ row.revision < 3 /\ slot.revision = row.revision + 1
                   /\ slot.state = Stages[slot.revision + 1]
  /\ at = "ending" => Finished(slot) /\ slot.revision = row.revision + 1
  /\ at = "closed" => Finished(slot) /\ Finished(row)
  /\ at = "ended" => Finished(row) \/ row.state = "none"
  /\ at = "ended" => (Finished(slot) /\ Finished(row)) \/ slot.state = "none"
  /\ Finished(slot) /\ Finished(row) => slot.revision = row.revision
  /\ Finished(row) => row.revision \in 1 .. 4
  /\ row.state = "none" => row.revision = 0

\* The kind of the event that tells step i of a run.
KindOf(id, i) == IF Finished(rows[id]) /\ i = rows[id].revision THEN "finished" ELSE Stages[i + 1]
AllTold ==
  /\ \A e \in runEvents : e.id \in Ids /\ HasRow(e.id) /\ e.revision \in 0 .. rows[e.id].revision
  /\ \A id \in Ids : \A i \in 1 .. rows[id].revision :
       \E e \in runEvents : e.id = id /\ e.revision = i /\ e.kind = KindOf(id, i)

\* y is not behind x.
NotBehind(x, y) == x.revision <= y.revision /\ (Finished(x) => Finished(y))
\* What can be had of a run now, from memory or from its row, is not behind x.
Ahead(x, id) ==
  /\ slots[id].state # "none" => NotBehind(x, slots[id])
  /\ id \notin registry /\ HasRow(id) => NotBehind(x, rows[id])

ViewInv ==
  /\ DOMAIN viewer = {"at", "id", "live", "copy", "view"}
  /\ viewer.id \in {0} \cup Ids /\ viewer.at \in {"idle", "slot"}
  /\ viewer.view.revision \in Nat /\ viewer.copy.revision \in Nat
  /\ viewer.id = 0 => viewer.at = "idle" /\ viewer.view = NoView
  /\ viewer.id \in Ids => thread[viewer.id] # "none" /\ Ahead(viewer.view, viewer.id)
  /\ viewer.live => viewer.at = "slot" /\ slots[viewer.id].state # "none"
  /\ viewer.at = "slot" /\ ~viewer.live =>
       Ahead(viewer.copy, viewer.id) /\ NotBehind(viewer.view, viewer.copy)

AdvanceInv ==
  /\ clock \in 0 .. MaxTicks /\ reopens \in 0 .. MaxReopens /\ registry \subseteq Ids
  /\ (\A id \in Ids : Life(id)) /\ AllTold /\ ViewInv

-----------------------------------------------------------------------------
\* A step of one run leaves the others where they are.
Only(id) ==
  \A j \in Ids \ {id} : /\ rows'[j] = rows[j] /\ slots'[j] = slots[j] /\ thread'[j] = thread[j]
                        /\ j \in registry' <=> j \in registry

\* What a step of run id is, in states and revisions.
LEMMA StepOfRun ==
  ASSUME TableInv, AdvanceInv, NEW id \in Ids,
         \/ Register(id) \/ CreatedEvent(id) \/ AdmitNow(id) \/ Enqueue(id) \/ StepMemory(id)
         \/ StepRow(id) \/ RecordEffective(id) \/ FinishMemory(id) \/ FinishRow(id) \/ Unregister(id)
  PROVE  /\ Only(id) /\ Life(id)' /\ UNCHANGED viewer
         /\ slots[id].state # "none" => slots'[id].state # "none"
         /\ \A x : x.revision \in Nat /\ Ahead(x, id) => Ahead(x, id)'
         /\ thread[id] # "none" /\ thread'[id] # "none"
<1> USE DEF Put
<1>0. /\ DOMAIN rows = Ids /\ DOMAIN slots = Ids /\ DOMAIN thread = Ids
      /\ DOMAIN rows[id] = RowColumns /\ DOMAIN slots[id] = SlotFields /\ Life(id)
  BY DEF TableInv, Shaped, AdvanceInv
<1>1. CASE Register(id)
  <2>1. /\ thread[id] = "inserted" /\ thread' = [thread EXCEPT ![id] = "registered"]
        /\ slots' = [slots EXCEPT ![id] = Queued] /\ registry' = registry \cup {id}
        /\ UNCHANGED <<rows, viewer>>
    BY <1>1 DEF Register
  <2>2. Only(id) /\ thread'[id] = "registered" /\ slots'[id] = Queued
    BY <1>0, <2>1 DEF Only
  <2>3. Queued.state = "queued" /\ Queued.revision = 0
    BY DEF Queued
  <2>4. rows[id].state = "queued" /\ rows[id].revision = 0 /\ id \notin registry
    BY <1>0, <2>1 DEF Life, Pipeline
  <2>5. Life(id)'
    BY <2>1, <2>2, <2>3, <2>4 DEF Life, Pipeline, Finished
  <2>6. \A x : x.revision \in Nat /\ Ahead(x, id) => Ahead(x, id)'
    BY <2>1, <2>2, <2>3, <2>4 DEF Ahead, NotBehind, Finished, HasRow
  <2> QED BY <2>1, <2>2, <2>3, <2>5, <2>6
<1>2. CASE CreatedEvent(id) \/ AdmitNow(id) \/ Enqueue(id)
  <2>1. /\ UNCHANGED <<rows, slots, registry, viewer>>
        /\ \/ thread[id] = "registered" /\ thread' = [thread EXCEPT ![id] = "admit"]
           \/ /\ thread[id] \in {"admit", "waiting"}
              /\ thread' \in {[thread EXCEPT ![id] = "worker"], [thread EXCEPT ![id] = "waiting"]}
    BY <1>2 DEF CreatedEvent, AdmitNow, Enqueue
  <2>2. Only(id)
    BY <1>0, <2>1 DEF Only
  <2>3. Life(id)'
    BY <1>0, <2>1 DEF Life, Pipeline, Finished, Stages
  <2>4. \A x : Ahead(x, id) => Ahead(x, id)'
    BY <2>1 DEF Ahead, NotBehind, Finished, HasRow
  <2> QED BY <1>0, <2>1, <2>2, <2>3, <2>4
<1>3. CASE StepMemory(id)
  <2>1. PICK i \in 2 .. 4 :
          /\ Stages[i - 1] = slots[id].state
          /\ slots' = Update(slots, id, [state |-> Stages[i], revision |-> slots[id].revision + 1])
    BY <1>3 DEF StepMemory
  <2>2. /\ thread[id] = "worker" /\ thread' = [thread EXCEPT ![id] = "row"]
        /\ UNCHANGED <<rows, registry, viewer>>
    BY <1>3 DEF StepMemory
  <2>3. /\ slots'[id].state = Stages[i] /\ slots'[id].revision = slots[id].revision + 1
        /\ \A j \in Ids \ {id} : slots'[j] = slots[j]
    BY <1>0, <2>1, Updated DEF SlotFields, Queued
  <2>4. Only(id)
    BY <1>0, <2>2, <2>3 DEF Only
  <2>5. /\ slots[id].revision \in 0 .. 3 /\ slots[id].state = Stages[slots[id].revision + 1]
        /\ rows[id].state = slots[id].state /\ rows[id].revision = slots[id].revision
        /\ id \in registry
    BY <1>0, <2>2 DEF Life, Pipeline
  <2>6. /\ i = slots[id].revision + 2 /\ slots[id].state \notin {"none", "finished"}
        /\ Stages[i] \notin {"none", "finished"}
    BY <2>1, <2>5 DEF Stages
  <2>7. Life(id)'
    BY <1>0, <2>2, <2>3, <2>5, <2>6 DEF Life, Pipeline, Finished
  <2>8. \A x : x.revision \in Nat /\ Ahead(x, id) => Ahead(x, id)'
    BY <2>2, <2>3, <2>5, <2>6 DEF Ahead, NotBehind, Finished, HasRow
  <2> QED BY <1>0, <2>2, <2>3, <2>4, <2>6, <2>7, <2>8
<1>4. CASE StepRow(id)
  <2> DEFINE fields == [state |-> slots[id].state, cleanup |-> slots[id].cleanup,
                        revision |-> slots[id].revision]
  <2>1. /\ thread[id] = "row" /\ thread' = [thread EXCEPT ![id] = "worker"]
        /\ UNCHANGED <<slots, registry, viewer>>
    BY <1>4 DEF StepRow
  <2>2. /\ rows[id].revision \in 0 .. 3 /\ rows[id].revision < 3 /\ id \in registry
        /\ slots[id].revision = rows[id].revision + 1 /\ slots[id].state = Stages[slots[id].revision + 1]
        /\ rows[id].state = Stages[rows[id].revision + 1]
    BY <1>0, <2>1 DEF Life, Pipeline
  <2>3. rows' = Update(rows, id, fields)
    BY <1>4, <2>2 DEF StepRow, RowStep
  <2>4. /\ rows'[id].state = slots[id].state /\ rows'[id].revision = slots[id].revision
        /\ \A j \in Ids \ {id} : rows'[j] = rows[j]
    BY <1>0, <2>3, Updated DEF RowColumns, NoRow
  <2>5. Only(id)
    BY <1>0, <2>1, <2>4 DEF Only
  <2>6. slots[id].state \notin {"none", "finished"}
    BY <2>2 DEF Stages
  <2>7. Life(id)'
    BY <1>0, <2>1, <2>2, <2>4, <2>6 DEF Life, Pipeline, Finished
  <2>8. \A x : Ahead(x, id) => Ahead(x, id)'
    BY <2>1, <2>2 DEF Ahead, NotBehind, Finished
  <2> QED BY <1>0, <2>1, <2>5, <2>7, <2>8
<1>5. CASE RecordEffective(id)
  <2>1. /\ rows' = [rows EXCEPT ![id].effective = "applied"] /\ UNCHANGED <<slots, thread, registry, viewer>>
        /\ thread[id] = "worker"
    BY <1>5 DEF RecordEffective
  <2>2. /\ rows'[id].state = rows[id].state /\ rows'[id].revision = rows[id].revision
        /\ \A j \in Ids \ {id} : rows'[j] = rows[j]
    BY <1>0, <2>1 DEF RowColumns, NoRow
  <2>3. Only(id)
    BY <1>0, <2>1, <2>2 DEF Only
  <2>4. Life(id)'
    BY <1>0, <2>1, <2>2 DEF Life, Finished
  <2>5. \A x : Ahead(x, id) => Ahead(x, id)'
    BY <1>0, <2>1 DEF Ahead, NotBehind, Finished, Life, Pipeline
  <2> QED BY <1>0, <2>1, <2>3, <2>4, <2>5
<1>6. CASE FinishMemory(id)
  <2> DEFINE fields == [state |-> "finished", cleanup |-> "complete", outcome |-> "exited",
                        revision |-> FinishRevision(slots[id].revision)]
  <2>1. /\ thread[id] \in {"admit", "waiting", "worker"} /\ thread' = [thread EXCEPT ![id] = "ending"]
        /\ slots' = Update(slots, id, fields) /\ UNCHANGED <<rows, registry, viewer>>
    BY <1>6 DEF FinishMemory
  <2>2. /\ slots[id].revision \in 0 .. 3 /\ slots[id].state = Stages[slots[id].revision + 1]
        /\ rows[id].state = slots[id].state /\ rows[id].revision = slots[id].revision
        /\ id \in registry
    BY <1>0, <2>1 DEF Life, Pipeline, Stages
  <2>3. /\ slots'[id].state = "finished" /\ slots'[id].revision = slots[id].revision + 1
        /\ \A j \in Ids \ {id} : slots'[j] = slots[j]
    BY <1>0, <2>1, Updated DEF SlotFields, Queued, FinishRevision
  <2>4. Only(id)
    BY <1>0, <2>1, <2>3 DEF Only
  <2>5. slots[id].state \notin {"none", "finished"}
    BY <2>2 DEF Stages
  <2>6. Life(id)'
    BY <1>0, <2>1, <2>2, <2>3, <2>5 DEF Life, Pipeline, Finished
  <2>7. \A x : x.revision \in Nat /\ Ahead(x, id) => Ahead(x, id)'
    BY <2>1, <2>2, <2>3, <2>5 DEF Ahead, NotBehind, Finished
  <2> QED BY <1>0, <2>1, <2>3, <2>4, <2>6, <2>7
<1>7. CASE FinishRow(id)
  <2>1. /\ thread[id] = "ending" /\ thread' = [thread EXCEPT ![id] = "closed"]
        /\ UNCHANGED <<slots, registry, viewer>>
        /\ LET row == Close(rows[id], slots[id].outcome, slots[id].cleanup, slots[id].revision)
           IN rows' = [rows EXCEPT ![id] = IF row.effective = "none"
                                           THEN [row EXCEPT !.effective = "requested"] ELSE row]
    BY <1>7 DEF FinishRow
  <2>2. /\ rows[id].revision \in 0 .. 3 /\ rows[id].state = Stages[rows[id].revision + 1]
        /\ slots[id].state = "finished" /\ slots[id].revision = rows[id].revision + 1 /\ id \in registry
    BY <1>0, <2>1 DEF Life, Pipeline, Finished
  <2>3. rows[id].state \notin {"none", "finished"}
    BY <2>2 DEF Stages
  <2>4. /\ rows'[id].state = "finished" /\ rows'[id].revision = slots[id].revision
        /\ \A j \in Ids \ {id} : rows'[j] = rows[j]
    <3>1. PICK row : /\ row = Close(rows[id], slots[id].outcome, slots[id].cleanup, slots[id].revision)
                     /\ rows' = [rows EXCEPT ![id] = IF row.effective = "none"
                                           THEN [row EXCEPT !.effective = "requested"] ELSE row]
      BY <2>1
    <3>2. DOMAIN row = RowColumns /\ row.state = "finished" /\ row.revision = slots[id].revision
      BY <1>0, <2>3, <3>1 DEF Close, Finished, RowColumns, NoRow
    <3> QED BY <1>0, <3>1, <3>2 DEF RowColumns, NoRow
  <2>5. Only(id)
    BY <1>0, <2>1, <2>4 DEF Only
  <2>6. Life(id)'
    BY <1>0, <2>1, <2>2, <2>4 DEF Life, Pipeline, Finished
  <2>7. \A x : Ahead(x, id) => Ahead(x, id)'
    BY <2>1, <2>2 DEF Ahead, NotBehind, Finished
  <2> QED BY <1>0, <2>1, <2>5, <2>6, <2>7
<1>8. CASE Unregister(id)
  <2>1. /\ thread[id] = "closed" /\ thread' = [thread EXCEPT ![id] = "ended"]
        /\ registry' = registry \ {id} /\ UNCHANGED <<rows, slots, viewer>>
    BY <1>8 DEF Unregister
  <2>2. Only(id) /\ thread'[id] = "ended"
    BY <1>0, <2>1 DEF Only
  <2>3. Finished(slots[id]) /\ Finished(rows[id]) /\ slots[id].revision = rows[id].revision
    BY <1>0, <2>1 DEF Life
  <2>4. Life(id)'
    BY <1>0, <2>1, <2>2, <2>3 DEF Life, Pipeline, Finished
  <2>5. \A x : Ahead(x, id) => Ahead(x, id)'
    BY <2>1, <2>3 DEF Ahead, NotBehind, Finished, HasRow
  <2> QED BY <2>1, <2>2, <2>4, <2>5
<1> QED BY <1>1, <1>2, <1>3, <1>4, <1>5, <1>6, <1>7, <1>8

\* The others are where they were in their lives.
LEMMA OthersLive ==
  ASSUME NEW id \in Ids, Only(id), Life(id)', \A j \in Ids : Life(j)
  PROVE  \A j \in Ids : Life(j)'
<1> SUFFICES ASSUME NEW j \in Ids \ {id} PROVE Life(j)'
  OBVIOUS
<1>1. /\ rows'[j] = rows[j] /\ slots'[j] = slots[j] /\ thread'[j] = thread[j]
      /\ j \in registry' <=> j \in registry
  BY DEF Only
<1> QED BY <1>1 DEF Life, Finished

\* The client is not ahead of what it can still be shown.
LEMMA ViewKept ==
  ASSUME ViewInv, NEW id \in Ids, Only(id), UNCHANGED viewer, registry' \subseteq Ids,
         slots[id].state # "none" => slots'[id].state # "none",
         \A x : x.revision \in Nat /\ Ahead(x, id) => Ahead(x, id)',
         thread'[id] # "none"
  PROVE  ViewInv'
<1>1. \A j \in Ids : \A x : x.revision \in Nat /\ Ahead(x, j) => Ahead(x, j)'
  <2> SUFFICES ASSUME NEW j \in Ids \ {id}, NEW x, Ahead(x, j) PROVE Ahead(x, j)'
    OBVIOUS
  <2>1. rows'[j] = rows[j] /\ slots'[j] = slots[j] /\ (j \in registry' <=> j \in registry)
    BY DEF Only
  <2>2. HasRow(j)' <=> HasRow(j)
    BY <2>1 DEF HasRow
  <2> QED BY <2>1, <2>2 DEF Ahead, NotBehind, Finished
<1>2. \A j \in Ids : /\ slots[j].state # "none" => slots'[j].state # "none"
                     /\ thread[j] # "none" => thread'[j] # "none"
  BY DEF Only
<1>3. viewer.id \in Ids => thread'[viewer.id] # "none" /\ Ahead(viewer.view, viewer.id)'
  BY <1>1, <1>2 DEF ViewInv
<1>4. viewer.live => slots'[viewer.id].state # "none"
  <2>1. viewer.live /\ viewer.id \in Ids => slots[viewer.id].state # "none"
    BY DEF ViewInv
  <2> QED BY <2>1, <1>2 DEF ViewInv
<1>5. viewer.at = "slot" /\ ~viewer.live => Ahead(viewer.copy, viewer.id)'
  <2>1. viewer.at = "slot" => viewer.id \in Ids
    BY DEF ViewInv
  <2> QED BY <2>1, <1>1 DEF ViewInv
<1> QED BY <1>3, <1>4, <1>5 DEF ViewInv, Ahead, NotBehind

-----------------------------------------------------------------------------
(* The events                                                              *)

\* What was told of a step stays told.
StaysTold == \A e \in runEvents : e.revision > 0 /\ HasRow(e.id)' => e \in runEvents'

\* An event of no step replaces none of a step.
LEMMA ToldSame ==
  ASSUME AllTold, NEW id \in Ids, HasRow(id),
         \A j \in Ids : /\ rows[j].revision \in Nat
                        /\ rows'[j].state = rows[j].state /\ rows'[j].revision = rows[j].revision,
         \/ runEvents' = runEvents
         \/ \E what : runEvents' = WithEvent(runEvents, id, 0, what)
  PROVE  AllTold' /\ StaysTold
<1>1. \A e \in runEvents : e.revision > 0 => e \in runEvents'
  BY DEF WithEvent
<1>2. \A e \in runEvents' : e \in runEvents \/ (e.id = id /\ e.revision = 0)
  BY DEF WithEvent
<1>3. \A j \in Ids : \A i : KindOf(j, i)' = KindOf(j, i)
  BY DEF KindOf, Finished
<1>4. \A e \in runEvents' : e.id \in Ids /\ HasRow(e.id)' /\ e.revision \in 0 .. rows'[e.id].revision
  BY <1>2 DEF AllTold, HasRow
<1>5. ASSUME NEW j \in Ids, NEW i \in 1 .. rows'[j].revision
      PROVE  \E e \in runEvents' : e.id = j /\ e.revision = i /\ e.kind = KindOf(j, i)'
  <2>1. PICK e \in runEvents : e.id = j /\ e.revision = i /\ e.kind = KindOf(j, i)
    BY DEF AllTold
  <2> QED BY <2>1, <1>1, <1>3
<1>6. AllTold'
  BY <1>4, <1>5 DEF AllTold
<1> QED BY <1>1, <1>6 DEF StaysTold

\* A step of a row is told by an event of its own.
LEMMA ToldStep ==
  ASSUME AllTold, NEW id \in Ids, HasRow(id), HasRow(id)', ~Finished(rows[id]),
         \A j \in Ids : rows[j].revision \in Nat,
         \A j \in Ids \ {id} : rows'[j] = rows[j],
         rows'[id].revision = rows[id].revision + 1,
         runEvents' = WithEvent(runEvents, id, rows'[id].revision, KindOf(id, rows[id].revision)')
  PROVE  AllTold' /\ StaysTold
<1> DEFINE new == [id |-> id, revision |-> rows'[id].revision, kind |-> KindOf(id, rows[id].revision)']
<1>0. new.id = id /\ new.revision = rows[id].revision + 1 /\ new.kind = KindOf(id, rows[id].revision)'
  OBVIOUS
<1>1. \A e \in runEvents : e \in runEvents'
  BY DEF WithEvent, AllTold
<1>2. runEvents' \subseteq runEvents \cup {new} /\ new \in runEvents'
  BY DEF WithEvent
<1> HIDE DEF new
<1>3. \A e \in runEvents' : e.id \in Ids /\ HasRow(e.id)' /\ e.revision \in 0 .. rows'[e.id].revision
  BY <1>0, <1>2 DEF AllTold, HasRow
<1>4. ASSUME NEW j \in Ids, NEW i \in 1 .. rows'[j].revision
      PROVE  \E e \in runEvents' : e.id = j /\ e.revision = i /\ e.kind = KindOf(j, i)'
  <2>1. CASE i \in 1 .. rows[j].revision
    <3>1. PICK e \in runEvents : e.id = j /\ e.revision = i /\ e.kind = KindOf(j, i)
      BY <2>1 DEF AllTold
    <3>2. KindOf(j, i)' = KindOf(j, i)
      BY <2>1 DEF KindOf, Finished
    <3> QED BY <3>1, <3>2, <1>1
  <2>2. CASE i \notin 1 .. rows[j].revision
    <3>1. j = id
      BY <2>2
    <3>2. i = rows[id].revision + 1
      BY <2>2, <3>1
    <3> QED BY <3>1, <3>2, <1>0, <1>2
  <2> QED BY <2>1, <2>2
<1>5. AllTold'
  BY <1>3, <1>4 DEF AllTold
<1> QED BY <1>1, <1>5 DEF StaysTold


-----------------------------------------------------------------------------
\* What the client has seen, it does not see undone.
SeenStays == NotBehind(viewer.view, viewer'.view)

LEMMA AdvanceInitially == TableInit => AdvanceInv
<1> SUFFICES ASSUME TableInit PROVE AdvanceInv
  OBVIOUS
<1> USE DEF TableInit
<1>1. NoView.state = "none" /\ NoView.revision = 0 /\ NoRow.state = "none" /\ NoRow.revision = 0
  BY DEF NoView, Queued, NoRow
<1>2. \A id \in Ids : Life(id)
  BY <1>1 DEF Life, Finished, Pipeline
<1>3. AllTold
  BY <1>1 DEF AllTold
<1>4. ViewInv
  BY <1>1, TableAssumption DEF ViewInv, Ids
<1> QED BY <1>2, <1>3, <1>4, TableAssumption DEF AdvanceInv

\* A run on its way: one lock, one step.
LEMMA RunAdvances ==
  ASSUME TableInv, AdvanceInv, NEW id \in Ids,
         \/ Register(id) \/ CreatedEvent(id) \/ AdmitNow(id) \/ Enqueue(id) \/ StepMemory(id)
         \/ StepRow(id) \/ RecordEffective(id) \/ FinishMemory(id) \/ FinishRow(id) \/ Unregister(id)
  PROVE  AdvanceInv' /\ StaysTold /\ SeenStays
<1>0. /\ DOMAIN rows = Ids /\ DOMAIN rows[id] = RowColumns /\ DOMAIN slots[id] = SlotFields
  BY DEF TableInv, Shaped
<1>1. /\ Only(id) /\ Life(id)' /\ UNCHANGED viewer
      /\ slots[id].state # "none" => slots'[id].state # "none"
      /\ \A x : x.revision \in Nat /\ Ahead(x, id) => Ahead(x, id)'
      /\ thread[id] # "none" /\ thread'[id] # "none"
  BY StepOfRun
<1>2. clock' = clock /\ reopens' = reopens /\ registry' \subseteq Ids
  BY DEF AdvanceInv, Register, CreatedEvent, AdmitNow, Enqueue, StepMemory, StepRow, RecordEffective,
         FinishMemory, FinishRow, Unregister
<1>3. \A j \in Ids : Life(j)'
  BY <1>1, OthersLive DEF AdvanceInv
<1>4. ViewInv'
  BY <1>1, <1>2, ViewKept DEF AdvanceInv
<1>5. SeenStays
  BY <1>1 DEF SeenStays, NotBehind, AdvanceInv, ViewInv
<1>6. \A j \in Ids : rows[j].revision \in Nat
  BY DEF AdvanceInv, Life, Pipeline
<1>7. AllTold' /\ StaysTold
  <2>1. CASE Register(id) \/ AdmitNow(id) \/ StepMemory(id) \/ FinishMemory(id) \/ Unregister(id)
    <3>1. rows' = rows /\ runEvents' = runEvents
      BY <2>1 DEF Register, AdmitNow, StepMemory, FinishMemory, Unregister
    <3>2. AllTold'
      BY <3>1 DEF AdvanceInv, AllTold, HasRow, KindOf, Finished
    <3> QED BY <3>1, <3>2 DEF StaysTold
  <2>2. CASE CreatedEvent(id) \/ Enqueue(id) \/ RecordEffective(id)
    <3>1. thread[id] \in {"registered", "admit", "worker"}
      BY <2>2 DEF CreatedEvent, Enqueue, RecordEffective
    <3>2. HasRow(id)
      BY <3>1, <1>6 DEF AdvanceInv, Life, HasRow, Stages
    <3>3. \A j \in Ids : rows'[j].state = rows[j].state /\ rows'[j].revision = rows[j].revision
      BY <2>2, <1>0 DEF CreatedEvent, Enqueue, RecordEffective, RowColumns, NoRow
    <3>4. \/ runEvents' = runEvents
          \/ \E what : runEvents' = WithEvent(runEvents, id, 0, what)
      BY <2>2 DEF CreatedEvent, Enqueue, RecordEffective
    <3> QED BY <3>2, <3>3, <3>4, <1>6, ToldSame DEF AdvanceInv
  <2>3. CASE StepRow(id)
    <3> DEFINE fields == [state |-> slots[id].state, cleanup |-> slots[id].cleanup,
                          revision |-> slots[id].revision]
    <3>1. thread[id] = "row"
      BY <2>3 DEF StepRow
    <3>2. /\ rows[id].revision \in 0 .. 3 /\ rows[id].revision < 3
          /\ slots[id].revision = rows[id].revision + 1 /\ slots[id].state = Stages[slots[id].revision + 1]
          /\ rows[id].state = Stages[rows[id].revision + 1]
      BY <3>1 DEF AdvanceInv, Life
    <3>3. /\ rows' = Update(rows, id, fields)
          /\ runEvents' = WithEvent(runEvents, id, slots[id].revision, slots[id].state)
      BY <2>3, <3>2 DEF StepRow, RowStep
    <3>4. /\ rows'[id].state = slots[id].state /\ rows'[id].revision = slots[id].revision
          /\ \A j \in Ids \ {id} : rows'[j] = rows[j]
      BY <1>0, <3>3, Updated DEF RowColumns, NoRow
    <3>5. HasRow(id) /\ HasRow(id)' /\ ~Finished(rows[id])
      BY <3>2, <3>4 DEF HasRow, Finished, Stages
    <3>6. KindOf(id, rows[id].revision)' = slots[id].state
      BY <3>2, <3>4 DEF KindOf, Finished, Stages
    <3>7. runEvents' = WithEvent(runEvents, id, rows'[id].revision, KindOf(id, rows[id].revision)')
      BY <3>3, <3>4, <3>6
    <3> QED BY <3>2, <3>4, <3>5, <3>7, <1>6, ToldStep DEF AdvanceInv
  <2>4. CASE FinishRow(id)
    <3>1. /\ thread[id] = "ending" /\ thread'[id] = "closed"
          /\ runEvents' = WithEvent(runEvents, id, slots[id].revision, "finished") /\ slots' = slots
      BY <2>4 DEF FinishRow, Put, TableInv, Shaped
    <3>2. /\ rows[id].revision \in 0 .. 3 /\ rows[id].state = Stages[rows[id].revision + 1]
          /\ slots[id].revision = rows[id].revision + 1
      BY <3>1 DEF AdvanceInv, Life
    <3>3. Finished(rows'[id]) /\ rows'[id].revision = slots[id].revision
      BY <3>1, <1>1 DEF Life, Finished
    <3>4. HasRow(id) /\ HasRow(id)' /\ ~Finished(rows[id])
      BY <3>2, <3>3 DEF HasRow, Finished, Stages
    <3>5. KindOf(id, rows[id].revision)' = "finished"
      BY <3>3 DEF KindOf
    <3>6. runEvents' = WithEvent(runEvents, id, rows'[id].revision, KindOf(id, rows[id].revision)')
      BY <3>1, <3>3, <3>5
    <3>7. \A j \in Ids \ {id} : rows'[j] = rows[j]
      BY <1>1 DEF Only
    <3> QED BY <3>2, <3>3, <3>4, <3>6, <3>7, <1>6, ToldStep DEF AdvanceInv
  <2> QED BY <2>1, <2>2, <2>3, <2>4
<1> QED BY <1>2, <1>3, <1>4, <1>5, <1>7 DEF AdvanceInv

\* A new run is not one that anyone has seen.
LEMMA InsertAdvances ==
  ASSUME TableInv, AdvanceInv, InsertRun
  PROVE  AdvanceInv' /\ StaysTold /\ SeenStays
<1>1. PICK request \in Request :
        /\ \E id \in Ids : thread[id] = "none"
        /\ rows' = Put(rows, Fresh,
             [NoRow EXCEPT !.state = "queued", !.cleanup = "pending",
                           !.request = request, !.created = clock])
        /\ thread' = Put(thread, Fresh, "inserted")
        /\ UNCHANGED <<clock, runEvents, registry, slots, viewer, reopens>>
  BY DEF InsertRun
<1>2. PICK new \in Ids : new = Fresh /\ thread[new] = "none"
  BY <1>1, FreshIsFree
<1>3. /\ rows'[new].state = "queued" /\ rows'[new].revision = 0 /\ thread'[new] = "inserted"
      /\ Only(new)
  BY <1>1, <1>2 DEF Only, Put, TableInv, Shaped, NoRow
<1>4. Life(new)
  BY DEF AdvanceInv
<1>5. slots[new].state = "none" /\ rows[new].state = "none" /\ new \notin registry
  BY <1>2, <1>4 DEF Life, Pipeline
<1>6. Life(new)'
  BY <1>1, <1>3, <1>5 DEF Life, Pipeline, Finished
<1>7. \A j \in Ids : Life(j)'
  BY <1>3, <1>6, OthersLive DEF AdvanceInv
<1>8. \A e \in runEvents : e.id # new
  BY <1>5 DEF AdvanceInv, AllTold, HasRow
<1>9. \A j \in Ids \ {new} : rows'[j] = rows[j] /\ slots'[j] = slots[j] /\ thread'[j] = thread[j]
  BY <1>3 DEF Only
<1>10. AllTold'
  <2>1. \A e \in runEvents' : e.id \in Ids /\ HasRow(e.id)' /\ e.revision \in 0 .. rows'[e.id].revision
    BY <1>1, <1>8, <1>9 DEF AdvanceInv, AllTold, HasRow
  <2>2. ASSUME NEW j \in Ids, NEW i \in 1 .. rows'[j].revision
        PROVE  \E e \in runEvents' : e.id = j /\ e.revision = i /\ e.kind = KindOf(j, i)'
    <3>1. j # new /\ i \in 1 .. rows[j].revision
      BY <1>3, <1>9
    <3>2. KindOf(j, i)' = KindOf(j, i)
      BY <3>1, <1>9 DEF KindOf, Finished
    <3> QED BY <3>1, <3>2, <1>1 DEF AdvanceInv, AllTold
  <2> QED BY <2>1, <2>2 DEF AllTold
<1>11. StaysTold /\ SeenStays
  BY <1>1 DEF StaysTold, SeenStays, NotBehind, AdvanceInv, ViewInv
<1>12. ViewInv'
  <2>1. viewer.id # new
    BY <1>2 DEF AdvanceInv, ViewInv
  <2>2. ASSUME viewer.id \in Ids
        PROVE  /\ thread'[viewer.id] = thread[viewer.id] /\ slots'[viewer.id] = slots[viewer.id]
               /\ rows'[viewer.id] = rows[viewer.id]
    BY <2>1, <2>2, <1>9
  <2>3. viewer.id \in Ids => \A x : Ahead(x, viewer.id)' <=> Ahead(x, viewer.id)
    BY <2>2, <1>1 DEF Ahead, NotBehind, Finished, HasRow
  <2>4. viewer.id \in {0} \cup Ids /\ (viewer.at = "slot" => viewer.id \in Ids) /\ (viewer.live => viewer.at = "slot")
    BY DEF AdvanceInv, ViewInv
  <2> QED BY <2>2, <2>3, <2>4, <1>1 DEF AdvanceInv, ViewInv
<1> QED BY <1>1, <1>7, <1>10, <1>11, <1>12 DEF AdvanceInv


\* The next supervisor has no slots, and no row of it is open.
LEMMA ReopenAdvances ==
  ASSUME TableInv, AdvanceInv, Reopen
  PROVE  AdvanceInv' /\ StaysTold /\ SeenStays
<1>1. PICK closed, told :
        /\ closed = [id \in Ids |-> IF HasRow(id)
             THEN Close(rows[id], "supervisor_lost", "unknown", rows[id].revision + 1) ELSE NoRow]
        /\ told = runEvents \cup {[id |-> id, revision |-> closed[id].revision, kind |-> "finished"] :
                                  id \in {i \in Ids : HasRow(i) /\ ~Finished(rows[i])}}
        /\ rows' = [id \in Ids |-> IF Pruned(closed[id]) THEN NoRow ELSE closed[id]]
        /\ runEvents' = {e \in told : ~Pruned(closed[e.id])}
  BY DEF Reopen
<1>2. /\ registry' = {} /\ slots' = [id \in Ids |-> NoView]
      /\ thread' = [id \in Ids |-> IF thread[id] = "none" THEN "none" ELSE "ended"]
      /\ viewer' = [viewer EXCEPT !.at = "idle", !.live = FALSE, !.copy = NoView]
      /\ clock' = clock /\ reopens' \in 0 .. MaxReopens
  BY TableAssumption DEF Reopen, AdvanceInv
<1>3. NoRow.state = "none" /\ NoRow.revision = 0 /\ NoView.state = "none" /\ NoView.revision = 0
  BY DEF NoRow, NoView, Queued
<1>4. \A id \in Ids : Life(id)
  BY DEF AdvanceInv
<1>5. ASSUME NEW id \in Ids
      PROVE  /\ rows[id].revision \in 0 .. 4
             /\ HasRow(id) /\ ~Finished(rows[id]) =>
                  rows[id].revision \in 0 .. 3 /\ rows[id].state = Stages[rows[id].revision + 1]
             /\ thread[id] = "none" => ~HasRow(id)
  BY <1>4 DEF Life, Pipeline, Finished, HasRow, Stages
<1>6. ASSUME NEW id \in Ids
      PROVE  /\ ~HasRow(id) => closed[id] = NoRow /\ rows'[id] = NoRow
             /\ HasRow(id) =>
                  /\ Finished(closed[id])
                  /\ closed[id].revision = IF Finished(rows[id]) THEN rows[id].revision
                                                                 ELSE rows[id].revision + 1
                  /\ IF Pruned(closed[id]) THEN rows'[id] = NoRow ELSE rows'[id] = closed[id]
  <2>1. CASE ~HasRow(id)
    <3>1. closed[id] = NoRow
      BY <1>1, <2>1
    <3> QED BY <1>1, <2>1, <3>1
  <2>2. CASE HasRow(id)
    <3>1. closed[id] = Close(rows[id], "supervisor_lost", "unknown", rows[id].revision + 1)
      BY <1>1, <2>2
    <3>2. DOMAIN rows[id] = RowColumns
      BY DEF TableInv, Shaped
    <3>3. Finished(closed[id]) /\ closed[id].revision = IF Finished(rows[id]) THEN rows[id].revision
                                                                             ELSE rows[id].revision + 1
      BY <3>1, <3>2 DEF Close, Finished, RowColumns, NoRow
    <3> QED BY <2>2, <3>3, <1>1
  <2> QED BY <2>1, <2>2
<1>7. ASSUME NEW id \in Ids
      PROVE  /\ HasRow(id)' => /\ HasRow(id) /\ ~Pruned(closed[id]) /\ rows'[id] = closed[id]
                               /\ Finished(rows'[id])
             /\ HasRow(id) /\ ~Pruned(closed[id]) => HasRow(id)'
             /\ ~HasRow(id)' => rows'[id] = NoRow
             /\ rows'[id].revision \in 0 .. 4
             /\ HasRow(id)' => rows'[id].revision = IF Finished(rows[id]) THEN rows[id].revision
                                                                         ELSE rows[id].revision + 1
             /\ HasRow(id)' => rows'[id].revision \in 1 .. 4
  BY <1>3, <1>4, <1>5, <1>6 DEF HasRow, Finished, Life
<1>8. \A id \in Ids : Life(id)'
  <2> SUFFICES ASSUME NEW id \in Ids PROVE Life(id)'
    OBVIOUS
  <2>1. slots'[id].state = "none" /\ id \notin registry' /\ thread'[id] \in {"none", "ended"}
    BY <1>2, <1>3
  <2>2. thread'[id] = "none" => ~HasRow(id)'
    BY <1>2, <1>5, <1>7
  <2>3. /\ Finished(rows'[id]) \/ rows'[id].state = "none"
        /\ Finished(rows'[id]) => rows'[id].revision \in 1 .. 4
        /\ rows'[id].state = "none" => rows'[id].revision = 0
    BY <1>3, <1>7 DEF HasRow, Finished
  <2> QED BY <2>1, <2>2, <2>3 DEF Life, Pipeline, Finished, HasRow
<1>9. \A e \in runEvents' :
        \/ e \in runEvents /\ ~Pruned(closed[e.id])
        \/ /\ e.id \in Ids /\ HasRow(e.id) /\ ~Pruned(closed[e.id]) /\ e.revision = closed[e.id].revision
  BY <1>1
<1>10. \A e \in runEvents : ~Pruned(closed[e.id]) => e \in runEvents'
  BY <1>1
<1>11. \A id \in Ids : HasRow(id)' /\ ~Finished(rows[id]) =>
          \E e \in runEvents' : e.id = id /\ e.revision = closed[id].revision /\ e.kind = "finished"
  <2> SUFFICES ASSUME NEW id \in Ids, HasRow(id)', ~Finished(rows[id])
               PROVE  \E e \in runEvents' : e.id = id /\ e.revision = closed[id].revision /\ e.kind = "finished"
    OBVIOUS
  <2> DEFINE e == [id |-> id, revision |-> closed[id].revision, kind |-> "finished"]
  <2>1. e.id = id /\ e.revision = closed[id].revision /\ e.kind = "finished"
    OBVIOUS
  <2>2. e \in told
    BY <1>1, <1>7
  <2>3. ~Pruned(closed[e.id])
    BY <2>1, <1>7
  <2>4. e \in runEvents'
    BY <2>2, <2>3, <1>1
  <2> HIDE DEF e
  <2> QED BY <2>1, <2>4
<1>12. AllTold'
  <2>1. ASSUME NEW e \in runEvents'
        PROVE  e.id \in Ids /\ HasRow(e.id)' /\ e.revision \in 0 .. rows'[e.id].revision
    <3>1. e.id \in Ids /\ HasRow(e.id) /\ ~Pruned(closed[e.id])
      BY <1>9 DEF AdvanceInv, AllTold
    <3>2. HasRow(e.id)' /\ rows'[e.id] = closed[e.id]
      BY <3>1, <1>7
    <3>3. e.revision \in 0 .. rows[e.id].revision \/ e.revision = closed[e.id].revision
      BY <1>9 DEF AdvanceInv, AllTold
    <3>4. /\ rows'[e.id].revision \in 0 .. 4 /\ rows[e.id].revision \in 0 .. 4
          /\ rows'[e.id].revision >= rows[e.id].revision
      BY <3>1, <3>2, <1>5, <1>7
    <3> QED BY <3>1, <3>2, <3>3, <3>4
  <2>2. ASSUME NEW id \in Ids, NEW i \in 1 .. rows'[id].revision
        PROVE  \E e \in runEvents' : e.id = id /\ e.revision = i /\ e.kind = KindOf(id, i)'
    <3>1. HasRow(id)'
      BY <1>3, <1>7
    <3>2. /\ HasRow(id) /\ ~Pruned(closed[id]) /\ rows'[id] = closed[id] /\ Finished(rows'[id])
          /\ rows[id].revision \in 0 .. 4
      BY <3>1, <1>5, <1>7
    <3>3. CASE i \in 1 .. rows[id].revision
      <4>1. PICK e \in runEvents : e.id = id /\ e.revision = i /\ e.kind = KindOf(id, i)
        BY <3>3 DEF AdvanceInv, AllTold
      <4>2. KindOf(id, i)' = KindOf(id, i)
        BY <3>2, <3>3, <1>7, <3>1 DEF KindOf
      <4> QED BY <4>1, <4>2, <3>2, <1>10
    <3>4. CASE i \notin 1 .. rows[id].revision
      <4>1. ~Finished(rows[id]) /\ i = rows'[id].revision
        BY <3>1, <3>2, <3>4, <1>7
      <4>2. KindOf(id, i)' = "finished"
        BY <3>2, <4>1 DEF KindOf
      <4> QED BY <4>1, <4>2, <3>1, <3>2, <1>11
    <3> QED BY <3>3, <3>4
  <2> QED BY <2>1, <2>2 DEF AllTold
<1>13. StaysTold
  <2> SUFFICES ASSUME NEW e \in runEvents, HasRow(e.id)' PROVE e \in runEvents'
    BY DEF StaysTold
  <2>1. e.id \in Ids
    BY DEF AdvanceInv, AllTold
  <2> QED BY <2>1, <1>7, <1>10
<1>14. /\ viewer'.view = viewer.view /\ viewer'.id = viewer.id /\ viewer'.at = "idle"
       /\ viewer'.live = FALSE /\ viewer'.copy = NoView /\ DOMAIN viewer' = DOMAIN viewer
  BY <1>2 DEF AdvanceInv, ViewInv
<1>15. SeenStays
  BY <1>14 DEF SeenStays, NotBehind, AdvanceInv, ViewInv
<1>16. ViewInv'
  <2>1. ASSUME viewer.id \in Ids
        PROVE  thread'[viewer.id] # "none" /\ Ahead(viewer.view, viewer.id)'
    <3>0. PICK id \in Ids : id = viewer.id
      BY <2>1
    <3>1. thread[id] # "none" /\ Ahead(viewer.view, id) /\ Life(id) /\ viewer.view.revision \in Nat
      BY <3>0, <1>4 DEF AdvanceInv, ViewInv
    <3>2. thread'[id] # "none" /\ slots'[id].state = "none"
      BY <2>1, <3>1, <1>2, <1>3
    <3>3. ASSUME HasRow(id)' PROVE NotBehind(viewer.view, rows'[id])
      <4>1. /\ Finished(rows'[id]) /\ HasRow(id) /\ rows'[id].revision \in 1 .. 4
            /\ rows'[id].revision = IF Finished(rows[id]) THEN rows[id].revision ELSE rows[id].revision + 1
        BY <3>3, <1>7
      <4>2. /\ slots[id].state # "none" => slots[id].revision <= rows'[id].revision
            /\ slots[id].state = "none" => id \notin registry
            /\ slots[id].state # "none" => slots[id].revision \in Nat
            /\ rows[id].revision \in 0 .. 4
        BY <3>1, <4>1 DEF Life, Pipeline, Finished, HasRow, Stages
      <4> QED BY <3>1, <4>1, <4>2 DEF NotBehind, Ahead
    <3>4. Ahead(viewer.view, viewer.id)'
      <4>1. viewer'.view = viewer.view /\ viewer'.id = id
        BY <1>14, <3>0
      <4> QED BY <3>2, <3>3, <4>1 DEF Ahead
    <3> QED BY <3>0, <3>2, <3>4
  <2>2. ~viewer'.live /\ viewer'.at # "slot" /\ NoView.revision \in Nat
    BY <1>3, <1>14
  <2>3. viewer'.id \in Ids => thread'[viewer'.id] # "none" /\ Ahead(viewer.view, viewer.id)'
    BY <2>1, <1>14
  <2> QED BY <2>2, <2>3, <1>14 DEF AdvanceInv, ViewInv
<1> QED BY <1>2, <1>8, <1>12, <1>13, <1>15, <1>16 DEF AdvanceInv

\* The client is shown what is not behind what it was shown.
LEMMA GetAdvances ==
  ASSUME TableInv, AdvanceInv, GetSlot \/ GetView
  PROVE  AdvanceInv' /\ StaysTold /\ SeenStays
<1>1. UNCHANGED <<clock, rows, runEvents, registry, slots, thread, reopens>>
  BY DEF GetSlot, GetView
<1>2. (\A id \in Ids : Life(id)') /\ AllTold' /\ StaysTold
  BY <1>1 DEF AdvanceInv, Life, AllTold, StaysTold, HasRow, KindOf, Finished
<1>3. \A x, id : Ahead(x, id)' <=> Ahead(x, id)
  BY <1>1 DEF Ahead, NotBehind, Finished, HasRow
<1>4. NoView.state = "none" /\ NoView.revision = 0
  BY DEF NoView, Queued
<1>5. ASSUME NEW id \in Ids
      PROVE  /\ Life(id) /\ rows[id].revision \in Nat
             /\ slots[id].state # "none" => slots[id].revision \in Nat
             /\ id \in registry => slots[id].state # "none"
             /\ id \in registry \/ HasRow(id) => thread[id] # "none"
             /\ id \notin registry /\ HasRow(id) /\ slots[id].state # "none" =>
                  Finished(slots[id]) /\ Finished(rows[id]) /\ slots[id].revision = rows[id].revision
  BY DEF AdvanceInv, Life, Pipeline, Finished, HasRow, Stages
<1>6. CASE GetSlot
  <2>1. PICK id \in Ids :
          /\ viewer.id \in {0, id} /\ (id \in registry \/ HasRow(id))
          /\ viewer' = [viewer EXCEPT !.at = "slot", !.id = id, !.live = id \in registry,
                          !.copy = IF id \in registry THEN NoView ELSE Loaded(rows[id])]
    BY <1>6 DEF GetSlot
  <2>2. /\ viewer'.at = "slot" /\ viewer'.id = id /\ viewer'.live = (id \in registry)
        /\ viewer'.copy = IF id \in registry THEN NoView ELSE Loaded(rows[id])
        /\ viewer'.view = viewer.view /\ DOMAIN viewer' = DOMAIN viewer
    <3>1. DOMAIN viewer = {"at", "id", "live", "copy", "view"}
      BY DEF AdvanceInv, ViewInv
    <3> QED BY <2>1, <3>1, Zenon
  <2>3. Loaded(rows[id]).state = rows[id].state /\ Loaded(rows[id]).revision = rows[id].revision
    BY DEF Loaded
  <2>4. Ahead(viewer.view, id)
    <3>1. CASE viewer.id = 0
      BY <3>1, <1>4, <1>5 DEF AdvanceInv, ViewInv, Ahead, NotBehind, Finished
    <3>2. CASE viewer.id = id
      BY <3>2 DEF AdvanceInv, ViewInv
    <3> QED BY <2>1, <3>1, <3>2
  <2>5. ASSUME id \notin registry
        PROVE  Ahead(Loaded(rows[id]), id) /\ NotBehind(viewer.view, Loaded(rows[id]))
    BY <2>1, <2>3, <2>4, <2>5, <1>5 DEF Ahead, NotBehind, Finished
  <2>6. ViewInv'
    <3>0. id # 0
      BY TableAssumption DEF Ids
    <3>1. viewer'.live <=> id \in registry
      BY <2>2, Zenon
    <3>2. viewer'.copy.revision \in Nat /\ thread'[id] # "none" /\ Ahead(viewer.view, id)'
      BY <2>1, <2>2, <2>3, <2>4, <1>1, <1>3, <1>4, <1>5
    <3>3. viewer'.live => slots'[id].state # "none"
      BY <3>1, <1>1, <1>5
    <3>4. ~viewer'.live => Ahead(Loaded(rows[id]), id)' /\ viewer'.copy = Loaded(rows[id])
      BY <3>1, <2>2, <2>5, <1>1, <1>3
    <3>5. /\ DOMAIN viewer' = {"at", "id", "live", "copy", "view"} /\ viewer'.id = id
          /\ viewer'.at = "slot" /\ viewer'.view.revision \in Nat
      BY <2>2 DEF AdvanceInv, ViewInv
    <3>6. Ahead(viewer.view, viewer.id)'
      BY <2>2, <3>2 DEF Ahead, NotBehind, Finished, HasRow
    <3>7. ~viewer'.live => Ahead(viewer.copy, viewer.id)' /\ NotBehind(viewer.view, viewer.copy)'
      <4> SUFFICES ASSUME ~viewer'.live PROVE Ahead(viewer.copy, viewer.id)' /\ NotBehind(viewer.view, viewer.copy)'
        OBVIOUS
      <4>1. Ahead(Loaded(rows[id]), id)' /\ viewer'.copy = Loaded(rows[id]) /\ rows' = rows /\ viewer'.id = id
        BY <3>4, <1>1, <2>2
      <4>2. NotBehind(viewer.view, Loaded(rows[id])) /\ viewer'.view = viewer.view
        BY <3>1, <2>2, <2>5
      <4>3. Ahead(viewer.copy, viewer.id)'
        BY <4>1 DEF Ahead, NotBehind, Finished, HasRow
      <4> QED BY <4>1, <4>2, <4>3 DEF NotBehind, Finished
    <3> QED BY <3>0, <3>2, <3>3, <3>5, <3>6, <3>7 DEF ViewInv
  <2>7. SeenStays
    BY <2>2 DEF SeenStays, NotBehind, AdvanceInv, ViewInv
  <2> QED BY <1>1, <1>2, <2>6, <2>7 DEF AdvanceInv
<1>7. CASE GetView
  <2>1. PICK view : /\ view = IF viewer.live THEN slots[viewer.id] ELSE viewer.copy
                    /\ viewer' = [viewer EXCEPT !.at = "idle", !.view = view, !.live = FALSE, !.copy = NoView]
                    /\ viewer.at = "slot"
    BY <1>7 DEF GetView
  <2>2. /\ viewer'.at = "idle" /\ viewer'.id = viewer.id /\ viewer'.live = FALSE /\ viewer'.copy = NoView
        /\ viewer'.view = view /\ DOMAIN viewer' = DOMAIN viewer
    BY <2>1 DEF AdvanceInv, ViewInv
  <2>3. viewer.id \in Ids /\ viewer.id # 0
    BY <2>1, TableAssumption DEF AdvanceInv, ViewInv, Ids
  <2>4. view.revision \in Nat /\ Ahead(view, viewer.id) /\ NotBehind(viewer.view, view)
    <3>1. CASE viewer.live
      <4>1. slots[viewer.id].state # "none" /\ Ahead(viewer.view, viewer.id)
        BY <2>3, <3>1 DEF AdvanceInv, ViewInv
      <4> QED BY <2>1, <2>3, <3>1, <4>1, <1>5 DEF Ahead, NotBehind
    <3>2. CASE ~viewer.live
      BY <2>1, <3>2 DEF AdvanceInv, ViewInv
    <3> QED BY <3>1, <3>2
  <2>5. ViewInv'
    <3>1. ~viewer'.live /\ viewer'.at # "slot" /\ NoView.revision \in Nat
      BY <2>2, <1>4
    <3>2. thread'[viewer.id] # "none" /\ viewer'.view.revision \in Nat
      BY <2>2, <2>3, <2>4, <1>1 DEF AdvanceInv, ViewInv
    <3>3. Ahead(viewer.view, viewer.id)'
      BY <2>2, <2>4, <1>1 DEF Ahead, NotBehind, Finished, HasRow
    <3> QED BY <2>2, <2>3, <3>1, <3>2, <3>3 DEF AdvanceInv, ViewInv
  <2> QED BY <1>1, <1>2, <2>2, <2>4, <2>5 DEF AdvanceInv, SeenStays
<1> QED BY <1>6, <1>7

\* No step loses an event, or shows the client a run going back.
LEMMA AdvanceStepping ==
  ASSUME TableInv, AdvanceInv, [TableNext]_tableVars
  PROVE  AdvanceInv' /\ StaysTold /\ SeenStays
<1>1. CASE TickClock \/ UNCHANGED tableVars
  <2>1. UNCHANGED <<rows, runEvents, registry, slots, thread, viewer, reopens>> /\ clock' \in 0 .. MaxTicks
    BY <1>1, TableAssumption DEF TickClock, tableVars, AdvanceInv
  <2>2. (\A id \in Ids : Life(id)') /\ AllTold' /\ StaysTold
    BY <2>1 DEF AdvanceInv, Life, AllTold, StaysTold, HasRow, KindOf, Finished
  <2>3. ViewInv' /\ SeenStays
    BY <2>1 DEF AdvanceInv, ViewInv, SeenStays, Ahead, NotBehind, Finished, HasRow
  <2> QED BY <2>1, <2>2, <2>3 DEF AdvanceInv
<1> QED BY <1>1, InsertAdvances, ReopenAdvances, GetAdvances, RunAdvances DEF TableNext

\* What the invariant says of the types, and of the events.
LEMMA AdvanceTells ==
  ASSUME AdvanceInv
  PROVE  TableTypeOK /\ StepsTold
<1>1. TableTypeOK
  <2>1. \A id \in Ids :
          /\ rows[id].state \in RunStages \cup {"none"} /\ rows[id].revision \in 0 .. 4
          /\ slots[id].state \in RunStages \cup {"none"}
          /\ thread[id] \in {"none", "inserted", "registered", "admit", "waiting", "worker",
                             "row", "ending", "closed", "ended"}
          /\ id \in registry => slots[id].state # "none"
    <3> SUFFICES ASSUME NEW id \in Ids, Life(id)
                 PROVE  /\ rows[id].state \in RunStages \cup {"none"} /\ rows[id].revision \in 0 .. 4
                        /\ slots[id].state \in RunStages \cup {"none"}
                        /\ thread[id] \in {"none", "inserted", "registered", "admit", "waiting", "worker",
                                           "row", "ending", "closed", "ended"}
                        /\ id \in registry => slots[id].state # "none"
      BY DEF AdvanceInv
    <3>1. RunStages = {"queued", "starting", "running", "stopping", "finished"}
      <4>1. /\ Stages[1] = "queued" /\ Stages[2] = "starting" /\ Stages[3] = "running"
            /\ Stages[4] = "stopping" /\ Stages[5] = "finished" /\ 1 .. 5 = {1, 2, 3, 4, 5}
        BY DEF Stages
      <4> QED BY <4>1 DEF RunStages
    <3>2. \A i \in 0 .. 3 : Stages[i + 1] \in RunStages \ {"none"}
      BY <3>1 DEF Stages
    <3> QED BY <3>1, <3>2 DEF Life, Pipeline, Finished
  <2> QED BY <2>1 DEF AdvanceInv, AllTold, ViewInv, TableTypeOK
<1>2. StepsTold
  <2> SUFFICES ASSUME NEW id \in Ids, HasRow(id)
               PROVE  /\ {e.revision : e \in {x \in runEvents : x.id = id}} \ {0} = 1 .. rows[id].revision
                      /\ Finished(rows[id]) =>
                           \E e \in runEvents : e.id = id /\ e.kind = "finished" /\ e.revision = rows[id].revision
                      /\ \A i \in 2 .. 4 :
                           (rows[id].state = Stages[i] \/ (Finished(rows[id]) /\ rows[id].revision >= i))
                             => \E e \in runEvents : e.id = id /\ e.kind = Stages[i] /\ e.revision = i - 1
    BY DEF StepsTold
  <2>1. /\ rows[id].revision \in 0 .. 4
        /\ Finished(rows[id]) => rows[id].revision \in 1 .. 4
        /\ ~Finished(rows[id]) => rows[id].revision \in 0 .. 3 /\ rows[id].state = Stages[rows[id].revision + 1]
    BY DEF AdvanceInv, Life, Pipeline, HasRow, Finished, Stages
  <2>2. \A i \in 1 .. rows[id].revision :
          \E e \in runEvents : e.id = id /\ e.revision = i /\ e.kind = KindOf(id, i)
    BY DEF AdvanceInv, AllTold
  <2>3. \A e \in runEvents : e.id = id => e.revision \in 0 .. rows[id].revision
    BY DEF AdvanceInv, AllTold
  <2>4. {e.revision : e \in {x \in runEvents : x.id = id}} \ {0} = 1 .. rows[id].revision
    BY <2>1, <2>2, <2>3
  <2>5. Finished(rows[id]) =>
          \E e \in runEvents : e.id = id /\ e.kind = "finished" /\ e.revision = rows[id].revision
    BY <2>1, <2>2 DEF KindOf
  <2>6. ASSUME NEW i \in 2 .. 4,
               rows[id].state = Stages[i] \/ (Finished(rows[id]) /\ rows[id].revision >= i)
        PROVE  \E e \in runEvents : e.id = id /\ e.kind = Stages[i] /\ e.revision = i - 1
    <3>1. i - 1 \in 1 .. rows[id].revision /\ KindOf(id, i - 1) = Stages[i]
      <4>1. CASE Finished(rows[id])
        <5>1. rows[id].revision >= i
          BY <2>6, <4>1 DEF Stages, Finished
        <5> QED BY <2>1, <4>1, <5>1 DEF KindOf
      <4>2. CASE ~Finished(rows[id])
        <5> DEFINE n == rows[id].revision
        <5>1. n \in 0 .. 3
          BY <2>1, <4>2
        <5>2. Stages[n + 1] = Stages[i]
          BY <2>1, <2>6, <4>2
        <5> HIDE DEF n
        <5>3. n + 1 = i
          BY <2>6, <5>1, <5>2 DEF Stages
        <5>4. i \in Int /\ n \in Int /\ 2 <= i
          BY <2>6, <5>1
        <5>5. i - 1 = n /\ (i - 1) + 1 = i /\ i - 1 \in 1 .. n
          BY ONLY <5>3, <5>4
        <5>6. KindOf(id, n) = Stages[n + 1]
          BY <4>2 DEF KindOf
        <5> QED BY <5>3, <5>5, <5>6 DEF n
      <4> QED BY <4>1, <4>2
    <3> QED BY <3>1, <2>2
  <2> QED BY <2>4, <2>5, <2>6
<1> QED BY <1>1, <1>2

\* The rows of runs go forward, by one event each, and so does what a client is shown
\* of a run (run_transition, run_finish, run_event, get, recover).
THEOREM RowsAlwaysAdvance == TableSpec => RowsOnlyAdvance
<1>1. TableInit => TableInv /\ AdvanceInv
  BY TableInitially, AdvanceInitially
<1>2. TableInv /\ AdvanceInv /\ [TableNext]_tableVars => (TableInv /\ AdvanceInv)'
  BY TableStepping, AdvanceStepping
<1>3. AdvanceInv => TableTypeOK /\ StepsTold
  BY AdvanceTells
<1>4. ASSUME TableInv, AdvanceInv, [TableNext]_tableVars
      PROVE  \A e \in runEvents : e.revision > 0 /\ HasRow(e.id)' => e \in runEvents'
  BY <1>4, AdvanceStepping DEF StaysTold
<1>5. ASSUME TableInv, AdvanceInv, [TableNext]_tableVars
      PROVE  /\ viewer'.view.revision >= viewer.view.revision
             /\ Finished(viewer.view) => Finished(viewer'.view)
  <2>1. SeenStays /\ AdvanceInv'
    BY <1>5, AdvanceStepping
  <2>2. viewer.view.revision \in Nat /\ viewer'.view.revision \in Nat
    BY <2>1, <1>5 DEF AdvanceInv, ViewInv
  <2> QED BY <2>1, <2>2 DEF SeenStays, NotBehind
<1> QED BY <1>1, <1>2, <1>3, <1>4, <1>5, PTL DEF TableSpec, RowsOnlyAdvance, EveryStepHasItsEvent, ViewMonotone

-----------------------------------------------------------------------------
(* Opening the store                                                       *)

Places == {"none", "version", "create", "look", "alter", "stamp", "open", "failed",
           "boot", "insert", "ready"}
Midway == {"create", "look", "alter", "stamp"}
Settled == {"open", "boot", "insert", "ready"}
Openers == [at : Places, next : Nat \ {0}, epoch : Nat, id : Nat]

Typed ==
  /\ version \in Nat /\ tables \in BOOLEAN /\ raced \in BOOLEAN /\ boot \in Nat
  /\ opener \in [Opener -> Openers]
  /\ columns \subseteq ColumnSet /\ (columns # {} => tables)

\* The columns before the one a process is at are there.
Migrated ==
  \A o \in Opener :
    /\ Where(o) \in {"none", "version", "create"} => opener[o].next = 1
    /\ Where(o) \in {"look", "alter", "stamp"} =>
         tables /\ \A i \in 1 .. Len(Columns) : i < opener[o].next => Columns[i] \in columns
    /\ Where(o) = "alter" => opener[o].next <= Len(Columns)
    /\ Where(o) = "stamp" => opener[o].next > Len(Columns)

\* Two that migrate race; so do one and a column it did not expect.
RaceSeen ==
  /\ \A o, p \in Opener : o # p /\ Where(o) \in Midway /\ Where(p) \in Midway => raced
  /\ \A o \in Opener : Where(o) = "alter" /\ Columns[opener[o].next] \in columns => raced

\* Nobody gets past the version of a newer store.
NewerRefused ==
  version > Current => \A o \in Opener : Where(o) \notin Midway \cup Settled

\* A row of the table is told by its place in it; a process is of its boot.
Numbered ==
  /\ boots \in Seq([epoch : Nat, id : Nat])
  /\ \A i \in 1 .. Len(boots) : boots[i].id = i
  /\ \A o \in Opener : Where(o) \in {"boot", "insert", "ready"} => opener[o].epoch = boot
  /\ \A o \in Opener : Where(o) = "ready" =>
       \E i \in 1 .. Len(boots) : boots[i].epoch = boot /\ boots[i].id = opener[o].id

SchemaInv ==
  /\ Typed /\ Migrated /\ RaceSeen /\ NewerRefused /\ Numbered
  /\ StampedIsWhole /\ FailsOnlyWhenRaced

-----------------------------------------------------------------------------
\* Rows that are numbered keep the boots apart (resolve_macos_epoch).
LEMMA NumberedTells == Numbered => BootsAreTold
BY DEF Numbered, BootsAreTold

\* Whatever the first process finds: no file, an older store or a newer.
LEMMA SchemaInitially == SchemaInit => SchemaInv
<1> SUFFICES ASSUME SchemaInit PROVE SchemaInv
  OBVIOUS
<1>1. /\ version \in Nat /\ tables \in BOOLEAN /\ columns \subseteq ColumnSet
      /\ columns # {} => tables
      /\ version = Current => tables /\ columns = ColumnSet
  <2>1. CASE version = 0 /\ tables = FALSE /\ columns = {}
    BY <2>1, SchemaAssumption
  <2>2. CASE /\ version \in 1 .. Current - 1 /\ tables = TRUE
             /\ columns \in {{Columns[i] : i \in 1 .. n} : n \in 0 .. Len(Columns) - 1}
    <3>1. PICK n \in 0 .. Len(Columns) - 1 : columns = {Columns[i] : i \in 1 .. n}
      BY <2>2
    <3>2. columns \subseteq ColumnSet
      BY <3>1, SchemaAssumption DEF ColumnSet
    <3> QED BY <2>2, <3>2, SchemaAssumption
  <2>3. CASE version \in {Current, Current + 1} /\ tables = TRUE /\ columns = ColumnSet
    BY <2>3, SchemaAssumption
  <2> QED BY <2>1, <2>2, <2>3 DEF SchemaInit
<1>2. opener = [o \in Opener |-> Idle] /\ boots = <<>> /\ boot = 1 /\ raced = FALSE
  BY DEF SchemaInit
<1>3. Typed /\ StampedIsWhole
  <2>1. Idle \in Openers
    BY DEF Idle, Openers, Places
  <2> QED BY <1>1, <1>2, <2>1 DEF Typed, StampedIsWhole
<1>4. \A o \in Opener : Where(o) = "none" /\ opener[o].next = 1
  BY <1>2 DEF Where, Idle
<1>5. Migrated /\ RaceSeen /\ NewerRefused /\ FailsOnlyWhenRaced
  BY <1>4 DEF Migrated, RaceSeen, NewerRefused, FailsOnlyWhenRaced, Midway, Settled
<1>6. Len(boots) = 0 /\ boots \in Seq([epoch : Nat, id : Nat])
  BY <1>2
<1>7. Numbered
  BY <1>4, <1>6 DEF Numbered
<1> QED BY <1>3, <1>5, <1>7 DEF SchemaInv

-----------------------------------------------------------------------------
\* What the assignments to a field or two of a process give.
Being(at, next, epoch, id) == [at |-> at, next |-> next, epoch |-> epoch, id |-> id]
Moved(o, at, next, epoch, id) == [opener EXCEPT ![o] = Being(at, next, epoch, id)]

LEMMA Moves ==
  ASSUME Typed, NEW o \in Opener, NEW at, NEW next
  PROVE  LET x == opener[o] IN
         /\ [opener EXCEPT ![o].at = at] = Moved(o, at, x.next, x.epoch, x.id)
         /\ [opener EXCEPT ![o].next = next] = Moved(o, x.at, next, x.epoch, x.id)
         /\ [opener EXCEPT ![o].at = at, ![o].next = next] = Moved(o, at, next, x.epoch, x.id)
<1> DEFINE x == opener[o]
<1>1. x \in Openers /\ DOMAIN opener = Opener
  BY DEF Typed
<1>2. [x EXCEPT !.at = at] = Being(at, x.next, x.epoch, x.id)
  BY <1>1 DEF Openers, Being
<1>3. [x EXCEPT !.next = next] = Being(x.at, next, x.epoch, x.id)
  BY <1>1 DEF Openers, Being
<1>4. [Being(at, x.next, x.epoch, x.id) EXCEPT !.next = next] = Being(at, next, x.epoch, x.id)
  BY DEF Being
<1>5. \A y : [opener EXCEPT ![o] = y][o] = y
  BY <1>1
<1>6. \A y, z : [[opener EXCEPT ![o] = y] EXCEPT ![o] = z] = [opener EXCEPT ![o] = z]
  BY <1>1
<1> QED
  BY <1>1, <1>2, <1>3, <1>4, <1>5, <1>6 DEF Moved

\* The same where the epoch is read.
LEMMA MovesToEpoch ==
  ASSUME Typed, NEW o \in Opener, NEW at, NEW epoch
  PROVE  [opener EXCEPT ![o].at = at, ![o].epoch = epoch]
           = Moved(o, at, opener[o].next, epoch, opener[o].id)
<1> DEFINE x == opener[o]
<1>1. x \in Openers /\ DOMAIN opener = Opener
  BY DEF Typed
<1>2. [x EXCEPT !.at = at] = Being(at, x.next, x.epoch, x.id)
  BY <1>1 DEF Openers, Being
<1>3. [Being(at, x.next, x.epoch, x.id) EXCEPT !.epoch = epoch] = Being(at, x.next, epoch, x.id)
  BY DEF Being
<1>4. \A y : [opener EXCEPT ![o] = y][o] = y
  BY <1>1
<1>5. \A y, z : [[opener EXCEPT ![o] = y] EXCEPT ![o] = z] = [opener EXCEPT ![o] = z]
  BY <1>1
<1> QED
  BY <1>1, <1>2, <1>3, <1>4, <1>5 DEF Moved

\* And where the id is found or made.
LEMMA MovesToId ==
  ASSUME Typed, NEW o \in Opener, NEW at, NEW id
  PROVE  [opener EXCEPT ![o].at = at, ![o].id = id]
           = Moved(o, at, opener[o].next, opener[o].epoch, id)
<1> DEFINE x == opener[o]
<1>1. x \in Openers /\ DOMAIN opener = Opener
  BY DEF Typed
<1>2. [x EXCEPT !.at = at] = Being(at, x.next, x.epoch, x.id)
  BY <1>1 DEF Openers, Being
<1>3. [Being(at, x.next, x.epoch, x.id) EXCEPT !.id = id] = Being(at, x.next, x.epoch, id)
  BY DEF Being
<1>4. \A y : [opener EXCEPT ![o] = y][o] = y
  BY <1>1
<1>5. \A y, z : [[opener EXCEPT ![o] = y] EXCEPT ![o] = z] = [opener EXCEPT ![o] = z]
  BY <1>1
<1> QED
  BY <1>1, <1>2, <1>3, <1>4, <1>5 DEF Moved

\* What a step of one process that touches nothing else has to keep.
LEMMA OwnStep ==
  ASSUME SchemaInv, NEW o \in Opener,
         NEW at \in Places, NEW next \in Nat \ {0}, NEW epoch \in Nat, NEW id \in Nat,
         opener' = Moved(o, at, next, epoch, id),
         UNCHANGED <<version, tables, columns, boots, boot>>,
         raced' \in BOOLEAN, raced => raced',
         at \in {"none", "version", "create"} => next = 1,
         at \in {"look", "alter", "stamp"} =>
           tables /\ \A i \in 1 .. Len(Columns) : i < next => Columns[i] \in columns,
         at = "alter" => next <= Len(Columns) /\ (Columns[next] \in columns => raced'),
         at = "stamp" => next > Len(Columns),
         \A p \in Opener \ {o} : at \in Midway /\ Where(p) \in Midway => raced',
         at \in Midway \cup Settled => version <= Current,
         at \in {"boot", "insert", "ready"} => epoch = boot,
         at = "ready" =>
           \E i \in 1 .. Len(boots) : boots[i].epoch = boot /\ boots[i].id = id,
         at = "failed" => version > Current \/ raced'
  PROVE  SchemaInv'
<1> USE SchemaAssumption DEF SchemaInv
<1> DEFINE after == Being(at, next, epoch, id)
<1>1. /\ opener'[o] = after /\ \A p \in Opener : p # o => opener'[p] = opener[p]
      /\ opener' = [opener EXCEPT ![o] = after]
  BY DEF Typed, Moved
<1>2. after \in Openers /\ after.at = at /\ after.next = next /\ after.epoch = epoch
        /\ after.id = id
  BY DEF Being, Openers
<1> HIDE DEF after
<1>3. Typed'
  BY <1>1, <1>2 DEF Typed, ColumnSet
<1>4. Migrated'
  BY <1>1, <1>2 DEF Migrated, Where
<1>5. RaceSeen'
  BY <1>1, <1>2 DEF RaceSeen, Where
<1>6. NewerRefused'
  BY <1>1, <1>2 DEF NewerRefused, Where, Typed
<1>7. Numbered'
  BY <1>1, <1>2 DEF Numbered, Where
<1>8. StampedIsWhole' /\ FailsOnlyWhenRaced'
  BY <1>1, <1>2 DEF StampedIsWhole, FailsOnlyWhenRaced, Where, ColumnSet
<1> QED BY <1>3, <1>4, <1>5, <1>6, <1>7, <1>8

\* No statement of a process that opens the store, no death and no reboot
\* breaks the invariant.
LEMMA SchemaStepping ==
  ASSUME SchemaInv, [SchemaNext]_schemaVars
  PROVE  SchemaInv'
<1> USE SchemaAssumption DEF SchemaInv
<1> DEFINE x(o) == opener[o]
<1>0. \A o \in Opener : /\ x(o).at \in Places /\ x(o).next \in Nat \ {0}
                        /\ x(o).epoch \in Nat /\ x(o).id \in Nat
  BY DEF Typed, Openers
<1>1. ASSUME NEW o \in Opener, OpenFile(o) \/ GoAway(o)
      PROVE  SchemaInv'
  <2>1. UNCHANGED <<version, tables, columns, boots, boot, raced>>
    BY <1>1 DEF OpenFile, GoAway
  <2>2. CASE OpenFile(o)
    <3>1. x(o).next = 1
      BY <2>2 DEF OpenFile, Migrated, Where
    <3>2. opener' = Moved(o, "version", 1, x(o).epoch, x(o).id)
      BY <2>2, <3>1, Moves DEF OpenFile, To
    <3> QED BY <1>0, <2>1, <3>2, OwnStep DEF Midway, Settled, Places, Typed
  <2>3. CASE GoAway(o)
    <3>1. opener' = Moved(o, "none", 1, 0, 0)
      BY <2>3 DEF GoAway, Idle, Moved, Being
    <3>2. 0 \in Nat /\ 1 \in Nat \ {0} /\ raced \in BOOLEAN
      BY DEF Typed
    <3>3. "none" \in Places /\ "none" \notin Midway \cup Settled
      BY DEF Midway, Settled, Places
    <3> QED BY <2>1, <3>1, <3>2, <3>3, OwnStep
  <2> QED BY <1>1, <2>2, <2>3
<1>2. ASSUME NEW o \in Opener, CheckVersion(o)
      PROVE  SchemaInv'
  <2>1. x(o).next = 1
    BY <1>2 DEF CheckVersion, Migrated, Where
  <2>2. PICK where \in {"failed", "open", "create"} :
          /\ To(o, where)
          /\ where = "failed" => version > Current
          /\ where = "open" => version = Current
          /\ where = "create" => version < Current
    <3>1. CASE version > Current
      BY <1>2, <3>1 DEF CheckVersion
    <3>2. CASE version = Current
      BY <1>2, <3>2 DEF CheckVersion
    <3>3. CASE version < Current
      BY <1>2, <3>3 DEF CheckVersion
    <3> QED BY <3>1, <3>2, <3>3 DEF Typed
  <2>3. opener' = Moved(o, where, 1, x(o).epoch, x(o).id)
    BY <2>1, <2>2, Moves DEF To
  <2>4. /\ raced' = (raced \/ (version < Current /\ Migrating # {}))
        /\ UNCHANGED <<version, tables, columns, boots, boot>>
    BY <1>2 DEF CheckVersion
  <2>5. ASSUME NEW p \in Opener \ {o}, where \in Midway, Where(p) \in Midway
        PROVE  raced'
    BY <2>2, <2>4, <2>5 DEF Migrating, Midway
  <2>6. where \in Places /\ where \notin {"look", "alter", "stamp", "boot", "insert", "ready"}
        /\ where # "none" /\ where # "version"
    BY <2>2 DEF Places
  <2>7. where \in Midway \cup Settled => version <= Current
    BY <2>2 DEF Midway, Settled, Typed
  <2>8. raced' \in BOOLEAN /\ (raced => raced')
    BY <2>4 DEF Typed
  <2> QED BY <1>0, <2>2, <2>3, <2>4, <2>5, <2>6, <2>7, <2>8, OwnStep
<1>3. ASSUME NEW o \in Opener, LookForColumn(o)
      PROVE  SchemaInv'
  <2>1. Where(o) = "look" /\ Where(o) \in Midway
    BY <1>3 DEF LookForColumn, Midway
  <2> DEFINE i == opener[o].next
  <2>2. i \in Nat \ {0} /\ tables
        /\ \A j \in 1 .. Len(Columns) : j < i => Columns[j] \in columns
    BY <1>0, <2>1 DEF Migrated
  <2>3. UNCHANGED <<version, tables, columns, boots, boot, raced>>
    BY <1>3 DEF LookForColumn
  <2>4. version <= Current /\ \A p \in Opener \ {o} : Where(p) \in Midway => raced
    BY <2>1 DEF NewerRefused, RaceSeen, Typed
  <2>5. CASE i > Len(Columns) /\ To(o, "stamp")
    <3>1. opener' = Moved(o, "stamp", i, x(o).epoch, x(o).id)
      BY <2>5, Moves DEF To
    <3> HIDE DEF i
    <3> QED BY <1>0, <2>2, <2>3, <2>4, <2>5, <3>1, OwnStep DEF Places, Typed
  <2>6. CASE i <= Len(Columns) /\ Columns[i] \in columns
             /\ opener' = [opener EXCEPT ![o].next = i + 1]
    <3>1. opener' = Moved(o, "look", i + 1, x(o).epoch, x(o).id)
      BY <2>1, <2>6, Moves DEF Where
    <3> HIDE DEF i
    <3>2. i + 1 \in Nat \ {0} /\ \A j \in 1 .. Len(Columns) : j < i + 1 => Columns[j] \in columns
      BY <2>2, <2>6
    <3> QED BY <1>0, <2>2, <2>3, <2>4, <3>1, <3>2, OwnStep DEF Places, Typed
  <2>7. CASE i <= Len(Columns) /\ Columns[i] \notin columns /\ To(o, "alter")
    <3>1. opener' = Moved(o, "alter", i, x(o).epoch, x(o).id)
      BY <2>7, Moves DEF To
    <3> HIDE DEF i
    <3> QED BY <1>0, <2>2, <2>3, <2>4, <2>7, <3>1, OwnStep DEF Places, Typed
  <2> QED BY <1>3, <2>5, <2>6, <2>7 DEF LookForColumn
<1>4. ASSUME NEW o \in Opener, ReadEpoch(o) \/ FindBoot(o)
      PROVE  SchemaInv'
  <2>1. Where(o) \in Settled
    BY <1>4 DEF ReadEpoch, FindBoot, Settled
  <2>2. UNCHANGED <<version, tables, columns, boots, boot, raced>>
    BY <1>4 DEF ReadEpoch, FindBoot
  <2>3. version <= Current
    BY <2>1 DEF NewerRefused, Typed
  <2>4. PICK at \in {"boot", "insert", "ready"}, id \in Nat :
          /\ opener' = Moved(o, at, x(o).next, boot, id)
          /\ at = "ready" =>
               \E i \in 1 .. Len(boots) : boots[i].epoch = boot /\ boots[i].id = id
    <3>1. CASE ReadEpoch(o)
      <4>1. opener' = [opener EXCEPT ![o].at = "boot", ![o].epoch = boot]
        BY <3>1 DEF ReadEpoch
      <4>2. opener' = Moved(o, "boot", x(o).next, boot, x(o).id)
        BY <4>1, MovesToEpoch
      <4> QED BY <1>0, <4>2
    <3>2. CASE FindBoot(o)
      <4> DEFINE found == RowsOf(opener[o].epoch)
                 first == CHOOSE i \in found : \A j \in found : i <= j
      <4>1. opener[o].epoch = boot
        BY <3>2 DEF FindBoot, Numbered
      <4>2. CASE found = {}
        <5>1. To(o, "insert")
          BY <3>2, <4>2 DEF FindBoot
        <5>2. opener' = Moved(o, "insert", x(o).next, boot, x(o).id)
          BY <4>1, <5>1, Moves DEF To
        <5> QED BY <1>0, <5>2
      <4>3. CASE found # {}
        <5>1. found \subseteq Nat
          BY DEF RowsOf
        <5>2. \E i \in found : \A j \in found : i <= j
          BY <4>3, <5>1, LeastElement, Zenon
        <5>3. first \in found
          BY <5>2
        <5>4. first \in 1 .. Len(boots) /\ boots[first].epoch = boot /\ boots[first].id \in Nat
          BY <4>1, <5>3 DEF RowsOf, Numbered
        <5>5. opener' = [opener EXCEPT ![o].at = "ready", ![o].id = boots[first].id]
          BY <3>2, <4>3 DEF FindBoot
        <5> HIDE DEF first
        <5>6. opener' = Moved(o, "ready", x(o).next, boot, boots[first].id)
          BY <4>1, <5>5, MovesToId
        <5> QED BY <5>4, <5>6
      <4> QED BY <4>2, <4>3
    <3> QED BY <1>4, <3>1, <3>2
  <2>5. at \notin Midway /\ at \in Places
    BY DEF Midway, Places
  <2> QED BY <1>0, <2>2, <2>3, <2>4, <2>5, OwnStep DEF Typed
<1>5. ASSUME NEW o \in Opener, CreateTables(o)
      PROVE  SchemaInv'
  <2>1. opener' = Moved(o, "look", 1, x(o).epoch, x(o).id) /\ Where(o) = "create"
    BY <1>5, Moves DEF CreateTables, To, Migrated, Where
  <2>2. CASE tables
    <3>1. UNCHANGED <<version, tables, columns, boots, boot, raced>>
      BY <1>5, <2>2 DEF CreateTables, Typed
    <3>2. version <= Current /\ \A p \in Opener \ {o} : Where(p) \in Midway => raced
      BY <2>1 DEF NewerRefused, RaceSeen, Typed, Midway
    <3> QED BY <1>0, <2>1, <2>2, <3>1, <3>2, OwnStep DEF Places, Typed
  <2>3. CASE ~tables
    <3>1. /\ tables' = TRUE /\ columns' = ColumnSet
          /\ UNCHANGED <<version, boots, boot, raced>>
      BY <1>5, <2>3 DEF CreateTables
    <3> DEFINE after == Being("look", 1, x(o).epoch, x(o).id)
    <3>2. /\ opener'[o] = after /\ \A p \in Opener : p # o => opener'[p] = opener[p]
          /\ opener' = [opener EXCEPT ![o] = after]
      BY <2>1 DEF Typed, Moved
    <3>3. after \in Openers /\ after.at = "look" /\ after.next = 1
      BY <1>0 DEF Being, Openers, Places
    <3> HIDE DEF after
    <3>4. \A p \in Opener : Where(p) \notin {"look", "alter", "stamp"}
      BY <2>3 DEF Migrated
    <3>5. Typed' /\ StampedIsWhole'
      BY <3>1, <3>2, <3>3 DEF Typed, StampedIsWhole, ColumnSet
    <3>6. Migrated'
      BY <3>1, <3>2, <3>3, <3>4 DEF Migrated, Where
    <3>a. /\ Where(o)' = "look" /\ \A p \in Opener : p # o => Where(p)' = Where(p)
          /\ raced' = raced /\ version' = version
      BY <3>1, <3>2, <3>3 DEF Where
    <3>b. \A p \in Opener : Where(p)' \in Midway => Where(p) \in Midway
      BY <2>1, <3>a DEF Midway
    <3>c. \A p \in Opener : Where(p)' # "alter"
      BY <3>4, <3>a
    <3>7. RaceSeen'
      BY <3>a, <3>b, <3>c DEF RaceSeen
    <3>d. \A p \in Opener : Where(p)' = "failed" => Where(p) = "failed"
      BY <3>a
    <3>e. FailsOnlyWhenRaced'
      BY <3>a, <3>d DEF FailsOnlyWhenRaced
    <3>8. version <= Current
      BY <2>1 DEF NewerRefused, Midway, Typed
    <3>9. NewerRefused'
      BY <3>1, <3>8 DEF NewerRefused, Typed
    <3>10. Numbered'
      BY <3>1, <3>2, <3>3 DEF Numbered, Where
    <3> QED BY <3>5, <3>6, <3>7, <3>e, <3>9, <3>10
  <2> QED BY <2>2, <2>3 DEF Typed
<1>6. ASSUME NEW o \in Opener, AddColumn(o)
      PROVE  SchemaInv'
  <2> DEFINE i == opener[o].next
             column == Columns[i]
  <2>1. /\ Where(o) = "alter" /\ Where(o) \in Midway /\ tables /\ i \in 1 .. Len(Columns)
        /\ \A j \in 1 .. Len(Columns) : j < i => Columns[j] \in columns
    BY <1>0, <1>6 DEF AddColumn, Migrated, Midway
  <2>2. version <= Current /\ \A p \in Opener \ {o} : Where(p) \in Midway => raced
    BY <2>1 DEF NewerRefused, RaceSeen, Typed
  <2>3. columns' = columns \cup {column} /\ UNCHANGED <<version, tables, boots, boot, raced>>
    BY <1>6 DEF AddColumn
  <2>4. CASE column \in columns
    <3>1. opener' = Moved(o, "failed", x(o).next, x(o).epoch, x(o).id)
      BY <1>6, <2>4, Moves DEF AddColumn, To
    <3>2. raced /\ columns' = columns
      BY <2>1, <2>3, <2>4 DEF RaceSeen
    <3> QED BY <1>0, <2>3, <3>1, <3>2, OwnStep DEF Places, Typed, Midway, Settled
  <2>5. CASE column \notin columns
    <3>1. opener' = Moved(o, "look", i + 1, x(o).epoch, x(o).id)
      BY <1>6, <2>5, Moves DEF AddColumn
    <3> DEFINE after == Being("look", i + 1, x(o).epoch, x(o).id)
    <3>2. /\ opener'[o] = after /\ \A p \in Opener : p # o => opener'[p] = opener[p]
          /\ opener' = [opener EXCEPT ![o] = after]
      BY <3>1 DEF Typed, Moved
    <3>3. after \in Openers /\ after.at = "look" /\ after.next = i + 1
      BY <1>0 DEF Being, Openers, Places
    <3>4. column \in ColumnSet
      BY <2>1 DEF ColumnSet
    <3> HIDE DEF after, i
    <3>5. Typed'
      BY <2>1, <2>3, <3>2, <3>3, <3>4 DEF Typed, ColumnSet
    <3>6. StampedIsWhole'
      BY <2>3, <3>4 DEF StampedIsWhole, ColumnSet, Typed
    <3>7. Migrated'
      BY <2>1, <2>3, <3>2, <3>3 DEF Migrated, Where
    <3>8. RaceSeen' /\ FailsOnlyWhenRaced'
      BY <2>1, <2>2, <2>3, <3>2, <3>3 DEF RaceSeen, FailsOnlyWhenRaced, Where, Midway
    <3>9. NewerRefused' /\ Numbered'
      BY <2>2, <2>3, <3>2, <3>3 DEF NewerRefused, Numbered, Where, Typed
    <3> QED BY <3>5, <3>6, <3>7, <3>8, <3>9
  <2> QED BY <2>4, <2>5
<1>7. ASSUME NEW o \in Opener, StampVersion(o)
      PROVE  SchemaInv'
  <2>1. /\ Where(o) = "stamp" /\ tables /\ columns = ColumnSet
    BY <1>0, <1>7 DEF StampVersion, Migrated, ColumnSet, Typed
  <2>2. opener' = Moved(o, "open", x(o).next, x(o).epoch, x(o).id)
    BY <1>7, Moves DEF StampVersion, To
  <2>3. version' = Current /\ UNCHANGED <<tables, columns, boots, boot, raced>>
    BY <1>7 DEF StampVersion
  <2> DEFINE after == Being("open", x(o).next, x(o).epoch, x(o).id)
  <2>4. /\ opener'[o] = after /\ \A p \in Opener : p # o => opener'[p] = opener[p]
        /\ opener' = [opener EXCEPT ![o] = after]
    BY <2>2 DEF Typed, Moved
  <2>5. after \in Openers /\ after.at = "open"
    BY <1>0 DEF Being, Openers, Places
  <2> HIDE DEF after
  <2>6. Typed' /\ StampedIsWhole'
    BY <2>1, <2>3, <2>4, <2>5 DEF Typed, StampedIsWhole, ColumnSet
  <2>7. Migrated' /\ RaceSeen'
    BY <2>3, <2>4, <2>5 DEF Migrated, RaceSeen, Where, Midway
  <2>8. version <= Current
    BY <2>1 DEF NewerRefused, Midway, Typed
  <2>9. FailsOnlyWhenRaced'
    BY <2>3, <2>4, <2>5, <2>8 DEF FailsOnlyWhenRaced, Where, Typed
  <2>10. NewerRefused'
    BY <2>3, <2>4, <2>5, <2>8 DEF NewerRefused, Where, Typed
  <2>11. Numbered'
    BY <2>3, <2>4, <2>5 DEF Numbered, Where, Typed
  <2> QED BY <2>6, <2>7, <2>9, <2>10, <2>11
<1>8. ASSUME NEW o \in Opener, InsertBoot(o)
      PROVE  SchemaInv'
  <2> DEFINE n == Len(boots)
             row == [epoch |-> x(o).epoch, id |-> n + 1]
  <2>1. /\ Where(o) = "insert" /\ x(o).epoch = boot /\ n \in Nat
        /\ boots \in Seq([epoch : Nat, id : Nat])
    BY <1>8 DEF InsertBoot, Numbered
  <2>2. /\ opener' = Moved(o, "ready", x(o).next, x(o).epoch, n + 1)
        /\ boots' = Append(boots, row)
        /\ UNCHANGED <<version, tables, columns, boot, raced>>
    <3>1. opener' = [opener EXCEPT ![o].at = "ready", ![o].id = n + 1]
      BY <1>8 DEF InsertBoot
    <3>2. opener' = Moved(o, "ready", x(o).next, x(o).epoch, n + 1)
      BY <3>1, MovesToId
    <3> QED BY <1>8, <3>2 DEF InsertBoot
  <2> DEFINE after == Being("ready", x(o).next, x(o).epoch, n + 1)
  <2>3. /\ opener'[o] = after /\ \A p \in Opener : p # o => opener'[p] = opener[p]
        /\ opener' = [opener EXCEPT ![o] = after]
    BY <2>2 DEF Typed, Moved
  <2>4. after \in Openers /\ after.at = "ready" /\ after.epoch = boot /\ after.id = n + 1
    BY <1>0, <2>1 DEF Being, Openers, Places
  <2>5. row \in [epoch : Nat, id : Nat] /\ row.epoch = boot /\ row.id = n + 1
    BY <1>0, <2>1
  <2> HIDE DEF after, row
  <2>6. /\ boots' \in Seq([epoch : Nat, id : Nat]) /\ Len(boots') = n + 1
        /\ boots'[n + 1] = row /\ \A i \in 1 .. n : boots'[i] = boots[i]
    BY <2>1, <2>2, <2>5
  <2> HIDE DEF n
  <2>7. Numbered'
    <3>1. \A i \in 1 .. Len(boots') : boots'[i].id = i
      <4>1. \A i \in 1 .. n : boots[i].id = i
        BY DEF Numbered, n
      <4>2. \A i \in 1 .. n + 1 : i \in 1 .. n \/ i = n + 1
        BY <2>1
      <4> QED BY <2>5, <2>6, <4>1, <4>2
    <3>2. \A p \in Opener : Where(p)' \in {"boot", "insert", "ready"} => opener'[p].epoch = boot'
      BY <2>2, <2>3, <2>4 DEF Numbered, Where
    <3>3. \A p \in Opener : Where(p)' = "ready" =>
            \E i \in 1 .. Len(boots') : boots'[i].epoch = boot' /\ boots'[i].id = opener'[p].id
      <4> SUFFICES ASSUME NEW p \in Opener, Where(p)' = "ready"
                   PROVE  \E i \in 1 .. n + 1 :
                            boots'[i].epoch = boot /\ boots'[i].id = opener'[p].id
        BY <2>2, <2>6
      <4>1. CASE p = o
        BY <2>1, <2>3, <2>4, <2>5, <2>6, <4>1
      <4>2. CASE p # o
        <5>1. PICK i \in 1 .. n : boots[i].epoch = boot /\ boots[i].id = opener[p].id
          BY <2>3, <4>2 DEF Numbered, Where, n
        <5>2. i \in 1 .. n + 1
          BY <2>1
        <5>3. boots'[i] = boots[i] /\ opener'[p] = opener[p]
          BY <2>3, <2>6, <4>2
        <5> QED BY <5>1, <5>2, <5>3
      <4> QED BY <4>1, <4>2
    <3> QED BY <2>6, <3>1, <3>2, <3>3 DEF Numbered
  <2>8. Typed' /\ StampedIsWhole'
    BY <2>2, <2>3, <2>4 DEF Typed, StampedIsWhole, ColumnSet
  <2>a. /\ Where(o)' = "ready"
        /\ \A p \in Opener : p # o => Where(p)' = Where(p) /\ opener'[p] = opener[p]
    BY <2>3, <2>4 DEF Where
  <2>b. UNCHANGED <<version, tables, columns, boot, raced>>
    BY <2>2
  <2>c. \A p \in Opener : Where(p)' \in Midway \cup {"none", "version", "failed"} => p # o
    BY <2>a DEF Midway
  <2>d. Migrated'
    BY <2>a, <2>b DEF Migrated
  <2>e. RaceSeen'
    <3>1. \A p \in Opener : Where(p)' = "alter" => p # o
      BY <2>a
    <3> QED BY <2>a, <2>b, <2>c, <3>1 DEF RaceSeen
  <2>f. FailsOnlyWhenRaced'
    BY <2>a, <2>b DEF FailsOnlyWhenRaced
  <2>9. Migrated' /\ RaceSeen' /\ FailsOnlyWhenRaced'
    BY <2>d, <2>e, <2>f
  <2>10. version <= Current
    BY <2>1 DEF NewerRefused, Settled, Typed
  <2>11. NewerRefused'
    BY <2>2, <2>10 DEF NewerRefused, Typed
  <2> QED BY <2>7, <2>8, <2>9, <2>11
<1>9. CASE Reboot
  <2>1. /\ boot' = boot + 1 /\ opener' = [o \in Opener |-> Idle]
        /\ UNCHANGED <<version, tables, columns, boots, raced>>
    BY <1>9 DEF Reboot
  <2>2. Idle \in Openers /\ Idle.at = "none" /\ Idle.next = 1
    BY DEF Idle, Openers, Places
  <2>3. \A o \in Opener : Where(o)' = "none" /\ opener'[o].next = 1
    BY <2>1, <2>2 DEF Where
  <2>4. Typed' /\ StampedIsWhole'
    BY <2>1, <2>2 DEF Typed, StampedIsWhole, ColumnSet
  <2>5. Migrated' /\ RaceSeen' /\ NewerRefused' /\ FailsOnlyWhenRaced'
    BY <2>1, <2>3 DEF Migrated, RaceSeen, NewerRefused, FailsOnlyWhenRaced, Midway, Settled
  <2>6. Numbered'
    BY <2>1, <2>3 DEF Numbered
  <2> QED BY <2>4, <2>5, <2>6
<1>10. CASE UNCHANGED schemaVars
  BY <1>10 DEF schemaVars, Typed, Migrated, RaceSeen, NewerRefused, Numbered,
               StampedIsWhole, FailsOnlyWhenRaced, Where, ColumnSet
<1> QED
  BY <1>1, <1>2, <1>3, <1>4, <1>5, <1>6, <1>7, <1>8, <1>9, <1>10 DEF SchemaNext

-----------------------------------------------------------------------------
\* The boots there have been, and the ids given to them.
Bounded ==
  /\ version \in 0 .. Current + 1 /\ boot \in 1 .. Len(Epoch) /\ Len(boots) <= MaxIds
  /\ \A i \in 1 .. Len(boots) : boots[i].epoch \in 1 .. Len(Epoch)

LEMMA BoundsKept ==
  ASSUME SchemaInv, Bounded, [SchemaNext]_schemaVars
  PROVE  Bounded'
<1> USE SchemaAssumption DEF Bounded
<1>1. ASSUME NEW o \in Opener,
             \/ OpenFile(o) \/ CheckVersion(o) \/ CreateTables(o) \/ LookForColumn(o) \/ AddColumn(o)
             \/ GoAway(o) \/ ReadEpoch(o) \/ FindBoot(o)
      PROVE  Bounded'
  BY <1>1 DEF OpenFile, CheckVersion, CreateTables, LookForColumn, AddColumn, GoAway, ReadEpoch, FindBoot
<1>2. ASSUME NEW o \in Opener, StampVersion(o) PROVE Bounded'
  BY <1>2 DEF StampVersion
<1>3. ASSUME NEW o \in Opener, InsertBoot(o) PROVE Bounded'
  <2> DEFINE row == [epoch |-> opener[o].epoch, id |-> Len(boots) + 1]
  <2>1. /\ Len(boots) < MaxIds /\ boots' = Append(boots, row) /\ UNCHANGED <<version, boot>>
        /\ row.epoch = boot /\ boots \in Seq([epoch : Nat, id : Nat])
    BY <1>3 DEF InsertBoot, SchemaInv, Numbered, Where
  <2> HIDE DEF row
  <2>2. /\ Len(boots') = Len(boots) + 1 /\ Len(boots) \in Nat
        /\ \A i \in 1 .. Len(boots') : boots'[i] = IF i = Len(boots) + 1 THEN row ELSE boots[i]
    BY <2>1
  <2>3. Len(boots') <= MaxIds
    BY <2>1, <2>2
  <2>4. ASSUME NEW i \in 1 .. Len(boots') PROVE boots'[i].epoch \in 1 .. Len(Epoch)
    <3>1. CASE i = Len(boots) + 1
      BY <2>1, <2>2, <3>1
    <3>2. CASE i # Len(boots) + 1
      <4>1. i \in 1 .. Len(boots)
        BY <2>2, <3>2
      <4> QED BY <2>2, <3>2, <4>1
    <3> QED BY <3>1, <3>2
  <2> QED BY <2>1, <2>3, <2>4
<1>4. CASE Reboot
  BY <1>4 DEF Reboot
<1>5. CASE UNCHANGED schemaVars
  BY <1>5 DEF schemaVars
<1> QED BY <1>1, <1>2, <1>3, <1>4, <1>5 DEF SchemaNext

\* A sequence is of the set its elements are in.
LEMMA ElementsTell ==
  ASSUME NEW S, NEW T, NEW s \in Seq(S)
  PROVE  /\ \A i \in 1 .. Len(s) : s[i] \in S
         /\ (\A i \in 1 .. Len(s) : s[i] \in T) => s \in Seq(T)
OBVIOUS

LEMMA SchemaTyped == SchemaInv /\ Bounded => SchemaTypeOK
<1> SUFFICES ASSUME SchemaInv, Bounded PROVE SchemaTypeOK
  OBVIOUS
<1>0. /\ boots \in Seq([epoch : Nat, id : Nat]) /\ Len(boots) \in Nat
      /\ \A i \in 1 .. Len(boots) : boots[i].id = i
      /\ \A o \in Opener : Where(o) = "ready" =>
           \E i \in 1 .. Len(boots) : boots[i].epoch = boot /\ boots[i].id = opener[o].id
  BY DEF SchemaInv, Numbered
<1>1. \A i \in 1 .. Len(boots) : boots[i] \in [epoch : 1 .. Len(Epoch), id : 1 .. MaxIds]
  <2> SUFFICES ASSUME NEW i \in 1 .. Len(boots)
               PROVE  boots[i] \in [epoch : 1 .. Len(Epoch), id : 1 .. MaxIds]
    OBVIOUS
  <2>1. boots[i] \in [epoch : Nat, id : Nat] /\ boots[i].id = i /\ Len(boots) \in Nat
    BY <1>0, ElementsTell
  <2>2. boots[i].epoch \in 1 .. Len(Epoch) /\ boots[i].id \in 1 .. MaxIds
    BY <2>1, SchemaAssumption DEF Bounded
  <2> QED BY <2>1, <2>2
<1>2. boots \in Seq([epoch : 1 .. Len(Epoch), id : 1 .. MaxIds])
  <2> DEFINE Rows == [epoch : 1 .. Len(Epoch), id : 1 .. MaxIds]
             Any == [epoch : Nat, id : Nat]
  <2>1. boots \in Seq(Any) /\ \A i \in 1 .. Len(boots) : boots[i] \in Rows
    BY <1>0, <1>1
  <2> HIDE DEF Rows, Any
  <2>2. boots \in Seq(Rows)
    BY <2>1, ElementsTell
  <2> QED BY <2>2 DEF Rows
<1>3. \A o \in Opener : Where(o) \in Places
  BY DEF SchemaInv, Typed, Openers, Where
<1>4. \A o \in Opener : Where(o) = "ready" => opener[o].id # 0
  <2> SUFFICES ASSUME NEW o \in Opener, Where(o) = "ready" PROVE opener[o].id # 0
    OBVIOUS
  <2>1. PICK i \in 1 .. Len(boots) : boots[i].id = opener[o].id
    BY <1>0
  <2>2. boots[i].id = i
    BY <1>0
  <2> QED BY <2>1, <2>2
<1> QED BY <1>2, <1>3, <1>4 DEF SchemaInv, Bounded, Typed, Places, SchemaTypeOK

\* Any number of processes that open one store, are killed anywhere and start
\* again: a store stamped as current has every column, opening fails only on a
\* newer store or after a race, the ids of boots are told apart, and a newer
\* store is left as it is (Store::init, resolve_macos_epoch).
THEOREM SchemaSafeAlways == SchemaSpec => SchemaSafe
<1>0. SchemaInit => Bounded
  BY SchemaAssumption DEF SchemaInit, Bounded
<1>1. SchemaInv /\ Bounded => SchemaTypeOK /\ StampedIsWhole /\ FailsOnlyWhenRaced /\ BootsAreTold
  BY NumberedTells, SchemaTyped DEF SchemaInv
<1>2. SchemaInv /\ [SchemaNext]_schemaVars =>
        [version > Current => UNCHANGED <<version, tables, columns, boots>>]_schemaVars
  <2> SUFFICES ASSUME SchemaInv, SchemaNext, version > Current
               PROVE  UNCHANGED <<version, tables, columns, boots>>
    BY DEF schemaVars
  <2>1. \A o \in Opener : Where(o) \notin Midway \cup Settled
    BY DEF SchemaInv, NewerRefused
  <2> QED BY <2>1 DEF SchemaNext, OpenFile, CheckVersion, CreateTables, LookForColumn,
                  AddColumn, StampVersion, GoAway, ReadEpoch, FindBoot, InsertBoot, Reboot,
                  Midway, Settled
<1> QED
  BY <1>0, <1>1, <1>2, SchemaInitially, SchemaStepping, BoundsKept, PTL
     DEF SchemaSpec, SchemaSafe, NewerUntouched
-----------------------------------------------------------------------------
(* The root of the cgroups, and the caps of the one all runs share         *)

\* Directories are in each other to a finite depth.
PathsEnd ==
  \E rank \in [Dirs -> Nat] : \A d \in Dirs \ {Mount} : rank[DirAbove[d]] < rank[d]

\* The way up from a directory is through directories.
LEMMA AncestorsAreDirs == PathsEnd => Ancestors \in [Dirs -> Seq(Dirs)]
<1> SUFFICES ASSUME PathsEnd PROVE Ancestors \in [Dirs -> Seq(Dirs)]
  OBVIOUS
<1>0. PICK rank \in [Dirs -> Nat] : \A d \in Dirs \ {Mount} : rank[DirAbove[d]] < rank[d]
  BY DEF PathsEnd
<1> DEFINE G(f) == f = [d \in Dirs |-> IF d = Mount THEN <<d>> ELSE <<d>> \o f[DirAbove[d]]]
           over == [d \in Dirs |-> IF d = Mount THEN NoDir ELSE DirAbove[d]]
           step == [d \in Dirs |-> [X \in Seq(Dirs) |-> <<d>> \o X]]
           base == [d \in Dirs |-> <<d>>]
<1>1. PICK f \in [Dirs -> Seq(Dirs)] :
        \A d \in Dirs : f[d] = IF over[d] = NoDir THEN base[d] ELSE step[d][f[over[d]]]
  <2>1. step \in [Dirs -> [Seq(Dirs) -> Seq(Dirs)]] /\ base \in [Dirs -> Seq(Dirs)]
    OBVIOUS
  <2>2. /\ NoDir \notin Dirs /\ over \in [Dirs -> Dirs \cup {NoDir}]
        /\ \A d \in Dirs : over[d] # NoDir => rank[over[d]] < rank[d]
    BY <1>0, RootConstants
  <2> HIDE DEF step, base, over
  <2>3. Links(Dirs, NoDir, rank, over, Seq(Dirs), base, step)
    BY <1>0, <2>1, <2>2 DEF Links
  <2>4. \E f : Follows(f, Dirs, NoDir, over, Seq(Dirs), base, step)
    BY <2>3, TreeRecursion
  <2> QED BY <2>4 DEF Follows
<1>2. G(f)
  <2>1. ASSUME NEW d \in Dirs
        PROVE  f[d] = IF d = Mount THEN <<d>> ELSE <<d>> \o f[DirAbove[d]]
    <3>1. CASE d = Mount
      <4>1. over[d] = NoDir /\ base[d] = <<d>>
        BY <3>1
      <4> HIDE DEF over, step, base
      <4> QED BY <1>1, <3>1, <4>1
    <3>2. CASE d # Mount
      <4>1. over[d] = DirAbove[d] /\ over[d] # NoDir /\ over[d] \in Dirs
        BY <3>2, RootConstants
      <4>2. f[over[d]] \in Seq(Dirs)
        BY <4>1
      <4>3. step[d][f[over[d]]] = <<d>> \o f[over[d]]
        BY <4>2
      <4> HIDE DEF over, step, base
      <4> QED BY <1>1, <3>2, <4>1, <4>3
    <3> QED BY <3>1, <3>2
  <2> HIDE DEF over, step, base
  <2> QED BY <2>1
<1>3. ASSUME NEW g, G(g), NEW h, G(h) PROVE g = h
  <2> DEFINE Same == {d \in Dirs : g[d] = h[d]}
  <2>1. \A d \in Dirs : (\A x \in Dirs : rank[x] < rank[d] => x \in Same) => d \in Same
    <3> SUFFICES ASSUME NEW d \in Dirs, \A x \in Dirs : rank[x] < rank[d] => x \in Same
                 PROVE  g[d] = h[d]
      OBVIOUS
    <3>1. CASE d = Mount
      BY <1>3, <3>1
    <3>2. CASE d # Mount
      <4>1. DirAbove[d] \in Same
        BY <1>0, <3>2, RootConstants
      <4>2. g[DirAbove[d]] = h[DirAbove[d]]
        BY <4>1
      <4>3. g[d] = <<d>> \o g[DirAbove[d]]
        BY <1>3, <3>2
      <4>4. h[d] = <<d>> \o h[DirAbove[d]]
        BY <1>3, <3>2
      <4> QED BY <4>2, <4>3, <4>4
    <3> QED BY <3>1, <3>2
  <2>2. Dirs \subseteq Same
    <3>1. rank \in [Dirs -> Nat]
      BY <1>0
    <3> HIDE DEF Same
    <3> QED BY <2>1, <3>1, RankInduction
  <2>3. DOMAIN g = Dirs /\ DOMAIN h = Dirs
    BY <1>3
  <2> QED BY <1>3, <2>2, <2>3
<1> QED
  <2>1. Ancestors = CHOOSE g : G(g)
    BY DEF Ancestors
  <2> HIDE DEF G
  <2>2. G(Ancestors)
    BY <1>2, <2>1
  <2> QED BY <1>2, <1>3, <2>2

LEMMA CandidatesAreDirs == PathsEnd => Candidates \in Seq(Dirs)
BY AncestorsAreDirs, RootConstants DEF Candidates

\* What was refused stays refused: enabling a candidate changes no other one, and
\* one that is a candidate twice would be taken the second time.
Refused ==
  root = NoRoot =>
    \A i \in 1 .. tried :
       ~(Candidates[i] \in writable /\ Wanted \subseteq enabled[Candidates[i]])

RootInv == RootTypeOK /\ RootDelivers /\ Refused

\* The search for a root keeps its invariant, a candidate at a time (discover).
LEMMA RootStepping ==
  ASSUME PathsEnd, RootInv, [TryCandidate]_rootVars
  PROVE  RootInv'
<1> USE CandidatesAreDirs
<1>1. CASE TryCandidate
  <2> DEFINE d == Candidates[tried + 1]
  <2>1. /\ root = NoRoot /\ tried < Len(Candidates) /\ tried \in Nat
        /\ d \in Dirs /\ Len(Candidates) \in Nat
        /\ enabled' = EnabledBy(d) /\ writable' = writable
        /\ offered' = offered /\ offered \subseteq Wanted
    BY <1>1 DEF TryCandidate, RootInv, RootTypeOK
  <2>2. enabled' \in [Dirs -> SUBSET Wanted] /\ \A x \in Dirs \ {d} : enabled'[x] = enabled[x]
    <3> HIDE DEF d
    <3> QED BY <2>1 DEF EnabledBy, RootInv, RootTypeOK
  <2>3. CASE Delivers(d, enabled') /\ d \in writable
    <3>1. root' = [path |-> d, controllers |-> enabled'[d]] /\ tried' = tried
      BY <1>1, <2>3 DEF TryCandidate
    <3>2. root'.path = d /\ root' # NoRoot /\ root'.controllers = enabled'[d]
      <4> HIDE DEF d
      <4> QED BY <2>1, <3>1, RootConstants DEF NoRoot
    <3> HIDE DEF d
    <3>3. RootTypeOK'
      BY <2>1, <2>2, <3>1, <3>2 DEF RootInv, RootTypeOK
    <3> QED BY <2>1, <2>2, <2>3, <3>1, <3>2, <3>3 DEF RootInv, RootDelivers, Refused, Delivers
  <2>4. CASE ~(Delivers(d, enabled') /\ d \in writable)
    <3>1. tried' = tried + 1 /\ root' = root
      BY <1>1, <2>4 DEF TryCandidate
    <3>2. ASSUME NEW i \in 1 .. tried'
          PROVE  ~(Candidates[i] \in writable /\ Wanted \subseteq enabled'[Candidates[i]])
      <4>1. CASE Candidates[i] = d
        BY <2>4, <4>1 DEF Delivers
      <4>2. CASE Candidates[i] # d
        <5>1. i \in 1 .. tried /\ Candidates[i] \in Dirs
          BY <2>1, <3>1, <4>2
        <5> QED BY <2>1, <2>2, <4>2, <5>1 DEF RootInv, Refused
      <4> QED BY <4>1, <4>2
    <3>3. RootTypeOK'
      <4> HIDE DEF d
      <4> QED BY <2>1, <2>2, <3>1 DEF RootInv, RootTypeOK
    <3> QED BY <2>1, <2>2, <3>1, <3>2, <3>3 DEF RootInv, RootDelivers, Refused
  <2> QED BY <2>3, <2>4
<1>2. CASE UNCHANGED rootVars
  BY <1>2 DEF rootVars, RootInv, RootTypeOK, RootDelivers, Refused
<1> QED BY <1>1, <1>2

\* While a supervisor is away, nobody asks.
NobodyAsks == ~serving => \A c \in Setter : ask[c].at = "none"

\* What requests that are served one at a time, and clear nothing, have done so far:
\* the kernel is behind only while one is on its way to it, and it will write all
\* that is to change.
OneAtATime ==
  (serving /\ held /\ Swap /\ ~blurred) =>
    /\ \A c, e \in Setter : ask[c].at # "none" /\ ask[e].at # "none" => c = e
    /\ \A c \in Setter : ask[c].at = "merged" =>
         (ask[c].limits.cpu = Unset => limits.cpu = Unset)
    /\ \A c \in Setter : ask[c].at = "replaced" =>
         ask[c].limits = limits /\ (limits.cpu = Unset => parent.cpu = Unset)
    /\ (\A c \in Setter : ask[c].at # "replaced") => CapsAre(limits)

\* What a request asks for is limits a supervisor can have.
AsksCaps == \A c \in Setter : ask[c].at # "none" => ask[c].limits \in Caps
\* A supervisor that holds the aggregate cgroup has it.
HeldIsThere == held => parent.there

AggInv ==
  /\ ask \in [Setter -> [at : {"none", "merged", "replaced"},
                         limits : [memory : Value \cup {Unset}, cpu : Value \cup {Unset}]]]
  /\ limits \in [memory : Value \cup {Unset}, cpu : Value \cup {Unset}]
  /\ parent \in [memory : Value \cup {Unset}, cpu : Value \cup {Unset}, there : BOOLEAN]
  /\ NobodyAsks /\ OneAtATime /\ CappedUnlessSurvivors

\* The caps keep their invariant: through a sweep, the steps of a request, and a kill.
LEMMA AggStepping ==
  ASSUME AggInv, [AggNext]_aggVars
  PROVE  AggInv'
<1> USE DEF AggInv, NobodyAsks, OneAtATime, CappedUnlessSurvivors, CapsAre
<1>1. CASE Serve
  <2>1. /\ ~serving /\ serving' /\ ask' = ask /\ limits' \in Caps
        /\ \A c \in Setter : ask'[c].at = "none"
    BY <1>1 DEF Serve
  <2>2. CASE ~held'
    <3>1. parent' = parent /\ \E j \in Job : place'[j] = "parent"
      BY <1>1, <2>2 DEF Serve
    <3>2. PICK j \in Job : place'[j] = "parent"
      BY <3>1
    <3>3. j \notin Swept /\ place[j] = "parent"
      BY <1>1, <3>2 DEF Serve
    <3>4. j \in peopled
      BY <3>3 DEF Swept
    <3>5. survivors'
      BY <1>1, <3>3, <3>4, \A k \in peopled : k \in peopled DEF Serve
    <3> QED BY <2>1, <2>2, <3>1, <3>5 DEF Caps
  <2>3. CASE held'
    <3>1. parent' = Apply(NewParent, limits')
      BY <1>1, <2>3 DEF Serve
    <3>2. /\ parent' \in [memory : Value \cup {Unset}, cpu : Value \cup {Unset}, there : BOOLEAN]
          /\ Swap => parent'.memory = limits'.memory /\ parent'.cpu = limits'.cpu
      BY <2>1, <3>1 DEF Apply, NewParent, NoParent, Caps
    <3> QED BY <2>1, <2>3, <3>2 DEF Caps
  <2> QED BY <2>2, <2>3
<1>2. CASE RecoverKills
  BY <1>2 DEF RecoverKills
<1>3. CASE StartJob
  BY <1>3 DEF StartJob
<1>4. CASE JobExits
  BY <1>4 DEF JobExits
<1>5. CASE RemoveJobDir
  BY <1>5 DEF RemoveJobDir
<1>6. CASE Killed
  BY <1>6 DEF Killed, NoAsk, NoGroup
<1>7. ASSUME NEW c \in Setter, Merge(c) PROVE AggInv'
  <2>1. PICK what \in {"memory", "cpu"}, v \in Value \cup {Unset} :
          /\ v = Unset => what # "memory"
          /\ ask' = [ask EXCEPT ![c] = [at |-> "merged", limits |-> [limits EXCEPT ![what] = v]]]
          /\ blurred' = (blurred \/ v = Unset \/ \E d \in Setter : ask[d].at # "none")
    BY <1>7 DEF Merge
  <2>2. /\ UNCHANGED <<serving, parent, held, limits, survivors>> /\ serving
    BY <1>7 DEF Merge
  <2>3. [limits EXCEPT ![what] = v] \in [memory : Value \cup {Unset}, cpu : Value \cup {Unset}]
    BY <2>1
  <2>4. ~blurred' /\ [limits EXCEPT ![what] = v].cpu = Unset => limits.cpu = Unset
    BY <2>1
  <2>5. /\ ask'[c].at = "merged" /\ ask'[c].limits = [limits EXCEPT ![what] = v]
        /\ \A e \in Setter : e # c => ask'[e] = ask[e]
    BY <2>1
  <2>6. ~blurred' => ~blurred /\ \A e \in Setter : ask[e].at = "none"
    BY <2>1
  <2>7. ask' \in [Setter -> [at : {"none", "merged", "replaced"},
                  limits : [memory : Value \cup {Unset}, cpu : Value \cup {Unset}]]]
    BY <2>1, <2>3
  <2>8. OneAtATime'
    <3> SUFFICES ASSUME held, Swap, ~blurred' PROVE OneAtATime'
      BY <2>2
    <3>1. CapsAre(limits)
      BY <2>2, <2>6
    <3>2. CapsAre(limits)'
      BY <2>2, <3>1
    <3>3. \A e \in Setter : e # c => ask'[e].at = "none"
      BY <2>5, <2>6
    <3>4. ask'[c].limits.cpu = Unset => limits'.cpu = Unset
      BY <2>2, <2>4, <2>5
    <3>5. \A e \in Setter : ask'[e].at # "replaced"
      BY <2>5, <3>3
    <3>6. \A e \in Setter : ask'[e].at = "merged" =>
            (ask'[e].limits.cpu = Unset => limits'.cpu = Unset)
      BY <3>3, <3>4
    <3>7. \A d, e \in Setter : ask'[d].at # "none" /\ ask'[e].at # "none" => d = e
      BY <3>3
    <3> HIDE DEF CapsAre, AggInv
    <3> QED BY <3>2, <3>5, <3>6, <3>7 DEF OneAtATime
  <2> QED BY <2>2, <2>7, <2>8
<1>8. ASSUME NEW c \in Setter, Replace(c) PROVE AggInv'
  <2>1. /\ ask[c].at = "merged" /\ limits' = ask[c].limits
        /\ ask'[c].at = "replaced" /\ ask'[c].limits = ask[c].limits
        /\ \A e \in Setter : e # c => ask'[e] = ask[e]
        /\ ask' \in [Setter -> [at : {"none", "merged", "replaced"},
                     limits : [memory : Value \cup {Unset}, cpu : Value \cup {Unset}]]]
        /\ UNCHANGED <<serving, parent, held, survivors, blurred>>
    BY <1>8 DEF Replace
  <2>2. OneAtATime'
    <3> SUFFICES ASSUME serving, held, Swap, ~blurred PROVE OneAtATime'
      BY <2>1
    <3>1. \A e \in Setter : e # c => ask[e].at = "none"
      BY <2>1
    <3>2. \A e \in Setter : e # c => ask'[e].at = "none"
      BY <2>1, <3>1
    <3>3. CapsAre(limits)
      BY <2>1, <3>1
    <3>4. ask'[c].limits = limits' /\ (limits'.cpu = Unset => parent'.cpu = Unset)
      BY <2>1, <3>3
    <3>5. \A d, e \in Setter : ask'[d].at # "none" /\ ask'[e].at # "none" => d = e
      BY <3>2
    <3>6. \A e \in Setter : ask'[e].at = "merged" =>
            (ask'[e].limits.cpu = Unset => limits'.cpu = Unset)
      BY <2>1, <3>2
    <3>7. \A e \in Setter : ask'[e].at = "replaced" =>
            ask'[e].limits = limits' /\ (limits'.cpu = Unset => parent'.cpu = Unset)
      BY <3>2, <3>4
    <3>8. ~ \A e \in Setter : ask'[e].at # "replaced"
      BY <2>1
    <3> HIDE DEF CapsAre, AggInv
    <3> QED BY <3>5, <3>6, <3>7, <3>8 DEF OneAtATime
  <2> QED BY <2>1, <2>2
<1>9. ASSUME NEW c \in Setter, TellKernel(c) PROVE AggInv'
  <2>1. /\ ask[c].at = "replaced" /\ ask'[c].at = "none"
        /\ \A e \in Setter : e # c => ask'[e] = ask[e]
        /\ ask' \in [Setter -> [at : {"none", "merged", "replaced"},
                     limits : [memory : Value \cup {Unset}, cpu : Value \cup {Unset}]]]
        /\ UNCHANGED <<serving, held, limits, survivors, blurred>>
        /\ parent' = IF held THEN Apply(parent, ask[c].limits) ELSE parent
    BY <1>9 DEF TellKernel, NoAsk, NoGroup
  <2>2. /\ parent' \in [memory : Value \cup {Unset}, cpu : Value \cup {Unset}, there : BOOLEAN]
        /\ held /\ Swap => /\ parent'.memory = ask[c].limits.memory
                           /\ parent'.cpu = IF ask[c].limits.cpu = Unset THEN parent.cpu
                                                                       ELSE ask[c].limits.cpu
    BY <2>1 DEF Apply
  <2>3. OneAtATime'
    <3> SUFFICES ASSUME serving, held, Swap, ~blurred PROVE OneAtATime'
      BY <2>1
    <3>1. /\ ask[c].limits = limits /\ (limits.cpu = Unset => parent.cpu = Unset)
          /\ \A e \in Setter : e # c => ask[e].at = "none"
      BY <2>1
    <3>2. CapsAre(limits)'
      BY <2>1, <2>2, <3>1
    <3>3. \A e \in Setter : ask'[e].at = "none"
      BY <2>1, <3>1
    <3> HIDE DEF CapsAre, AggInv
    <3> QED BY <3>2, <3>3 DEF OneAtATime
  <2> QED BY <2>1, <2>2, <2>3
<1>10. CASE UNCHANGED aggVars
  BY <1>10 DEF aggVars
<1> QED
  BY <1>1, <1>2, <1>3, <1>4, <1>5, <1>6, <1>7, <1>8, <1>9, <1>10 DEF AggNext

\* A run with processes has its directory, and a directory in the parent has a parent.
LEMMA AggTyped ==
  ASSUME AggInv, AggTypeOK, AsksCaps, HeldIsThere, [AggNext]_aggVars
  PROVE  AggTypeOK' /\ AsksCaps' /\ HeldIsThere'
<1> USE DEF AggTypeOK, AsksCaps, HeldIsThere
<1>0. DOMAIN ask = Setter
  BY DEF AggInv
<1>1. CASE Serve
  <2>1. /\ serving' = TRUE /\ serves' \in 0 .. MaxServes /\ limits' \in Caps /\ ask' = ask /\ peopled' = peopled
        /\ place' = [j \in Job |-> IF j \in Swept THEN "none" ELSE place[j]]
        /\ \/ /\ held' = FALSE /\ parent' = parent
           \/ /\ held' = TRUE /\ parent' = Apply(NewParent, limits')
    BY <1>1, AggAssumption DEF Serve
  <2>2. Apply(NewParent, limits') \in [memory : Value \cup {Unset}, cpu : Value \cup {Unset}, there : BOOLEAN]
        /\ Apply(NewParent, limits').there = TRUE
    BY <2>1 DEF Apply, NewParent, NoParent, Caps
  <2>3. place' \in [Job -> {"none", "parent", "root"}] /\ \A j \in peopled' : place'[j] # "none"
    BY <2>1 DEF Swept
  <2>4. (\E j \in Job : place'[j] = "parent") => parent'.there
    BY <2>1, <2>2
  <2> QED BY <2>1, <2>2, <2>3, <2>4
<1>2. CASE RecoverKills \/ JobExits
  <2>1. /\ UNCHANGED <<serving, parent, held, place, limits, ask, serves>> /\ peopled' \subseteq peopled
    BY <1>2 DEF RecoverKills, JobExits
  <2> QED BY <2>1
<1>3. CASE StartJob
  <2>1. PICK j \in Job : /\ place' = [place EXCEPT ![j] = IF held THEN "parent" ELSE "root"]
                         /\ peopled' = peopled \cup {j}
    BY <1>3 DEF StartJob
  <2>2. UNCHANGED <<serving, parent, held, limits, ask, serves>> /\ serving
    BY <1>3 DEF StartJob
  <2>3. held => parent.there
    BY <2>2 DEF HeldIsThere
  <2> QED BY <2>1, <2>2, <2>3
<1>4. CASE RemoveJobDir
  <2>1. PICK j \in Job \ peopled : place' = [place EXCEPT ![j] = "none"]
    BY <1>4 DEF RemoveJobDir
  <2>2. UNCHANGED <<serving, parent, held, peopled, limits, ask, serves>>
    BY <1>4 DEF RemoveJobDir
  <2> QED BY <2>1, <2>2
<1>5. CASE Killed
  <2>1. /\ UNCHANGED <<parent, place, peopled, limits, serves>> /\ serving' = FALSE /\ held' = FALSE
        /\ \A c \in Setter : ask'[c].at = "none"
    BY <1>5 DEF Killed, NoAsk
  <2> QED BY <2>1
<1>6. ASSUME NEW c \in Setter, Merge(c) PROVE AggTypeOK' /\ AsksCaps' /\ HeldIsThere'
  <2>1. PICK what \in {"memory", "cpu"}, v \in Value \cup {Unset} :
          /\ v = Unset => what # "memory"
          /\ ask' = [ask EXCEPT ![c] = [at |-> "merged", limits |-> [limits EXCEPT ![what] = v]]]
    BY <1>6 DEF Merge
  <2>2. UNCHANGED <<serving, parent, held, place, peopled, limits, serves>>
    BY <1>6 DEF Merge
  <2>3. [limits EXCEPT ![what] = v] \in Caps
    BY <2>1 DEF Caps
  <2>4. /\ ask'[c].limits = [limits EXCEPT ![what] = v]
        /\ \A e \in Setter \ {c} : ask'[e] = ask[e]
    BY <1>0, <2>1
  <2> QED BY <2>2, <2>3, <2>4
<1>7. ASSUME NEW c \in Setter, Replace(c) PROVE AggTypeOK' /\ AsksCaps' /\ HeldIsThere'
  <2>1. /\ ask[c].at = "merged" /\ limits' = ask[c].limits /\ ask'[c].limits = ask[c].limits
        /\ \A e \in Setter \ {c} : ask'[e] = ask[e]
        /\ UNCHANGED <<serving, parent, held, place, peopled, serves>>
    BY <1>7 DEF Replace, AggInv
  <2> QED BY <2>1
<1>8. ASSUME NEW c \in Setter, TellKernel(c) PROVE AggTypeOK' /\ AsksCaps' /\ HeldIsThere'
  <2>1. /\ ask[c].at = "replaced" /\ ask'[c].at = "none"
        /\ \A e \in Setter \ {c} : ask'[e] = ask[e]
        /\ UNCHANGED <<serving, held, place, peopled, limits, serves>>
        /\ parent' = IF held THEN Apply(parent, ask[c].limits) ELSE parent
    BY <1>0, <1>8 DEF TellKernel, NoAsk
  <2>2. /\ parent' \in [memory : Value \cup {Unset}, cpu : Value \cup {Unset}, there : BOOLEAN]
        /\ parent'.there = parent.there
    BY <2>1 DEF Apply, Caps
  <2> QED BY <2>1, <2>2
<1>9. CASE UNCHANGED aggVars
  BY <1>9 DEF aggVars
<1> QED
  BY <1>1, <1>2, <1>3, <1>4, <1>5, <1>6, <1>7, <1>8, <1>9 DEF AggNext

\* For any directories, whatever enables and whatever is occupied, a root that is found
\* delivers what hard limits need and none is missed; and for any runs, requests and
\* supervisors the kernel's caps are those the scheduler admits by, between requests
\* that came one at a time and cleared nothing (discover, prepare_parent_cgroup,
\* set_limits).
THEOREM CapsAlwaysInForce ==
  ASSUME PathsEnd
  PROVE  RootSpec /\ AggSpec => []CapsInForce
<1>1. RootInit => RootInv
  <2> SUFFICES ASSUME RootInit PROVE RootInv
    OBVIOUS
  <2>1. Len(Candidates) \in Nat
    BY CandidatesAreDirs
  <2> QED BY <2>1 DEF RootInit, RootInv, RootTypeOK, RootDelivers, Refused
<1>2. AggInit => AggInv /\ AggTypeOK /\ AsksCaps /\ HeldIsThere
  <2> SUFFICES ASSUME AggInit PROVE AggInv /\ AggTypeOK /\ AsksCaps /\ HeldIsThere
    OBVIOUS
  <2>1. (CHOOSE v \in Value : TRUE) \in Value
    BY AggAssumption
  <2>2. AggInv
    BY <2>1 DEF AggInit, AggInv, NobodyAsks, OneAtATime, CappedUnlessSurvivors, NoAsk, NoGroup, NoParent
  <2>3. AggTypeOK
    <3>1. limits \in Caps
      BY <2>1 DEF AggInit, Caps
    <3>2. parent \in [memory : Value \cup {Unset}, cpu : Value \cup {Unset}, there : BOOLEAN]
      BY DEF AggInit, NoParent
    <3>3. place \in [Job -> {"none", "parent", "root"}] /\ peopled = {} /\ \A j \in Job : place[j] = "none"
      BY DEF AggInit
    <3>4. serving \in BOOLEAN /\ held \in BOOLEAN
      BY DEF AggInit
    <3>5. serves \in 0 .. MaxServes
      <4>1. serves = 0
        BY DEF AggInit
      <4> QED BY <4>1, AggAssumption
    <3> QED BY <3>1, <3>2, <3>3, <3>4, <3>5 DEF AggTypeOK
  <2>4. AsksCaps /\ HeldIsThere
    BY DEF AggInit, AsksCaps, HeldIsThere, NoAsk
  <2> QED BY <2>2, <2>3, <2>4
<1>3. RootInv /\ [TryCandidate]_rootVars => RootInv'
  BY RootStepping
<1>4. AggInv /\ AggTypeOK /\ AsksCaps /\ HeldIsThere /\ [AggNext]_aggVars
        => (AggInv /\ AggTypeOK /\ AsksCaps /\ HeldIsThere)'
  BY AggStepping, AggTyped
<1>5. RootInv /\ AggInv /\ AggTypeOK => CapsInForce
  <2>1. RootInv => NoneMissed
    BY DEF RootInv, Refused, NoneMissed
  <2>2. AggInv => CapsFollowLimits
    BY DEF AggInv, OneAtATime, CapsFollowLimits, Unasked
  <2> QED BY <2>1, <2>2 DEF RootInv, AggInv, CapsInForce
<1> QED BY <1>1, <1>2, <1>3, <1>4, <1>5, PTL DEF RootSpec, AggSpec
=============================================================================
