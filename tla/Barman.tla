------------------------------- MODULE Barman -------------------------------
(***************************************************************************)
(* The programs that act on what a scan showed: wyd barman cleanup-plan,   *)
(* execute and action (barman.rs), the signals of actions/process.rs, the  *)
(* Docker calls of actions/docker.rs and wyd prune (main.rs).              *)
(*                                                                         *)
(* Each client is one wyd process, which does one thing and exits.         *)
(* Between its snapshot, its reading of a remembered plan, the refresh     *)
(* that re-checks identities and each signal, processes end, pids are      *)
(* given to new processes, the classifier changes its mind, containers     *)
(* come and go and the other clients move.                                 *)
(*                                                                         *)
(* An item is one process here (Classify models how families are grouped), *)
(* named by its pid; Above nests items.  Demo mode touches nothing and is  *)
(* left out.                                                               *)
(***************************************************************************)
EXTENDS Naturals, Sequences, FiniteSets, SequencesExt

CONSTANTS
    Pids,        \* process ids
    Above,       \* Above[p]: the pid whose item nests p, or NoPid
    NoPid,
    Kind, Name, Project,  \* of the program that runs under each pid
    Slug,        \* Slug[j]: project_id of project j
    Foreign,     \* pids of another user: kill fails with EPERM
    Unreadable,  \* <<p, t>>: of a process started at t under p no start time is known
    DockerIds,   \* containers, dangling images, volumes, the build cache
    DKind,       \* DKind[d]: "Container", "DanglingImage", "Volume", "BuildCache"
    Anonymous,   \* volumes Docker named itself
    Mounts,      \* Mounts[d]: the volumes container d mounts
    ShortId,     \* ShortId[d]: the first twelve characters of the engine id
    Clients, PlanIds,
    Absent, Empty, Gone,  \* a plan file never written; created; unlinked
    PlanTtl,     \* PLAN_TTL_SECS
    Scenes,      \* what may run at first, how often the host changes and
                 \* what each client does: [started, verdict, engine, events, does]
    MaxNow       \* bound on the clock

ASSUME BarmanConstants ==
    /\ Above \in [Pids -> Pids \cup {NoPid}] /\ NoPid \notin Pids
    /\ Foreign \subseteq Pids /\ Unreadable \subseteq Pids \X Nat
    /\ DKind \in [DockerIds -> {"Container", "DanglingImage", "Volume", "BuildCache"}]
    /\ \A d, e \in DockerIds : ShortId[d] = ShortId[e] => DKind[d] = DKind[e]
    /\ \A d \in DockerIds : Mounts[d] \subseteq {v \in DockerIds : DKind[v] = "Volume"}
    /\ Absent # Empty /\ Absent # Gone /\ Empty # Gone
    /\ \A h \in Scenes :
        /\ h.events \in Nat /\ h.started \in [Pids -> {0, 1}]
        /\ h.verdict \in [Pids -> {"Active", "Suspicious", "Persistent"}]
        /\ h.engine \in [DockerIds -> {"running", "stopped", "there", "gone"}]
    /\ PlanTtl \in Nat \ {0} /\ MaxNow \in Nat \ {0}

VARIABLES
    now,       \* the wall clock, in seconds
    started,   \* started[p]: when the process with pid p was started; 0: there is none
    verdict,   \* verdict[p]: RuntimeState the classifier gives the item of p
    engine,    \* engine[d]: "running", "stopped", "there" or "gone"
    plans,     \* barman-plans/: [issued, selected], Empty, Absent or Gone
    client,    \* client[c]: where wyd process c is
    events     \* changes of the host still to come

barmanVars == <<now, started, verdict, engine, plans, client, events>>
host == <<now, started, verdict, engine, events>>

States == {"Active", "Suspicious", "Persistent"}

-----------------------------------------------------------------------------
(* One snapshot: process scan, classifier and Docker scan.                  *)

Snap == [started |-> started, verdict |-> verdict, engine |-> engine]

LiveIn(s) == {p \in Pids : s.started[p] # 0}

\* ProcessInfo.start_time of the process started at t under p, 0 when unknown
Reading(p, t) == IF <<p, t>> \in Unreadable THEN 0 ELSE t
StartOf(s, p) == Reading(p, s.started[p])

\* the items above p in s, p included
Chain(s, p) ==
    LET up[q \in Pids] == {q} \cup
            IF Above[q] \in LiveIn(s) THEN up[Above[q]] ELSE {}
    IN  up[p]

\* Mutant of ResourceId: the start time is not part of the id
ResourceId_NoStart(s, p) == <<"resource", Kind[p], 1, Project[p], Name[p]>>
ResourceId(s, p) == <<"resource", Kind[p], StartOf(s, p), Project[p], Name[p]>>
ContainerId(d) == <<"container", ShortId[d]>>
ProjectId(p) == <<"project", Slug[Project[p]]>>

Running(s, d) == DKind[d] = "Container" /\ s.engine[d] = "running"
Listed(s) == {d \in DockerIds : s.engine[d] # "gone"}

\* listed: whether the engine answered the list of containers; a failed
\* answer counts as an empty one
Attached(s, listed) ==
    IF listed THEN UNION {Mounts[d] : d \in Listed(s)} ELSE {}
\* Mutant of Prunable: that nobody mounts it is enough
Prunable_Unmounted(s, listed, d) == DKind[d] = "Volume" /\ d \notin Attached(s, listed)
Prunable(s, listed, d) ==
    /\ DKind[d] = "Volume" /\ d \in Anonymous
    /\ d \notin Attached(s, listed)
PersistentDocker(d) == DKind[d] = "Volume"

ItemClass(s, p) == CASE s.verdict[p] = "Suspicious" -> "leftover"
                     [] s.verdict[p] = "Persistent" -> "persistent"
                     [] s.verdict[p] = "Active"     -> "active"
ArtifactClass(s, d) ==
    IF PersistentDocker(d) THEN "persistent"
    ELSE IF Prunable(s, TRUE, d) \/ DKind[d] \in {"DanglingImage", "BuildCache"}
         THEN "leftover" ELSE "active"

\* the resources table: containers have a table of their own
Rows(s) ==
    {[id |-> ResourceId(s, p), class |-> ItemClass(s, p)] : p \in LiveIn(s)}
    \cup {[id |-> ContainerId(d), class |-> ArtifactClass(s, d)] :
            d \in {e \in Listed(s) : DKind[e] # "Container"}}
Leftovers(s) == {r.id : r \in {x \in Rows(s) : x.class = "leftover"}}
Members(s, target) == {ResourceId(s, p) : p \in {q \in LiveIn(s) : ProjectId(q) = target}}

FindItem(s, id) == {p \in LiveIn(s) : ResourceId(s, p) = id}
FindDocker(s, id) == {d \in Listed(s) : ContainerId(d) = id}

\* the processes of an item and of the items nested in it, deepest first
PostOrder(s, p) ==
    LET order[q \in Pids] ==
            FlattenSeq([i \in 1 .. Cardinality({k \in LiveIn(s) : Above[k] = q}) |->
                order[SetToSeq({k \in LiveIn(s) : Above[k] = q})[i]]]) \o <<q>>
    IN  order[p]
IdentitiesFor(s, p) ==
    LET order == PostOrder(s, p)
    IN  [i \in 1 .. Len(order) |-> [pid |-> order[i], start |-> StartOf(s, order[i])]]

-----------------------------------------------------------------------------
(* The host.  A pid is free for a new process as soon as its process ends.  *)

Happens == events > 0 /\ events' = events - 1

Tick ==
    /\ now < MaxNow /\ now' = now + 1
    /\ UNCHANGED <<started, verdict, engine, plans, client, events>>
Spawn(p) ==
    /\ Happens /\ started[p] = 0
    /\ started' = [started EXCEPT ![p] = now]
    /\ \E v \in States : verdict' = [verdict EXCEPT ![p] = v]
    /\ UNCHANGED <<now, engine, plans, client>>
Exit(p) ==
    /\ Happens /\ started[p] # 0
    /\ started' = [started EXCEPT ![p] = 0]
    /\ UNCHANGED <<now, verdict, engine, plans, client>>
Reclassify(p) ==
    /\ Happens /\ started[p] # 0
    /\ \E v \in States \ {verdict[p]} : verdict' = [verdict EXCEPT ![p] = v]
    /\ UNCHANGED <<now, started, engine, plans, client>>
ContainerMoves(d) ==
    /\ Happens /\ DKind[d] = "Container" /\ engine[d] # "gone"
    /\ \E to \in {"running", "stopped", "gone"} \ {engine[d]} :
        engine' = [engine EXCEPT ![d] = to]
    /\ UNCHANGED <<now, started, verdict, plans, client>>

\* What the engine answers: removing a running container or a mounted volume
\* is refused, stopping a stopped container is not an error.
EngineStop(d) ==
    IF engine[d] = "gone" THEN [ok |-> FALSE, after |-> engine]
    ELSE [ok |-> TRUE, after |-> [engine EXCEPT ![d] = "stopped"]]
EngineStart(d) ==
    IF engine[d] = "gone" THEN [ok |-> FALSE, after |-> engine]
    ELSE [ok |-> TRUE, after |-> [engine EXCEPT ![d] = "running"]]
EngineRemove(d) ==
    IF engine[d] \in {"gone", "running"} \/ d \in Attached(Snap, TRUE)
    THEN [ok |-> FALSE, after |-> engine]
    ELSE [ok |-> TRUE, after |-> [engine EXCEPT ![d] = "gone"]]

-----------------------------------------------------------------------------
(* Clients.                                                                 *)

Exited == [pc |-> "exited"]
Move(c, r) == client' = [client EXCEPT ![c] = r]
Is(c, pc) == client[c].pc = pc
Starts(c, what) == Is(c, "idle") /\ client[c].does = what

\* An operation on the ids `left`, resolved against the snapshot s taken at `since`.
\*   op: "action", "group" or "execute";  asked: the ids it may act on
\*   cur: the id in hand;  todo: identities still to be signalled
\*   sent: what send has reported, "signaled" or "failed"
\*   held: what send's refresh saw;  hit: processes signalled, `reused` when
\*   the pid changed hands after that refresh;  removed: Docker resources
Work(op, ids, signal, s) ==
    [pc |-> "next", op |-> op, asked |-> ids, left |-> ids, signal |-> signal,
     issued |-> 0, snap |-> s, since |-> now, cur |-> <<>>, todo |-> <<>>, sent |-> {}, held |-> {},
     stopped |-> {}, killed |-> {}, failed |-> {}, hit |-> {}, removed |-> {}]

(* cleanup-plan: snapshot, collect garbage, create the file, write it.      *)
BeginPlan(c) ==
    /\ Starts(c, "plan")
    /\ \E p \in PlanIds :
        /\ plans[p] = Absent
        /\ \A x \in Clients : client[x].pc \in {"gc", "create", "fill"} => client[x].plan # p
        /\ Move(c, [pc |-> "gc", plan |-> p, selected |-> Leftovers(Snap), issued |-> 0])
    /\ UNCHANGED <<host, plans>>
\* Mutant of Expired: > for >=
Expired_Late(issued) == now - issued > PlanTtl
Expired(issued) == now - issued >= PlanTtl
GcPlans(c) ==
    /\ Is(c, "gc")
    /\ plans' = [p \in PlanIds |->
            IF plans[p] = Empty THEN Gone
            ELSE IF plans[p] \notin {Absent, Gone} /\ Expired(plans[p].issued) THEN Gone
            ELSE plans[p]]
    /\ Move(c, [client[c] EXCEPT !.pc = "create", !.issued = now])
    /\ UNCHANGED host
CreatePlan(c) ==
    /\ Is(c, "create")
    /\ plans' = [plans EXCEPT ![client[c].plan] = Empty]
    /\ Move(c, [client[c] EXCEPT !.pc = "fill"])
    /\ UNCHANGED host
\* a file another client's garbage collection unlinked is written in vain
FillPlan(c) ==
    /\ Is(c, "fill")
    /\ plans' = IF plans[client[c].plan] = Empty
                THEN [plans EXCEPT ![client[c].plan] =
                        [issued |-> client[c].issued, selected |-> client[c].selected]]
                ELSE plans
    /\ Move(c, Exited)
    /\ UNCHANGED host

(* execute: read the file, remove it, then resolve against a new snapshot.  *)
ReadPlan(c, p) ==
    /\ Starts(c, "execute") /\ plans[p] \notin {Absent, Gone, Empty}
    /\ Move(c, [pc |-> "take", plan |-> p, read |-> plans[p]])
    /\ UNCHANGED <<host, plans>>
TakePlan(c) ==
    /\ Is(c, "take")
    /\ plans' = [plans EXCEPT ![client[c].plan] = Gone]
    /\ Move(c, IF Expired(client[c].read.issued) THEN Exited
               ELSE [client[c] EXCEPT !.pc = "accepted"])
    /\ UNCHANGED host
Resolve(c) ==
    /\ Is(c, "accepted")
    /\ \E only \in SUBSET client[c].read.selected :
        Move(c, [Work("execute", only, "Term", Snap) EXCEPT !.issued = client[c].read.issued])
    /\ UNCHANGED <<host, plans>>

(* action: one target a snapshot once showed, against a new snapshot.       *)
KnownIds == {<<"resource", Kind[p], t, Project[p], Name[p]>> : p \in Pids, t \in 0 .. now}
\* act_group looks among the projects only, so that a session is always stale
Groups == {ProjectId(p) : p \in Pids} \cup {<<"session", Kind[p]>> : p \in Pids}
BeginResource(c, id, signal) ==
    /\ Starts(c, "action")
    /\ Move(c, Work("action", {id}, signal, Snap))
    /\ UNCHANGED <<host, plans>>
BeginGroup(c, target, signal) ==
    /\ Starts(c, "action")
    /\ Move(c, IF Members(Snap, target) = {} THEN Exited    \* a stale target
               ELSE Work("group", Members(Snap, target), signal, Snap))
    /\ UNCHANGED <<host, plans>>
BeginDocker(c, id, action) ==
    /\ Starts(c, "action")
    /\ Move(c, [Work("action", {id}, action, Snap) EXCEPT !.pc = "docker"])
    /\ UNCHANGED <<host, plans>>

\* Mutant of ReportOk: nothing signalled counts as done
ReportOk_NoFailure(sent) == "failed" \notin sent
\* signal_report
ReportOk(sent) == sent = {"signaled"}

Stale(r, id) == [r EXCEPT !.pc = "next", !.failed = @ \cup {id}, !.left = @ \ {id}]
\* what is answered for the ids: done, or failed, partly done and stale alike
Answer(r, ids) ==
    IF ReportOk(r.sent)
    THEN [r EXCEPT !.sent = {}, !.stopped = @ \cup (IF r.signal = "Term" THEN ids ELSE {}),
                                !.killed = @ \cup (IF r.signal = "Kill" THEN ids ELSE {})]
    ELSE [r EXCEPT !.sent = {}, !.failed = @ \cup ids]
\* r after the send of its current id: a group adds the reports of its members
Settled(r) ==
    IF r.todo # <<>> THEN r
    ELSE IF r.op = "group" THEN [r EXCEPT !.pc = "next"]
    ELSE [Answer(r, {r.cur}) EXCEPT !.pc = "next"]

NextItem(c, id) ==
    LET r == client[c] IN
    /\ Is(c, "next") /\ id \in r.left /\ id[1] = "resource"
    /\ \/ /\ FindItem(r.snap, id) = {}
          /\ Move(c, IF r.op = "group" THEN [r EXCEPT !.left = @ \ {id}] ELSE Stale(r, id))
       \/ \E p \in FindItem(r.snap, id) :
            Move(c, [r EXCEPT !.pc = "refresh", !.left = @ \ {id}, !.cur = id,
                              !.todo = IdentitiesFor(r.snap, p)])
    /\ UNCHANGED <<host, plans>>

\* Mutant of IdentityHolds: any process under the pid will do
IdentityHolds_ByPid(i) == started[i.pid] # 0
\* where either start time is unknown the pid alone decides
IdentityHolds(i) ==
    /\ started[i.pid] # 0
    /\ \/ 0 \in {i.start, Reading(i.pid, started[i.pid])}
       \/ i.start = Reading(i.pid, started[i.pid])
\* those that still hold, in their order
Holding(ids) ==
    FlattenSeq([i \in 1 .. Len(ids) |-> IF IdentityHolds(ids[i]) THEN <<ids[i]>> ELSE <<>>])
Refresh(c) ==
    /\ Is(c, "refresh")
    /\ Move(c, Settled([client[c] EXCEPT !.pc = "signal",
                            !.todo = Holding(@),
                            !.held = {<<p, started[p]>> : p \in Pids}]))
    /\ UNCHANGED <<host, plans>>
SignalOne(c) ==
    LET r == client[c]
        p == Head(r.todo).pid
        gone == started[p] = 0
        denied == p \in Foreign
    IN
    /\ Is(c, "signal")
    /\ Move(c, Settled([r EXCEPT !.todo = Tail(@),
            !.sent = @ \cup (IF gone THEN {} ELSE IF denied THEN {"failed"} ELSE {"signaled"}),
            !.hit = @ \cup (IF gone \/ denied THEN {}
                                 ELSE {[pid |-> p, start |-> started[p],
                                        reused |-> <<p, started[p]>> \notin r.held]})]))
    /\ started' = IF r.signal = "Kill" /\ ~gone /\ ~denied
                  THEN [started EXCEPT ![p] = 0] ELSE started
    /\ UNCHANGED <<now, verdict, engine, events, plans>>

\* act_docker with the action execute or the user chose
DockerCall(d, action) ==
    CASE action = "Kill"                                       -> EngineRemove(d)
      [] DKind[d] = "Container" /\ action = "Term"             -> EngineStop(d)
      [] DKind[d] = "Container" /\ action \in {"Start", "Restart"} -> EngineStart(d)
      [] OTHER -> [ok |-> FALSE, after |-> engine]
Docker(c, id, action) ==
    LET r == client[c] IN
    \/ /\ FindDocker(r.snap, id) = {}
       /\ Move(c, Stale(r, id))
       /\ UNCHANGED engine
    \/ \E d \in FindDocker(r.snap, id) :
        LET run == Running(r.snap, d)
            answer == IF action = "Term" /\ ~run THEN [ok |-> FALSE, after |-> engine]
                      ELSE DockerCall(d, action)
            done == [r EXCEPT !.pc = "next", !.left = @ \ {id},
                              !.removed = @ \cup {e \in DockerIds :
                                            engine[e] # "gone" /\ answer.after[e] = "gone"}]
        IN  /\ engine' = answer.after
            /\ Move(c, IF ~answer.ok THEN [done EXCEPT !.failed = @ \cup {id}]
                       ELSE IF action = "Kill" THEN [done EXCEPT !.killed = @ \cup {id}]
                       ELSE [done EXCEPT !.stopped = @ \cup {id}])

\* execute stops what runs and removes the rest
NextDocker(c, id) ==
    /\ Is(c, "next") /\ id \in client[c].left /\ id[1] = "container"
    /\ \/ /\ \A d \in FindDocker(client[c].snap, id) : Running(client[c].snap, d)
          /\ Docker(c, id, "Term")
       \/ /\ \E d \in FindDocker(client[c].snap, id) : ~Running(client[c].snap, d)
          /\ Docker(c, id, "Kill")
    /\ UNCHANGED <<now, started, verdict, events, plans>>
ActDocker(c) ==
    /\ Is(c, "docker")
    /\ \E id \in client[c].left : Docker(c, id, client[c].signal)
    /\ UNCHANGED <<now, started, verdict, events, plans>>

\* Mutant of SumUp: a member that failed is made up for by one that did not
SumUp_Any(c) ==
    LET r == client[c] IN
    /\ Is(c, "next") /\ r.left = {} /\ r.op = "group"
    /\ Move(c, [Answer([r EXCEPT !.sent = @ \ {"failed"}], r.asked) EXCEPT !.pc = "summed"])
    /\ UNCHANGED <<host, plans>>
\* one report for all members
SumUp(c) ==
    /\ Is(c, "next") /\ client[c].left = {} /\ client[c].op = "group"
    /\ Move(c, [Answer(client[c], client[c].asked) EXCEPT !.pc = "summed"])
    /\ UNCHANGED <<host, plans>>
Finish(c) ==
    /\ \/ Is(c, "summed")
       \/ Is(c, "next") /\ client[c].left = {} /\ client[c].op # "group"
    /\ Move(c, Exited)
    /\ UNCHANGED <<host, plans>>

(* wyd prune: list, ask, remove each listed volume.                         *)
BeginPrune(c) ==
    /\ Starts(c, "prune")
    /\ \E listed \in BOOLEAN :
        LET ids == {d \in Listed(Snap) : Prunable(Snap, listed, d)} IN
        /\ ids # {}
        /\ Move(c, [pc |-> "prune", left |-> ids, removed |-> {}])
    /\ UNCHANGED <<host, plans>>
PruneOne(c) ==
    /\ Is(c, "prune")
    /\ \E d \in client[c].left :
        /\ engine' = EngineRemove(d).after
        /\ Move(c, [client[c] EXCEPT !.left = @ \ {d},
                        !.removed = IF EngineRemove(d).ok THEN @ \cup {d} ELSE @])
    /\ UNCHANGED <<now, started, verdict, events, plans>>
EndPrune(c) ==
    /\ Is(c, "prune")      \* answered no, or nothing left
    /\ Move(c, Exited)
    /\ UNCHANGED <<host, plans>>

-----------------------------------------------------------------------------

Set(h) ==
    /\ now = 1
    /\ started = h.started /\ verdict = h.verdict /\ engine = h.engine
    /\ events = h.events
    /\ client = [c \in Clients |-> [pc |-> "idle", does |-> h.does[c]]]
    /\ plans = [p \in PlanIds |-> Absent]

BarmanHost ==
    \/ Tick
    \/ \E p \in Pids : Spawn(p) \/ Exit(p) \/ Reclassify(p)
    \/ \E d \in DockerIds : ContainerMoves(d)
PlanStep(c) ==
    \/ BeginPlan(c) \/ GcPlans(c) \/ CreatePlan(c) \/ FillPlan(c)
    \/ \E p \in PlanIds : ReadPlan(c, p)
    \/ TakePlan(c) \/ Resolve(c)
ActionBegins(c) ==
    \/ \E signal \in {"Term", "Kill"} :
        \/ \E id \in KnownIds : BeginResource(c, id, signal)
        \/ \E target \in Groups : BeginGroup(c, target, signal)
    \/ \E d \in DockerIds, action \in {"Term", "Kill", "Start", "Restart"} :
        BeginDocker(c, ContainerId(d), action)
    \/ BeginPrune(c)
WorkStep(c) ==
    \/ Is(c, "next") /\ \E id \in client[c].left : NextItem(c, id) \/ NextDocker(c, id)
    \/ Refresh(c) \/ SignalOne(c) \/ ActDocker(c) \/ SumUp(c) \/ Finish(c)
    \/ PruneOne(c) \/ EndPrune(c)
BarmanNext ==
    \/ BarmanHost
    \/ \E c \in Clients : PlanStep(c) \/ ActionBegins(c) \/ WorkStep(c)
BarmanSpec == (\E h \in Scenes : Set(h)) /\ [][BarmanNext]_barmanVars

-----------------------------------------------------------------------------
(* Properties.                                                              *)

Working(c) == client[c].pc \in {"next", "refresh", "signal", "docker", "summed"}

\* The process started at t under p is the one started at u, or is taken for it because
\* the start time of one of them is unknown.
PassesFor(p, t, u) == t = u \/ 0 \in {Reading(p, t), Reading(p, u)}

\* Every client is in one of its stages and remembers only ids it was asked
\* about (the type invariant of this module).
BarmanTypeOK ==
    /\ now \in 1 .. MaxNow /\ events \in Nat
    /\ started \in [Pids -> 0 .. MaxNow] /\ verdict \in [Pids -> States]
    /\ engine \in [DockerIds -> {"running", "stopped", "there", "gone"}]
    /\ \A c \in Clients : Working(c) =>
        /\ client[c].left \subseteq client[c].asked
        /\ client[c].failed \subseteq client[c].asked

\* A process is signalled only when it, or an item that nests it, had one of the ids the
\* client was asked about, unless its pid passed to it after send had refreshed, or passed
\* to or from a process whose start time is unknown (barman.rs find_item_by_id,
\* process.rs identities_for and identity_holds).
AskedOnly ==
    \A c \in Clients : Working(c) =>
        \A h \in client[c].hit : h.reused \/
            /\ h.pid \in LiveIn(client[c].snap)
            /\ PassesFor(h.pid, h.start, client[c].snap.started[h.pid])
            /\ \E q \in Chain(client[c].snap, h.pid) :
                ResourceId(client[c].snap, q) \in client[c].asked

\* A plan is executed against what it was made from: an item that is known to have been
\* started after the plan was issued is not reached by it, under any pid, except as a part
\* of an older item (the start time in resource_id, barman.rs:449).
NothingNewer ==
    \A c \in Clients : Working(c) /\ client[c].op = "execute" =>
        \A h \in client[c].hit : h.reused \/
            \E q \in Chain(client[c].snap, h.pid) :
                StartOf(client[c].snap, q) <= client[c].issued

\* Every process of the item id that the snapshot saw, and that had been started in an
\* earlier second, was signalled or is there no longer.
Reaches(r, id) ==
    \E p \in FindItem(r.snap, id) : \A q \in ToSet(PostOrder(r.snap, p)) :
        r.snap.started[q] < r.since /\ started[q] = r.snap.started[q] =>
            \E h \in r.hit : h.pid = q /\ h.start = r.snap.started[q]

\* What is reported as stopped or killed is a Docker resource or an item of which this
\* client has left no process out; of an item asked for by its own id it signalled one at
\* least, and of a group one of some member.  Nothing is reported both ways (send,
\* signal_report, act_group and the lists of execute).
ReportHonest ==
    \A c \in Clients : Working(c) =>
        LET r == client[c]
            done == {id \in r.stopped \cup r.killed : id[1] = "resource"}
        IN  /\ r.failed \cap (r.stopped \cup r.killed) = {}
            /\ \A id \in done : Reaches(r, id) /\ r.hit # {}
            /\ r.op # "group" => \A id \in done : \E h \in r.hit, q \in Pids :
                   q \in Chain(r.snap, h.pid) /\ ResourceId(r.snap, q) = id

\* A plan that an execute goes on with is young and its file is gone for good, so that no
\* execute that starts later has it.  Of those that read it before it was removed each goes
\* on, although docs/barman-api.md:120 calls it a single-use file: take_plan does not look
\* whether the removal was its own (take_plan: removed before it is parsed, then expired).
PlanConsumed ==
    \A c \in Clients : Is(c, "accepted") => plans[client[c].plan] = Gone
PlanSpent ==
    [][\A p \in PlanIds : plans[p] = Gone => plans'[p] = Gone]_barmanVars
PlanFresh ==
    [][\A c \in Clients : Is(c, "take") /\ client'[c].pc = "accepted" =>
        now < client[c].read.issued + PlanTtl]_barmanVars

\* No plan removes a volume, whoever named it, and a prune removes none that the user named.
\* Who kills or removes a volume by its own id gets what was asked for.
\* (docker_artifact_resource puts persistent first, and the scanner marks every volume
\* persistent, although docs/barman-api.md:106-108 and barman.rs:594-597 have a plan hold
\* the anonymous ones that no container uses; DockerResource::prunable.)
VolumesKept ==
    \A c \in Clients :
        /\ Working(c) /\ client[c].op = "execute" =>
            \A d \in client[c].removed : DKind[d] # "Volume"
        /\ Is(c, "prune") => client[c].removed \subseteq Anonymous
=============================================================================
