-------------------------------- MODULE Web --------------------------------
(***************************************************************************)
(* The requests of wyd web (web/mod.rs, web/proposal.rs) and the run tools *)
(* of wyd mcp (mcp.rs), on the host of module Barman.                      *)
(*                                                                         *)
(* The server answers each connection on a thread of its own.  The threads *)
(* share the map of proposals and the snapshot the collector publishes;    *)
(* the runs belong to a supervisor in another process, which they ask.     *)
(* Between the reads, the re-check, the removal of a proposal and the call *)
(* to the supervisor, runs change, the supervisor stops or restarts, and   *)
(* the other threads answer.  Demo mode touches nothing and is left out.   *)
(***************************************************************************)
EXTENDS Barman

CONSTANTS
    Runs,        \* run ids
    Requests,    \* connections to the web server
    Mcps,        \* connections to MCP servers
    AllowRun,    \* those started with --allow-run
    Protected    \* names proposal.rs never selects

RunStates == {"absent", "queued", "running", "stopping", "finished"}

ASSUME WebConstants ==
    /\ AllowRun \subseteq Mcps /\ "cli" \notin Mcps
    /\ Protected \subseteq {Name[p] : p \in Pids}
    /\ \A h \in Scenes : h.run \in [Runs -> RunStates]

VARIABLES
    published,   \* the collector's latest snapshot (SnapshotSink)
    run,         \* run[i]: state of run i in the store, "absent" before
    starter,     \* starter[i]: who asked for run i
    up,          \* a supervisor answers on the socket
    proposals,   \* WebState.proposals: id -> proposal, for the ids present
    shown,       \* cancel proposals returned to a browser: <<id, run>>
    request,     \* request[q]: where connection q is
    told         \* cancels the supervisor has been asked for

webVars == <<published, run, starter, up, proposals, shown, request, told>>
webOnly == <<run, starter, up, proposals, shown, told>>
controlVars == <<barmanVars, webVars>>

Terminal(i) == run[i] = "finished"

Answered == [pc |-> "answered"]
Go(q, r) == request' = [request EXCEPT ![q] = r]
At(q, pc) == request[q].pc = pc

-----------------------------------------------------------------------------
(* The collector, the runs and their supervisor.                            *)

\* SnapshotSink::publish, with the version every snapshot has
Publish ==
    /\ published # Snap /\ published' = Snap
    /\ UNCHANGED <<barmanVars, webOnly, request>>
SnapshotVersion == 1

RunMoves(i) ==
    /\ up
    /\ \/ run[i] = "queued" /\ run' = [run EXCEPT ![i] = "running"]
       \/ run[i] \in {"running", "stopping"} /\ run' = [run EXCEPT ![i] = "finished"]
    /\ UNCHANGED <<barmanVars, published, starter, up, proposals, shown, request, told>>
SupervisorStops ==
    /\ Happens /\ up /\ up' = FALSE
    /\ UNCHANGED <<now, started, verdict, engine, plans, client, published, run,
                   starter, proposals, shown, request, told>>
\* a new supervisor may find runs of the old one to be lost
SupervisorStarts ==
    /\ Happens /\ ~up /\ up' = TRUE
    /\ \E lost \in SUBSET {i \in Runs : run[i] \notin {"absent", "finished"}} :
        run' = [i \in Runs |-> IF i \in lost THEN "finished" ELSE run[i]]
    /\ UNCHANGED <<now, started, verdict, engine, plans, client, published,
                   starter, proposals, shown, request, told>>

\* Supervisor::cancel: a finished run is left alone
Cancelled(i) ==
    CASE run[i] = "queued"  -> "finished"
      [] run[i] = "running" -> "stopping"
      [] OTHER              -> run[i]
Ask(who, i) ==
    /\ run' = [run EXCEPT ![i] = Cancelled(i)]
    /\ told' = told \cup {[by |-> who, run |-> i]}

-----------------------------------------------------------------------------
(* Cancelling a run: propose, look, confirm.                                *)

ProposeCancel(q, i) ==
    /\ At(q, "wait") /\ run[i] # "absent" /\ ~Terminal(i)
    /\ Go(q, [pc |-> "insert", run |-> i, state |-> run[i]])
    /\ UNCHANGED <<barmanVars, published, webOnly>>
CancelProposal(i, state) == [kind |-> "cancel_run", run |-> i, state |-> state]
InsertCancel(q) ==
    LET i == request[q].run
        id == <<"run", i, now>>
    IN
    /\ At(q, "insert")
    /\ proposals' = [x \in DOMAIN proposals \cup {id} |->
            IF x = id THEN CancelProposal(i, request[q].state) ELSE proposals[x]]
    /\ shown' = shown \cup {<<id, i>>}
    /\ Go(q, Answered)
    /\ UNCHANGED <<barmanVars, published, run, starter, up, told>>

\* The path names a run, the body a proposal; nothing makes them agree.
ConfirmCancel(q, id, i) ==
    /\ At(q, "wait")
    /\ IF id \in DOMAIN proposals /\ proposals[id].kind = "cancel_run" /\ proposals[id].run = i
       THEN Go(q, [pc |-> "recheck", id |-> id, run |-> i, late |-> Terminal(i)])
       ELSE Go(q, Answered)          \* 404 or 409
    /\ UNCHANGED <<barmanVars, published, webOnly>>
\* Mutant of Recheck: the proposal is enough
Recheck_Trusts(q) ==
    /\ At(q, "recheck")
    /\ Go(q, [request[q] EXCEPT !.pc = "remove"])
    /\ UNCHANGED <<barmanVars, published, webOnly>>
Recheck(q) ==
    /\ At(q, "recheck")
    /\ Go(q, IF run[request[q].run] = "absent" \/ Terminal(request[q].run) THEN Answered
             ELSE [request[q] EXCEPT !.pc = "remove"])
    /\ UNCHANGED <<barmanVars, published, webOnly>>
RemoveProposal(q) ==
    /\ At(q, "remove")
    /\ proposals' = [x \in DOMAIN proposals \ {request[q].id} |-> proposals[x]]
    /\ Go(q, [request[q] EXCEPT !.pc = "send"])
    /\ UNCHANGED <<barmanVars, published, run, starter, up, shown, told>>
\* without a supervisor the answer is 503 and the proposal is spent
SendCancel(q) ==
    /\ At(q, "send")
    /\ IF up THEN Ask(request[q], request[q].run) ELSE UNCHANGED <<run, told>>
    /\ Go(q, Answered)
    /\ UNCHANGED <<barmanVars, published, starter, up, proposals, shown>>

-----------------------------------------------------------------------------
(* Cleanup proposals, which a confirm only returns.                         *)

MatchesScope(s, p, scope, target) ==
    \/ scope = "leftovers" /\ s.verdict[p] = "Suspicious"
    \/ scope = "agent" /\ Kind[p] = target
IsPersistent(s, p) == s.verdict[p] = "Persistent" \/ Name[p] \in Protected
Selected(s, scope, target) ==
    {p \in LiveIn(s) : ~IsPersistent(s, p) /\ MatchesScope(s, p, scope, target)}
CleanupProposal(s, scope, target) ==
    [kind |-> "cleanup", version |-> SnapshotVersion,
     selected |-> {ResourceId(s, p) : p \in Selected(s, scope, target)},
     safe |-> \A p \in Selected(s, scope, target) : s.verdict[p] = "Suspicious"]
ProposeCleanup(q, scope, target) ==
    LET id == <<"prop", SnapshotVersion, now>> IN
    /\ At(q, "wait")
    /\ proposals' = [x \in DOMAIN proposals \cup {id} |->
            IF x = id THEN CleanupProposal(published, scope, target) ELSE proposals[x]]
    /\ Go(q, Answered)
    /\ UNCHANGED <<barmanVars, published, run, starter, up, shown, told>>
\* 409 unless the proposal is of the version the browser names and that
\* version is the collector's
ConfirmCleanup(q, id, version) ==
    /\ At(q, "wait") /\ id \in DOMAIN proposals /\ proposals[id].kind = "cleanup"
    /\ IF proposals[id].version = version /\ version = SnapshotVersion
       THEN Go(q, [pc |-> "confirmed", selected |-> proposals[id].selected, of |-> published])
       ELSE Go(q, Answered)
    /\ UNCHANGED <<barmanVars, published, webOnly>>

-----------------------------------------------------------------------------
(* Processes and containers, by the pid or engine id of the published       *)
(* snapshot.                                                                *)

KillRequest(q, p, signal) ==
    /\ At(q, "wait") /\ p \in LiveIn(published)
    /\ Go(q, [pc |-> "kill", id |-> [pid |-> p, start |-> StartOf(published, p)],
              signal |-> signal, was |-> published.started[p]])
    /\ UNCHANGED <<barmanVars, published, webOnly>>
KillRefresh(q) ==
    /\ At(q, "kill")
    /\ Go(q, IF IdentityHolds(request[q].id)
             THEN [pc |-> "signal", id |-> request[q].id, signal |-> request[q].signal,
                   was |-> request[q].was, saw |-> started[request[q].id.pid]]
             ELSE Answered)
    /\ UNCHANGED <<barmanVars, published, webOnly>>
KillSignal(q) ==
    LET p == request[q].id.pid
        arrives == started[p] # 0 /\ p \notin Foreign
    IN
    /\ At(q, "signal")
    /\ Go(q, [pc |-> "killed", pid |-> p, was |-> request[q].was, saw |-> request[q].saw,
              got |-> IF arrives THEN started[p] ELSE 0])
    /\ started' = IF arrives /\ request[q].signal = "Kill"
                  THEN [started EXCEPT ![p] = 0] ELSE started
    /\ UNCHANGED <<now, verdict, engine, plans, client, events, published, webOnly>>

\* resource_by_id, then the engine; a volume cannot be stopped
DockerRequest(q, d, action) ==
    /\ At(q, "wait") /\ d \in Listed(published)
    /\ engine' = (CASE action = "remove" -> EngineRemove(d).after
                    [] action = "stop" /\ DKind[d] = "Container" -> EngineStop(d).after
                    [] OTHER -> engine)
    /\ Go(q, Answered)
    /\ UNCHANGED <<now, started, verdict, plans, client, events, published, webOnly>>
PruneRequest(q) ==
    LET ids == {d \in Listed(published) : Prunable(published, TRUE, d)} IN
    /\ At(q, "wait")
    /\ engine' = [d \in DockerIds |->
            IF d \in ids /\ EngineRemove(d).ok THEN "gone" ELSE engine[d]]
    /\ Go(q, Answered)
    /\ UNCHANGED <<now, started, verdict, plans, client, events, published, webOnly>>

\* a request without the token of the page, or for what is not there
Refused(q) ==
    /\ At(q, "wait") /\ Go(q, Answered)
    /\ UNCHANGED <<barmanVars, published, webOnly>>

-----------------------------------------------------------------------------
(* The run tools of wyd mcp.  start_run and cancel_run start a supervisor   *)
(* when none answers, and so does get_capacity, without the gate; it moves  *)
(* no run and is left out.  The other tools read the store without one.     *)

Gate(m) == m \in AllowRun
McpStart(m, i) ==
    /\ Happens /\ Gate(m) /\ run[i] = "absent"
    /\ up' = TRUE
    /\ run' = [run EXCEPT ![i] = "queued"]
    /\ starter' = [starter EXCEPT ![i] = m]
    /\ UNCHANGED <<now, started, verdict, engine, plans, client, published,
                   proposals, shown, request, told>>
McpCancel(m, i) ==
    /\ Happens /\ Gate(m) /\ run[i] # "absent"
    /\ up' = TRUE
    /\ Ask([mcp |-> m], i)
    /\ UNCHANGED <<now, started, verdict, engine, plans, client, published,
                   starter, proposals, shown, request>>

-----------------------------------------------------------------------------

\* in a scene: the runs there are, and the connections that will ask
SetWeb(h) ==
    /\ published = Snap
    /\ run = h.run /\ starter = [i \in Runs |-> "cli"]
    /\ up = TRUE
    /\ proposals = <<>> /\ shown = {} /\ told = {}
    /\ request = [q \in Requests |-> IF q \in h.asks THEN [pc |-> "wait"] ELSE Answered]

RunRequest(q) ==
    \/ \E i \in Runs :
        \/ ProposeCancel(q, i)
        \/ \E id \in DOMAIN proposals \cup {s[1] : s \in shown} : ConfirmCancel(q, id, i)
    \/ InsertCancel(q) \/ Recheck(q) \/ RemoveProposal(q) \/ SendCancel(q)
CleanupRequest(q) ==
    \/ \E scope \in {"leftovers", "agent", "session"}, target \in {Kind[p] : p \in Pids} :
        ProposeCleanup(q, scope, target)
    \/ \E id \in DOMAIN proposals, v \in {SnapshotVersion, SnapshotVersion + 1} :
        ConfirmCleanup(q, id, v)
HostRequest(q) ==
    \/ \E p \in Pids, signal \in {"Term", "Kill"} : KillRequest(q, p, signal)
    \/ KillRefresh(q) \/ KillSignal(q)
    \/ \E d \in DockerIds, action \in {"stop", "remove"} : DockerRequest(q, d, action)
    \/ PruneRequest(q)
RunsMove ==
    \/ \E i \in Runs : RunMoves(i)
    \/ SupervisorStops \/ SupervisorStarts
    \/ \E m \in Mcps, i \in Runs : McpStart(m, i) \/ McpCancel(m, i)
WebNext ==
    \/ Publish \/ RunsMove
    \/ \E q \in Requests : RunRequest(q) \/ CleanupRequest(q) \/ HostRequest(q) \/ Refused(q)
\* once every connection is answered nothing of the server is looked at
Serving == \E q \in Requests : ~At(q, "answered")
ControlNext ==
    \/ Serving /\ WebNext
    \/ BarmanNext /\ UNCHANGED webVars
ControlSpec == (\E h \in Scenes : Set(h) /\ SetWeb(h)) /\ [][ControlNext]_controlVars

-----------------------------------------------------------------------------
(* Properties.                                                              *)

\* A cancel reaches the supervisor from the web only for a run that a browser
\* was shown a proposal for under the very id it confirmed, and that had not
\* finished when the confirm arrived (run_cancel_response).
CancelWasShown ==
    \A t \in told : "id" \in DOMAIN t.by =>
        <<t.by.id, t.run>> \in shown /\ ~t.by.late

\* A run is started, and one is cancelled, over MCP only when the user
\* launched that connection with --allow-run (mcp.rs run_tool).
RunToolsGated ==
    /\ \A i \in Runs : starter[i] \in Mcps => starter[i] \in AllowRun
    /\ \A t \in told : "mcp" \in DOMAIN t.by => t.by.mcp \in AllowRun

\* The process a kill request hits is the one the published snapshot had under that pid,
\* however old the snapshot; only a pid that changed hands between the re-check and the
\* signal, or to or from a process of unknown start time, is missed (kill_response, send).
KillsPublished ==
    \A q \in Requests : At(q, "killed") /\ request[q].got # 0 =>
        \/ PassesFor(request[q].pid, request[q].got, request[q].was)
        \/ request[q].got # request[q].saw

\* A signal reaches what the user saw: a process of a chain that was asked for, none that
\* is known to have started since the plan, and for a kill request the one that was
\* published.  Where a start time is unknown the pid is taken at its word.
ActsOnIdentity == BarmanTypeOK /\ AskedOnly /\ NothingNewer /\ KillsPublished

\* What is reported as done was done to the whole item or group, no plan removes a volume
\* and no prune one with a name of its own (signal_report, docker_artifact_resource,
\* DockerResource::prunable).
ActionsHonest == ReportHonest /\ VolumesKept

\* Once an execute goes on with a plan nobody can read it any more, and it goes on only
\* while the plan is fresh (take_plan).
PlansOnce == []PlanConsumed /\ PlanSpent /\ PlanFresh

\* A run is started or cancelled for the web by a shown proposal and for MCP by a
\* connection with --allow-run (confirm, mcp.rs run_tool).
RunsAreGated == CancelWasShown /\ RunToolsGated
=============================================================================
