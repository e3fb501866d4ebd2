----------------------------- MODULE MCControl -----------------------------
(***************************************************************************)
(* An agent (1) with a worker nested in it (2) and another worker (3) that *)
(* the user may not signal; two workers of one project and name, started   *)
(* in the same second, share an id.  Of the first agent and of a worker    *)
(* started later no start time is known.  A container that mounts an       *)
(* anonymous volume, a volume the user named and nobody mounts, and a      *)
(* dangling image.                                                         *)
(*                                                                         *)
(* A behaviour is either of this, or of one part of MCStore.               *)
(***************************************************************************)
EXTENDS Web, MCStore, TLC

MCPids == 1 .. 3
MCAbove == <<0, 1, 0>>
MCKind == <<"agent", "worker", "worker">>
MCName == <<"agent", "worker", "worker">>
MCProject == <<"P", "P", "P">>
MCSlug == [j \in {"P"} |-> "p"]

MCUnreadable == {<<1, 1>>, <<3, 2>>}

MCDocker == {"box", "data", "named", "image"}
MCDKind == [d \in MCDocker |->
    CASE d = "box" -> "Container" [] d \in {"data", "named"} -> "Volume"
      [] d = "image" -> "DanglingImage"]
MCMounts == [d \in MCDocker |-> IF d = "box" THEN {"data"} ELSE {}]
MCShort == [d \in MCDocker |-> d]

Quiet == [started |-> [p \in MCPids |-> 0],
          verdict |-> [p \in MCPids |-> IF p = 1 THEN "Active" ELSE "Suspicious"],
          engine |-> [d \in MCDocker |-> "gone"], events |-> 0,
          does |-> [c \in Clients |-> "none"],
          run |-> [i \in Runs |-> "absent"], asks |-> {}]
Processes == [Quiet EXCEPT !.started = [p \in MCPids |-> 1]]
Docker0 == [Quiet EXCEPT !.engine =
                [d \in MCDocker |-> IF d = "box" THEN "running" ELSE "there"]]
Of(scene, n, what) == [scene EXCEPT !.events = n, !.does = what]

MCScenes ==
    {Of(Processes, 1, <<"plan", "execute", "execute">>),
     Of(Processes, 2, <<"plan", "execute", "none">>),
     Of(Processes, 0, <<"plan", "plan", "execute">>),
     Of(Processes, 2, <<"action", "none", "none">>),
     Of(Processes, 0, <<"action", "action", "none">>),
     Of(Docker0, 2, <<"plan", "execute", "none">>),
     Of(Docker0, 2, <<"action", "prune", "none">>),
     [Quiet EXCEPT !.run = [i \in Runs |-> "running"], !.asks = Requests, !.events = 1],
     [Processes EXCEPT !.asks = {CHOOSE q \in Requests : TRUE}, !.events = 2],
     [Docker0 EXCEPT !.asks = {CHOOSE q \in Requests : TRUE}, !.events = 1]}
MCControlInit ==
    \/ /\ part = "control" /\ \E h \in Scenes : Set(h) /\ SetWeb(h)
       /\ TableInit /\ NoSearch /\ AggInit /\ NoOpening
    \/ StoreInit /\ Set(Quiet) /\ SetWeb(Quiet)
MCControlNext ==
    /\ part' = part
    /\ \/ part = "control" /\ ControlNext /\ UNCHANGED storeVars
       \/ StoreNext /\ UNCHANGED controlVars
MCControlSpec == MCControlInit /\ [][MCControlNext]_<<part, controlVars, storeVars>>

\* the runs are interchangeable
Symmetry == Permutations(Runs)
=============================================================================
