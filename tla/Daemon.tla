------------------------------- MODULE Daemon -------------------------------
(***************************************************************************)
(* One supervisor per user: the daemon of src/server.rs, the clients that  *)
(* start it on demand (src/runner/client.rs), and `wyd run` (src/main.rs), *)
(* which starts a run and waits for it.                                    *)
(*                                                                         *)
(* Nothing but the file system and the runs table is shared: the path of   *)
(* the socket, which names the listener bound to it last, the lock file,   *)
(* and the rows.  A daemon that finds rows unfinished when it opens the    *)
(* table takes them for leftovers of a dead one, so that a second daemon   *)
(* does not only compete with the first, it declares its runs lost.        *)
(*                                                                         *)
(* A run is a row here, open or closed; what happens in between is module  *)
(* Supervisor.  A retry of a client lies within REQUEST_ID_WINDOW.         *)
(***************************************************************************)
EXTENDS Naturals, Sequences, FiniteSets

CONSTANTS
  Server,         \* processes that run `wyd serve`
  Client,         \* invocations of `wyd run`, each with a request id of its own
  NoServer,
  MaxClients,     \* MAX_CLIENTS: connections a daemon serves at once
  Untimely,       \* may a process be slower than others wait for: opening the
                  \* table than a handshake, exiting than the next daemon's start?
  MaxStops,       \* bound: how many daemons are killed or told to stop
  MaxTries        \* bound: how often a client is invoked with its request id

ASSUME DaemonAssumption ==
  /\ NoServer \notin Server
  /\ Untimely \in BOOLEAN
  /\ {MaxClients, MaxStops} \subseteq Nat
  /\ MaxTries \in Nat \ {0}

VARIABLES
  path,           \* whose listener the path of the socket names
  flock,          \* the client that holds wyd.lock
  server,         \* where every daemon is
  auto,           \* daemons started with --auto
  quiet,          \* daemons whose last request ended IDLE_EXIT ago
  conns,          \* the requests every daemon is serving
  client,         \* where every client is
  tries,          \* how often it was invoked
  child,          \* the daemon it has spawned
  rows,           \* the runs table
  stops           \* daemons stopped by somebody

vars == <<path, flock, server, auto, quiet, conns, client, tries, child, rows, stops>>

ServerState == {"unused", "probing", "clearing", "binding", "opening",
                "serving", "idle", "draining", "leaving", "gone"}

(* Where a client is: ensure_supervisor, then start_run, then get_run.     *)
ClientState == {"handshake", "locking", "rechecking", "unlinking", "spawning",
                "awaiting", "starting", "requesting", "waiting", "polling",
                "done", "failed"}

Row == [request : Client, owner : Server, state : {"open", "finished", "lost"}]

DaemonTypeOK ==
  /\ path \in Server \cup {NoServer}
  /\ flock \subseteq Client
  /\ server \in [Server -> ServerState]
  /\ auto \subseteq Server /\ quiet \subseteq Server
  /\ conns \in [Server -> SUBSET Client]
  /\ client \in [Client -> ClientState]
  /\ tries \in [Client -> 1..MaxTries]
  /\ child \in [Client -> Server \cup {NoServer}]
  /\ rows \in Seq(Row)
  /\ stops \in 0..MaxStops

-----------------------------------------------------------------------------
(* Helpers *)

(* Processes whose listener is bound: connect succeeds, the backlog takes  *)
(* the connection whether or not anybody accepts it.                       *)
Listening == {d \in Server :
                server[d] \in {"opening", "serving", "idle", "draining", "leaving"}}

Accepting == Listening \ {d \in Server : server[d] = "opening"}

Connects == path \in Listening

(* A daemon that serves MaxClients requests answers with an error.         *)
HasRoom == Cardinality(conns[path]) < MaxClients

Alive == Server \ {d \in Server : server[d] \in {"unused", "gone"}}

Starting == {d \in Server :
               server[d] \in {"probing", "clearing", "binding", "opening"}}

OpenRows(d) == {i \in DOMAIN rows : rows[i].owner = d /\ rows[i].state = "open"}

RowsOf(c) == {i \in DOMAIN rows : rows[i].request = c}

GoServer(d, pc) == server' = [server EXCEPT ![d] = pc]
GoClient(c, pc) == client' = [client EXCEPT ![c] = pc]

serverVars == <<server, auto, quiet, stops>>
clientVars == <<client, tries, child>>

-----------------------------------------------------------------------------
(* The daemon: serve *)

(* serve_alive connects and hangs up: a daemon still opening the table, or *)
(* one with no room, counts as running.                                    *)
Probe(d) ==
  /\ server[d] = "probing"
  /\ GoServer(d, IF Connects THEN "gone" ELSE "clearing")
  /\ UNCHANGED <<path, flock, auto, quiet, conns, clientVars, rows, stops>>

ClearPath(d) ==
  /\ server[d] = "clearing"
  /\ path' = NoServer
  /\ GoServer(d, "binding")
  /\ UNCHANGED <<flock, auto, quiet, conns, clientVars, rows, stops>>

(* A path that exists cannot be bound: serve returns the error.            *)
Bind(d) ==
  /\ server[d] = "binding"
  /\ IF path = NoServer
     THEN path' = d /\ GoServer(d, "opening")
     ELSE path' = path /\ GoServer(d, "gone")
  /\ UNCHANGED <<flock, auto, quiet, conns, clientVars, rows, stops>>

(* Supervisor::open recovers every row that is not finished before the     *)
(* first request is accepted.                                              *)
OpenSupervisor(d) ==
  /\ server[d] = "opening"
  /\ Untimely \/ \A e \in Server : server[e] # "leaving"
  /\ rows' = [i \in DOMAIN rows |->
                IF rows[i].state = "open" THEN [rows[i] EXCEPT !.state = "lost"]
                                          ELSE rows[i]]
  /\ GoServer(d, "serving")
  /\ UNCHANGED <<path, flock, auto, quiet, conns, clientVars, stops>>

(* A worker ends its run.  run_finish leaves a row alone that another      *)
(* daemon has closed.                                                      *)
FinishRun(d) ==
  /\ d \in Accepting
  /\ \E i \in OpenRows(d) : rows' = [rows EXCEPT ![i].state = "finished"]
  /\ UNCHANGED <<path, flock, serverVars, conns, clientVars>>

(* The idle thread, with --auto only: no active run, and the last request  *)
(* ended long ago.  The two are read one after the other, and requests     *)
(* being served are not looked at.                                         *)
GrowQuiet(d) ==
  /\ d \in auto \ quiet
  /\ server[d] = "serving"
  /\ quiet' = quiet \cup {d}
  /\ UNCHANGED <<path, flock, server, auto, conns, clientVars, rows, stops>>

IdleCheck(d) ==
  /\ d \in auto
  /\ server[d] = "serving"
  /\ OpenRows(d) = {}
  /\ GoServer(d, "idle")
  /\ UNCHANGED <<path, flock, auto, quiet, conns, clientVars, rows, stops>>

IdleExit(d) ==
  /\ server[d] = "idle"
  /\ GoServer(d, IF d \in quiet THEN "gone" ELSE "serving")
  /\ conns' = [conns EXCEPT ![d] = IF d \in quiet THEN {} ELSE conns[d]]
  /\ UNCHANGED <<path, flock, auto, quiet, clientVars, rows, stops>>

(* SIGTERM or SIGINT: the shutdown thread cancels every active run, waits  *)
(* for them no longer than SHUTDOWN_GRACE, removes the path, and exits.    *)
(* Requests are accepted until the end.                                    *)
Terminate(d) ==
  /\ stops < MaxStops
  /\ server[d] \in {"serving", "idle"}
  /\ stops' = stops + 1
  /\ GoServer(d, "draining")
  /\ UNCHANGED <<path, flock, auto, quiet, conns, clientVars, rows>>

RemovePath(d) ==
  /\ server[d] = "draining"
  /\ path' = NoServer
  /\ GoServer(d, "leaving")
  /\ UNCHANGED <<flock, auto, quiet, conns, clientVars, rows, stops>>

(* Mutant: the path is removed on the way out, not before.                 *)
LeaveUnlinks(d) ==
  /\ server[d] = "leaving"
  /\ GoServer(d, "gone")
  /\ path' = NoServer
  /\ conns' = [conns EXCEPT ![d] = {}]
  /\ UNCHANGED <<flock, auto, quiet, clientVars, rows, stops>>

Leave(d) ==
  /\ server[d] = "leaving"
  /\ GoServer(d, "gone")
  /\ conns' = [conns EXCEPT ![d] = {}]
  /\ UNCHANGED <<path, flock, auto, quiet, clientVars, rows, stops>>

(* Killed, at any step; the path stays.                                    *)
Kill(d) ==
  /\ stops < MaxStops
  /\ d \in Alive
  /\ stops' = stops + 1
  /\ GoServer(d, "gone")
  /\ conns' = [conns EXCEPT ![d] = {}]
  /\ UNCHANGED <<path, flock, auto, quiet, clientVars, rows>>

-----------------------------------------------------------------------------
(* The client: ensure_supervisor *)

(* A handshake is answered, fails, or, with a daemon that is opening the   *)
(* table, waits for the two seconds of its read timeout.                   *)
HandshakeAnswered == path \in Accepting /\ HasRoom

HandshakeFails ==
  \/ ~Connects
  \/ path \in Accepting /\ ~HasRoom
  \/ Untimely /\ path \in Listening \ Accepting

Handshake(c) ==
  /\ client[c] \in {"handshake", "rechecking"}
  /\ \/ /\ HandshakeAnswered
        /\ GoClient(c, "starting")
        /\ flock' = flock \ {c}
     \/ /\ HandshakeFails
        /\ GoClient(c, IF client[c] = "handshake" THEN "locking" ELSE "unlinking")
        /\ UNCHANGED flock
  /\ UNCHANGED <<path, serverVars, conns, tries, child, rows>>

(* Mutants: a shared lock; no second handshake under the lock.             *)
LockShared(c) ==
  /\ client[c] = "locking"
  /\ flock' = flock \cup {c}
  /\ GoClient(c, "rechecking")
  /\ UNCHANGED <<path, serverVars, conns, tries, child, rows>>

LockNoRecheck(c) ==
  /\ client[c] = "locking"
  /\ flock = {}
  /\ flock' = {c}
  /\ GoClient(c, "unlinking")
  /\ UNCHANGED <<path, serverVars, conns, tries, child, rows>>

Lock(c) ==
  /\ client[c] = "locking"
  /\ flock = {}
  /\ flock' = {c}
  /\ GoClient(c, "rechecking")
  /\ UNCHANGED <<path, serverVars, conns, tries, child, rows>>

Unlink(c) ==
  /\ client[c] = "unlinking"
  /\ path' = NoServer
  /\ GoClient(c, "spawning")
  /\ UNCHANGED <<flock, serverVars, conns, tries, child, rows>>

(* The command line is "serve": --auto is not passed on.                   *)
Spawn(c) ==
  /\ client[c] = "spawning"
  /\ \E d \in Server :
       /\ server[d] = "unused"
       /\ GoServer(d, "probing")
       /\ child' = [child EXCEPT ![c] = d]
  /\ GoClient(c, "awaiting")
  /\ UNCHANGED <<path, flock, auto, quiet, stops, conns, tries, rows>>

(* No process can be started (in the model: all of Server are used up).    *)
SpawnFails(c) ==
  /\ client[c] = "spawning"
  /\ \A d \in Server : server[d] # "unused"
  /\ flock' = flock \ {c}
  /\ GoClient(c, "failed")
  /\ UNCHANGED <<path, serverVars, conns, tries, child, rows>>

(* Mutants: one handshake is all the time the child gets; an early return  *)
(* that leaks the lock.                                                    *)
AwaitOnce(c) ==
  /\ client[c] = "awaiting"
  /\ GoClient(c, IF HandshakeAnswered THEN "starting" ELSE "failed")
  /\ flock' = flock \ {c}
  /\ UNCHANGED <<path, serverVars, conns, tries, child, rows>>

AwaitKeepsLock(c) ==
  /\ client[c] = "awaiting"
  /\ \/ HandshakeAnswered /\ GoClient(c, "starting")
     \/ /\ ~HandshakeAnswered
        /\ Untimely \/ Starting = {}
        /\ GoClient(c, "failed")
  /\ UNCHANGED <<path, flock, serverVars, conns, tries, child, rows>>

(* Handshakes until one is answered; READY_TIMEOUT passes first only when  *)
(* no daemon is starting, or they are slow.  Returning unlocks.            *)
Await(c) ==
  /\ client[c] = "awaiting"
  /\ \/ HandshakeAnswered /\ GoClient(c, "starting")
     \/ /\ ~HandshakeAnswered
        /\ Untimely \/ Starting = {}
        /\ GoClient(c, "failed")
  /\ flock' = flock \ {c}
  /\ UNCHANGED <<path, serverVars, conns, tries, child, rows>>

-----------------------------------------------------------------------------
(* The client: start_run, then get_run until the run is finished *)

(* A request that does not reach a daemon with room is an error, and the   *)
(* command fails.  A handler thread that ends sets last_seen.              *)
Refused(c) ==
  /\ client[c] \in {"starting", "waiting"}
  /\ ~Connects \/ (path \in Accepting /\ ~HasRoom)
  /\ GoClient(c, "failed")
  /\ UNCHANGED <<path, flock, serverVars, conns, tries, child, rows>>

Connect(c) ==
  /\ client[c] \in {"starting", "waiting"}
  /\ path \in Accepting /\ HasRoom
  /\ conns' = [conns EXCEPT ![path] = @ \cup {c}]
  /\ GoClient(c, IF client[c] = "starting" THEN "requesting" ELSE "polling")
  /\ UNCHANGED <<path, flock, serverVars, tries, child, rows>>

(* Mutants: insert without looking for the request id; the row names the   *)
(* daemon the path leads to.                                               *)
StartRunAnew(c) ==
  \E d \in Accepting :
    /\ client[c] = "requesting" /\ c \in conns[d]
    /\ rows' = Append(rows, [request |-> c, owner |-> d, state |-> "open"])
    /\ conns' = [conns EXCEPT ![d] = @ \ {c}]
    /\ quiet' = quiet \ {d}
    /\ GoClient(c, "waiting")
    /\ UNCHANGED <<path, flock, server, auto, stops, tries, child>>

StartRunByPath(c) ==
  \E d \in Accepting :
    /\ client[c] = "requesting" /\ c \in conns[d]
    /\ rows' = IF RowsOf(c) # {} THEN rows
               ELSE Append(rows, [request |-> c, owner |-> path, state |-> "open"])
    /\ conns' = [conns EXCEPT ![d] = @ \ {c}]
    /\ quiet' = quiet \ {d}
    /\ GoClient(c, "waiting")
    /\ UNCHANGED <<path, flock, server, auto, stops, tries, child>>

(* run_insert looks for the request id and inserts in one transaction.     *)
StartRun(c) ==
  \E d \in Accepting :
    /\ client[c] = "requesting" /\ c \in conns[d]
    /\ rows' = IF RowsOf(c) # {} THEN rows
               ELSE Append(rows, [request |-> c, owner |-> d, state |-> "open"])
    /\ conns' = [conns EXCEPT ![d] = @ \ {c}]
    /\ quiet' = quiet \ {d}
    /\ GoClient(c, "waiting")
    /\ UNCHANGED <<path, flock, server, auto, stops, tries, child>>

(* The answer of a long poll: the run has finished, or MAX_WAIT_MS passed. *)
PollAnswered(c) ==
  \E d \in Accepting :
    /\ client[c] = "polling" /\ c \in conns[d]
    /\ conns' = [conns EXCEPT ![d] = @ \ {c}]
    /\ quiet' = quiet \ {d}
    /\ GoClient(c, IF \E i \in RowsOf(c) : rows[i].state # "open"
                   THEN "done" ELSE "waiting")
    /\ UNCHANGED <<path, flock, server, auto, stops, tries, child, rows>>

(* The daemon went away in the middle of a request.                        *)
HungUp(c) ==
  /\ client[c] \in {"requesting", "polling"}
  /\ \A d \in Server : c \notin conns[d]
  /\ GoClient(c, "failed")
  /\ UNCHANGED <<path, flock, serverVars, conns, tries, child, rows>>

(* The caller repeats the command with the same --request-id.              *)
Retry(c) ==
  /\ client[c] = "failed"
  /\ tries[c] < MaxTries
  /\ tries' = [tries EXCEPT ![c] = @ + 1]
  /\ GoClient(c, "handshake")
  /\ UNCHANGED <<path, flock, serverVars, conns, child, rows>>

-----------------------------------------------------------------------------
(* Specification *)

(* Either nothing runs, or an idle daemon started with --auto.             *)
DaemonInit ==
  /\ \/ auto = {} /\ path = NoServer
     \/ \E d \in Server : auto = {d} /\ path = d
  /\ server = [d \in Server |-> IF d \in auto THEN "serving" ELSE "unused"]
  /\ flock = {} /\ quiet = {}
  /\ conns = [d \in Server |-> {}]
  /\ client = [c \in Client |-> "handshake"]
  /\ tries = [c \in Client |-> 1]
  /\ child = [c \in Client |-> NoServer]
  /\ rows = <<>>
  /\ stops = 0

Disturb == \E d \in Server :
  Terminate(d) \/ Kill(d) \/ GrowQuiet(d)

ServerStep(d) ==
  \/ Probe(d) \/ ClearPath(d) \/ Bind(d) \/ OpenSupervisor(d) \/ FinishRun(d)
  \/ IdleCheck(d) \/ IdleExit(d) \/ RemovePath(d) \/ Leave(d)

ClientStep(c) ==
  \/ Handshake(c) \/ Lock(c) \/ Unlink(c) \/ Spawn(c) \/ SpawnFails(c)
  \/ Await(c) \/ Refused(c) \/ Connect(c) \/ StartRun(c) \/ PollAnswered(c) \/ HungUp(c)

DaemonNext ==
  \/ Disturb
  \/ \E d \in Server : ServerStep(d)
  \/ \E c \in Client : ClientStep(c) \/ Retry(c)

DaemonSpec == DaemonInit /\ [][DaemonNext]_vars

(* The threads of a daemon and of a client run, a run ends (it has a       *)
(* timeout), and time passes.                                              *)
DaemonFairness ==
  /\ \A d \in Server : /\ WF_vars(ServerStep(d)) /\ WF_vars(FinishRun(d))
                        /\ WF_vars(GrowQuiet(d)) /\ SF_vars(d \in quiet /\ IdleExit(d))
  /\ \A c \in Client : WF_vars(ClientStep(c))


-----------------------------------------------------------------------------
(* Properties *)

(* At most one daemon owns the runs table, from the moment it opens it     *)
(* (server.rs:103, client.rs:5).                                           *)
OneSupervisor ==
  \A d, e \in {x \in Server : server[x] \in {"opening", "serving", "idle", "draining"}} :
    d = e

(* A daemon that serves is the one the path leads to: nobody has removed   *)
(* or replaced it.                                                         *)
ServingIsReachable ==
  \A d \in Server : server[d] \in {"serving", "idle", "draining"} => path = d

(* Both, of a daemon whose state is what it is meant to be: one process    *)
(* supervises the store, and a client that asks the socket finds it.       *)
SoleAndReachable == DaemonTypeOK /\ OneSupervisor /\ ServingIsReachable

(* A run is declared lost only when the daemon that owned it is gone       *)
(* (mod.rs:1202).                                                          *)
LostMeansOwnerGone ==
  [][\A i \in DOMAIN rows :
       rows[i].state = "open" /\ rows'[i].state = "lost"
         => server[rows[i].owner] = "gone"]_vars

(* However often a client is started again and whatever happens to the     *)
(* daemons, its request id has one run, and an answer means it has ended.  *)
OneRunPerRequest ==
  \A c \in Client :
    /\ Cardinality(RowsOf(c)) <= 1
    /\ client[c] = "done" => \E i \in RowsOf(c) : rows[i].state # "open"

(* A client fails only when a daemon was stopped or went idle under it:    *)
(* starting together is no reason.                                         *)
FailsOnlyOnStop ==
  (\E c \in Client : client[c] = "failed") =>
    stops > 0 \/ \E d \in auto : server[d] = "gone"

(* Nobody waits for ever, for the lock, for a daemon, or for a run.        *)
ClientReturns == \A c \in Client : <>[](client[c] \in {"done", "failed"})
=============================================================================
