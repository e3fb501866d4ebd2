----------------------------- MODULE MCService ------------------------------
(***************************************************************************)
(* Four parts that meet no state of each other's, in one run: the queue    *)
(* under limits that stay (Scheduler), the daemon a client finds or starts *)
(* (Daemon), and in the terminal the feed of the run list (RunFeed) and    *)
(* the keys (Terminal).  A behaviour is one of them, chosen in its first   *)
(* state; the others stand still where none of their actions can happen,   *)
(* so that their fairness asks for nothing.                                *)
(***************************************************************************)
EXTENDS Scheduler, Daemon, RunFeed, Terminal

VARIABLE part

serviceVars == <<part, schedVars, vars, feedVars, termVars>>

NoQueue ==
  /\ sched = [limits |-> CHOOSE l \in LimitChoices : TRUE,
              running |-> {}, queue |-> << >>, held |-> {}]
  /\ mono = MaxTime /\ now = MaxTime

\* every daemon has gone, every client has given up
NoDaemons ==
  /\ path = NoServer /\ flock = {} /\ auto = {} /\ quiet = {} /\ rows = <<>>
  /\ stops = MaxStops
  /\ server = [d \in Server |-> "gone"] /\ conns = [d \in Server |-> {}]
  /\ client = [c \in Client |-> "failed"] /\ tries = [c \in Client |-> MaxTries]
  /\ child = [c \in Client |-> NoServer]

\* both of its threads have ended, and nothing changes
NoFeed ==
  /\ stored = [r \in Shown |-> 0] /\ changes = MaxChanges /\ presses = MaxPresses
  /\ feed = [unread |-> FALSE, list |-> [r \in Shown |-> 0], detail |-> NoDetail,
             focus |-> NoId, dirty |-> FALSE, stop |-> TRUE]
  /\ loader = [at |-> "ended", focus |-> NoId, list |-> [r \in Shown |-> 0], detail |-> NoDetail,
             error |-> FALSE]
  /\ screen = [list |-> [r \in Shown |-> 0], detail |-> NoDetail, opened |-> NoId, clearing |-> FALSE]
  /\ ui = "gone"

\* it was quit, and nothing is scanned
NoTerminal ==
  /\ snapshot = (CHOOSE s \in Scanned : TRUE) /\ scans = MaxScans /\ keys = MaxKeys
  /\ turn = "event" /\ done = Nothing /\ app = Quit(NewApp) /\ drawn = {}

MCOneLimits ==
  {[max_parallel |-> 2, max_parallel_per_project |-> 1, max_queued |-> 2,
    memory_budget |-> 3, starvation_after |-> 1]}

\* the second is nested in the first
MCEnclosing == <<0, 1, 0>>
\* everything; what encloses is gone, and a container; what is enclosed is
MCScanned == {{1, 2, 3, 11, 12, 13}, {2, 3, 12, 13}, {1, 3, 11, 12}}

ServiceInit ==
  \/ part = "queue" /\ Init /\ NoDaemons /\ NoFeed /\ NoTerminal
  \/ part = "daemon" /\ DaemonInit /\ NoQueue /\ NoFeed /\ NoTerminal
  \/ part = "feed" /\ FeedInit /\ NoQueue /\ NoDaemons /\ NoTerminal
  \/ part = "terminal" /\ TermInit /\ NoQueue /\ NoDaemons /\ NoFeed

ServiceNext ==
  /\ part' = part
  /\ \/ part = "queue" /\ Next /\ UNCHANGED <<vars, feedVars, termVars>>
     \/ part = "daemon" /\ DaemonNext /\ UNCHANGED <<schedVars, feedVars, termVars>>
     \/ part = "feed" /\ FeedNext /\ UNCHANGED <<schedVars, vars, termVars>>
     \/ part = "terminal" /\ TermNext /\ UNCHANGED <<schedVars, vars, feedVars>>

ServiceSpec ==
  /\ ServiceInit /\ [][ServiceNext]_serviceVars
  /\ WF_schedVars(Tick) /\ WF_schedVars(Expire) /\ DaemonFairness /\ FeedFairness

\* A client gets an answer, for one run and not two, and is refused only when daemons
\* were stopped under it (client.rs connect_or_start, request).
RequestsServed == [](OneRunPerRequest /\ FailsOnlyOnStop) /\ LostMeansOwnerGone /\ ClientReturns

\* The detail beside the run list is never behind it, no wake-up of the loader is lost, in the
\* end the detail is that of the run in focus, and the loader is gone when the terminal is
\* quit (tui/mod.rs).
FeedDelivers ==
  /\ [](FeedTypeOK /\ DetailNotBehind /\ NoWakeUpLost)
  /\ DetailArrives
  /\ QuitReturns
=============================================================================
