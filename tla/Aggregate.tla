----------------------------- MODULE Aggregate ------------------------------
(***************************************************************************)
(* The cgroup all runs share and its caps (runner/mod.rs: RunCgroup,       *)
(* prepare_parent_cgroup, set_limits; server.rs: set_limits): swept and    *)
(* made anew by every supervisor, and kept at the limits clients set.      *)
(*                                                                         *)
(* A set_limits request reads all limits, replaces what it names, gives    *)
(* them to the scheduler and then writes the caps to the kernel; requests  *)
(* are served by threads of their own.  The supervisor may be killed at    *)
(* any time; processes of its runs may live on.  The caps of cpu and pids  *)
(* are alike: one stands for both.  The root it is made in (CgroupRoot) is *)
(* looked for before, and does not change.                                 *)
(***************************************************************************)
EXTENDS CgroupRoot, FiniteSets

CONSTANTS
  Job,         \* runs
  Setter,      \* clients that set limits
  Value,       \* amounts
  Unset,       \* None, and the kernel's "max"
  Swap,        \* the kernel has memory.swap.max
  MaxServes    \* bounds the supervisors

ASSUME AggAssumption == MaxServes \in Nat /\ Value # {}

VARIABLES
  serving,    \* a supervisor is there
  parent,     \* the aggregate cgroup: its caps, or NoGroup
  held,       \* RunCgroup.inner of the supervisor is set
  place,      \* of a run's directory: "none", "parent" or "root"
  peopled,    \* runs that have live processes
  limits,     \* Scheduler.limits: what the kernel is told of them
  ask,        \* a request under way
  survivors,  \* a former supervisor's processes were alive when this one came
  blurred,    \* a cap was cleared, or two requests were served at once
  serves

aggVars == <<serving, parent, held, place, peopled, limits, ask, survivors, blurred, serves>>

Caps == [memory : Value, cpu : Value \cup {Unset}]
NoGroup == [memory |-> Unset, cpu |-> Unset]
NoAsk == [at |-> "none", limits |-> NoGroup]

AggTypeOK ==
  /\ serving \in BOOLEAN /\ held \in BOOLEAN
  /\ parent \in [memory : Value \cup {Unset}, cpu : Value \cup {Unset},
                 there : BOOLEAN]
  /\ place \in [Job -> {"none", "parent", "root"}] /\ peopled \subseteq Job
  /\ \A j \in peopled : place[j] # "none"
  /\ (\E j \in Job : place[j] = "parent") => parent.there
  /\ limits \in Caps /\ serves \in 0 .. MaxServes

NoParent == [there |-> FALSE, memory |-> Unset, cpu |-> Unset]
NewParent == [NoParent EXCEPT !.there = TRUE]

\* Cgroup::apply: in this order up to the first error; None is not written
Apply(group, caps) ==
  LET with == [group EXCEPT !.memory = caps.memory] IN
  IF ~Swap THEN with
  ELSE [with EXCEPT !.cpu = IF caps.cpu = Unset THEN @ ELSE caps.cpu]

-----------------------------------------------------------------------------
\* Mutant of Swept: directories of runs are left where they are.
SweptNothing == {}
\* directories under the parent that rmdir removes
Swept == {j \in Job : place[j] = "parent" /\ j \notin peopled}

\* prepare_parent_cgroup, before recover
Serve ==
  /\ ~serving /\ serves < MaxServes
  /\ serving' = TRUE /\ serves' = serves + 1
  /\ place' = [j \in Job |-> IF j \in Swept THEN "none" ELSE place[j]]
  /\ survivors' = (\E j \in peopled : place[j] = "parent")
  /\ limits' \in Caps /\ blurred' = FALSE
  /\ LET stale == \E j \in Job : place'[j] = "parent"
     IN IF parent.there /\ stale
        THEN held' = FALSE /\ UNCHANGED parent
        ELSE held' = TRUE /\ parent' = Apply(NewParent, limits')
  /\ UNCHANGED <<peopled, ask>>

\* recover kills what it finds; the directory stays
RecoverKills ==
  /\ serving
  /\ \E j \in peopled : peopled' = peopled \ {j}
  /\ UNCHANGED <<serving, parent, held, place, limits, ask, survivors, blurred, serves>>

\* RunCgroup::child: without the parent, directly under the root
StartJob ==
  /\ serving
  /\ \E j \in Job :
       /\ place[j] = "none"
       /\ place' = [place EXCEPT ![j] = IF held THEN "parent" ELSE "root"]
       /\ peopled' = peopled \cup {j}
  /\ UNCHANGED <<serving, parent, held, limits, ask, survivors, blurred, serves>>

JobExits ==
  /\ ~serving
  /\ \E j \in peopled : peopled' = peopled \ {j}
  /\ UNCHANGED <<serving, parent, held, place, limits, ask, survivors, blurred, serves>>

\* RunCgroup::remove
RemoveJobDir ==
  /\ serving
  /\ \E j \in Job \ peopled :
       place[j] # "none" /\ place' = [place EXCEPT ![j] = "none"]
  /\ UNCHANGED <<serving, parent, held, peopled, limits, ask, survivors, blurred, serves>>

Killed ==
  /\ serving /\ serving' = FALSE /\ held' = FALSE
  /\ ask' = [c \in Setter |-> NoAsk]
  /\ UNCHANGED <<parent, place, peopled, limits, survivors, blurred, serves>>

-----------------------------------------------------------------------------
(* server::set_limits and Supervisor::set_limits.                          *)

\* the limits as they are, and what the client names; null clears a cap
Merge(c) ==
  /\ serving /\ ask[c].at = "none"
  /\ \E what \in {"memory", "cpu"}, v \in Value \cup {Unset} :
       /\ v = Unset => what # "memory"
       /\ ask' = [ask EXCEPT ![c] = [at |-> "merged", limits |-> [limits EXCEPT ![what] = v]]]
       /\ blurred' = (blurred \/ v = Unset \/ \E d \in Setter : ask[d].at # "none")
  /\ UNCHANGED <<serving, parent, held, place, peopled, limits, survivors, serves>>

Replace(c) ==
  /\ ask[c].at = "merged" /\ limits' = ask[c].limits
  /\ ask' = [ask EXCEPT ![c].at = "replaced"]
  /\ UNCHANGED <<serving, parent, held, place, peopled, survivors, blurred, serves>>

\* set_aggregate_caps
TellKernel(c) ==
  /\ ask[c].at = "replaced" /\ ask' = [ask EXCEPT ![c] = NoAsk]
  /\ parent' = IF held THEN Apply(parent, ask[c].limits) ELSE parent
  /\ UNCHANGED <<serving, held, place, peopled, limits, survivors, blurred, serves>>

-----------------------------------------------------------------------------
AggInit ==
  /\ serving = FALSE /\ parent = NoParent /\ held = FALSE
  /\ place = [j \in Job |-> "none"] /\ peopled = {}
  /\ limits = [memory |-> CHOOSE v \in Value : TRUE, cpu |-> Unset]
  /\ ask = [c \in Setter |-> NoAsk] /\ survivors = FALSE /\ blurred = FALSE /\ serves = 0

AggNext ==
  \/ Serve \/ RecoverKills \/ StartJob \/ JobExits \/ RemoveJobDir \/ Killed
  \/ \E c \in Setter : Merge(c) \/ Replace(c) \/ TellKernel(c)

AggSpec == AggInit /\ [][AggNext]_aggVars

-----------------------------------------------------------------------------
Unasked == serving /\ held /\ \A c \in Setter : ask[c].at = "none"
CapsAre(caps) == parent.memory = caps.memory /\ parent.cpu = caps.cpu

\* "The kernel aggregate cap follows the budget" (Supervisor::set_limits): between
\* requests that came one at a time and cleared nothing, the kernel has the limits the
\* scheduler admits by, whatever a former supervisor left behind.
CapsFollowLimits == (Unasked /\ Swap /\ ~blurred) => CapsAre(limits)

\* A supervisor does without the aggregate cap only if processes of a former one's runs
\* were alive when it came: "a stale one from a crashed supervisor is removed and
\* recreated" (prepare_parent_cgroup).
CappedUnlessSurvivors == serving /\ ~held => survivors

\* The caps are in force: a root is used when one serves, the parent's files follow the
\* limits, and only survivors of another supervisor leave it without (prepare_parent).
CapsInForce ==
  /\ RootTypeOK /\ RootDelivers /\ NoneMissed
  /\ AggTypeOK /\ CapsFollowLimits /\ CappedUnlessSurvivors
=============================================================================
