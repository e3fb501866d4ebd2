----------------------------- MODULE RunProofs ------------------------------
(***************************************************************************)
(* What a worker says of its run is true, for any number of processes, and *)
(* so is what is told of its output, for any number of runs; and one       *)
(* process supervises them, for any number of daemons, clients, stops and  *)
(* retries.                                                                *)
(*                                                                         *)
(* The worker: the invariant says where in its program it is when it knows *)
(* what: before the command there is nothing to clean up; while it runs,   *)
(* its cgroup, if there was one, is still there; a reason to stop is found *)
(* in the loop and nowhere else.                                           *)
(*                                                                         *)
(* The output: the invariant follows a byte from the budget through the    *)
(* grant that waits to be written to the file, for all runs together, and  *)
(* for each run what its sink, its slot and its row say of its file.  The  *)
(* sums over runs need their own lemmas, by induction over finite sets.    *)
(*                                                                         *)
(* The daemon: a client that asks the socket finds it, a run is declared   *)
(* lost only after its owner has gone, a request id has one run, and a     *)
(* client is refused only when a daemon was stopped or went idle.  The     *)
(* argument follows the lock.  Whoever is between the second handshake and *)
(* the end of its wait holds wyd.lock alone (LockHeld); a daemon that is   *)
(* not yet serving is the child of the client that waits for it            *)
(* (StartedByHolder), so that there is at most one; and while there is     *)
(* one, or while the path is being cleared for one, nobody supervises      *)
(* (NobodySupervises).  The second handshake is what establishes the last: *)
(* it fails only when nobody listens, because there is room for every      *)
(* client (ConnectionLeft).                                                *)
(*                                                                         *)
(* Two hypotheses carry the theorems that need the lock.  Timely: no       *)
(* process is slower than the timeouts others give it.  RoomForAll: a      *)
(* daemon has a connection left for every client.  Without either the      *)
(* promise is false: the run daemon_two shows a second daemon started      *)
(* because the first answered a handshake with "too many clients".         *)
(***************************************************************************)
EXTENDS Worker, RunLogs, Daemon, Recursion, FiniteSetTheorems, TLAPS

Before == {"checking", "refused", "setup", "spawn"}
InLoop == {"record", "loop", "sample"}
Stops == {"stopping", "ours", "term", "grace", "kill", "again", "sigkill", "wait"}

\* Where the worker has not concluded, nothing is concluded.
NotYet ==
  /\ step \in Before \cup InLoop => result.reason = "none"
  /\ step \in Before \cup InLoop \cup {"ended"} \cup Stops => result.cleanup = "pending"
  /\ step \notin {"remove", "finish", "done"} => result.outcome = "none"

\* Before the command there is no process of the run, and no stranger has its id.
Nobody ==
  /\ step \in Before \/ result.outcome = "spawn_failed" =>
       life = [p \in Process |-> "unborn"] /\ caged = {} /\ grouped = {}
  /\ result.outcome = "spawn_failed" => step \in {"finish", "done"}

\* What is in the cgroup can be seen there until the worker has removed it.
CgroupSeen ==
  step \notin {"finish", "done"} => caged = {} \/ cgroup = "active"

\* A hard request gets to the command with its limit only.
HardHasLimit ==
  asks = "hard" =>
    /\ step = "setup" => delegated
    /\ step = "spawn" => cgroup = "active" /\ limited
    /\ \A p \in Run : life[p] # "unborn" => limited /\ p \in caged

\* Who is in the group or in the cgroup has been forked.
Placed == \A p \in grouped \cup caged : life[p] # "unborn"

\* A run is stopped for its use of memory after a sample over its limit.
ReasonSeen == result.reason = "resource_limit" => asks = "monitored" /\ over

WorkerInv ==
  /\ WorkerTypeOK /\ NotYet /\ Nobody /\ CgroupSeen /\ HardHasLimit /\ Placed
  /\ ReasonSeen
  /\ EndIsHonest

-----------------------------------------------------------------------------
\* A worker that has not begun knows nothing (run_worker's first lines).
LEMMA Initially == WorkerInit => WorkerInv
<1> SUFFICES ASSUME WorkerInit PROVE WorkerInv
  OBVIOUS
<1> USE WorkerAssumption DEF WorkerInit, Process, Run, Before
<1>1. WorkerTypeOK
  BY DEF WorkerTypeOK, Steps, Reasons, Outcomes
<1>2. NotYet /\ Nobody /\ CgroupSeen /\ HardHasLimit /\ Placed /\ ReasonSeen
  BY DEF NotYet, Nobody, CgroupSeen, HardHasLimit, Placed, ReasonSeen, InLoop, Stops
<1>3. EndIsHonest
  BY <1>1 DEF EndIsHonest, CompleteIsGone, OomClaimed
<1> QED BY <1>1, <1>2, <1>3 DEF WorkerInv

\* No step of the worker, of its threads, of the processes or of the kernel
\* breaks the invariant.
LEMMA Stepping ==
  ASSUME WorkerInv, [WorkerNext]_workerVars
  PROVE  WorkerInv'
<1> USE WorkerAssumption
    DEF WorkerInv, WorkerTypeOK, NotYet, Nobody, CgroupSeen, HardHasLimit, Placed,
        ReasonSeen, EndIsHonest, CompleteIsGone, OomClaimed, Before, InLoop, Stops,
        Process, Run, Live, Exists, Members, GroupAlive, Populated, Gone, Die, Go,
        Conclude, Fail, workerVars, runVars, processVars, threadVars, heldVars,
        Steps, Reasons, Outcomes
<1>1. CASE Fork
  BY <1>1 DEF Fork
<1>2. CASE Escape
  BY <1>2 DEF Escape
<1>3. CASE Exit
  BY <1>3 DEF Exit
<1>4. CASE ParentWaits
  BY <1>4 DEF ParentWaits
<1>5. CASE OomKill
  BY <1>5 DEF OomKill
<1>6. CASE PidReused
  BY <1>6 DEF PidReused
<1>7. CASE StrangerExits
  BY <1>7 DEF StrangerExits
<1>8. CASE CancelArrives
  BY <1>8 DEF CancelArrives
<1>9. CASE CheckCapabilities
  BY <1>9 DEF CheckCapabilities
<1>10. CASE SetupFails
  <2> DEFINE failed == [reason |-> result.reason, outcome |-> "spawn_failed",
                        cleanup |-> "complete"]
  <2>b. /\ failed \in [reason : Reasons \cup {"none"}, outcome : Outcomes \cup {"none"},
                       cleanup : {"pending", "complete", "incomplete", "unknown"}]
        /\ failed.reason = result.reason /\ failed.outcome = "spawn_failed"
        /\ failed.cleanup = "complete"
    OBVIOUS
  <2>c. /\ step = "setup" /\ cgroup' \in {"none", "left"}
        /\ UNCHANGED <<asks, delegated, limited, life, grouped, caged, pipe, oom, status,
                       reaper, drain, known, cancelled, over, received>>
    BY <1>10 DEF SetupFails
  <2>d. \/ step' = "finish" /\ result' = failed
        \/ step' = "spawn" /\ result' = result /\ asks # "hard"
    BY <1>10 DEF SetupFails
  <2>e. /\ result.reason = "none" /\ result.cleanup = "pending" /\ result.outcome = "none"
        /\ life = [p \in Process |-> "unborn"] /\ caged = {} /\ grouped = {}
    BY <2>c
  <2> HIDE DEF failed
  <2>2. WorkerTypeOK'
    BY <2>b, <2>c, <2>d
  <2>3. NotYet' /\ Nobody'
    BY <2>b, <2>c, <2>d, <2>e
  <2>4. CgroupSeen' /\ HardHasLimit' /\ Placed' /\ ReasonSeen'
    BY <2>b, <2>c, <2>d, <2>e
  <2>5. CompleteIsGone' /\ OomClaimed'
    BY <2>b, <2>c, <2>d, <2>e
  <2> HIDE DEF WorkerTypeOK, NotYet, Nobody, CgroupSeen, HardHasLimit, Placed, ReasonSeen,
               CompleteIsGone, OomClaimed
  <2> QED BY <2>2, <2>3, <2>4, <2>5
<1>11. CASE SetupCgroup
  BY <1>11 DEF SetupCgroup
<1>12. CASE SpawnFailed
  <2> DEFINE failed == [reason |-> result.reason, outcome |-> "spawn_failed",
                        cleanup |-> "complete"]
  <2>b. /\ failed \in [reason : Reasons \cup {"none"}, outcome : Outcomes \cup {"none"},
                       cleanup : {"pending", "complete", "incomplete", "unknown"}]
        /\ failed.reason = result.reason /\ failed.outcome = "spawn_failed"
        /\ failed.cleanup = "complete"
    OBVIOUS
  <2>c. /\ step = "spawn" /\ step' = "finish" /\ result' = failed
        /\ cgroup' \in {cgroup, "left"}
        /\ UNCHANGED <<asks, delegated, limited, life, grouped, caged, pipe, oom, status,
                       reaper, drain, known, cancelled, over, received>>
    BY <1>12 DEF SpawnFailed
  <2>e. /\ result.reason = "none" /\ result.cleanup = "pending" /\ result.outcome = "none"
        /\ life = [p \in Process |-> "unborn"] /\ caged = {} /\ grouped = {}
    BY <2>c
  <2> HIDE DEF failed
  <2>2. WorkerTypeOK'
    BY <2>b, <2>c
  <2>3. NotYet' /\ Nobody'
    BY <2>b, <2>c, <2>e
  <2>4. CgroupSeen' /\ HardHasLimit' /\ Placed' /\ ReasonSeen'
    BY <2>b, <2>c, <2>e
  <2>5. CompleteIsGone' /\ OomClaimed'
    BY <2>b, <2>c, <2>e
  <2> HIDE DEF WorkerTypeOK, NotYet, Nobody, CgroupSeen, HardHasLimit, Placed, ReasonSeen,
               CompleteIsGone, OomClaimed
  <2> QED BY <2>2, <2>3, <2>4, <2>5
<1>13. CASE SpawnCommand
  BY <1>13 DEF SpawnCommand
<1>14. CASE RecordLeader
  BY <1>14 DEF RecordLeader
<1>15. CASE TryStatus
  BY <1>15 DEF TryStatus
<1>16. CASE SampleUsage
  <2>1. over' \in BOOLEAN /\ (over' => asks = "monitored")
    BY <1>16, Zenon DEF SampleUsage
  <2>2. \/ step' = "stopping" /\ result' = [result EXCEPT !.reason = "resource_limit"] /\ over'
        \/ step' = "stopping" /\ result' = [result EXCEPT !.reason = "cancelled"]
        \/ step' = "loop" /\ result' = result
    BY <1>16, Zenon DEF SampleUsage, HeedCancel, StopFor
  <2>3. /\ step = "sample" /\ known' \subseteq Process
        /\ UNCHANGED <<runVars, processVars, threadVars, cancelled, received>>
    BY <1>16 DEF SampleUsage
  <2> QED BY <2>1, <2>2, <2>3
<1>17. CASE NoSample
  BY <1>17 DEF NoSample, HeedCancel, StopFor
<1>18. CASE TimeOut
  BY <1>18 DEF TimeOut, StopFor
<1>19. CASE LeaderEnded
  BY <1>19 DEF LeaderEnded
<1>20. CASE Stopping
  BY <1>20 DEF Stopping
<1>21. CASE Attribute
  BY <1>21 DEF Attribute, GroupIsOurs
<1>22. CASE SoftStop
  BY <1>22 DEF SoftStop
<1>23. CASE SeenGone("grace") \/ SeenGone("wait")
  BY <1>23 DEF SeenGone
<1>24. CASE GraceOver
  BY <1>24 DEF GraceOver
<1>25. CASE KillCgroup
  BY <1>25 DEF KillCgroup
<1>26. CASE AttributeAgain
  BY <1>26 DEF AttributeAgain, GroupIsOurs
<1>27. CASE HardStop
  BY <1>27 DEF HardStop
<1>28. CASE WaitOver
  BY <1>28 DEF WaitOver
<1>29. CASE AwaitStatus
  <2>1. received' \in BOOLEAN
    BY <1>29, Zenon DEF AwaitStatus
  <2>2. /\ step = "status" /\ step' = "join"
        /\ UNCHANGED <<runVars, processVars, threadVars, known, cancelled, over, result>>
    BY <1>29 DEF AwaitStatus
  <2> QED BY <2>1, <2>2
<1>30. CASE JoinReaper
  BY <1>30 DEF JoinReaper
<1>31. CASE JoinDrains
  BY <1>31 DEF JoinDrains
<1>32. CASE Account
  <2>1. /\ Ended \in Outcomes \cup {"none"}
        /\ Ended = "resource_limit" => result.reason = "resource_limit"
    BY DEF Ended
  <2>2. /\ Outcome \in Outcomes \cup {"none"} /\ Outcome # "spawn_failed"
        /\ Outcome = "resource_limit" => oom \/ result.reason = "resource_limit"
    BY <2>1 DEF Outcome, Ended
  <2> HIDE DEF Outcome
  <2>3. /\ step = "account" /\ step' \in {"remove", "finish"}
        /\ step' = "finish" => cgroup # "active"
        /\ result' = [result EXCEPT !.outcome = Outcome]
        /\ UNCHANGED <<runVars, processVars, threadVars, known, cancelled, over, received>>
    BY <1>32 DEF Account
  <2> DEFINE after == [reason |-> result.reason, outcome |-> Outcome,
                       cleanup |-> result.cleanup]
  <2>4. result' = after
    BY <2>3
  <2>5. /\ after \in [reason : Reasons \cup {"none"}, outcome : Outcomes \cup {"none"},
                      cleanup : {"pending", "complete", "incomplete", "unknown"}]
        /\ after.reason = result.reason /\ after.outcome = Outcome
        /\ after.cleanup = result.cleanup
    BY <2>2
  <2> HIDE DEF after
  <2>6. WorkerTypeOK'
    BY <2>3, <2>4, <2>5
  <2>7. NotYet' /\ Nobody'
    BY <2>2, <2>3, <2>4, <2>5
  <2>8. CgroupSeen' /\ HardHasLimit' /\ Placed' /\ ReasonSeen'
    BY <2>3, <2>4, <2>5
  <2>9. EndIsHonest'
    BY <2>2, <2>3, <2>4, <2>5
  <2> QED BY <2>6, <2>7, <2>8, <2>9
<1>33. CASE RemoveCgroup
  BY <1>33 DEF RemoveCgroup
<1>34. CASE FinishWorker
  BY <1>34 DEF FinishWorker
<1>35. CASE Reap
  BY <1>35 DEF Reap
<1>36. CASE DrainEnds
  BY <1>36 DEF DrainEnds
<1>37. CASE UNCHANGED workerVars
  BY <1>37
<1> QED
  BY <1>1, <1>2, <1>3, <1>4, <1>5, <1>6, <1>7, <1>8, <1>9, <1>10, <1>11, <1>12, <1>13,
     <1>14, <1>15, <1>16, <1>17, <1>18, <1>19, <1>20, <1>21, <1>22, <1>23, <1>24, <1>25,
     <1>26, <1>27, <1>28, <1>29, <1>30, <1>31, <1>32, <1>33, <1>34, <1>35, <1>36, <1>37
     DEF WorkerNext, Surroundings, RunWorker

\* The invariant holds always.
LEMMA Always == WorkerSpec => []WorkerInv
BY Initially, Stepping, PTL DEF WorkerSpec

-----------------------------------------------------------------------------
\* A hard request is never downgraded, however many processes the command
\* forks and whatever step of its cgroup fails: none of them exists outside a
\* cgroup with its limit (setup_cgroup, attach_self).
THEOREM HardAlways == WorkerSpec => []HardIsEnforced
<1>1. WorkerInv => HardIsEnforced
  BY DEF WorkerInv, HardHasLimit, HardIsEnforced, Exists
<1> QED BY <1>1, Always, PTL

\* A cleanup that the worker calls complete has left no process of the run
\* alive in its group or its cgroup, and a run is out of memory on evidence
\* only, for any number of processes that fork, escape and exit at any time
\* (stop_group, run_worker).
THEOREM EndHonestAlways == WorkerSpec => []EndIsHonest
<1>1. WorkerInv => EndIsHonest
  BY DEF WorkerInv
<1> QED BY <1>1, Always, PTL

-----------------------------------------------------------------------------
(* Sums over a set of runs.                                                *)

\* Induction over the subsets of a finite set, one element at a time.
LEMMA SubsetInduction ==
  ASSUME NEW W, IsFiniteSet(W), NEW Holds, {} \in Holds,
         \A S \in SUBSET W : S # {} /\ (\A x \in S : S \ {x} \in Holds) => S \in Holds
  PROVE  SUBSET W \subseteq Holds
<1> DEFINE rank == [S \in SUBSET W |-> Cardinality(S)]
<1>1. \A S \in SUBSET W : IsFiniteSet(S) /\ Cardinality(S) \in Nat
  BY FS_Subset, FS_CardinalityType
<1>2. rank \in [SUBSET W -> Nat]
  BY <1>1
<1>3. \A S \in SUBSET W : \A x \in S : rank[S \ {x}] < rank[S]
  <2> SUFFICES ASSUME NEW S \in SUBSET W, NEW x \in S PROVE rank[S \ {x}] < rank[S]
    OBVIOUS
  <2>1. Cardinality(S \ {x}) = Cardinality(S) - 1
    BY <1>1, FS_RemoveElement
  <2>2. S \ {x} \in SUBSET W
    OBVIOUS
  <2> QED BY <1>1, <2>1, <2>2
<1> HIDE DEF rank
<1>4. \A S \in SUBSET W :
        (\A R \in SUBSET W : rank[R] < rank[S] => R \in Holds) => S \in Holds
  BY <1>3
<1> QED BY <1>2, <1>4, RankInduction

\* What MapThenSumSet takes from the set first, and the equation it solves.
First(S) == CHOOSE x \in S : TRUE
Sums(f, W, t) ==
  t = [S \in SUBSET W |-> IF S = {} THEN 0 ELSE f[First(S)] + t[S \ {First(S)}]]

LEMMA TotalSolves ==
  ASSUME NEW f, NEW W
  PROVE  Total(f, W) = (CHOOSE t : Sums(f, W, t))[W]
BY DEF Total, MapThenSumSet, MapThenFoldSet, Sums, First

\* The equation has a solution, a natural for every subset.
LEMMA SumsExist ==
  ASSUME NEW W, IsFiniteSet(W), NEW f \in [W -> Nat]
  PROVE  \E t \in [SUBSET W -> Nat] : Sums(f, W, t)
<1> DEFINE rank == [S \in SUBSET W |-> Cardinality(S)]
           At(t, S) == IF S = {} THEN 0 ELSE f[First(S)] + t[S \ {First(S)}]
           Def == [t \in [SUBSET W -> Nat] |-> [S \in SUBSET W |-> At(t, S)]]
<1>1. \A S \in SUBSET W : IsFiniteSet(S) /\ Cardinality(S) \in Nat
  BY FS_Subset, FS_CardinalityType
<1>2. rank \in [SUBSET W -> Nat]
  BY <1>1
<1>3. \A S \in SUBSET W : S # {} => First(S) \in S
  BY DEF First
<1>4. \A S \in SUBSET W : S # {} => rank[S \ {First(S)}] < rank[S]
  BY <1>1, <1>3, FS_RemoveElement
<1> HIDE DEF rank
<1>5. ASSUME NEW t \in [SUBSET W -> Nat], NEW S \in SUBSET W PROVE At(t, S) \in Nat
  <2>1. S # {} => f[First(S)] \in Nat /\ t[S \ {First(S)}] \in Nat
    BY <1>3
  <2> QED BY <2>1
<1>6. ASSUME NEW t \in [SUBSET W -> Nat], NEW u \in [SUBSET W -> Nat], NEW S \in SUBSET W,
             \A R \in SUBSET W : rank[R] < rank[S] => t[R] = u[R]
      PROVE  At(t, S) = At(u, S)
  BY <1>4, <1>6
<1> HIDE DEF At
<1>7. Recursive(SUBSET W, rank, Nat, Def)
  <2>1. Def \in [[SUBSET W -> Nat] -> [SUBSET W -> Nat]]
    BY <1>5
  <2>2. \A t, u \in [SUBSET W -> Nat] : \A S \in SUBSET W :
          (\A R \in SUBSET W : rank[R] < rank[S] => t[R] = u[R]) => Def[t][S] = Def[u][S]
    <3>1. ASSUME NEW t \in [SUBSET W -> Nat], NEW S \in SUBSET W PROVE Def[t][S] = At(t, S)
      OBVIOUS
    <3> HIDE DEF Def
    <3>2. ASSUME NEW t \in [SUBSET W -> Nat], NEW u \in [SUBSET W -> Nat], NEW S \in SUBSET W,
                 \A R \in SUBSET W : rank[R] < rank[S] => t[R] = u[R]
          PROVE  Def[t][S] = Def[u][S]
      <4>1. At(t, S) = At(u, S)
        BY <1>6, <3>2
      <4>2. Def[t][S] = At(t, S) /\ Def[u][S] = At(u, S)
        BY <3>1
      <4> QED BY <4>1, <4>2
    <3> QED BY <3>2
  <2>3. [S \in SUBSET W |-> 0] \in [SUBSET W -> Nat]
    OBVIOUS
  <2> HIDE DEF Def
  <2> QED BY <1>2, <2>1, <2>2, <2>3 DEF Recursive
<1>8. PICK t \in [SUBSET W -> Nat] : t = Def[t]
  <2> HIDE DEF Def
  <2> DEFINE D == SUBSET W
  <2>1. Recursive(D, rank, Nat, Def)
    BY <1>7
  <2> HIDE DEF D
  <2>2. \E t \in [D -> Nat] : t = Def[t]
    BY <2>1, RankRecursion
  <2> QED BY <2>2 DEF D
<1>9. t = [S \in SUBSET W |-> At(t, S)]
  BY <1>8
<1> QED BY <1>9 DEF At, Sums

\* A solution does not depend on which element is taken first.
LEMMA AnyFirst ==
  ASSUME NEW W, IsFiniteSet(W), NEW f \in [W -> Nat],
         NEW t \in [SUBSET W -> Nat], Sums(f, W, t),
         NEW S \in SUBSET W, NEW x \in S
  PROVE  t[S] = f[x] + t[S \ {x}]
<1> DEFINE Holds == {R \in SUBSET W : \A y \in R : t[R] = f[y] + t[R \ {y}]}
<1>1. \A R \in SUBSET W : R # {} =>
        First(R) \in R /\ t[R] = f[First(R)] + t[R \ {First(R)}]
  BY DEF Sums, First
<1>2. {} \in Holds
  OBVIOUS
<1>3. ASSUME NEW R \in SUBSET W, R # {}, \A y \in R : R \ {y} \in Holds
      PROVE  R \in Holds
  <2> SUFFICES ASSUME NEW y \in R PROVE t[R] = f[y] + t[R \ {y}]
    OBVIOUS
  <2> DEFINE c == First(R)
  <2>1. c \in R /\ t[R] = f[c] + t[R \ {c}]
    BY <1>1
  <2> HIDE DEF c
  <2>2. CASE y # c
    <3>1. t[R \ {c}] = f[y] + t[(R \ {c}) \ {y}]
      BY <1>3, <2>1, <2>2
    <3>2. t[R \ {y}] = f[c] + t[(R \ {y}) \ {c}]
      BY <1>3, <2>1, <2>2
    <3>3. (R \ {y}) \ {c} = (R \ {c}) \ {y}
      OBVIOUS
    <3>4. f[y] \in Nat /\ f[c] \in Nat /\ t[(R \ {c}) \ {y}] \in Nat
      BY <2>1
    <3>5. t[R] = f[c] + (f[y] + t[(R \ {c}) \ {y}])
      BY <2>1, <3>1
    <3>6. t[R \ {y}] = f[c] + t[(R \ {c}) \ {y}]
      BY <3>2, <3>3
    <3> HIDE DEF Holds
    <3> QED BY <3>4, <3>5, <3>6
  <2> QED BY <2>1, <2>2
<1> HIDE DEF Holds
<1>4. SUBSET W \subseteq Holds
  BY <1>2, <1>3, SubsetInduction
<1> QED BY <1>4 DEF Holds

\* The sum over a set, by any of its elements.
LEMMA TotalStep ==
  ASSUME NEW W, IsFiniteSet(W), NEW f \in [W -> Nat], NEW S \in SUBSET W
  PROVE  /\ Total(f, {}) = 0 /\ Total(f, S) \in Nat
         /\ \A x \in S : Total(f, S) = f[x] + Total(f, S \ {x})
<1>1. ASSUME NEW R \in SUBSET W
      PROVE  \E t : /\ t \in [SUBSET R -> Nat] /\ Total(f, R) = t[R] /\ t[{}] = 0
                    /\ \A Q \in SUBSET R : \A x \in Q : t[Q] = f[x] + t[Q \ {x}]
  <2> DEFINE t == CHOOSE u : Sums(f, R, u)
             g == [x \in R |-> f[x]]
  <2>1. IsFiniteSet(R) /\ g \in [R -> Nat]
    BY FS_Subset
  <2>2. \A u : Sums(g, R, u) <=> Sums(f, R, u)
    <3>1. \A u : [Q \in SUBSET R |-> IF Q = {} THEN 0 ELSE g[First(Q)] + u[Q \ {First(Q)}]]
               = [Q \in SUBSET R |-> IF Q = {} THEN 0 ELSE f[First(Q)] + u[Q \ {First(Q)}]]
      <4>1. \A Q \in SUBSET R : Q # {} => g[First(Q)] = f[First(Q)]
        BY DEF First
      <4> HIDE DEF g
      <4> QED BY <4>1
    <3> HIDE DEF g
    <3> QED BY <3>1 DEF Sums
  <2>3. PICK u \in [SUBSET R -> Nat] : Sums(f, R, u)
    <3> HIDE DEF g
    <3> QED BY <2>1, <2>2, SumsExist
  <2>4. Sums(f, R, t)
    BY <2>3
  <2>5. Total(f, R) = t[R]
    BY TotalSolves
  <2> HIDE DEF t
  <2>6. t = u
    <3>1. /\ t = [Q \in SUBSET R |-> IF Q = {} THEN 0 ELSE f[First(Q)] + t[Q \ {First(Q)}]]
          /\ u = [Q \in SUBSET R |-> IF Q = {} THEN 0 ELSE f[First(Q)] + u[Q \ {First(Q)}]]
      BY <2>3, <2>4 DEF Sums
    <3> DEFINE Holds == {Q \in SUBSET R : t[Q] = u[Q]}
    <3>2. \A Q \in SUBSET R : Q # {} => First(Q) \in Q
      BY DEF First
    <3>3. \A Q \in SUBSET R : /\ t[Q] = IF Q = {} THEN 0 ELSE f[First(Q)] + t[Q \ {First(Q)}]
                              /\ u[Q] = IF Q = {} THEN 0 ELSE f[First(Q)] + u[Q \ {First(Q)}]
      BY <3>1, Zenon
    <3>4. {} \in Holds
      BY <3>3
    <3>5. \A Q \in SUBSET R : Q # {} /\ (\A x \in Q : Q \ {x} \in Holds) => Q \in Holds
      BY <3>2, <3>3
    <3> HIDE DEF Holds
    <3>7. SUBSET R \subseteq Holds
      BY <2>1, <3>4, <3>5, SubsetInduction
    <3>8. \A Q \in SUBSET R : t[Q] = u[Q]
      BY <3>7 DEF Holds
    <3> QED BY <3>1, <3>8, Zenon
  <2>7. t[{}] = 0
    BY <2>4 DEF Sums
  <2>8. ASSUME NEW Q \in SUBSET R, NEW x \in Q PROVE t[Q] = f[x] + t[Q \ {x}]
    <3> HIDE DEF g
    <3>1. t[Q] = g[x] + t[Q \ {x}]
      BY <2>1, <2>2, <2>4, <2>3, <2>6, <2>8, AnyFirst
    <3> QED BY <3>1 DEF g
  <2>9. t \in [SUBSET R -> Nat]
    BY <2>3, <2>6
  <2> QED BY <2>5, <2>7, <2>8, <2>9
<1>2. Total(f, {}) = 0 /\ Total(f, S) \in Nat
  <2>1. PICK t : t \in [SUBSET S -> Nat] /\ Total(f, S) = t[S]
    BY <1>1
  <2>2. \E u : Total(f, {}) = u[{}] /\ u[{}] = 0
    BY <1>1
  <2> QED BY <2>1, <2>2
<1>3. ASSUME NEW x \in S PROVE Total(f, S) = f[x] + Total(f, S \ {x})
  <2>1. PICK t : /\ t \in [SUBSET S -> Nat] /\ Total(f, S) = t[S] /\ t[{}] = 0
                 /\ \A Q \in SUBSET S : \A y \in Q : t[Q] = f[y] + t[Q \ {y}]
    BY <1>1
  <2>2. PICK u : /\ u \in [SUBSET (S \ {x}) -> Nat] /\ Total(f, S \ {x}) = u[S \ {x}] /\ u[{}] = 0
                 /\ \A Q \in SUBSET (S \ {x}) : \A y \in Q : u[Q] = f[y] + u[Q \ {y}]
    BY <1>1
  <2> DEFINE Holds == {Q \in SUBSET (S \ {x}) : t[Q] = u[Q]}
  <2>3. {} \in Holds
    BY <2>1, <2>2
  <2>4. ASSUME NEW Q \in SUBSET (S \ {x}), Q # {}, \A y \in Q : Q \ {y} \in Holds
        PROVE  Q \in Holds
    <3>1. PICK y : y \in Q
      BY <2>4
    <3>2. Q \in SUBSET S /\ y \in S
      BY <3>1
    <3>3. t[Q] = f[y] + t[Q \ {y}] /\ u[Q] = f[y] + u[Q \ {y}]
      BY <2>1, <2>2, <3>1, <3>2
    <3> QED BY <2>4, <3>1, <3>3
  <2>5. IsFiniteSet(S \ {x})
    BY FS_Subset
  <2> HIDE DEF Holds
  <2>6. SUBSET (S \ {x}) \subseteq Holds
    <3>1. \A Q \in SUBSET (S \ {x}) : Q # {} /\ (\A y \in Q : Q \ {y} \in Holds) => Q \in Holds
      BY <2>4
    <3> DEFINE V == S \ {x}
    <3>2. /\ IsFiniteSet(V)
          /\ \A Q \in SUBSET V : Q # {} /\ (\A y \in Q : Q \ {y} \in Holds) => Q \in Holds
      BY <2>5, <3>1
    <3> HIDE DEF V
    <3>3. SUBSET V \subseteq Holds
      BY <2>3, <3>2, SubsetInduction
    <3> QED BY <3>3 DEF V
  <2>7. t[S \ {x}] = u[S \ {x}]
    BY <2>6 DEF Holds
  <2> QED BY <2>1, <2>2, <2>7
<1> QED BY <1>2, <1>3
\* More in every place is no less in all.
LEMMA TotalMonotone ==
  ASSUME NEW W, IsFiniteSet(W), NEW f \in [W -> Nat], NEW g \in [W -> Nat],
         NEW S \in SUBSET W, \A x \in S : f[x] <= g[x]
  PROVE  Total(f, S) <= Total(g, S)
<1> DEFINE Holds == {R \in SUBSET S : Total(f, R) <= Total(g, R)}
<1>1. IsFiniteSet(S) /\ {} \in SUBSET W
  BY FS_Subset
<1>2. {} \in Holds
  <2>1. Total(f, {}) = 0 /\ Total(g, {}) = 0
    BY <1>1, TotalStep
  <2> QED BY <2>1
<1>3. ASSUME NEW R \in SUBSET S, R # {}, \A x \in R : R \ {x} \in Holds
      PROVE  R \in Holds
  <2>1. PICK x : x \in R
    BY <1>3
  <2>2. Total(f, R \ {x}) <= Total(g, R \ {x})
    BY <1>3, <2>1
  <2>3. R \in SUBSET W /\ R \ {x} \in SUBSET W /\ x \in W
    BY <2>1
  <2>4. /\ Total(f, R) = f[x] + Total(f, R \ {x}) /\ Total(g, R) = g[x] + Total(g, R \ {x})
        /\ Total(f, R \ {x}) \in Nat /\ Total(g, R \ {x}) \in Nat
    BY <2>1, <2>3, TotalStep
  <2>5. f[x] \in Nat /\ g[x] \in Nat /\ f[x] <= g[x]
    BY <2>1, <2>3
  <2>6. Total(f, R) <= Total(g, R)
    BY <2>2, <2>4, <2>5
  <2> QED BY <2>6
<1> HIDE DEF Holds
<1>4. SUBSET S \subseteq Holds
  BY <1>1, <1>2, <1>3, SubsetInduction
<1> QED BY <1>4 DEF Holds

LEMMA TotalSame ==
  ASSUME NEW W, IsFiniteSet(W), NEW f \in [W -> Nat], NEW g \in [W -> Nat],
         NEW S \in SUBSET W, \A x \in S : f[x] = g[x]
  PROVE  Total(f, S) = Total(g, S)
<1>1. \A x \in S : f[x] <= g[x] /\ g[x] <= f[x]
  OBVIOUS
<1>2. Total(f, S) <= Total(g, S) /\ Total(g, S) <= Total(f, S)
  BY <1>1, TotalMonotone
<1>3. Total(f, S) \in Nat /\ Total(g, S) \in Nat
  BY TotalStep
<1> QED BY <1>2, <1>3

\* One place changed.
LEMMA TotalTouch ==
  ASSUME NEW W, IsFiniteSet(W), NEW f \in [W -> Nat], NEW g \in [W -> Nat], NEW w \in W,
         \A x \in W \ {w} : g[x] = f[x]
  PROVE  Total(g, W) + f[w] = Total(f, W) + g[w]
<1>1. Total(f, W \ {w}) = Total(g, W \ {w})
  <2>1. W \ {w} \in SUBSET W /\ \A x \in W \ {w} : f[x] = g[x]
    OBVIOUS
  <2> QED BY <2>1, TotalSame
<1>2. /\ Total(f, W) = f[w] + Total(f, W \ {w}) /\ Total(g, W) = g[w] + Total(g, W \ {w})
      /\ Total(f, W \ {w}) \in Nat
  <2>1. W \in SUBSET W /\ W \ {w} \in SUBSET W
    OBVIOUS
  <2> QED BY <2>1, TotalStep
<1> QED BY <1>1, <1>2

\* Nothing in any place.
LEMMA TotalNothing ==
  ASSUME NEW W, IsFiniteSet(W), NEW f \in [W -> Nat], NEW S \in SUBSET W, \A x \in S : f[x] = 0
  PROVE  Total(f, S) = 0
<1> DEFINE Holds == {R \in SUBSET S : Total(f, R) = 0}
<1>1. IsFiniteSet(S) /\ {} \in SUBSET W
  BY FS_Subset
<1>2. {} \in Holds
  BY <1>1, TotalStep
<1>3. ASSUME NEW R \in SUBSET S, R # {}, \A x \in R : R \ {x} \in Holds
      PROVE  R \in Holds
  <2>1. PICK x : x \in R
    BY <1>3
  <2>2. Total(f, R \ {x}) = 0 /\ f[x] = 0 /\ R \in SUBSET W
    BY <1>3, <2>1
  <2>3. Total(f, R) = f[x] + Total(f, R \ {x})
    BY <2>1, <2>2, TotalStep
  <2> QED BY <2>2, <2>3
<1> HIDE DEF Holds
<1>4. SUBSET S \subseteq Holds
  BY <1>1, <1>2, <1>3, SubsetInduction
<1> QED BY <1>4 DEF Holds

\* What is left where some places have been emptied is the rest.
LEMMA TotalEmptied ==
  ASSUME NEW W, IsFiniteSet(W), NEW f \in [W -> Nat], NEW g \in [W -> Nat], NEW R \in SUBSET W,
         \A x \in W : g[x] = IF x \in R THEN 0 ELSE f[x]
  PROVE  Total(g, W) + Total(f, R) = Total(f, W)
<1> DEFINE Holds == {S \in SUBSET W : Total(g, S) + Total(f, S \cap R) = Total(f, S)}
<1>1. {} \in Holds
  <2>1. {} \in SUBSET W /\ {} \cap R = {}
    OBVIOUS
  <2>2. Total(f, {}) = 0 /\ Total(g, {}) = 0
    BY <2>1, TotalStep
  <2> QED BY <2>1, <2>2
<1>2. ASSUME NEW S \in SUBSET W, S # {}, \A x \in S : S \ {x} \in Holds
      PROVE  S \in Holds
  <2>1. PICK x : x \in S
    BY <1>2
  <2>2. /\ S \ {x} \in SUBSET W /\ S \cap R \in SUBSET W /\ (S \ {x}) \cap R \in SUBSET W
        /\ x \in W
    BY <2>1
  <2>3. Total(g, S \ {x}) + Total(f, (S \ {x}) \cap R) = Total(f, S \ {x})
    BY <1>2, <2>1
  <2>4. /\ Total(f, S) = f[x] + Total(f, S \ {x}) /\ Total(g, S) = g[x] + Total(g, S \ {x})
    BY <2>1, TotalStep
  <2>5. /\ Total(f, S \ {x}) \in Nat /\ Total(g, S \ {x}) \in Nat /\ Total(f, S \cap R) \in Nat
        /\ Total(f, (S \ {x}) \cap R) \in Nat /\ f[x] \in Nat
    BY <2>2, TotalStep
  <2>6. Total(g, S) + Total(f, S \cap R) = Total(f, S)
    <3>1. CASE x \in R
      <4>1. Total(f, S \cap R) = f[x] + Total(f, (S \cap R) \ {x})
        BY <2>1, <2>2, <3>1, TotalStep
      <4>2. (S \cap R) \ {x} = (S \ {x}) \cap R /\ g[x] = 0
        BY <2>2, <3>1
      <4>3. Total(f, S \cap R) = f[x] + Total(f, (S \ {x}) \cap R)
        BY <4>1, <4>2
      <4> HIDE DEF Holds
      <4> QED BY <2>3, <2>4, <2>5, <4>2, <4>3
    <3>2. CASE x \notin R
      <4>1. S \cap R = (S \ {x}) \cap R /\ g[x] = f[x]
        BY <2>2, <3>2
      <4>2. Total(f, S \cap R) = Total(f, (S \ {x}) \cap R)
        BY <4>1
      <4> HIDE DEF Holds
      <4> QED BY <2>3, <2>4, <2>5, <4>1, <4>2
    <3> QED BY <3>1, <3>2
  <2> QED BY <2>6
<1> HIDE DEF Holds
<1>3. SUBSET W \subseteq Holds
  BY <1>1, <1>2, SubsetInduction
<1>4. W \cap R = R /\ W \in Holds
  BY <1>3
<1> QED BY <1>4 DEF Holds

-----------------------------------------------------------------------------
\* Where a run is, and where the thread that drains it.
DrainPlaces ==
  \A w \in Writer :
    /\ drainer[w] = "off" <=> phase[w] = "unborn"
    /\ drainer[w] \in {"off", "opening"} =>
         size[w] = 0 /\ sink[w] = NoLogs /\ logs[w] = NoLogs /\ w \notin lost
    /\ drainer[w] \in {"reading", "appending"} => w \in files
    /\ drainer[w] = "deaf" => w \in missed
    /\ phase[w] = "finished" /\ w \notin missed => drainer[w] = "ended"
    /\ phase[w] = "pruned" => drainer[w] = "ended"
    /\ w \notin files => size[w] = 0

PendingFits ==
  \A w \in Writer :
    /\ drainer[w] # "appending" => pending[w] = NotPending
    /\ drainer[w] = "appending" =>
         /\ sink[w].bytes + pending[w].granted <= StreamLimit
         /\ pending[w].granted <= pending[w].n

\* Of a run that nothing has gone wrong with, the sink counts what the file holds, and has
\* published all but what it is about to write.
SinkCounts ==
  \A w \in Writer : w \notin missed =>
    /\ phase[w] # "pruned" => sink[w].bytes = size[w]
    /\ logs[w].bytes = sink[w].bytes
    /\ logs[w].truncated => sink[w].truncated
    /\ w \in lost => logs[w].truncated

ReaderTypeOK ==
  \/ reader = NotReading
  \/ reader \in [run : Writer, kind : Kinds, at : {"read", "check", "done", "failed"},
              cursor : Nat, seen : Nat, eof : BOOLEAN, told : BOOLEAN]

\* A client that pages a finished run has had every byte before its cursor once.
PageSoFar ==
  /\ reader.at = "check" => reader.kind \in {"follow", "once"}
  /\ reader.kind = "page" =>
       /\ phase[reader.run] \in {"finished", "pruned"}
       /\ (reader.at = "read" /\ phase[reader.run] = "finished" /\ reader.run \notin missed) =>
            reader.cursor = reader.seen /\ reader.seen <= size[reader.run]

LogInv ==
  /\ LogTypeOK /\ DrainPlaces /\ PendingFits /\ SinkCounts /\ RowTellsLoss
  /\ ReaderTypeOK /\ PageSoFar /\ PagesAreWhole /\ DiskWithinBudget

-----------------------------------------------------------------------------
\* The part of the invariant that is about one run at a time.
RunsInv ==
  /\ LogTypeOK /\ DrainPlaces /\ PendingFits /\ SinkCounts /\ RowTellsLoss

\* What a drain takes: no more than it has read, nor than the stream or the budget has room for.
LEMMA TakesWithin ==
  ASSUME RunsInv, NEW w \in Writer, DrainTakes(w)
  PROVE  \E n \in Nat, granted \in 0 .. StreamLimit :
           /\ granted <= n /\ n <= left[w]
           /\ left' = Touch(left, w, left[w] - n)
           /\ sink[w].bytes + granted <= StreamLimit
           /\ pending' = Touch(pending, w, [n |-> n, granted |-> granted])
           /\ used' = used + granted
           /\ used <= BudgetLimit => used + granted <= BudgetLimit
           /\ \E t \in BOOLEAN :
                /\ sink[w].truncated => t
                /\ sink' = Touch(sink, w, [bytes |-> sink[w].bytes, truncated |-> t])
<1> USE LogAssumption DEF RunsInv, LogTypeOK, LogState
<1>1. PICK n \in 1 .. Output[w] :
        LET want == Least(n, Room(StreamLimit, sink[w].bytes)) IN
          /\ Prints(w, n)
          /\ pending' = Touch(pending, w, [n |-> n, granted |-> Granted(want)])
          /\ used' = used + Granted(want)
          /\ sink' = Touch(sink, w, [sink[w] EXCEPT !.truncated = @ \/ Granted(want) < want])
  BY DEF DrainTakes
<1> DEFINE want == Least(n, Room(StreamLimit, sink[w].bytes))
           granted == Granted(want)
           t == sink[w].truncated \/ granted < want
<1>2. n \in Nat /\ sink[w].bytes \in 0 .. StreamLimit /\ StreamLimit \in Nat /\ BudgetLimit \in Nat
  OBVIOUS
<1>3. want \in Nat /\ want <= n /\ sink[w].bytes + want <= StreamLimit
  BY <1>2 DEF Least, Room
<1>4. granted \in Nat /\ granted <= want /\ (used <= BudgetLimit => used + granted <= BudgetLimit)
  BY <1>2, <1>3 DEF Granted, Least, Room
<1>5. sink' = Touch(sink, w, [bytes |-> sink[w].bytes, truncated |-> t])
  <2>1. [sink[w] EXCEPT !.truncated = @ \/ granted < want]
          = [bytes |-> sink[w].bytes, truncated |-> t]
    OBVIOUS
  <2> QED BY <1>1, <2>1
<1>6. n <= left[w] /\ left' = Touch(left, w, left[w] - n)
  BY <1>1, <1>2 DEF Prints
<1>7. /\ pending' = Touch(pending, w, [n |-> n, granted |-> granted]) /\ used' = used + granted
  BY <1>1
<1>8. t \in BOOLEAN /\ (sink[w].truncated => t)
  OBVIOUS
<1> HIDE DEF want, t
<1>9. granted \in 0 .. StreamLimit /\ granted <= n /\ sink[w].bytes + granted <= StreamLimit
  BY <1>2, <1>3, <1>4
<1> HIDE DEF granted
<1> QED BY <1>2, <1>4, <1>5, <1>6, <1>7, <1>8, <1>9

\* Each step of a drain, a worker or a supervisor keeps it.
LEMMA RunsStep ==
  ASSUME RunsInv,
         NEW w \in Writer,
         StartLogs(w) \/ DrainNext(w) \/ SetRunOver(w) \/ FinishRow(w)
  PROVE  RunsInv'
<1> USE LogAssumption DEF RunsInv, LogTypeOK, LogState, NoLogs, NotPending, Touch, Publish
<1>1. CASE StartLogs(w)
  <2>1. LogTypeOK'
    BY <1>1 DEF StartLogs, PendingFits, SinkCounts
  <2>2. DrainPlaces'
    BY <1>1 DEF StartLogs, DrainPlaces
  <2>3. PendingFits'
    BY <1>1 DEF StartLogs, DrainPlaces, PendingFits
  <2>4. SinkCounts'
    BY <1>1 DEF StartLogs, DrainPlaces, PendingFits, SinkCounts
  <2>5. RowTellsLoss'
    BY <1>1 DEF StartLogs, DrainPlaces, SinkCounts, RowTellsLoss
  <2> QED BY <2>1, <2>2, <2>3, <2>4, <2>5
<1>2. CASE OpenSink(w)
  <2>1. LogTypeOK'
    BY <1>2 DEF OpenSink, DrainPlaces
  <2>2. DrainPlaces'
    BY <1>2 DEF OpenSink, DrainPlaces
  <2>3. PendingFits'
    BY <1>2 DEF OpenSink, DrainPlaces, PendingFits
  <2>4. SinkCounts'
    BY <1>2 DEF OpenSink, DrainPlaces, PendingFits, SinkCounts
  <2>5. RowTellsLoss'
    BY <1>2 DEF OpenSink, DrainPlaces, SinkCounts, RowTellsLoss
  <2> QED BY <2>1, <2>2, <2>3, <2>4, <2>5
<1>3. CASE OpenFails(w)
  <2>1. LogTypeOK'
    BY <1>3 DEF OpenFails, PendingFits, SinkCounts
  <2>2. DrainPlaces'
    BY <1>3 DEF OpenFails, DrainPlaces
  <2>3. PendingFits'
    BY <1>3 DEF OpenFails, DrainPlaces, PendingFits
  <2>4. SinkCounts'
    BY <1>3 DEF OpenFails, DrainPlaces, PendingFits, SinkCounts
  <2>5. RowTellsLoss'
    BY <1>3 DEF OpenFails, DrainPlaces, SinkCounts, RowTellsLoss
  <2> QED BY <2>1, <2>2, <2>3, <2>4, <2>5
<1>4. CASE DrainDrops(w)
  <2>1. LogTypeOK'
    BY <1>4 DEF DrainDrops, Prints, PendingFits, SinkCounts
  <2>2. DrainPlaces'
    BY <1>4 DEF DrainDrops, DrainPlaces
  <2>3. PendingFits'
    BY <1>4 DEF DrainDrops, DrainPlaces, PendingFits
  <2>4. SinkCounts'
    BY <1>4 DEF DrainDrops, DrainPlaces, PendingFits, SinkCounts
  <2>5. RowTellsLoss'
    BY <1>4 DEF DrainDrops, DrainPlaces, SinkCounts, RowTellsLoss
  <2> QED BY <2>1, <2>2, <2>3, <2>4, <2>5
<1>5. CASE DrainTakes(w)
  <2>0. /\ drainer[w] = "reading" /\ phase[w] = "running"
        /\ drainer' = Touch(drainer, w, "appending")
        /\ UNCHANGED <<phase, files, size, logs, row, lost, late, missed, starts, reader>>
    BY <1>5 DEF DrainTakes
  <2>1. PICK n \in Nat, granted \in 0 .. StreamLimit :
           /\ granted <= n /\ n <= left[w]
           /\ left' = Touch(left, w, left[w] - n)
           /\ sink[w].bytes + granted <= StreamLimit
           /\ pending' = Touch(pending, w, [n |-> n, granted |-> granted])
           /\ used' = used + granted
           /\ \E t \in BOOLEAN :
                /\ sink[w].truncated => t
                /\ sink' = Touch(sink, w, [bytes |-> sink[w].bytes, truncated |-> t])
    BY <1>5, TakesWithin
  <2>2. LogTypeOK'
    <3>1. used' \in Nat
      BY <2>1
    <3>2. pending[w] = NotPending
      BY <2>0 DEF PendingFits
    <3>3. left' \in [Writer -> Nat] /\ left'[w] = left[w] - n
      BY <2>1
    <3>4. pending' \in [Writer -> [n : Nat, granted : 0 .. StreamLimit]]
      BY <2>1
    <3>5. \A v \in Writer : left'[v] + size'[v] + pending'[v].n <= Output[v]
      <4> SUFFICES ASSUME NEW v \in Writer
                   PROVE  left'[v] + size'[v] + pending'[v].n <= Output[v]
        OBVIOUS
      <4>1. CASE v = w
        <5>1. pending'[w].n = n /\ pending[w].n = 0 /\ size'[w] = size[w]
          BY <2>0, <2>1, <3>2
        <5> QED BY <2>1, <3>3, <4>1, <5>1
      <4>2. CASE v # w
        BY <2>0, <2>1, <4>2
      <4> QED BY <4>1, <4>2
    <3>6. sink' \in [Writer -> LogState]
      BY <2>1
    <3> QED BY <2>0, <3>1, <3>3, <3>4, <3>5, <3>6
  <2>3. DrainPlaces'
    BY <2>0, <2>1 DEF DrainPlaces
  <2>4. PendingFits'
    BY <2>0, <2>1 DEF DrainPlaces, PendingFits
  <2>5. SinkCounts'
    BY <2>0, <2>1 DEF DrainPlaces, PendingFits, SinkCounts
  <2>6. RowTellsLoss'
    BY <2>0, <2>1 DEF DrainPlaces, SinkCounts, RowTellsLoss
  <2> QED BY <2>2, <2>3, <2>4, <2>5, <2>6
<1>6. CASE DrainFull(w)
  <2>0. /\ drainer[w] = "reading" /\ phase[w] = "running" /\ lost' = lost \cup {w}
        /\ sink' = Touch(sink, w, [bytes |-> sink[w].bytes, truncated |-> TRUE])
        /\ logs' = Touch(logs, w, [bytes |-> sink[w].bytes, truncated |-> TRUE])
        /\ UNCHANGED <<phase, drainer, files, size, pending, row, late, missed, used, starts, reader>>
    BY <1>6 DEF DrainFull
  <2>1. LogTypeOK'
    <3>1. PICK n \in 1 .. Output[w] : n \in 1 .. left[w] /\ left' = Touch(left, w, left[w] - n)
      BY <1>6 DEF DrainFull, Prints
    <3>2. left' \in [Writer -> Nat] /\ \A v \in Writer : left'[v] <= left[v]
      BY <3>1
    <3>3. sink' \in [Writer -> LogState] /\ logs' \in [Writer -> LogState]
      BY <2>0
    <3>4. ASSUME NEW v \in Writer PROVE left'[v] + size'[v] + pending'[v].n <= Output[v]
      <4>1. /\ left[v] \in Nat /\ left'[v] \in Nat /\ size[v] \in Nat /\ pending[v].n \in Nat
            /\ Output[v] \in Nat
        BY <3>2
      <4>2. left'[v] <= left[v] /\ left[v] + size[v] + pending[v].n <= Output[v]
        BY <3>2
      <4>3. left'[v] + size[v] + pending[v].n <= Output[v]
        BY ONLY <4>1, <4>2
      <4> QED BY <2>0, <4>3
    <3>5. lost' \subseteq Writer
      BY <2>0
    <3> QED BY <2>0, <3>2, <3>3, <3>4, <3>5
  <2>2. DrainPlaces'
    <3>1. \A v \in Writer : v # w => /\ sink'[v] = sink[v] /\ logs'[v] = logs[v]
                                    /\ v \in lost' <=> v \in lost
      BY <2>0
    <3> QED BY <2>0, <3>1 DEF DrainPlaces
  <2>3. PendingFits'
    BY <2>0 DEF DrainPlaces, PendingFits
  <2>4. SinkCounts'
    BY <2>0 DEF DrainPlaces, PendingFits, SinkCounts
  <2>5. RowTellsLoss'
    BY <2>0 DEF DrainPlaces, SinkCounts, RowTellsLoss
  <2> QED BY <2>1, <2>2, <2>3, <2>4, <2>5
<1>7. CASE AppendBytes(w)
  <2> DEFINE got == pending[w].granted
             t == sink[w].truncated \/ got < pending[w].n
  <2>1. /\ drainer[w] = "appending" /\ drainer' = Touch(drainer, w, "reading")
        /\ size' = Touch(size, w, size[w] + got)
        /\ sink' = Touch(sink, w, [bytes |-> sink[w].bytes + got, truncated |-> t])
        /\ logs' = Touch(logs, w, [bytes |-> sink[w].bytes + got, truncated |-> t])
        /\ lost' = IF got < pending[w].n THEN lost \cup {w} ELSE lost
        /\ pending' = Touch(pending, w, NotPending)
        /\ UNCHANGED <<phase, left, files, row, late, missed, used, starts, reader>>
    BY <1>7 DEF AppendBytes
  <2>2. /\ got \in Nat /\ got <= pending[w].n /\ sink[w].bytes + got <= StreamLimit
        /\ t \in BOOLEAN /\ (sink[w].truncated => t) /\ (got < pending[w].n => t)
        /\ sink[w].bytes + got \in 0 .. StreamLimit /\ size[w] + got \in Nat
        /\ size[w] + got > StreamLimit => w \in missed \/ phase[w] = "pruned"
        /\ left[w] + (size[w] + got) + 0 <= Output[w]
        /\ phase[w] # "pruned"
    BY <2>1 DEF DrainPlaces, PendingFits, SinkCounts
  <2> HIDE DEF t, got
  <2>3. LogTypeOK'
    BY <2>1, <2>2 DEF PendingFits, SinkCounts
  <2>4. DrainPlaces'
    BY <2>1, <2>2 DEF DrainPlaces
  <2>5. PendingFits'
    BY <2>1 DEF DrainPlaces, PendingFits
  <2>6. SinkCounts'
    BY <2>1, <2>2 DEF DrainPlaces, PendingFits, SinkCounts
  <2>7. RowTellsLoss'
    BY <2>1 DEF DrainPlaces, SinkCounts, RowTellsLoss
  <2> QED BY <2>3, <2>4, <2>5, <2>6, <2>7
<1>8. CASE AppendFails(w)
  <2>1. LogTypeOK'
    BY <1>8 DEF AppendFails, PendingFits, SinkCounts
  <2>2. DrainPlaces'
    BY <1>8 DEF AppendFails, DrainPlaces
  <2>3. PendingFits'
    BY <1>8 DEF AppendFails, DrainPlaces, PendingFits
  <2>4. SinkCounts'
    BY <1>8 DEF AppendFails, DrainPlaces, PendingFits, SinkCounts
  <2>5. RowTellsLoss'
    BY <1>8 DEF AppendFails, DrainPlaces, SinkCounts, RowTellsLoss
  <2> QED BY <2>1, <2>2, <2>3, <2>4, <2>5
<1>9. CASE EndOfPipe(w)
  <2>1. LogTypeOK'
    BY <1>9 DEF EndOfPipe, PendingFits, SinkCounts
  <2>2. DrainPlaces'
    BY <1>9 DEF EndOfPipe, DrainPlaces
  <2>3. PendingFits'
    BY <1>9 DEF EndOfPipe, DrainPlaces, PendingFits
  <2>4. SinkCounts'
    BY <1>9 DEF EndOfPipe, DrainPlaces, PendingFits, SinkCounts
  <2>5. RowTellsLoss'
    BY <1>9 DEF EndOfPipe, DrainPlaces, SinkCounts, RowTellsLoss
  <2> QED BY <2>1, <2>2, <2>3, <2>4, <2>5
<1>10. CASE SetRunOver(w)
  <2>1. LogTypeOK'
    BY <1>10 DEF SetRunOver, PendingFits, SinkCounts
  <2>2. DrainPlaces'
    BY <1>10 DEF SetRunOver, DrainPlaces
  <2>3. PendingFits'
    BY <1>10 DEF SetRunOver, DrainPlaces, PendingFits
  <2>4. SinkCounts'
    BY <1>10 DEF SetRunOver, DrainPlaces, PendingFits, SinkCounts
  <2>5. RowTellsLoss'
    BY <1>10 DEF SetRunOver, DrainPlaces, SinkCounts, RowTellsLoss
  <2> QED BY <2>1, <2>2, <2>3, <2>4, <2>5
<1>11. CASE FinishRow(w)
  <2>1. LogTypeOK'
    BY <1>11 DEF FinishRow, PendingFits, SinkCounts
  <2>2. DrainPlaces'
    BY <1>11 DEF FinishRow, DrainPlaces
  <2>3. PendingFits'
    BY <1>11 DEF FinishRow, DrainPlaces, PendingFits
  <2>4. SinkCounts'
    BY <1>11 DEF FinishRow, DrainPlaces, PendingFits, SinkCounts
  <2>5. RowTellsLoss'
    BY <1>11 DEF FinishRow, DrainPlaces, SinkCounts, RowTellsLoss
  <2> QED BY <2>1, <2>2, <2>3, <2>4, <2>5
<1> QED BY <1>1, <1>2, <1>3, <1>4, <1>5, <1>6, <1>7, <1>8, <1>9, <1>10, <1>11 DEF DrainNext
-----------------------------------------------------------------------------
\* What the drains hold of the budget and have not written.
Granteds == [w \in Writer |-> pending[w].granted]

\* The steps of a run move bytes from the budget to the grants, and from the grants to the disk.
LEMMA BudgetStep ==
  ASSUME RunsInv, DiskWithinBudget, NEW w \in Writer,
         StartLogs(w) \/ DrainNext(w) \/ SetRunOver(w) \/ FinishRow(w)
  PROVE  DiskWithinBudget'
<1> USE LogAssumption
<1>0. /\ size \in [Writer -> Nat] /\ pending \in [Writer -> [n : Nat, granted : 0 .. StreamLimit]]
      /\ size' \in [Writer -> Nat] /\ pending' \in [Writer -> [n : Nat, granted : 0 .. StreamLimit]]
      /\ used \in Nat /\ used' \in Nat
  BY RunsStep DEF RunsInv, LogTypeOK
<1>1. /\ Granteds \in [Writer -> Nat] /\ Granteds' \in [Writer -> Nat]
      /\ \A v \in Writer : Granteds[v] = pending[v].granted /\ Granteds'[v] = pending'[v].granted
  BY <1>0 DEF Granteds
<1>2. /\ Total(size, Writer) \in Nat /\ Total(size', Writer) \in Nat
      /\ Total(Granteds, Writer) \in Nat /\ Total(Granteds', Writer) \in Nat
  BY <1>0, <1>1, TotalStep
<1>3. /\ Total(size, Writer) + Total(Granteds, Writer) <= used /\ used <= BudgetLimit
      /\ DiskWithinBudget' <=> /\ Total(size', Writer) + Total(Granteds', Writer) <= used'
                               /\ used' <= BudgetLimit
  BY DEF DiskWithinBudget, Stored, Unwritten, Granteds
<1>4. CASE UNCHANGED <<size, pending, used>>
  BY <1>3, <1>4 DEF Granteds
<1>5. CASE DrainTakes(w)
  <2>1. PICK n \in Nat, granted \in 0 .. StreamLimit :
           /\ pending' = Touch(pending, w, [n |-> n, granted |-> granted])
           /\ used' = used + granted
           /\ used <= BudgetLimit => used + granted <= BudgetLimit
    BY <1>5, TakesWithin
  <2>2. drainer[w] = "reading" /\ size' = size
    BY <1>5 DEF DrainTakes
  <2>3. pending[w] = NotPending
    BY <2>2 DEF RunsInv, PendingFits
  <2>4. /\ Granteds[w] = 0 /\ Granteds'[w] = granted
        /\ \A v \in Writer \ {w} : Granteds'[v] = Granteds[v]
    BY <1>0, <1>1, <2>1, <2>3 DEF Touch, NotPending
  <2>5. Total(Granteds', Writer) + 0 = Total(Granteds, Writer) + granted
    BY <1>1, <2>4, TotalTouch
  <2>6. used' <= BudgetLimit /\ granted \in Nat
    BY <1>3, <2>1
  <2>7. Total(size', Writer) = Total(size, Writer)
    BY <2>2
  <2> QED BY <1>0, <1>2, <1>3, <2>1, <2>5, <2>6, <2>7
<1>6. CASE AppendBytes(w) \/ AppendFails(w)
  <2>1. /\ drainer[w] = "appending" /\ pending' = Touch(pending, w, NotPending) /\ used' = used
        /\ \E k \in 0 .. pending[w].granted : size' = Touch(size, w, size[w] + k)
    <3>1. CASE AppendBytes(w)
      <4>1. pending[w].granted \in 0 .. pending[w].granted
        BY <1>0
      <4> QED BY <3>1, <4>1 DEF AppendBytes
    <3>2. CASE AppendFails(w)
      BY <3>2 DEF AppendFails
    <3> QED BY <1>6, <3>1, <3>2
  <2>2. PICK k \in 0 .. pending[w].granted : size' = Touch(size, w, size[w] + k)
    BY <2>1
  <2>3. /\ size'[w] = size[w] + k /\ \A v \in Writer \ {w} : size'[v] = size[v]
    BY <1>0, <2>2 DEF Touch
  <2>4. /\ Granteds[w] = pending[w].granted /\ Granteds'[w] = 0
        /\ \A v \in Writer \ {w} : Granteds'[v] = Granteds[v]
    BY <1>0, <1>1, <2>1 DEF Touch, NotPending
  <2>5. /\ Total(size', Writer) + size[w] = Total(size, Writer) + (size[w] + k)
        /\ Total(Granteds', Writer) + pending[w].granted = Total(Granteds, Writer) + 0
    <3>1. Total(size', Writer) + size[w] = Total(size, Writer) + size'[w]
      <4>1. PICK f, g : f = size /\ g = size'
        OBVIOUS
      <4>2. /\ f \in [Writer -> Nat] /\ g \in [Writer -> Nat]
            /\ \A v \in Writer \ {w} : g[v] = f[v]
        BY <1>0, <2>3, <4>1
      <4>3. Total(g, Writer) + f[w] = Total(f, Writer) + g[w]
        BY <4>2, TotalTouch
      <4> QED BY <4>1, <4>3
    <3>2. Total(Granteds', Writer) + Granteds[w] = Total(Granteds, Writer) + Granteds'[w]
      BY <1>1, <2>4, TotalTouch
    <3> QED BY <2>3, <2>4, <3>1, <3>2
  <2>6. size[w] \in Nat /\ pending[w].granted \in Nat /\ k \in Nat /\ k <= pending[w].granted
    BY <1>0
  <2> QED BY <1>0, <1>2, <1>3, <2>1, <2>5, <2>6
<1> QED
  BY <1>4, <1>5, <1>6
     DEF StartLogs, DrainNext, OpenSink, OpenFails, DrainDrops, DrainFull, EndOfPipe, SetRunOver,
         FinishRow

\* A new supervisor counts what is there and what its prune has removed.
LEMMA RestartStep ==
  ASSUME RunsInv, DiskWithinBudget, NewSupervisor
  PROVE  RunsInv' /\ DiskWithinBudget'
<1> USE LogAssumption
<1>1. PICK removed \in SUBSET {w \in Writer : phase[w] = "finished"},
           old \in SUBSET {w \in Writer : phase[w] = "finished"} :
        /\ removed \subseteq old
        /\ phase' = [w \in Writer |-> CASE w \in old -> "pruned"
                                        [] phase[w] \in {"running", "over"} -> "finished"
                                        [] OTHER -> phase[w]]
        /\ files' = files \ removed
        /\ size' = [w \in Writer |-> IF w \in removed THEN 0 ELSE size[w]]
        /\ used' = Stored(Writer) - Stored(removed)
  BY DEF NewSupervisor, Freed
<1>2. /\ starts' \in 0 .. MaxStarts
      /\ drainer' = [w \in Writer |-> IF drainer[w] = "off" THEN "off" ELSE "ended"]
      /\ pending' = [w \in Writer |-> NotPending]
      /\ lost' = lost \cup {w \in Writer : drainer[w] = "appending"}
      /\ missed' = missed \cup {w \in Writer : phase[w] \in {"running", "over"}}
      /\ UNCHANGED <<left, sink, logs, row, late>>
  BY DEF NewSupervisor, RunsInv, LogTypeOK
<1>3. /\ phase \in [Writer -> {"unborn", "running", "over", "finished", "pruned"}]
      /\ size \in [Writer -> Nat] /\ used \in Nat
      /\ pending \in [Writer -> [n : Nat, granted : 0 .. StreamLimit]]
  BY DEF RunsInv, LogTypeOK
<1>4. size' \in [Writer -> Nat] /\ \A w \in Writer : size'[w] = IF w \in removed THEN 0 ELSE size[w]
  BY <1>1, <1>3
<1>5. /\ Total(size', Writer) + Total(size, removed) = Total(size, Writer)
      /\ Total(size', Writer) \in Nat /\ Total(size, removed) \in Nat /\ Total(size, Writer) \in Nat
  <2>1. removed \in SUBSET Writer /\ Writer \in SUBSET Writer
    OBVIOUS
  <2>2. Total(size', Writer) + Total(size, removed) = Total(size, Writer)
    BY <1>3, <1>4, <2>1, TotalEmptied, Zenon
  <2>3. Total(size', Writer) \in Nat /\ Total(size, removed) \in Nat /\ Total(size, Writer) \in Nat
    BY <1>3, <1>4, <2>1, TotalStep, Zenon
  <2> QED BY <2>2, <2>3
<1>6. used' = Total(size', Writer) /\ used' \in Nat /\ used' <= Total(size, Writer)
  BY <1>1, <1>5 DEF Stored
<1>7. DiskWithinBudget'
  <2>1. /\ Granteds \in [Writer -> Nat]
        /\ Granteds' \in [Writer -> Nat] /\ \A w \in Writer : Granteds'[w] = 0
    BY <1>2, <1>3 DEF Granteds, NotPending
  <2>2. Total(Granteds, Writer) \in Nat /\ Total(Granteds', Writer) = 0
    BY <2>1, TotalStep, TotalNothing
  <2>3. Total(size, Writer) + Total(Granteds, Writer) <= used /\ used <= BudgetLimit
    BY DEF DiskWithinBudget, Stored, Unwritten, Granteds
  <2>4. Total(size', Writer) + Total(Granteds', Writer) <= used' /\ used' <= BudgetLimit
    BY <1>3, <1>5, <1>6, <2>2, <2>3
  <2> QED BY <2>4 DEF DiskWithinBudget, Stored, Unwritten, Granteds
<1>8. \A w \in Writer :
        /\ phase'[w] = "pruned" <=> w \in old \/ phase[w] = "pruned"
        /\ phase'[w] = "unborn" <=> phase[w] = "unborn"
        /\ phase'[w] = "finished" =>
             \/ phase[w] \in {"running", "over"} /\ w \in missed'
             \/ phase[w] = "finished" /\ w \notin removed
        /\ phase'[w] \in {"unborn", "finished", "pruned"}
        /\ w \in removed => phase'[w] = "pruned"
  BY <1>1, <1>2, <1>3
<1>9. LogTypeOK'
  <2>1. phase' \in [Writer -> {"unborn", "running", "over", "finished", "pruned"}]
    BY <1>1, <1>3
  <2>2. \A w \in Writer : left'[w] + size'[w] + pending'[w].n <= Output[w]
    <3> SUFFICES ASSUME NEW w \in Writer PROVE left'[w] + size'[w] + pending'[w].n <= Output[w]
      OBVIOUS
    <3>1. /\ left[w] + size[w] + pending[w].n <= Output[w] /\ left[w] \in Nat /\ size[w] \in Nat
          /\ pending[w].n \in Nat /\ Output[w] \in Nat
      BY <1>3 DEF RunsInv, LogTypeOK
    <3>2. /\ left'[w] = left[w] /\ size'[w] \in Nat /\ size'[w] <= size[w] /\ pending'[w].n = 0
      BY <1>2, <1>4, <3>1 DEF NotPending
    <3> QED BY <3>1, <3>2
  <2>3. \A w \in Writer : size'[w] > StreamLimit => w \in missed'
    BY <1>2, <1>3, <1>4 DEF RunsInv, LogTypeOK
  <2>4. pending' \in [Writer -> [n : Nat, granted : 0 .. StreamLimit]]
    BY <1>2 DEF NotPending
  <2>5. drainer' \in [Writer -> {"off", "opening", "reading", "appending", "deaf", "ended"}]
    BY <1>2
  <2> QED BY <1>1, <1>2, <1>4, <1>6, <2>1, <2>2, <2>3, <2>4, <2>5 DEF RunsInv, LogTypeOK
<1>10. DrainPlaces'
  <2>1. \A w \in Writer : drainer'[w] = IF drainer[w] = "off" THEN "off" ELSE "ended"
    BY <1>2
  <2>2. \A w \in Writer : w \notin files' => size'[w] = 0
    BY <1>1, <1>4 DEF RunsInv, DrainPlaces
  <2>3. \A w \in Writer : drainer[w] = "off" =>
          size'[w] = 0 /\ sink'[w] = NoLogs /\ logs'[w] = NoLogs /\ w \notin lost'
    BY <1>2, <1>4 DEF RunsInv, DrainPlaces
  <2>4. \A w \in Writer : drainer[w] = "off" <=> phase[w] = "unborn"
    BY DEF RunsInv, DrainPlaces
  <2> QED BY <1>8, <2>1, <2>2, <2>3, <2>4 DEF DrainPlaces
<1>11. PendingFits'
  BY <1>2 DEF PendingFits
<1>12. SinkCounts'
  <2> SUFFICES ASSUME NEW w \in Writer, w \notin missed'
               PROVE  /\ phase'[w] # "pruned" => sink'[w].bytes = size'[w]
                      /\ logs'[w].bytes = sink'[w].bytes
                      /\ logs'[w].truncated => sink'[w].truncated
                      /\ w \in lost' => logs'[w].truncated
    BY DEF SinkCounts
  <2>1. w \notin missed /\ phase[w] \notin {"running", "over"}
    BY <1>2
  <2>2. drainer[w] # "appending"
    BY <1>3, <2>1 DEF RunsInv, DrainPlaces
  <2>3. phase'[w] # "pruned" => phase[w] # "pruned" /\ size'[w] = size[w]
    BY <1>4, <1>8
  <2> QED BY <1>2, <2>1, <2>2, <2>3 DEF RunsInv, SinkCounts
<1>13. RowTellsLoss'
  <2> SUFFICES ASSUME NEW w \in Writer, phase'[w] = "finished", w \notin missed'
               PROVE  row'[w].bytes = size'[w] /\ (w \in lost' => row'[w].truncated)
    BY DEF RowTellsLoss
  <2>1. w \notin missed /\ phase[w] = "finished" /\ size'[w] = size[w]
    BY <1>2, <1>4, <1>8
  <2>2. drainer[w] # "appending"
    BY <2>1 DEF RunsInv, DrainPlaces
  <2> QED BY <1>2, <2>1, <2>2 DEF RunsInv, RowTellsLoss
<1> QED BY <1>7, <1>9, <1>10, <1>11, <1>12, <1>13 DEF RunsInv

-----------------------------------------------------------------------------
\* A run that has finished with its drains ended prints nothing more; a prune takes all of it.
LEMMA FinishedStands ==
  ASSUME RunsInv, NEW r \in Writer, phase[r] \in {"finished", "pruned"},
         \/ \E w \in Writer : StartLogs(w) \/ DrainNext(w) \/ SetRunOver(w) \/ FinishRow(w)
         \/ NewSupervisor
  PROVE  /\ phase'[r] \in {"finished", "pruned"} /\ missed \subseteq missed'
         /\ phase'[r] = "finished" =>
              /\ phase[r] = "finished"
              /\ r \notin missed => size'[r] = size[r] /\ row'[r] = row[r] /\ (r \in lost' => r \in lost)
<1>0. /\ phase \in [Writer -> {"unborn", "running", "over", "finished", "pruned"}]
      /\ drainer \in [Writer -> {"off", "opening", "reading", "appending", "deaf", "ended"}]
      /\ size \in [Writer -> Nat] /\ row \in [Writer -> LogState]
      /\ r \notin missed => drainer[r] = "ended" \/ phase[r] = "pruned"
      /\ phase[r] = "pruned" => drainer[r] = "ended"
  BY DEF RunsInv, LogTypeOK, DrainPlaces
<1>1. CASE NewSupervisor
  <2>1. missed \subseteq missed' /\ row' = row
    BY <1>1 DEF NewSupervisor
  <2>2. lost' = lost \cup {w \in Writer : drainer[w] = "appending"}
    BY <1>1 DEF NewSupervisor
  <2>3. PICK removed \in SUBSET {w \in Writer : phase[w] = "finished"},
             old \in SUBSET {w \in Writer : phase[w] = "finished"} :
          /\ removed \subseteq old
          /\ phase' = [w \in Writer |-> CASE w \in old -> "pruned"
                                          [] phase[w] \in {"running", "over"} -> "finished"
                                          [] OTHER -> phase[w]]
          /\ size' = [w \in Writer |-> IF w \in removed THEN 0 ELSE size[w]]
    BY <1>1 DEF NewSupervisor
  <2>4. /\ phase'[r] = IF r \in old THEN "pruned" ELSE phase[r]
        /\ size'[r] = IF r \in removed THEN 0 ELSE size[r]
    BY <2>3
  <2> QED BY <1>0, <2>1, <2>2, <2>3, <2>4
<1>2. ASSUME NEW w \in Writer, StartLogs(w) \/ DrainNext(w) \/ SetRunOver(w) \/ FinishRow(w)
      PROVE  /\ phase'[r] \in {"finished", "pruned"} /\ missed \subseteq missed'
             /\ phase'[r] = "finished" =>
                  /\ phase[r] = "finished"
                  /\ r \notin missed => size'[r] = size[r] /\ row'[r] = row[r]
                                       /\ (r \in lost' => r \in lost)
  <2> USE <1>0 DEF Touch
  <2>1. CASE StartLogs(w)
    BY <2>1 DEF StartLogs
  <2>2. CASE OpenSink(w) \/ OpenFails(w) \/ EndOfPipe(w)
    BY <2>2 DEF OpenSink, OpenFails, EndOfPipe
  <2>3. CASE DrainDrops(w)
    BY <2>3 DEF DrainDrops
  <2>4. CASE DrainTakes(w)
    BY <2>4 DEF DrainTakes
  <2>5. CASE DrainFull(w)
    BY <2>5 DEF DrainFull
  <2>6. CASE AppendBytes(w)
    BY <2>6 DEF AppendBytes
  <2>7. CASE AppendFails(w)
    BY <2>7 DEF AppendFails
  <2>8. CASE SetRunOver(w)
    BY <2>8 DEF SetRunOver
  <2>9. CASE FinishRow(w)
    BY <2>9 DEF FinishRow
  <2> QED BY <1>2, <2>1, <2>2, <2>3, <2>4, <2>5, <2>6, <2>7, <2>8, <2>9 DEF DrainNext
<1> QED BY <1>1, <1>2

\* One chunk more is read from where the last one ended.
LEMMA ChunkFollows ==
  ASSUME RunsInv, ReaderTypeOK, reader # NotReading, PageSoFar, reader.kind = "page",
         reader.at = "read", phase[reader.run] = "finished", reader.run \notin missed
  PROVE  LET next == ReadChunk(reader) IN
         /\ next.cursor = next.seen /\ next.seen <= size[reader.run]
         /\ next.eof => next.seen = size[reader.run]
<1>1. /\ reader.run \in Writer /\ reader.cursor \in Nat /\ reader.cursor = reader.seen
      /\ reader.seen <= size[reader.run] /\ size[reader.run] \in Nat /\ ChunkBytes \in Nat
      /\ reader.run \notin files => size[reader.run] = 0
      /\ reader \in [run : Writer, kind : Kinds, at : {"read", "check", "done", "failed"},
                     cursor : Nat, seen : Nat, eof : BOOLEAN, told : BOOLEAN]
  BY LogAssumption DEF RunsInv, LogTypeOK, DrainPlaces, ReaderTypeOK, PageSoFar
<1> DEFINE start == Least(reader.cursor, size[reader.run])
           take == Least(size[reader.run] - start, ChunkBytes)
<1>2. start = reader.seen
  BY <1>1 DEF Least
<1>3. take \in Nat /\ start + take <= size[reader.run]
  BY <1>1, <1>2 DEF Least
<1> HIDE DEF start, take
<1>4. CASE reader.run \in files
  <2>1. ReadChunk(reader) = [reader EXCEPT !.cursor = start + take, !.seen = reader.seen + take,
                                           !.eof = start + take >= size[reader.run]]
    BY <1>4 DEF ReadChunk, NextCursor, start, take
  <2>2. /\ ReadChunk(reader).cursor = start + take /\ ReadChunk(reader).seen = reader.seen + take
        /\ ReadChunk(reader).eof => start + take >= size[reader.run]
    BY <1>1, <2>1
  <2>3. reader.seen + take = start + take /\ start + take \in Nat
    BY <1>1, <1>2, <1>3
  <2>4. start + take >= size[reader.run] => start + take = size[reader.run]
    BY <1>1, <1>3, <2>3
  <2> QED BY <1>3, <2>2, <2>3, <2>4
<1>5. CASE reader.run \notin files
  <2>1. ReadChunk(reader) = [reader EXCEPT !.cursor = 0, !.eof = TRUE]
    BY <1>5 DEF ReadChunk
  <2> QED BY <1>1, <1>5, <2>1
<1> QED BY <1>4, <1>5

\* What a read gives is a reader again, of the same run.
LEMMA ChunkType ==
  ASSUME LogTypeOK, reader \in [run : Writer, kind : Kinds, at : {"read", "check", "done", "failed"},
                                cursor : Nat, seen : Nat, eof : BOOLEAN, told : BOOLEAN]
  PROVE  LET next == ReadChunk(reader) IN
         /\ next \in [run : Writer, kind : Kinds, at : {"read", "check", "done", "failed"},
                      cursor : Nat, seen : Nat, eof : BOOLEAN, told : BOOLEAN]
         /\ next.run = reader.run /\ next.kind = reader.kind
<1> DEFINE start == Least(reader.cursor, size[reader.run])
           take == Least(size[reader.run] - start, ChunkBytes)
<1>1. size[reader.run] \in Nat /\ reader.cursor \in Nat /\ ChunkBytes \in Nat /\ reader.seen \in Nat
  BY LogAssumption DEF LogTypeOK
<1>2. start \in Nat /\ start <= size[reader.run]
  BY <1>1 DEF Least
<1>3. take \in Nat
  BY <1>1, <1>2 DEF Least
<1> HIDE DEF start, take
<1>4. \/ ReadChunk(reader) = [reader EXCEPT !.cursor = start + take, !.seen = reader.seen + take,
                                           !.eof = start + take >= size[reader.run]]
      \/ ReadChunk(reader) = [reader EXCEPT !.cursor = 0, !.eof = TRUE]
  BY DEF ReadChunk, NextCursor, start, take
<1>5. start + take \in Nat /\ reader.seen + take \in Nat /\ (start + take >= size[reader.run]) \in BOOLEAN
  BY <1>1, <1>2, <1>3
<1>6. PICK c \in Nat, n \in Nat, e \in BOOLEAN :
        ReadChunk(reader) = [reader EXCEPT !.cursor = c, !.seen = n, !.eof = e]
  <2>1. CASE ReadChunk(reader) = [reader EXCEPT !.cursor = start + take, !.seen = reader.seen + take,
                                                !.eof = start + take >= size[reader.run]]
    <3> DEFINE c == start + take
               n == reader.seen + take
               e == start + take >= size[reader.run]
    <3>1. c \in Nat /\ n \in Nat /\ e \in BOOLEAN
      BY <1>5
    <3>2. ReadChunk(reader) = [reader EXCEPT !.cursor = c, !.seen = n, !.eof = e]
      BY <2>1
    <3> HIDE DEF c, n, e
    <3> QED BY <3>1, <3>2, Zenon
  <2>2. CASE ReadChunk(reader) = [reader EXCEPT !.cursor = 0, !.eof = TRUE]
    <3>1. [reader EXCEPT !.cursor = 0, !.eof = TRUE]
            = [reader EXCEPT !.cursor = 0, !.seen = reader.seen, !.eof = TRUE]
      OBVIOUS
    <3>2. /\ ReadChunk(reader) = [reader EXCEPT !.cursor = 0, !.seen = reader.seen, !.eof = TRUE]
          /\ 0 \in Nat /\ reader.seen \in Nat /\ TRUE \in BOOLEAN
      BY <1>1, <2>2, <3>1
    <3> QED BY <3>2, Zenon
  <2> QED BY <1>4, <2>1, <2>2
<1> QED BY <1>6

\* The readers' steps, and everybody else's while they read.
LEMMA ReaderStep ==
  ASSUME RunsInv, ReaderTypeOK, PageSoFar, PagesAreWhole, [LogNext]_logVars
  PROVE  ReaderTypeOK' /\ PageSoFar' /\ PagesAreWhole'
<1> DEFINE Reading == [run : Writer, kind : Kinds, at : {"read", "check", "done", "failed"},
                       cursor : Nat, seen : Nat, eof : BOOLEAN, told : BOOLEAN]
<1>0. row \in [Writer -> LogState] /\ phase \in [Writer -> {"unborn", "running", "over", "finished", "pruned"}]
  BY DEF RunsInv, LogTypeOK
<1>1. CASE /\ UNCHANGED reader
           /\ \/ \E w \in Writer : StartLogs(w) \/ DrainNext(w) \/ SetRunOver(w) \/ FinishRow(w)
              \/ NewSupervisor
  <2>1. CASE reader.kind # "page" \/ reader = NotReading
    BY <1>1, <2>1 DEF ReaderTypeOK, PageSoFar, PagesAreWhole, NotReading
  <2>2. CASE reader.kind = "page" /\ reader # NotReading
    <3>1. reader \in Reading
      BY <2>2 DEF ReaderTypeOK
    <3>2. phase[reader.run] \in {"finished", "pruned"} /\ reader.run \in Writer
      BY <2>2, <3>1 DEF PageSoFar
    <3>3. /\ phase'[reader.run] \in {"finished", "pruned"} /\ missed \subseteq missed'
          /\ phase'[reader.run] = "finished" =>
               /\ phase[reader.run] = "finished"
               /\ reader.run \notin missed =>
                    /\ size'[reader.run] = size[reader.run]
                    /\ (reader.run \in lost' => reader.run \in lost)
      BY <1>1, <3>2, FinishedStands
    <3> QED
      BY <1>1, <2>2, <3>1, <3>2, <3>3 DEF ReaderTypeOK, PageSoFar, PagesAreWhole, HasRow
  <2> QED BY <2>1, <2>2
<1>2. CASE BeginRead
  <2>0. UNCHANGED drainVars
    BY <1>2 DEF BeginRead
  <2>1. PICK w \in Writer, kind \in Kinds :
          /\ HasRow(w) /\ (kind = "page" => phase[w] = "finished")
          /\ reader' = [NotReading EXCEPT !.run = w, !.kind = kind, !.at = "read"]
    BY <1>2 DEF BeginRead
  <2>2. reader' = [run |-> w, kind |-> kind, at |-> "read",
                   cursor |-> 0, seen |-> 0, eof |-> FALSE, told |-> FALSE]
    BY <2>1 DEF NotReading
  <2>3. size[w] \in Nat
    BY DEF RunsInv, LogTypeOK
  <2>4. /\ reader'.run = w /\ reader'.kind = kind /\ reader'.at = "read"
        /\ reader'.cursor = 0 /\ reader'.seen = 0
    BY <2>2
  <2>5. ReaderTypeOK'
    BY <2>2 DEF ReaderTypeOK
  <2>6. PageSoFar'
    BY <2>0, <2>1, <2>3, <2>4 DEF drainVars, PageSoFar
  <2> QED BY <2>4, <2>5, <2>6 DEF PagesAreWhole
<1>3. CASE ReadLogs
  <2>0. UNCHANGED drainVars /\ reader.kind \in {"follow", "once"} /\ reader.at = "read"
    BY <1>3 DEF ReadLogs
  <2>1. reader \in Reading
    BY <2>0 DEF ReaderTypeOK, NotReading
  <2>2. PICK next \in Reading : reader' = [next EXCEPT !.at = "check"] /\ next.kind = reader.kind
    BY <1>3, <2>1, ChunkType DEF ReadLogs, RunsInv
  <2>3. reader' \in Reading /\ reader'.kind = reader.kind /\ reader'.at = "check"
    BY <2>2
  <2> QED BY <2>0, <2>3 DEF ReaderTypeOK, PageSoFar, PagesAreWhole
<1>4. CASE CheckFinished
  <2>0. UNCHANGED drainVars /\ reader.at = "check"
    BY <1>4 DEF CheckFinished
  <2>1. reader \in Reading /\ reader.kind \in {"follow", "once"}
    BY <2>0 DEF ReaderTypeOK, NotReading, PageSoFar
  <2>2. \E t \in BOOLEAN : \/ reader' = [reader EXCEPT !.at = "done", !.told = t]
                          \/ reader' = [reader EXCEPT !.at = "done"]
                          \/ reader' = [reader EXCEPT !.at = "read"]
    <3>1. (HasRow(reader.run) /\ row[reader.run].truncated) \in BOOLEAN
      OBVIOUS
    <3>2. \/ reader' = [reader EXCEPT !.at = "done", !.told = HasRow(reader.run) /\ row[reader.run].truncated]
          \/ reader' = [reader EXCEPT !.at = "done"]
          \/ reader' = [reader EXCEPT !.at = "read"]
      BY <1>4 DEF CheckFinished
    <3> QED BY <3>1, <3>2
  <2>3. reader' \in Reading /\ reader'.kind = reader.kind /\ reader'.at # "check"
    BY <2>1, <2>2
  <2> QED BY <2>0, <2>1, <2>3 DEF ReaderTypeOK, PageSoFar, PagesAreWhole
<1>5. CASE ReadOutput
  <2>0. UNCHANGED drainVars /\ reader.at = "read" /\ reader.kind \in {"print", "page"}
    BY <1>5 DEF ReadOutput
  <2>1. reader \in Reading
    BY <2>0 DEF ReaderTypeOK, NotReading
  <2>2. PICK next : /\ next = ReadChunk(reader) /\ next \in Reading
                    /\ next.run = reader.run /\ next.kind = reader.kind
    BY <2>1, ChunkType DEF RunsInv
  <2>3. row[reader.run].truncated \in BOOLEAN
    BY <1>0, <2>1 DEF LogState
  <2>4. \/ reader' = [reader EXCEPT !.at = "failed"]
        \/ /\ HasRow(reader.run) /\ next.eof
           /\ reader' = [next EXCEPT !.at = "done", !.told = row[reader.run].truncated]
        \/ reader.kind = "print" /\ reader' = [next EXCEPT !.at = "done"]
        \/ reader' = [next EXCEPT !.at = "read"]
    BY <1>5, <2>0, <2>2 DEF ReadOutput
  <2>5. CASE reader' = [reader EXCEPT !.at = "failed"]
    <3>1. /\ reader' \in Reading /\ reader'.kind = reader.kind /\ reader'.at = "failed"
          /\ reader'.run = reader.run
      BY <2>1, <2>5
    <3> QED BY <2>0, <3>1 DEF drainVars, ReaderTypeOK, PageSoFar, PagesAreWhole
  <2>6. CASE /\ HasRow(reader.run) /\ next.eof
             /\ reader' = [next EXCEPT !.at = "done", !.told = row[reader.run].truncated]
    <3>1. /\ reader' \in Reading /\ reader'.kind = reader.kind /\ reader'.at = "done"
          /\ reader'.run = reader.run /\ reader'.seen = next.seen
          /\ reader'.told = row[reader.run].truncated
      BY <2>2, <2>3, <2>6
    <3>2. PagesAreWhole'
      <4> SUFFICES ASSUME reader.kind = "page", reader.run \notin missed
                   PROVE  /\ next.seen = size[reader.run]
                          /\ reader.run \in lost => row[reader.run].truncated
        BY <2>0, <3>1 DEF PagesAreWhole, drainVars
      <4>1. phase[reader.run] = "finished"
        BY <2>6 DEF PageSoFar, HasRow
      <4>2. reader # NotReading
        BY <2>0 DEF NotReading
      <4>3. next.seen = size[reader.run]
        BY <2>0, <2>2, <2>6, <4>1, <4>2, ChunkFollows
      <4>4. reader.run \in lost => row[reader.run].truncated
        BY <2>1, <4>1 DEF RunsInv, RowTellsLoss
      <4> QED BY <4>3, <4>4
    <3> QED BY <2>0, <3>1, <3>2 DEF drainVars, ReaderTypeOK, PageSoFar
  <2>7. CASE reader.kind = "print" /\ reader' = [next EXCEPT !.at = "done"]
    <3>1. /\ reader' \in Reading /\ reader'.kind = "print" /\ reader'.at = "done"
      BY <2>2, <2>7
    <3> QED BY <3>1 DEF ReaderTypeOK, PageSoFar, PagesAreWhole
  <2>8. CASE reader' = [next EXCEPT !.at = "read"]
    <3>1. /\ reader' \in Reading /\ reader'.kind = reader.kind /\ reader'.at = "read"
          /\ reader'.run = reader.run /\ reader'.seen = next.seen /\ reader'.cursor = next.cursor
      BY <2>2, <2>8
    <3>2. PageSoFar'
      <4> SUFFICES ASSUME reader.kind = "page"
                   PROVE  /\ phase[reader.run] \in {"finished", "pruned"}
                          /\ (phase[reader.run] = "finished" /\ reader.run \notin missed) =>
                               next.cursor = next.seen /\ next.seen <= size[reader.run]
        BY <2>0, <3>1 DEF PageSoFar, drainVars
      <4>2. reader # NotReading
        BY <2>0 DEF NotReading
      <4>3. (phase[reader.run] = "finished" /\ reader.run \notin missed) =>
              next.cursor = next.seen /\ next.seen <= size[reader.run]
        BY <2>0, <2>2, <4>2, ChunkFollows
      <4> QED BY <2>0, <4>3 DEF PageSoFar
    <3> QED BY <2>0, <3>1, <3>2 DEF drainVars, ReaderTypeOK, PagesAreWhole
  <2> QED BY <2>4, <2>5, <2>6, <2>7, <2>8
<1>6. CASE UNCHANGED logVars
  BY <1>6 DEF logVars, drainVars, ReaderTypeOK, PageSoFar, PagesAreWhole, HasRow
<1>7. (\E w \in Writer : StartLogs(w) \/ DrainNext(w) \/ SetRunOver(w) \/ FinishRow(w)) \/ NewSupervisor
        => UNCHANGED reader
  BY DEF StartLogs, DrainNext, OpenSink, OpenFails, DrainDrops, DrainTakes, DrainFull, AppendBytes,
         AppendFails, EndOfPipe, SetRunOver, FinishRow, NewSupervisor
<1> QED BY <1>1, <1>2, <1>3, <1>4, <1>5, <1>6, <1>7 DEF LogNext

-----------------------------------------------------------------------------
\* Nothing is printed yet.
LEMMA LogInitially == LogInit => LogInv
<1> SUFFICES ASSUME LogInit PROVE LogInv
  OBVIOUS
<1> USE LogAssumption DEF LogInit
<1>1. LogTypeOK
  BY DEF LogTypeOK, LogState, NoLogs, NotPending
<1>2. DrainPlaces /\ PendingFits /\ SinkCounts /\ RowTellsLoss
  BY DEF DrainPlaces, PendingFits, SinkCounts, RowTellsLoss, NoLogs, NotPending
<1>3. ReaderTypeOK /\ PageSoFar /\ PagesAreWhole
  BY DEF ReaderTypeOK, PageSoFar, PagesAreWhole, NotReading
<1>4. DiskWithinBudget
  <2>1. size \in [Writer -> Nat] /\ \A w \in Writer : size[w] = 0
    OBVIOUS
  <2>2. Granteds \in [Writer -> Nat] /\ \A w \in Writer : Granteds[w] = 0
    BY DEF Granteds, NotPending
  <2>3. Total(size, Writer) = 0 /\ Total(Granteds, Writer) = 0
    BY <2>1, <2>2, TotalNothing
  <2>4. BudgetLimit \in Nat
    OBVIOUS
  <2> QED BY <2>3, <2>4 DEF DiskWithinBudget, Stored, Unwritten, Granteds
<1> QED BY <1>1, <1>2, <1>3, <1>4 DEF LogInv

\* Every step keeps the invariant.
LEMMA LogStepping == LogInv /\ [LogNext]_logVars => LogInv'
<1> SUFFICES ASSUME LogInv, [LogNext]_logVars PROVE LogInv'
  OBVIOUS
<1>1. RunsInv /\ DiskWithinBudget /\ ReaderTypeOK /\ PageSoFar /\ PagesAreWhole
  BY DEF LogInv, RunsInv
<1>2. ReaderTypeOK' /\ PageSoFar' /\ PagesAreWhole'
  BY <1>1, ReaderStep
<1>3. RunsInv' /\ DiskWithinBudget'
  <2>1. CASE \E w \in Writer : StartLogs(w) \/ DrainNext(w) \/ SetRunOver(w) \/ FinishRow(w)
    BY <1>1, <2>1, RunsStep, BudgetStep
  <2>2. CASE NewSupervisor
    BY <1>1, <2>2, RestartStep
  <2>3. CASE UNCHANGED <<drainVars, starts>>
    BY <1>1, <2>3 DEF drainVars, RunsInv, LogTypeOK, DrainPlaces, PendingFits, SinkCounts,
                      RowTellsLoss, DiskWithinBudget, Stored, Unwritten
  <2> QED
    BY <2>1, <2>2, <2>3 DEF LogNext, BeginRead, ReadLogs, CheckFinished, ReadOutput, logVars
<1> QED BY <1>2, <1>3 DEF LogInv, RunsInv

\* Where every byte of a run that has lost none is.
Conserved ==
  \A w \in Writer : phase[w] # "pruned" /\ w \notin lost \cup late =>
      left[w] + size[w] + pending[w].n = Output[w]

\* No byte goes another way: it is printed, read, written, or its run has lost some.
LEMMA ConservedStep == LogInv /\ Conserved /\ [LogNext]_logVars => Conserved'
<1> SUFFICES ASSUME LogInv, Conserved, [LogNext]_logVars PROVE Conserved'
  OBVIOUS
<1> USE LogAssumption DEF LogInv, LogTypeOK
<1>1. ASSUME NEW w \in Writer, StartLogs(w) \/ SetRunOver(w) \/ FinishRow(w) PROVE Conserved'
  BY <1>1 DEF StartLogs, SetRunOver, FinishRow, Touch, Conserved
<1>2. ASSUME NEW w \in Writer, OpenSink(w) \/ OpenFails(w) \/ EndOfPipe(w) PROVE Conserved'
  BY <1>2 DEF OpenSink, OpenFails, EndOfPipe, Conserved
<1>3. ASSUME NEW w \in Writer, DrainDrops(w) \/ DrainFull(w) PROVE Conserved'
  BY <1>3 DEF DrainDrops, DrainFull, Prints, Touch, Conserved
<1>4. ASSUME NEW w \in Writer, DrainTakes(w) PROVE Conserved'
  <2>0. /\ RunsInv /\ pending[w] = NotPending
        /\ UNCHANGED <<phase, files, size, logs, row, lost, late, missed, starts, reader>>
    BY <1>4 DEF DrainTakes, PendingFits, RunsInv
  <2>1. PICK n \in Nat, granted \in 0 .. StreamLimit :
           /\ n <= left[w] /\ left' = Touch(left, w, left[w] - n)
           /\ pending' = Touch(pending, w, [n |-> n, granted |-> granted])
    BY <1>4, <2>0, TakesWithin
  <2> QED BY <2>0, <2>1 DEF Conserved, Touch, NotPending
<1>5. ASSUME NEW w \in Writer, AppendBytes(w) PROVE Conserved'
  <2> DEFINE got == pending[w].granted
             n == pending[w].n
  <2>1. /\ got \in Nat /\ n \in Nat /\ got <= n /\ size[w] \in Nat /\ left[w] \in Nat
        /\ size' = Touch(size, w, size[w] + got) /\ pending' = Touch(pending, w, NotPending)
        /\ lost' = (IF got < n THEN lost \cup {w} ELSE lost)
        /\ UNCHANGED <<phase, left, late>>
    BY <1>5 DEF AppendBytes, PendingFits
  <2>2. got < n \/ got = n
    <3> HIDE DEF got, n
    <3> QED BY <2>1
  <2> HIDE DEF got
  <2> QED BY <2>1, <2>2 DEF Conserved, Touch, NotPending
<1>6. ASSUME NEW w \in Writer, AppendFails(w) PROVE Conserved'
  BY <1>6 DEF AppendFails, Touch, Conserved
<1>7. CASE NewSupervisor
  <2>1. /\ UNCHANGED <<left, late>> /\ pending' = [w \in Writer |-> NotPending]
        /\ lost' = lost \cup {w \in Writer : drainer[w] = "appending"}
    BY <1>7 DEF NewSupervisor
  <2>2. ASSUME NEW w \in Writer, phase'[w] # "pruned" PROVE phase[w] # "pruned" /\ size'[w] = size[w]
    BY <1>7, <2>2 DEF NewSupervisor
  <2>3. ASSUME NEW w \in Writer, w \notin lost' PROVE w \notin lost /\ pending[w] = NotPending
    BY <2>1, <2>3 DEF PendingFits
  <2> QED BY <2>1, <2>2, <2>3 DEF Conserved, NotPending
<1>8. CASE UNCHANGED drainVars
  BY <1>8 DEF drainVars, Conserved
<1> QED BY <1>1, <1>2, <1>3, <1>4, <1>5, <1>6, <1>7, <1>8
        DEF LogNext, DrainNext, BeginRead, ReadLogs, CheckFinished, ReadOutput, logVars

\* What has ended and been told of no loss has lost nothing.
LEMMA KeptAtTheEnd == LogInv /\ Conserved => PrintedIsKept
<1> SUFFICES ASSUME LogInv, Conserved, NEW w \in Writer, phase[w] = "finished",
                    w \notin missed \cup late, ~ row[w].truncated
             PROVE  left[w] + size[w] = Output[w]
  BY DEF PrintedIsKept
<1>1. w \notin lost /\ pending[w] = NotPending
  BY DEF LogInv, RowTellsLoss, DrainPlaces, PendingFits
<1>2. left[w] \in Nat /\ size[w] \in Nat
  BY DEF LogInv, LogTypeOK
<1> QED BY <1>1, <1>2 DEF Conserved, NotPending

\* However much runs print, whichever disks fail and whenever a supervisor is killed: the files
\* stay within the budget, the row of a run that ended well tells what was kept and whether
\* anything was dropped while it ran, or else all it printed is in its file but what was read
\* after run_over, and a client that pages it has had every byte once (drain, GlobalBudget::take, run_finish, read_chunk).
THEOREM LogsAlwaysHonest == LogSpec => []LogsHonest
<1>1. LogInv /\ Conserved => LogsHonest
  BY KeptAtTheEnd DEF LogInv, LogsHonest
<1>2. LogInit => Conserved
  BY LogAssumption DEF LogInit, Conserved, NotPending
<1> QED BY <1>1, <1>2, LogInitially, LogStepping, ConservedStep, PTL DEF LogSpec

-----------------------------------------------------------------------------
(* The daemon and its clients.                                             *)

(* No process is slower than the timeouts that others give it.             *)
Timely == Untimely = FALSE

(* MAX_CLIENTS is never the limit.                                         *)
RoomForAll == IsFiniteSet(Client) /\ Cardinality(Client) <= MaxClients

(* Daemons that own the runs table.                                        *)
Supervising == {d \in Server : server[d] \in {"serving", "idle", "draining"}}

(* From the second handshake until the daemon answers, a client holds the  *)
(* lock, alone.                                                            *)
LockHeld ==
  \A c \in Client : client[c] \in {"rechecking", "unlinking", "spawning", "awaiting"}
                      => flock = {c}

(* A connection belongs to a client in a request, and to one daemon.       *)
InRequest ==
  \A d \in Server, c \in Client :
    c \in conns[d] => /\ client[c] \in {"requesting", "polling"}
                      /\ \A e \in Server : c \in conns[e] => e = d

(* A daemon that does not serve yet has its client waiting for it.         *)
StartedByHolder ==
  \A d \in Starting : \E c \in Client : client[c] = "awaiting" /\ child[c] = d

(* While a daemon is being started nobody supervises the store.            *)
NobodySupervises ==
  (Starting # {} \/ \E c \in Client : client[c] \in {"unlinking", "spawning"})
     => Supervising = {}

(* The path leads to the daemon that owns the table, never to one that is  *)
(* leaving, and nobody takes it between clearing and binding.              *)
PathNames ==
  \A d \in Server :
     /\ server[d] \in {"opening", "serving", "idle", "draining"} => path = d
     /\ server[d] = "leaving" => path # d
     /\ server[d] = "binding" => path = NoServer

(* Rows are inserted by daemons that serve.                                *)
OwnersServed ==
  \A i \in DOMAIN rows :
     server[rows[i].owner] \in {"serving", "idle", "draining", "leaving", "gone"}

(* The inductive invariant behind SoleAndReachable.                        *)
SoleInv == LockHeld /\ InRequest /\ StartedByHolder /\ NobodySupervises /\ PathNames

(* The inductive form of OneRunPerRequest.                                 *)
OneRow ==
  /\ \A i, j \in DOMAIN rows : rows[i].request = rows[j].request => i = j
  /\ \A c \in Client : client[c] = "done" => \E i \in RowsOf(c) : rows[i].state # "open"

(* No daemon was stopped, and none went idle.                              *)
Calm == stops = 0 /\ \A d \in auto : server[d] # "gone"

(* What holds then: no daemon has left, a client beyond its handshake has  *)
(* one to talk to, and none has failed.                                    *)
Undisturbed ==
    /\ \A d \in Server : /\ server[d] \notin {"draining", "leaving", "gone"}
                         /\ server[d] = "idle" => d \in auto
    /\ \A c \in Client :
         /\ client[c] = "awaiting" => child[c] \in Server /\ server[child[c]] # "unused"
         /\ client[c] \in {"starting", "requesting", "waiting", "polling", "done"}
               => \E d \in Server : server[d] \in {"serving", "idle"}
         /\ client[c] \in {"requesting", "polling"} => \E d \in Server : c \in conns[d]
         /\ client[c] # "failed"

(* The inductive form of FailsOnlyOnStop.                                  *)
CalmInv == Calm => Undisturbed

-----------------------------------------------------------------------------
(* Types *)

(* Every action keeps the types of the state.                              *)
LEMMA TypeStep ==
  ASSUME DaemonTypeOK, [DaemonNext]_vars
  PROVE  DaemonTypeOK'
<1> USE DaemonAssumption DEF DaemonTypeOK, GoServer, GoClient, serverVars, clientVars,
    ServerState, ClientState, Alive, Listening, Accepting, OpenRows
<1>1. ASSUME NEW d \in Server, Probe(d) PROVE DaemonTypeOK'
  BY <1>1 DEF Probe, Row
<1>2. ASSUME NEW d \in Server, ClearPath(d) PROVE DaemonTypeOK'
  BY <1>2 DEF ClearPath, Row
<1>3. ASSUME NEW d \in Server, Bind(d) PROVE DaemonTypeOK'
  BY <1>3 DEF Bind, Row
<1>4. ASSUME NEW d \in Server, OpenSupervisor(d) PROVE DaemonTypeOK'
  <2>1. rows' \in Seq(Row)
    <3>1. \A i \in 1..Len(rows) : rows[i] \in Row
      OBVIOUS
    <3>2. \A r \in Row : [r EXCEPT !.state = "lost"] \in Row
      BY DEF Row
    <3>3. DOMAIN rows = 1..Len(rows) /\ Len(rows) \in Nat
      OBVIOUS
    <3>4. rows' = [i \in 1..Len(rows) |->
                     IF rows[i].state = "open" THEN [rows[i] EXCEPT !.state = "lost"]
                                               ELSE rows[i]]
      BY <1>4, <3>3 DEF OpenSupervisor
    <3>5. rows' \in [1..Len(rows) -> Row]
      BY <3>1, <3>2, <3>4
    <3>6. QED
      BY <3>3, <3>5
  <2>2. QED
    BY <1>4, <2>1 DEF OpenSupervisor
<1>5. ASSUME NEW d \in Server, FinishRun(d) PROVE DaemonTypeOK'
  <2>1. PICK i \in DOMAIN rows : rows' = [rows EXCEPT ![i].state = "finished"]
    BY <1>5 DEF FinishRun
  <2>2. [rows[i] EXCEPT !.state = "finished"] \in Row
    <3>1. rows[i] \in Row
      OBVIOUS
    <3>2. QED
      BY <3>1 DEF Row
  <2>3. rows' = [rows EXCEPT ![i] = [rows[i] EXCEPT !.state = "finished"]]
    BY <2>1
  <2>4. rows' \in Seq(Row)
    BY <2>2, <2>3
  <2>5. QED
    BY <1>5, <2>4 DEF FinishRun
<1>6. ASSUME NEW d \in Server, IdleCheck(d) PROVE DaemonTypeOK'
  BY <1>6 DEF IdleCheck, Row
<1>7. ASSUME NEW d \in Server, IdleExit(d) PROVE DaemonTypeOK'
  BY <1>7 DEF IdleExit, Row
<1>8. ASSUME NEW d \in Server, RemovePath(d) PROVE DaemonTypeOK'
  BY <1>8 DEF RemovePath, Row
<1>9. ASSUME NEW d \in Server, Leave(d) PROVE DaemonTypeOK'
  BY <1>9 DEF Leave, Row
<1>10. ASSUME NEW d \in Server, Terminate(d) PROVE DaemonTypeOK'
  BY <1>10 DEF Terminate, Row
<1>11. ASSUME NEW d \in Server, Kill(d) PROVE DaemonTypeOK'
  BY <1>11 DEF Kill, Row
<1>12. ASSUME NEW d \in Server, GrowQuiet(d) PROVE DaemonTypeOK'
  BY <1>12 DEF GrowQuiet, Row
<1>13. ASSUME NEW c \in Client, Handshake(c) PROVE DaemonTypeOK'
  BY <1>13 DEF Handshake, Row
<1>14. ASSUME NEW c \in Client, Lock(c) PROVE DaemonTypeOK'
  BY <1>14 DEF Lock, Row
<1>15. ASSUME NEW c \in Client, Unlink(c) PROVE DaemonTypeOK'
  BY <1>15 DEF Unlink, Row
<1>16. ASSUME NEW c \in Client, Spawn(c) PROVE DaemonTypeOK'
  BY <1>16 DEF Spawn, Row
<1>17. ASSUME NEW c \in Client, SpawnFails(c) PROVE DaemonTypeOK'
  BY <1>17 DEF SpawnFails, Row
<1>18. ASSUME NEW c \in Client, Await(c) PROVE DaemonTypeOK'
  BY <1>18 DEF Await, Row
<1>19. ASSUME NEW c \in Client, Refused(c) PROVE DaemonTypeOK'
  BY <1>19 DEF Refused, Row
<1>20. ASSUME NEW c \in Client, Connect(c) PROVE DaemonTypeOK'
  BY <1>20 DEF Connect, Row
<1>21. ASSUME NEW c \in Client, StartRun(c) PROVE DaemonTypeOK'
  <2>1. PICK d \in Accepting :
          /\ rows' = IF RowsOf(c) # {} THEN rows
                     ELSE Append(rows, [request |-> c, owner |-> d, state |-> "open"])
          /\ conns' = [conns EXCEPT ![d] = @ \ {c}]
          /\ quiet' = quiet \ {d}
          /\ client' = [client EXCEPT ![c] = "waiting"]
          /\ UNCHANGED <<path, flock, server, auto, stops, tries, child>>
    BY <1>21 DEF StartRun
  <2>2. [request |-> c, owner |-> d, state |-> "open"] \in Row
    BY DEF Row
  <2>3. rows' \in Seq(Row)
    BY <2>1, <2>2
  <2>4. QED
    BY <2>1, <2>3
<1>22. ASSUME NEW c \in Client, PollAnswered(c) PROVE DaemonTypeOK'
  BY <1>22 DEF PollAnswered, Row
<1>23. ASSUME NEW c \in Client, HungUp(c) PROVE DaemonTypeOK'
  BY <1>23 DEF HungUp, Row
<1>24. ASSUME NEW c \in Client, Retry(c) PROVE DaemonTypeOK'
  BY <1>24 DEF Retry, Row
<1>25. CASE UNCHANGED vars
  BY <1>25 DEF vars, Row
<1>26. QED
  BY <1>1, <1>2, <1>3, <1>4, <1>5, <1>6, <1>7, <1>8, <1>9, <1>10, <1>11, <1>12, <1>13,
     <1>14, <1>15, <1>16, <1>17, <1>18, <1>19, <1>20, <1>21, <1>22, <1>23, <1>24, <1>25
     DEF DaemonNext, Disturb, ServerStep, ClientStep

-----------------------------------------------------------------------------
(* One daemon *)

(* A client that makes a handshake is not among the connections of the     *)
(* daemon it reaches, so that one of MaxClients is left.                   *)
LEMMA ConnectionLeft ==
  ASSUME RoomForAll, DaemonTypeOK, InRequest,
         NEW c \in Client, client[c] \notin {"requesting", "polling"}, path \in Server
  PROVE  HasRoom
<1>1. conns[path] \subseteq Client \ {c}
  BY DEF InRequest, DaemonTypeOK
<1>2. IsFiniteSet(Client \ {c}) /\ Cardinality(Client \ {c}) = Cardinality(Client) - 1
  BY FS_RemoveElement DEF RoomForAll
<1>3. IsFiniteSet(conns[path]) /\ Cardinality(conns[path]) <= Cardinality(Client \ {c})
  BY <1>1, <1>2, FS_Subset
<1>4. Cardinality(Client) \in Nat /\ Cardinality(conns[path]) \in Nat
  BY <1>3, FS_CardinalityType DEF RoomForAll
<1>5. QED
  BY <1>2, <1>3, <1>4, DaemonAssumption DEF HasRoom, RoomForAll

(* The lock's holder is one client and has one child: at most one daemon   *)
(* is being started, and none before its client has spawned it.            *)
LEMMA OneStarting ==
  ASSUME LockHeld, StartedByHolder
  PROVE  /\ \A d, e \in Starting : d = e
         /\ \A c \in Client :
              client[c] \in {"rechecking", "unlinking", "spawning"} => Starting = {}
         /\ \A d \in Starting, c \in Client :
              client[c] \notin {"rechecking", "unlinking", "spawning"}
<1>1. \A a, b \in Client :
        /\ client[a] \in {"rechecking", "unlinking", "spawning", "awaiting"}
        /\ client[b] \in {"rechecking", "unlinking", "spawning", "awaiting"}
        => a = b
  <2>1. \A a, b \in Client : {a} = {b} => a = b
    OBVIOUS
  <2>2. QED
    BY <2>1 DEF LockHeld
<1>2. \A d, e \in Starting : d = e
  <2>1. TAKE d, e \in Starting
  <2>2. PICK a \in Client : client[a] = "awaiting" /\ child[a] = d
    BY DEF StartedByHolder
  <2>3. PICK b \in Client : client[b] = "awaiting" /\ child[b] = e
    BY DEF StartedByHolder
  <2>4. a = b
    BY <1>1, <2>2, <2>3
  <2>5. QED
    BY <2>2, <2>3, <2>4
<1>3. \A d \in Starting, c \in Client : client[c] \notin {"rechecking", "unlinking", "spawning"}
  <2>1. TAKE d \in Starting, c \in Client
  <2>2. PICK a \in Client : client[a] = "awaiting" /\ child[a] = d
    BY DEF StartedByHolder
  <2>3. QED
    BY <1>1, <2>2
<1>4. QED
  BY <1>2, <1>3

(* Every action keeps the invariant.                                       *)
LEMMA SoleStep ==
  ASSUME Timely, RoomForAll, DaemonTypeOK, SoleInv, [DaemonNext]_vars
  PROVE  SoleInv'
<1>a. \A c \in Client : client[c] \notin {"requesting", "polling"} /\ path \in Server => HasRoom
  BY ConnectionLeft DEF SoleInv
<1> USE DaemonAssumption DEF SoleInv, LockHeld, InRequest, StartedByHolder,
    NobodySupervises, PathNames, Supervising, Starting, DaemonTypeOK, GoServer, GoClient,
    serverVars, clientVars, Alive, Listening, Accepting, Connects
<1>1. ASSUME NEW d \in Server, Probe(d) PROVE SoleInv'
  BY <1>a, <1>1 DEF Probe, Timely, HandshakeFails, HandshakeAnswered, OpenRows
<1>2. ASSUME NEW d \in Server, ClearPath(d) PROVE SoleInv'
  BY <1>a, <1>2 DEF ClearPath, Timely, HandshakeFails, HandshakeAnswered, OpenRows
<1>3. ASSUME NEW d \in Server, Bind(d) PROVE SoleInv'
  <2>1. LockHeld'
    BY <1>3 DEF Bind, Timely
  <2>2. InRequest'
    BY <1>3 DEF Bind, Timely
  <2>3. StartedByHolder'
    BY <1>3 DEF Bind, Timely
  <2>4. NobodySupervises'
    BY <1>3 DEF Bind, Timely
  <2>5. PathNames'
    <3>1. \A e \in Starting : e = d
      BY <1>3, OneStarting DEF Bind
    <3>2. Supervising = {}
      BY <1>3 DEF Bind
    <3>3. QED
      BY <1>3, <3>1, <3>2 DEF Bind
  <2>6. QED
    BY <2>1, <2>2, <2>3, <2>4, <2>5
<1>4. ASSUME NEW d \in Server, OpenSupervisor(d) PROVE SoleInv'
  <2>1. LockHeld'
    BY <1>4 DEF OpenSupervisor, Timely
  <2>2. InRequest'
    BY <1>4 DEF OpenSupervisor, Timely
  <2>3. StartedByHolder'
    BY <1>4 DEF OpenSupervisor, Timely
  <2>4. NobodySupervises'
    <3>1. \A e \in Starting : e = d
      BY <1>4, OneStarting DEF OpenSupervisor
    <3>2. \A c \in Client : client[c] \notin {"unlinking", "spawning"}
      BY <1>4, OneStarting DEF OpenSupervisor
    <3>3. QED
      BY <1>4, <3>1, <3>2 DEF OpenSupervisor
  <2>5. PathNames'
    BY <1>4 DEF OpenSupervisor, Timely
  <2>6. QED
    BY <2>1, <2>2, <2>3, <2>4, <2>5
<1>5. ASSUME NEW d \in Server, FinishRun(d) PROVE SoleInv'
  BY <1>a, <1>5 DEF FinishRun, Timely, HandshakeFails, HandshakeAnswered, OpenRows
<1>6. ASSUME NEW d \in Server, IdleCheck(d) PROVE SoleInv'
  BY <1>a, <1>6 DEF IdleCheck, Timely, HandshakeFails, HandshakeAnswered, OpenRows
<1>7. ASSUME NEW d \in Server, IdleExit(d) PROVE SoleInv'
  BY <1>a, <1>7 DEF IdleExit, Timely, HandshakeFails, HandshakeAnswered, OpenRows
<1>8. ASSUME NEW d \in Server, RemovePath(d) PROVE SoleInv'
  BY <1>a, <1>8 DEF RemovePath, Timely, HandshakeFails, HandshakeAnswered, OpenRows
<1>9. ASSUME NEW d \in Server, Leave(d) PROVE SoleInv'
  BY <1>a, <1>9 DEF Leave, Timely, HandshakeFails, HandshakeAnswered, OpenRows
<1>10. ASSUME NEW d \in Server, Terminate(d) PROVE SoleInv'
  BY <1>a, <1>10 DEF Terminate, Timely, HandshakeFails, HandshakeAnswered, OpenRows
<1>11. ASSUME NEW d \in Server, Kill(d) PROVE SoleInv'
  BY <1>a, <1>11 DEF Kill, Timely, HandshakeFails, HandshakeAnswered, OpenRows
<1>12. ASSUME NEW d \in Server, GrowQuiet(d) PROVE SoleInv'
  BY <1>a, <1>12 DEF GrowQuiet, Timely, HandshakeFails, HandshakeAnswered, OpenRows
<1>13. ASSUME NEW c \in Client, Handshake(c) PROVE SoleInv'
  BY <1>a, <1>13 DEF Handshake, Timely, HandshakeFails, HandshakeAnswered, OpenRows
<1>14. ASSUME NEW c \in Client, Lock(c) PROVE SoleInv'
  BY <1>a, <1>14 DEF Lock, Timely, HandshakeFails, HandshakeAnswered, OpenRows
<1>15. ASSUME NEW c \in Client, Unlink(c) PROVE SoleInv'
  <2>1. LockHeld'
    BY <1>15 DEF Unlink, Timely
  <2>2. InRequest'
    BY <1>15 DEF Unlink, Timely
  <2>3. StartedByHolder'
    BY <1>15 DEF Unlink, Timely
  <2>4. NobodySupervises'
    BY <1>15 DEF Unlink, Timely
  <2>5. PathNames'
    <3>1. Starting = {}
      BY <1>15, OneStarting DEF Unlink
    <3>2. Supervising = {}
      BY <1>15 DEF Unlink
    <3>3. QED
      BY <1>15, <3>1, <3>2 DEF Unlink
  <2>6. QED
    BY <2>1, <2>2, <2>3, <2>4, <2>5
<1>16. ASSUME NEW c \in Client, Spawn(c) PROVE SoleInv'
  BY <1>a, <1>16 DEF Spawn, Timely, HandshakeFails, HandshakeAnswered, OpenRows
<1>17. ASSUME NEW c \in Client, SpawnFails(c) PROVE SoleInv'
  BY <1>a, <1>17 DEF SpawnFails, Timely, HandshakeFails, HandshakeAnswered, OpenRows
<1>18. ASSUME NEW c \in Client, Await(c) PROVE SoleInv'
  BY <1>a, <1>18 DEF Await, Timely, HandshakeFails, HandshakeAnswered, OpenRows
<1>19. ASSUME NEW c \in Client, Refused(c) PROVE SoleInv'
  BY <1>a, <1>19 DEF Refused, Timely, HandshakeFails, HandshakeAnswered, OpenRows
<1>20. ASSUME NEW c \in Client, Connect(c) PROVE SoleInv'
  BY <1>a, <1>20 DEF Connect, Timely, HandshakeFails, HandshakeAnswered, OpenRows
<1>21. ASSUME NEW c \in Client, StartRun(c) PROVE SoleInv'
  BY <1>a, <1>21 DEF StartRun, Timely, HandshakeFails, HandshakeAnswered, OpenRows
<1>22. ASSUME NEW c \in Client, PollAnswered(c) PROVE SoleInv'
  BY <1>a, <1>22 DEF PollAnswered, Timely, HandshakeFails, HandshakeAnswered, OpenRows
<1>23. ASSUME NEW c \in Client, HungUp(c) PROVE SoleInv'
  BY <1>a, <1>23 DEF HungUp, Timely, HandshakeFails, HandshakeAnswered, OpenRows
<1>24. ASSUME NEW c \in Client, Retry(c) PROVE SoleInv'
  BY <1>a, <1>24 DEF Retry, Timely, HandshakeFails, HandshakeAnswered, OpenRows
<1>25. CASE UNCHANGED vars
  BY <1>25 DEF vars, Timely, HandshakeFails, HandshakeAnswered, OpenRows
<1>26. QED
  BY <1>1, <1>2, <1>3, <1>4, <1>5, <1>6, <1>7, <1>8, <1>9, <1>10, <1>11, <1>12, <1>13,
     <1>14, <1>15, <1>16, <1>17, <1>18, <1>19, <1>20, <1>21, <1>22, <1>23, <1>24, <1>25
     DEF DaemonNext, Disturb, ServerStep, ClientStep

-----------------------------------------------------------------------------
(* Rows *)

(* Rows are written by the recovery of a daemon that opens the table, by a *)
(* worker that ends, and by an insertion, and by nothing else.             *)
LEMMA RowsChange ==
  ASSUME [DaemonNext]_vars
  PROVE  \/ rows' = rows
         \/ \E d \in Server : OpenSupervisor(d) \/ FinishRun(d)
         \/ \E c \in Client : StartRun(c)
<1>1. CASE \E d \in Server : ServerStep(d)
  BY <1>1 DEF ServerStep, Probe, ClearPath, Bind, IdleCheck, IdleExit, RemovePath, Leave
<1>2. CASE \E c \in Client : ClientStep(c) \/ Retry(c)
  BY <1>2 DEF ClientStep, Handshake, Lock, Unlink, Spawn, SpawnFails, Await, Refused,
     Connect,
              PollAnswered, HungUp, Retry
<1>3. CASE Disturb
  BY <1>3 DEF Disturb, Terminate, Kill, GrowQuiet
<1>4. CASE UNCHANGED vars
  BY <1>4 DEF vars
<1>5. QED
  BY <1>1, <1>2, <1>3, <1>4 DEF DaemonNext

(* What every step does to rows: none is removed, and no closed one is     *)
(* opened again.                                                           *)
RowsKept ==
  /\ DOMAIN rows \subseteq DOMAIN rows'
  /\ \A i \in DOMAIN rows :
       /\ rows'[i].request = rows[i].request
       /\ rows'[i].owner = rows[i].owner
       /\ rows[i].state # "open" => rows'[i].state # "open"

(* Every step keeps the rows so.                                           *)
LEMMA RowsKeep ==
  ASSUME DaemonTypeOK, [DaemonNext]_vars
  PROVE  RowsKept
<1> USE DEF DaemonTypeOK
<1>1. CASE rows' = rows
  BY <1>1 DEF RowsKept
<1>2. ASSUME NEW d \in Server, OpenSupervisor(d)
      PROVE  RowsKept
  <2>1. \A i \in DOMAIN rows : rows[i] \in Row
    OBVIOUS
  <2>2. \A r \in Row : LET w == [r EXCEPT !.state = "lost"]
                        IN  w.request = r.request /\ w.owner = r.owner /\ w.state = "lost"
    BY DEF Row
  <2>3. QED
    BY <1>2, <2>1, <2>2 DEF OpenSupervisor, RowsKept
<1>3. ASSUME NEW d \in Server, FinishRun(d)
      PROVE  RowsKept
  <2>1. PICK k \in DOMAIN rows : rows' = [rows EXCEPT ![k].state = "finished"]
    BY <1>3 DEF FinishRun, OpenRows
  <2>2. \A i \in DOMAIN rows : rows[i] \in Row
    OBVIOUS
  <2>3. \A r \in Row : LET w == [r EXCEPT !.state = "finished"]
                        IN  w.request = r.request /\ w.owner = r.owner /\ w.state = "finished"
    BY DEF Row
  <2>4. QED
    BY <2>1, <2>2, <2>3 DEF RowsKept
<1>4. ASSUME NEW c \in Client, StartRun(c)
      PROVE  RowsKept
  BY <1>4 DEF StartRun, RowsKept
<1>5. QED
  BY <1>1, <1>2, <1>3, <1>4, RowsChange DEF RowsKept

(* A daemon that has served serves or has gone, and one that has gone      *)
(* stays gone.                                                             *)
LEMMA ServersStay ==
  ASSUME DaemonTypeOK, [DaemonNext]_vars
  PROVE  /\ auto' = auto
         /\ \A d \in Server :
              /\ server[d] \in {"serving", "idle", "draining", "leaving", "gone"}
                    => server'[d] \in {"serving", "idle", "draining", "leaving", "gone"}
              /\ server[d] = "gone" => server'[d] = "gone"
<1> DEFINE Stay == /\ auto' = auto
                   /\ \A d \in Server :
                        /\ server[d] \in {"serving", "idle", "draining", "leaving", "gone"}
                              => server'[d] \in {"serving", "idle", "draining", "leaving", "gone"}
                        /\ server[d] = "gone" => server'[d] = "gone"
<1> USE DEF DaemonTypeOK, GoServer, serverVars, Accepting, Listening, Alive
<1>1. ASSUME NEW d \in Server, Probe(d) PROVE Stay
  BY <1>1 DEF Probe
<1>2. ASSUME NEW d \in Server, ClearPath(d) PROVE Stay
  BY <1>2 DEF ClearPath
<1>3. ASSUME NEW d \in Server, Bind(d) PROVE Stay
  BY <1>3 DEF Bind
<1>4. ASSUME NEW d \in Server, OpenSupervisor(d) PROVE Stay
  BY <1>4 DEF OpenSupervisor
<1>5. ASSUME NEW d \in Server, FinishRun(d) PROVE Stay
  BY <1>5 DEF FinishRun
<1>6. ASSUME NEW d \in Server, IdleCheck(d) PROVE Stay
  BY <1>6 DEF IdleCheck
<1>7. ASSUME NEW d \in Server, IdleExit(d) PROVE Stay
  BY <1>7 DEF IdleExit
<1>8. ASSUME NEW d \in Server, RemovePath(d) PROVE Stay
  BY <1>8 DEF RemovePath
<1>9. ASSUME NEW d \in Server, Leave(d) PROVE Stay
  BY <1>9 DEF Leave
<1>10. ASSUME NEW d \in Server, Terminate(d) PROVE Stay
  BY <1>10 DEF Terminate
<1>11. ASSUME NEW d \in Server, Kill(d) PROVE Stay
  BY <1>11 DEF Kill
<1>12. ASSUME NEW d \in Server, GrowQuiet(d) PROVE Stay
  BY <1>12 DEF GrowQuiet
<1>13. ASSUME NEW c \in Client, Handshake(c) PROVE Stay
  BY <1>13 DEF Handshake
<1>14. ASSUME NEW c \in Client, Lock(c) PROVE Stay
  BY <1>14 DEF Lock
<1>15. ASSUME NEW c \in Client, Unlink(c) PROVE Stay
  BY <1>15 DEF Unlink
<1>16. ASSUME NEW c \in Client, Spawn(c) PROVE Stay
  BY <1>16 DEF Spawn
<1>17. ASSUME NEW c \in Client, SpawnFails(c) PROVE Stay
  BY <1>17 DEF SpawnFails
<1>18. ASSUME NEW c \in Client, Await(c) PROVE Stay
  BY <1>18 DEF Await
<1>19. ASSUME NEW c \in Client, Refused(c) PROVE Stay
  BY <1>19 DEF Refused
<1>20. ASSUME NEW c \in Client, Connect(c) PROVE Stay
  BY <1>20 DEF Connect
<1>21. ASSUME NEW c \in Client, StartRun(c) PROVE Stay
  BY <1>21 DEF StartRun
<1>22. ASSUME NEW c \in Client, PollAnswered(c) PROVE Stay
  BY <1>22 DEF PollAnswered
<1>23. ASSUME NEW c \in Client, HungUp(c) PROVE Stay
  BY <1>23 DEF HungUp
<1>24. ASSUME NEW c \in Client, Retry(c) PROVE Stay
  BY <1>24 DEF Retry
<1>25. CASE UNCHANGED vars
  BY <1>25 DEF vars
<1>26. QED
  BY <1>1, <1>2, <1>3, <1>4, <1>5, <1>6, <1>7, <1>8, <1>9, <1>10, <1>11, <1>12, <1>13,
     <1>14, <1>15, <1>16, <1>17, <1>18, <1>19, <1>20, <1>21, <1>22, <1>23, <1>24, <1>25
     DEF DaemonNext, Disturb, ServerStep, ClientStep

(* Every action leaves every row with an owner that has served.            *)
LEMMA OwnersStep ==
  ASSUME DaemonTypeOK, OwnersServed, [DaemonNext]_vars
  PROVE  OwnersServed'
<1>1. \A d \in Server :
        server[d] \in {"serving", "idle", "draining", "leaving", "gone"}
          => server'[d] \in {"serving", "idle", "draining", "leaving", "gone"}
  BY ServersStay
<1> DEFINE New(i) == /\ rows'[i].owner \in Server
                     /\ server'[rows'[i].owner] \in {"serving", "idle", "draining", "leaving"}
<1>2. \A i \in DOMAIN rows' : i \in DOMAIN rows \/ New(i)
  <2>1. CASE rows' = rows
    BY <2>1
  <2>2. ASSUME NEW d \in Server, OpenSupervisor(d) PROVE DOMAIN rows' = DOMAIN rows
    BY <2>2 DEF OpenSupervisor
  <2>3. ASSUME NEW d \in Server, FinishRun(d) PROVE DOMAIN rows' = DOMAIN rows
    BY <2>3 DEF FinishRun
  <2>4. ASSUME NEW c \in Client, StartRun(c), NEW i \in DOMAIN rows', i \notin DOMAIN rows
        PROVE  New(i)
    <3>1. PICK d \in Accepting :
            \/ rows' = rows
            \/ rows' = Append(rows, [request |-> c, owner |-> d, state |-> "open"])
      BY <2>4 DEF StartRun
    <3>2. rows'[i].owner = d
      BY <2>4, <3>1 DEF DaemonTypeOK
    <3>3. server' = server
      BY <2>4 DEF StartRun
    <3>4. QED
      BY <3>1, <3>2, <3>3 DEF Accepting, Listening
  <2> HIDE DEF New
  <2>5. CASE \E d \in Server : OpenSupervisor(d) \/ FinishRun(d)
    BY <2>2, <2>3, <2>5
  <2>6. CASE \E c \in Client : StartRun(c)
    BY <2>4, <2>6
  <2>7. QED
    BY <2>1, <2>5, <2>6, RowsChange
<1>3. \A i \in DOMAIN rows : rows[i].owner \in Server /\ rows'[i].owner = rows[i].owner
  <2>1. \A i \in DOMAIN rows : rows[i] \in Row
    BY DEF DaemonTypeOK
  <2>2. QED
    BY <2>1, RowsKeep DEF RowsKept, Row
<1> HIDE DEF New
<1>4. ASSUME NEW i \in DOMAIN rows'
      PROVE  server'[rows'[i].owner] \in {"serving", "idle", "draining", "leaving", "gone"}
  BY <1>1, <1>2, <1>3 DEF OwnersServed, New
<1>5. QED
  BY <1>4 DEF OwnersServed

(* A client ends with an answer only about a run that has ended.           *)
LEMMA DoneByAnswer ==
  ASSUME DaemonTypeOK, [DaemonNext]_vars, NEW b \in Client, client'[b] = "done"
  PROVE  client[b] = "done" \/ \E i \in RowsOf(b) : rows[i].state # "open"
<1> DEFINE Answered == client[b] = "done" \/ \E i \in RowsOf(b) : rows[i].state # "open"
<1> USE DEF DaemonTypeOK, GoClient, clientVars
<1>1. ASSUME NEW d \in Server, Probe(d) PROVE Answered
  BY <1>1 DEF Probe
<1>2. ASSUME NEW d \in Server, ClearPath(d) PROVE Answered
  BY <1>2 DEF ClearPath
<1>3. ASSUME NEW d \in Server, Bind(d) PROVE Answered
  BY <1>3 DEF Bind
<1>4. ASSUME NEW d \in Server, OpenSupervisor(d) PROVE Answered
  BY <1>4 DEF OpenSupervisor
<1>5. ASSUME NEW d \in Server, FinishRun(d) PROVE Answered
  BY <1>5 DEF FinishRun
<1>6. ASSUME NEW d \in Server, IdleCheck(d) PROVE Answered
  BY <1>6 DEF IdleCheck
<1>7. ASSUME NEW d \in Server, IdleExit(d) PROVE Answered
  BY <1>7 DEF IdleExit
<1>8. ASSUME NEW d \in Server, RemovePath(d) PROVE Answered
  BY <1>8 DEF RemovePath
<1>9. ASSUME NEW d \in Server, Leave(d) PROVE Answered
  BY <1>9 DEF Leave
<1>10. ASSUME NEW d \in Server, Terminate(d) PROVE Answered
  BY <1>10 DEF Terminate
<1>11. ASSUME NEW d \in Server, Kill(d) PROVE Answered
  BY <1>11 DEF Kill
<1>12. ASSUME NEW d \in Server, GrowQuiet(d) PROVE Answered
  BY <1>12 DEF GrowQuiet
<1>13. ASSUME NEW c \in Client, Handshake(c) PROVE Answered
  BY <1>13 DEF Handshake
<1>14. ASSUME NEW c \in Client, Lock(c) PROVE Answered
  BY <1>14 DEF Lock
<1>15. ASSUME NEW c \in Client, Unlink(c) PROVE Answered
  BY <1>15 DEF Unlink
<1>16. ASSUME NEW c \in Client, Spawn(c) PROVE Answered
  BY <1>16 DEF Spawn
<1>17. ASSUME NEW c \in Client, SpawnFails(c) PROVE Answered
  BY <1>17 DEF SpawnFails
<1>18. ASSUME NEW c \in Client, Await(c) PROVE Answered
  BY <1>18 DEF Await
<1>19. ASSUME NEW c \in Client, Refused(c) PROVE Answered
  BY <1>19 DEF Refused
<1>20. ASSUME NEW c \in Client, Connect(c) PROVE Answered
  BY <1>20 DEF Connect
<1>21. ASSUME NEW c \in Client, StartRun(c) PROVE Answered
  BY <1>21 DEF StartRun
<1>22. ASSUME NEW c \in Client, PollAnswered(c) PROVE Answered
  BY <1>22 DEF PollAnswered
<1>23. ASSUME NEW c \in Client, HungUp(c) PROVE Answered
  BY <1>23 DEF HungUp
<1>24. ASSUME NEW c \in Client, Retry(c) PROVE Answered
  BY <1>24 DEF Retry
<1>25. CASE UNCHANGED vars
  BY <1>25 DEF vars
<1>26. QED
  BY <1>1, <1>2, <1>3, <1>4, <1>5, <1>6, <1>7, <1>8, <1>9, <1>10, <1>11, <1>12, <1>13,
     <1>14, <1>15, <1>16, <1>17, <1>18, <1>19, <1>20, <1>21, <1>22, <1>23, <1>24, <1>25
     DEF DaemonNext, Disturb, ServerStep, ClientStep

(* Every action keeps one row for a request id: an insertion is made only  *)
(* when there is none.                                                     *)
LEMMA OneRowStep ==
  ASSUME DaemonTypeOK, OneRow, [DaemonNext]_vars
  PROVE  OneRow'
<1>0. \A i \in DOMAIN rows : rows[i] \in Row
  BY DEF DaemonTypeOK
<1>1. \A i, j \in DOMAIN rows' : rows'[i].request = rows'[j].request => i = j
  <2>1. CASE rows' = rows
    BY <2>1 DEF OneRow
  <2>2. CASE DOMAIN rows' = DOMAIN rows
    BY <2>2, RowsKeep DEF RowsKept, OneRow
  <2>3. ASSUME NEW c \in Client, StartRun(c), rows' # rows
        PROVE  \A i, j \in DOMAIN rows' : rows'[i].request = rows'[j].request => i = j
    <3>1. PICK d \in Server : /\ rows' = Append(rows, [request |-> c, owner |-> d, state |-> "open"])
                              /\ RowsOf(c) = {}
      BY <2>3 DEF StartRun, Accepting, Listening
    <3>2. \A i \in DOMAIN rows : rows[i].request # c
      BY <3>1 DEF RowsOf
    <3>3. /\ DOMAIN rows' = 1..(Len(rows) + 1) /\ DOMAIN rows = 1..Len(rows) /\ Len(rows) \in Nat
          /\ \A i \in DOMAIN rows : rows'[i] = rows[i]
          /\ rows'[Len(rows) + 1].request = c
      BY <3>1 DEF DaemonTypeOK
    <3>4. \A i \in DOMAIN rows' : i \in DOMAIN rows \/ i = Len(rows) + 1
      BY <3>3
    <3>5. QED
      BY <3>2, <3>3, <3>4 DEF OneRow
  <2>4. \A d \in Server : OpenSupervisor(d) \/ FinishRun(d) => DOMAIN rows' = DOMAIN rows
    BY DEF OpenSupervisor, FinishRun
  <2>5. QED
    BY <2>1, <2>2, <2>3, <2>4, RowsChange
<1>2. ASSUME NEW c \in Client, client'[c] = "done"
      PROVE  \E i \in DOMAIN rows' : rows'[i].request = c /\ rows'[i].state # "open"
  <2>1. \/ client[c] = "done"
        \/ \E i \in RowsOf(c) : rows[i].state # "open"
    BY <1>2, DoneByAnswer
  <2>2. PICK i \in DOMAIN rows : rows[i].request = c /\ rows[i].state # "open"
    BY <2>1 DEF OneRow, RowsOf
  <2>3. QED
    BY <2>2, RowsKeep DEF RowsKept
<1>3. QED
  BY <1>1, <1>2 DEF OneRow, RowsOf

-----------------------------------------------------------------------------
(* Failure *)

(* Stops are not taken back.                                               *)
LEMMA StopsGrow ==
  ASSUME DaemonTypeOK, DaemonNext \/ UNCHANGED vars, stops' = 0
  PROVE  stops = 0
<1>1. CASE \E d \in Server : ServerStep(d)
  BY <1>1 DEF ServerStep, Probe, ClearPath, Bind, OpenSupervisor, FinishRun, IdleCheck,
     IdleExit,
              RemovePath, Leave, serverVars
<1>2. CASE \E c \in Client : ClientStep(c) \/ Retry(c)
  BY <1>2 DEF ClientStep, Handshake, Lock, Unlink, Spawn, SpawnFails, Await, Refused,
     Connect,
              StartRun, PollAnswered, HungUp, Retry, serverVars
<1>3. CASE Disturb
  BY <1>3, DaemonAssumption DEF Disturb, Terminate, Kill, GrowQuiet, DaemonTypeOK
<1>4. CASE UNCHANGED vars
  BY <1>4 DEF vars
<1>5. QED
  BY <1>1, <1>2, <1>3, <1>4 DEF DaemonNext

(* While nothing disturbs them daemons and clients keep their promises: a  *)
(* client with the lock finds a process to start, the child serves before  *)
(* the wait ends, and the daemon that serves goes on to do so.             *)
LEMMA CalmStep ==
  ASSUME Timely, RoomForAll, Server # {}, DaemonTypeOK, SoleInv, CalmInv, [DaemonNext]_vars
  PROVE  CalmInv'
<1> SUFFICES ASSUME Calm'
             PROVE  Undisturbed'
  BY DEF CalmInv
<1>a. \A c \in Client : client[c] \notin {"requesting", "polling"} /\ path \in Server => HasRoom
  BY ConnectionLeft DEF SoleInv
<1>b. /\ \A d, e \in Starting : d = e
      /\ \A c \in Client, d \in Starting : client[c] \notin {"rechecking", "unlinking", "spawning"}
  BY OneStarting DEF SoleInv
<1>1. Calm /\ Undisturbed
  BY ServersStay, StopsGrow DEF CalmInv, Calm, DaemonTypeOK
<1> USE DEF SoleInv, LockHeld, InRequest, NobodySupervises, PathNames, Undisturbed,
    Supervising, Starting, DaemonTypeOK, GoServer, GoClient, serverVars, clientVars, Alive,
    Listening, Accepting, Connects, HandshakeAnswered, Timely
<1>2. ASSUME NEW d \in Server, Probe(d) PROVE Undisturbed'
  BY <1>a, <1>b, <1>1, <1>2 DEF Probe, Calm, HandshakeFails, OpenRows
<1>3. ASSUME NEW d \in Server, ClearPath(d) PROVE Undisturbed'
  BY <1>a, <1>b, <1>1, <1>3 DEF ClearPath, Calm, HandshakeFails, OpenRows
<1>4. ASSUME NEW d \in Server, Bind(d) PROVE Undisturbed'
  BY <1>a, <1>b, <1>1, <1>4 DEF Bind, Calm, HandshakeFails, OpenRows
<1>5. ASSUME NEW d \in Server, OpenSupervisor(d) PROVE Undisturbed'
  BY <1>a, <1>b, <1>1, <1>5 DEF OpenSupervisor, Calm, HandshakeFails, OpenRows
<1>6. ASSUME NEW d \in Server, FinishRun(d) PROVE Undisturbed'
  BY <1>a, <1>b, <1>1, <1>6 DEF FinishRun, Calm, HandshakeFails, OpenRows
<1>7. ASSUME NEW d \in Server, IdleCheck(d) PROVE Undisturbed'
  BY <1>a, <1>b, <1>1, <1>7 DEF IdleCheck, Calm, HandshakeFails, OpenRows
<1>8. ASSUME NEW d \in Server, IdleExit(d) PROVE Undisturbed'
  <2>1. d \notin quiet
    <3>1. d \in auto /\ auto' = auto
      BY <1>1, <1>8 DEF IdleExit, Undisturbed
    <3>2. server'[d] # "gone"
      BY <3>1 DEF Calm
    <3>3. QED
      BY <1>8, <3>2 DEF IdleExit
  <2>2. server' = [server EXCEPT ![d] = "serving"] /\ server[d] = "idle"
    BY <1>8, <2>1 DEF IdleExit
  <2>3. conns' = conns /\ UNCHANGED <<client, child>>
    BY <1>8, <2>1 DEF IdleExit
  <2>4. QED
    BY <1>1, <2>2, <2>3
<1>9. ASSUME NEW d \in Server, RemovePath(d) PROVE Undisturbed'
  BY <1>a, <1>b, <1>1, <1>9 DEF RemovePath, Calm, HandshakeFails, OpenRows
<1>10. ASSUME NEW d \in Server, Leave(d) PROVE Undisturbed'
  BY <1>a, <1>b, <1>1, <1>10 DEF Leave, Calm, HandshakeFails, OpenRows
<1>11. ASSUME NEW d \in Server, Terminate(d) PROVE Undisturbed'
  BY <1>a, <1>b, <1>1, <1>11 DEF Terminate, Calm, HandshakeFails, OpenRows
<1>12. ASSUME NEW d \in Server, Kill(d) PROVE Undisturbed'
  BY <1>a, <1>b, <1>1, <1>12 DEF Kill, Calm, HandshakeFails, OpenRows
<1>13. ASSUME NEW d \in Server, GrowQuiet(d) PROVE Undisturbed'
  BY <1>a, <1>b, <1>1, <1>13 DEF GrowQuiet, Calm, HandshakeFails, OpenRows
<1>14. ASSUME NEW c \in Client, Handshake(c) PROVE Undisturbed'
  BY <1>a, <1>b, <1>1, <1>14 DEF Handshake, Calm, HandshakeFails, OpenRows
<1>15. ASSUME NEW c \in Client, Lock(c) PROVE Undisturbed'
  BY <1>a, <1>b, <1>1, <1>15 DEF Lock, Calm, HandshakeFails, OpenRows
<1>16. ASSUME NEW c \in Client, Unlink(c) PROVE Undisturbed'
  BY <1>a, <1>b, <1>1, <1>16 DEF Unlink, Calm, HandshakeFails, OpenRows
<1>17. ASSUME NEW c \in Client, Spawn(c) PROVE Undisturbed'
  BY <1>a, <1>b, <1>1, <1>17 DEF Spawn, Calm, HandshakeFails, OpenRows
<1>18. ASSUME NEW c \in Client, SpawnFails(c) PROVE Undisturbed'
  <2>1. Starting = {} /\ Supervising = {}
    BY <1>b, <1>18 DEF SpawnFails
  <2>2. \A d \in Server : server[d] \in ServerState
    OBVIOUS
  <2>3. \A d \in Server : server[d] = "unused"
    BY <1>1, <2>1, <2>2 DEF ServerState
  <2>4. QED
    BY <1>18, <2>3 DEF SpawnFails
<1>19. ASSUME NEW c \in Client, Await(c) PROVE Undisturbed'
  <2>1. HandshakeAnswered
    <3>1. CASE Starting = {}
      <4>1. child[c] \in Server /\ server[child[c]] \notin {"unused", "draining", "leaving", "gone"}
        BY <1>1, <1>19 DEF Await
      <4>2. server[child[c]] \in ServerState
        BY <4>1
      <4>3. server[child[c]] \in {"serving", "idle"}
        BY <3>1, <4>1, <4>2 DEF ServerState
      <4>4. path = child[c] /\ path \in Accepting
        BY <4>1, <4>3
      <4>5. QED
        BY <1>a, <1>19, <4>1, <4>4 DEF Await
    <3>2. QED
      BY <1>19, <3>1 DEF Await
  <2>2. /\ client' = [client EXCEPT ![c] = "starting"]
        /\ UNCHANGED <<server, child, conns>>
    BY <1>19, <2>1 DEF Await
  <2>3. \E d \in Server : server[d] \in {"serving", "idle"}
    <3>1. path \in Server /\ server[path] \in {"serving", "idle"}
      BY <1>1, <2>1
    <3>2. QED
      BY <3>1
  <2>4. QED
    BY <1>1, <1>19, <2>2, <2>3 DEF Await
<1>20. ASSUME NEW c \in Client, Refused(c) PROVE Undisturbed'
  BY <1>a, <1>b, <1>1, <1>20 DEF Refused, Calm, HandshakeFails, OpenRows
<1>21. ASSUME NEW c \in Client, Connect(c) PROVE Undisturbed'
  BY <1>a, <1>b, <1>1, <1>21 DEF Connect, Calm, HandshakeFails, OpenRows
<1>22. ASSUME NEW c \in Client, StartRun(c) PROVE Undisturbed'
  BY <1>a, <1>b, <1>1, <1>22 DEF StartRun, Calm, HandshakeFails, OpenRows
<1>23. ASSUME NEW c \in Client, PollAnswered(c) PROVE Undisturbed'
  BY <1>a, <1>b, <1>1, <1>23 DEF PollAnswered, Calm, HandshakeFails, OpenRows
<1>24. ASSUME NEW c \in Client, HungUp(c) PROVE Undisturbed'
  BY <1>a, <1>b, <1>1, <1>24 DEF HungUp, Calm, HandshakeFails, OpenRows
<1>25. ASSUME NEW c \in Client, Retry(c) PROVE Undisturbed'
  BY <1>a, <1>b, <1>1, <1>25 DEF Retry, Calm, HandshakeFails, OpenRows
<1>26. CASE UNCHANGED vars
  BY <1>1, <1>26 DEF vars, Calm, HandshakeFails, OpenRows
<1>27. QED
  BY <1>2, <1>3, <1>4, <1>5, <1>6, <1>7, <1>8, <1>9, <1>10, <1>11, <1>12, <1>13, <1>14,
     <1>15, <1>16, <1>17, <1>18, <1>19, <1>20, <1>21, <1>22, <1>23, <1>24, <1>25, <1>26
     DEF DaemonNext, Disturb, ServerStep, ClientStep

-----------------------------------------------------------------------------
(* Theorems *)

(* The first states are typed.                                             *)
LEMMA TypeInit ==
  ASSUME DaemonInit
  PROVE  DaemonTypeOK
BY DaemonAssumption DEF DaemonInit, DaemonTypeOK, ServerState, ClientState

(* Nothing runs, or one idle daemon that the path leads to.                *)
LEMMA SoleInit ==
  ASSUME DaemonInit
  PROVE  SoleInv
BY DaemonAssumption DEF DaemonInit, SoleInv, LockHeld, InRequest, StartedByHolder,
   NobodySupervises,
       PathNames, Supervising, Starting

(* The table is empty.                                                     *)
LEMMA RowsInit ==
  ASSUME DaemonInit
  PROVE  OwnersServed /\ OneRow
BY DEF DaemonInit, OwnersServed, OneRow

(* No client has failed.                                                   *)
LEMMA CalmInit ==
  ASSUME DaemonInit
  PROVE  CalmInv
BY DaemonAssumption DEF DaemonInit, CalmInv, Undisturbed

(* The state of daemons and clients keeps its type, for any constants.     *)
THEOREM DaemonTypeCorrect == DaemonSpec => []DaemonTypeOK
<1>1. DaemonInit => DaemonTypeOK
  BY TypeInit
<1>2. DaemonTypeOK /\ [DaemonNext]_vars => DaemonTypeOK'
  BY TypeStep
<1>3. QED
  BY <1>1, <1>2, PTL DEF DaemonSpec

(* At most one daemon owns the store, and one that serves is the one the   *)
(* path of the socket leads to (server.rs serve, client.rs                 *)
(* ensure_supervisor), provided the timeouts are kept and there is room.   *)
THEOREM OneDaemon ==
  ASSUME Timely, RoomForAll
  PROVE  DaemonSpec => []SoleAndReachable
<1>1. DaemonInit => DaemonTypeOK /\ SoleInv
  BY TypeInit, SoleInit
<1>2. DaemonTypeOK /\ SoleInv /\ [DaemonNext]_vars => (DaemonTypeOK /\ SoleInv)'
  BY TypeStep, SoleStep
<1>3. DaemonTypeOK /\ SoleInv => SoleAndReachable
  BY DEF SoleInv, PathNames, SoleAndReachable, OneSupervisor, ServingIsReachable
<1>4. QED
  BY <1>1, <1>2, <1>3, PTL DEF DaemonSpec

(* Recovery (mod.rs:1202) declares a run lost only when the daemon that    *)
(* owned it has gone, under the same conditions.                           *)
THEOREM LostRunsHadNoOwner ==
  ASSUME Timely, RoomForAll
  PROVE  DaemonSpec => LostMeansOwnerGone
<1> DEFINE Inv == DaemonTypeOK /\ SoleInv /\ OwnersServed
<1> DEFINE OwnerGone == \A i \in DOMAIN rows :
                          rows[i].state = "open" /\ rows'[i].state = "lost"
                            => server[rows[i].owner] = "gone"
<1>1. DaemonInit => Inv
  BY TypeInit, SoleInit, RowsInit
<1>2. Inv /\ [DaemonNext]_vars => Inv'
  BY TypeStep, SoleStep, OwnersStep
<1>3. Inv /\ [DaemonNext]_vars => [OwnerGone]_vars
  <2> SUFFICES ASSUME Inv, [DaemonNext]_vars, NEW i \in DOMAIN rows,
                      rows[i].state = "open", rows'[i].state = "lost"
               PROVE  server[rows[i].owner] = "gone"
    OBVIOUS
  <2>1. rows[i] \in Row /\ rows[i].owner \in Server
    <3>1. rows[i] \in Row
      BY DEF DaemonTypeOK
    <3>2. QED
      BY <3>1 DEF Row
  <2>2. PICK d \in Server : OpenSupervisor(d)
    <3>1. rows' # rows
      BY <2>1
    <3>2. ~ \E d \in Server : FinishRun(d)
      <4> SUFFICES ASSUME NEW d \in Server, FinishRun(d) PROVE FALSE
        OBVIOUS
      <4>1. PICK k \in DOMAIN rows : rows' = [rows EXCEPT ![k].state = "finished"]
        BY DEF FinishRun, OpenRows
      <4>2. rows'[i] = rows[i] \/ rows'[i].state = "finished"
        BY <4>1, <2>1 DEF Row
      <4>3. QED
        BY <4>2
    <3>3. ~ \E c \in Client : StartRun(c)
      <4> SUFFICES ASSUME NEW c \in Client, StartRun(c) PROVE FALSE
        OBVIOUS
      <4>1. rows'[i] = rows[i]
        BY DEF StartRun, DaemonTypeOK
      <4>2. QED
        BY <4>1
    <3>4. QED
      BY <3>1, <3>2, <3>3, RowsChange
  <2>3. server[d] = "opening" /\ \A e \in Server : server[e] # "leaving"
    BY <2>2 DEF OpenSupervisor, Timely
  <2>4. Supervising = {}
    BY <2>3 DEF SoleInv, NobodySupervises, Starting
  <2>5. QED
    BY <2>1, <2>3, <2>4 DEF OwnersServed, Supervising
<1> HIDE DEF Inv
<1>4. QED
  BY <1>1, <1>2, <1>3, PTL DEF DaemonSpec, LostMeansOwnerGone

(* However often a client is invoked and whatever happens to the daemons,  *)
(* even to several at once, a request id has at most one run, and an       *)
(* answer means that it has ended (run_insert).                            *)
THEOREM OneRunPerRequestAlways == DaemonSpec => []OneRunPerRequest
<1>1. DaemonInit => DaemonTypeOK /\ OneRow
  BY TypeInit, RowsInit
<1>2. DaemonTypeOK /\ OneRow /\ [DaemonNext]_vars => (DaemonTypeOK /\ OneRow)'
  BY TypeStep, OneRowStep
<1>3. DaemonTypeOK /\ OneRow => OneRunPerRequest
  <2> SUFFICES ASSUME OneRow, NEW c \in Client PROVE Cardinality(RowsOf(c)) <= 1
    BY DEF OneRow, OneRunPerRequest
  <2>1. CASE RowsOf(c) = {}
    BY <2>1, FS_EmptySet
  <2>2. ASSUME NEW i \in RowsOf(c) PROVE RowsOf(c) = {i}
    BY <2>2 DEF OneRow, RowsOf
  <2>3. ASSUME NEW i \in RowsOf(c) PROVE Cardinality(RowsOf(c)) = 1
    <3>1. Cardinality({i}) = 1
      BY FS_Singleton
    <3>2. QED
      BY <2>2, <2>3, <3>1
  <2>4. CASE RowsOf(c) # {}
    BY <2>3, <2>4
  <2>5. QED
    BY <2>1, <2>4, FS_EmptySet
<1>4. QED
  BY <1>1, <1>2, <1>3, PTL DEF DaemonSpec

(* Clients that start together, in any number, do not fail for it: `wyd    *)
(* run` fails only when a daemon was stopped or went idle under it, as     *)
(* long as a process can be started at all.                                *)
THEOREM RefusedOnlyOnStop ==
  ASSUME Timely, RoomForAll, Server # {}
  PROVE  DaemonSpec => []FailsOnlyOnStop
<1>1. DaemonInit => DaemonTypeOK /\ SoleInv /\ CalmInv
  BY TypeInit, SoleInit, CalmInit
<1>2. DaemonTypeOK /\ SoleInv /\ CalmInv /\ [DaemonNext]_vars
        => (DaemonTypeOK /\ SoleInv /\ CalmInv)'
  BY TypeStep, SoleStep, CalmStep
<1>3. DaemonTypeOK /\ CalmInv => FailsOnlyOnStop
  BY DaemonAssumption DEF CalmInv, Calm, Undisturbed, FailsOnlyOnStop, DaemonTypeOK
<1>4. QED
  BY <1>1, <1>2, <1>3, PTL DEF DaemonSpec
=============================================================================
