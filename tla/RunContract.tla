----------------------------- MODULE RunContract -----------------------------
(***************************************************************************)
(* What `wyd` promises about one managed run, whatever its supervisor goes *)
(* through: a request is opened once and closed once, with one result that *)
(* never changes; processes are started only for an open run; and a run is *)
(* closed as completely cleaned up only when none of its processes lives.  *)
(* A supervisor that closes a run of an earlier one may know less and then *)
(* promises less: no process that was recorded lives.                      *)
(***************************************************************************)
CONSTANTS
  RunId,
  Result      \* records with an outcome and what the cleanup left

VARIABLES
  status,     \* "absent", "open" or "closed"
  result,     \* what a closed run reports
  alive       \* whether a process of the run's group lives, and is recorded:
              \* "none", "unseen" or "seen"

contractVars == <<status, result, alive>>

Living == {"none", "unseen", "seen"}

Open(id) ==
  /\ status[id] = "absent"
  /\ status' = [status EXCEPT ![id] = "open"]
  /\ UNCHANGED <<result, alive>>

Spawn(id) ==
  /\ status[id] = "open"
  /\ alive[id] = "none"
  /\ \E living \in {"unseen", "seen"} : alive' = [alive EXCEPT ![id] = living]
  /\ UNCHANGED <<status, result>>

\* Living processes fork, are recorded and die.
Live(id) ==
  /\ alive[id] # "none"
  /\ \E living \in Living : alive' = [alive EXCEPT ![id] = living]
  /\ UNCHANGED <<status, result>>

\* What a result says of the processes the run leaves behind.
Honest(r, living) ==
  r.cleanup = "complete" =>
    IF r.outcome = "supervisor_lost" THEN living # "seen" ELSE living = "none"

\* Processes may be killed in the same step.
Close(id) ==
  /\ status[id] = "open"
  /\ status' = [status EXCEPT ![id] = "closed"]
  /\ \E r \in Result, living \in Living :
        /\ alive[id] = "none" => living = "none"
        /\ Honest(r, living)
        /\ result' = [result EXCEPT ![id] = r]
        /\ alive' = [alive EXCEPT ![id] = living]

\* The machine restarts.
AllDie ==
  /\ alive' = [id \in RunId |-> "none"]
  /\ UNCHANGED <<status, result>>

ContractInit ==
  /\ status = [id \in RunId |-> "absent"]
  /\ alive = [id \in RunId |-> "none"]

ContractNext ==
  \/ \E id \in RunId : Open(id) \/ Spawn(id) \/ Live(id) \/ Close(id)
  \/ AllDie

ContractSpec == ContractInit /\ [][ContractNext]_contractVars
=============================================================================
