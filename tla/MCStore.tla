------------------------------- MODULE MCStore ------------------------------
(***************************************************************************)
(* What outlives a supervisor: the rows of runs, the schema of the store,  *)
(* the aggregate cgroup and the search for the root it is made in.  They   *)
(* do not touch each other: a behaviour is one of them, chosen in its      *)
(* first state, and the others stand still.                                *)
(***************************************************************************)
EXTENDS RunTable, Aggregate, Schema

VARIABLE part

storeVars == <<tableVars, rootVars, aggVars, schemaVars>>

\* wyd in a slice of its own, and a root the user names; both below the mount
MCDirs == [explicit |-> "mount", own |-> "slice", slice |-> "mount", mount |-> NoDir]
MCColumns == <<"a", "b">>
MCEpoch == <<"x", "y">>

NoSearch ==
  /\ offered = {} /\ occupied = {} /\ writable = {}
  /\ enabled = [d \in Dirs |-> {}] /\ tried = 0 /\ root = NoRoot
NoOpening ==
  /\ version = Current /\ tables = TRUE /\ columns = ColumnSet
  /\ boots = <<>> /\ boot = 1 /\ opener = [o \in Opener |-> Idle] /\ raced = FALSE

StoreInit ==
  \/ part = "table" /\ TableInit /\ NoSearch /\ AggInit /\ NoOpening
  \/ part = "search" /\ TableInit /\ RootInit /\ AggInit /\ NoOpening
  \/ part = "cap" /\ TableInit /\ NoSearch /\ AggInit /\ NoOpening
  \/ part = "schema" /\ TableInit /\ NoSearch /\ AggInit /\ SchemaInit

StoreNext ==
  \/ part = "table" /\ TableNext /\ UNCHANGED <<rootVars, aggVars, schemaVars>>
  \/ part = "search" /\ TryCandidate /\ UNCHANGED <<tableVars, aggVars, schemaVars>>
  \/ part = "cap" /\ AggNext /\ UNCHANGED <<tableVars, rootVars, schemaVars>>
  \/ part = "schema" /\ SchemaNext /\ UNCHANGED <<tableVars, rootVars, aggVars>>
=============================================================================
