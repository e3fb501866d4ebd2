------------------------------- MODULE Schema -------------------------------
(***************************************************************************)
(* Opening the store (store.rs: open, init, add_column_if_missing) and the *)
(* identity of the boot in it (boot_id_for_epoch, platform/boot.rs), by    *)
(* processes that do it at the same time and may be killed anywhere.       *)
(*                                                                         *)
(* A statement is a step; the CREATE statements are one transaction.  The  *)
(* first opener may find no file, one of an older wyd, without the columns *)
(* added since, or one of a newer.  The epoch of a boot needs a row only   *)
(* where it is derived from the clock.                                     *)
(***************************************************************************)
EXTENDS Naturals, FiniteSets, Sequences

CONSTANTS
  Opener,     \* processes
  Columns,    \* columns added since the first version, in order
  Current,    \* SCHEMA_VERSION
  Epoch,      \* boot epochs, in the order of the boots
  MaxIds      \* bounds the random boot ids

ASSUME SchemaAssumption ==
  /\ Current \in Nat \ {0} /\ MaxIds \in Nat
  /\ Len(Columns) \in Nat /\ Len(Epoch) \in Nat \ {0}

VARIABLES
  version,    \* meta.schema_version, 0 when there is none
  tables,     \* the tables are there
  columns,    \* those of Columns that are there
  boots,      \* table boots, in the order of its rows
  boot,       \* which boot this is
  opener,     \* a process: where it is, the next column, its epoch and boot id
  raced       \* a second process has been migrating while one was

schemaVars == <<version, tables, columns, boots, boot, opener, raced>>

Idle == [at |-> "none", next |-> 1, epoch |-> 0, id |-> 0]
Where(o) == opener[o].at
Migrating == {o \in Opener : Where(o) \in {"create", "look", "alter", "stamp"}}
To(o, where) == opener' = [opener EXCEPT ![o].at = where]
ColumnSet == {Columns[i] : i \in 1 .. Len(Columns)}

SchemaTypeOK ==
  /\ version \in 0 .. Current + 1 /\ tables \in BOOLEAN /\ columns \subseteq ColumnSet
  /\ columns # {} => tables
  /\ boots \in Seq([epoch : 1 .. Len(Epoch), id : 1 .. MaxIds])
  /\ \A o \in Opener :
       /\ Where(o) \in {"none", "version", "create", "look", "alter", "stamp", "open", "failed",
                     "boot", "insert", "ready"}
       /\ Where(o) = "ready" => opener[o].id # 0

-----------------------------------------------------------------------------
(* init.                                                                   *)

OpenFile(o) ==
  /\ Where(o) = "none" /\ To(o, "version")
  /\ UNCHANGED <<version, tables, columns, boots, boot, raced>>

CheckVersion(o) ==
  /\ Where(o) = "version"
  /\ To(o, CASE version > Current -> "failed" [] version = Current -> "open" [] OTHER -> "create")
  /\ raced' = (raced \/ (version < Current /\ Migrating # {}))
  /\ UNCHANGED <<version, tables, columns, boots, boot>>

\* CREATE TABLE IF NOT EXISTS: new tables have every column
CreateTables(o) ==
  /\ Where(o) = "create" /\ To(o, "look")
  /\ tables' = TRUE /\ columns' = IF tables THEN columns ELSE ColumnSet
  /\ UNCHANGED <<version, boots, boot, raced>>

\* add_column_if_missing looks at table_info
LookForColumn(o) ==
  /\ Where(o) = "look"
  /\ LET i == opener[o].next IN
       \/ i > Len(Columns) /\ To(o, "stamp")
       \/ i <= Len(Columns) /\ Columns[i] \in columns
            /\ opener' = [opener EXCEPT ![o].next = i + 1]
       \/ i <= Len(Columns) /\ Columns[i] \notin columns /\ To(o, "alter")
  /\ UNCHANGED <<version, tables, columns, boots, boot, raced>>

\* a column that has come since is an error
AddColumn(o) ==
  /\ Where(o) = "alter"
  /\ LET column == Columns[opener[o].next] IN
       /\ columns' = columns \cup {column}
       /\ IF column \in columns THEN To(o, "failed")
          ELSE opener' = [opener EXCEPT ![o].at = "look", ![o].next = opener[o].next + 1]
  /\ UNCHANGED <<version, tables, boots, boot, raced>>

\* Mutant of StampVersion: the version is written before the columns are there.
StampVersionFirst(o) ==
  /\ Where(o) \in {"look", "stamp"} /\ version' = Current
  /\ To(o, IF Where(o) = "look" /\ version < Current THEN "look" ELSE "open")
  /\ UNCHANGED <<tables, columns, boots, boot, raced>>

StampVersion(o) ==
  /\ Where(o) = "stamp" /\ To(o, "open") /\ version' = Current
  /\ UNCHANGED <<tables, columns, boots, boot, raced>>

\* killed, or done; another process may be started in its place
GoAway(o) ==
  /\ Where(o) # "none" /\ opener' = [opener EXCEPT ![o] = Idle]
  /\ UNCHANGED <<version, tables, columns, boots, boot, raced>>

-----------------------------------------------------------------------------
(* The boot.                                                               *)

ReadEpoch(o) ==
  /\ Where(o) = "open"
  /\ opener' = [opener EXCEPT ![o].at = "boot", ![o].epoch = boot]
  /\ UNCHANGED <<version, tables, columns, boots, boot, raced>>

RowsOf(epoch) == {i \in 1 .. Len(boots) : boots[i].epoch = epoch}

\* resolve_macos_epoch: the first row of the epoch
FindBoot(o) ==
  /\ Where(o) = "boot"
  /\ LET found == RowsOf(opener[o].epoch)
         first == CHOOSE i \in found : \A j \in found : i <= j
     IN IF found = {} THEN To(o, "insert")
        ELSE opener' = [opener EXCEPT ![o].at = "ready", ![o].id = boots[first].id]
  /\ UNCHANGED <<version, tables, columns, boots, boot, raced>>

\* or a random id, whoever has inserted one since
InsertBoot(o) ==
  /\ Where(o) = "insert" /\ Len(boots) < MaxIds
  /\ boots' = Append(boots, [epoch |-> opener[o].epoch, id |-> Len(boots) + 1])
  /\ opener' = [opener EXCEPT ![o].at = "ready", ![o].id = Len(boots) + 1]
  /\ UNCHANGED <<version, tables, columns, boot, raced>>

Reboot ==
  /\ boot < Len(Epoch) /\ boot' = boot + 1
  /\ opener' = [o \in Opener |-> Idle]
  /\ UNCHANGED <<version, tables, columns, boots, raced>>

-----------------------------------------------------------------------------
\* no file, one of an older version with some of the columns, or of a newer
SchemaInit ==
  /\ \/ version = 0 /\ tables = FALSE /\ columns = {}
     \/ version \in 1 .. Current - 1 /\ tables = TRUE
          /\ columns \in {{Columns[i] : i \in 1 .. n} : n \in 0 .. Len(Columns) - 1}
     \/ version \in {Current, Current + 1} /\ tables = TRUE /\ columns = ColumnSet
  /\ boots = <<>> /\ boot = 1 /\ opener = [o \in Opener |-> Idle] /\ raced = FALSE

SchemaNext ==
  \/ \E o \in Opener :
       \/ OpenFile(o) \/ CheckVersion(o) \/ CreateTables(o) \/ LookForColumn(o) \/ AddColumn(o)
       \/ StampVersion(o) \/ GoAway(o) \/ ReadEpoch(o) \/ FindBoot(o) \/ InsertBoot(o)
  \/ Reboot

SchemaSpec == SchemaInit /\ [][SchemaNext]_schemaVars

-----------------------------------------------------------------------------
\* A store that says it is current has every column, whoever was killed migrating it:
\* a process that finds that version looks no further (init, add_column_if_missing).
StampedIsWhole == version = Current => tables /\ columns = ColumnSet

\* Opening fails only on a newer store, or when two processes have been migrating the
\* same one: the second finds the column it meant to add (add_column_if_missing).
FailsOnlyWhenRaced == (\E o \in Opener : Where(o) = "failed") => version > Current \/ raced

\* What was recorded in one boot is never taken to be of another: no two epochs share
\* an id, and a process holds one of its own (resolve_macos_epoch).
BootsAreTold ==
  /\ \A i, j \in 1 .. Len(boots) : boots[i].id = boots[j].id => boots[i].epoch = boots[j].epoch
  /\ \A o \in Opener : Where(o) = "ready" =>
       \E i \in 1 .. Len(boots) : boots[i].epoch = boot /\ boots[i].id = opener[o].id

\* Nothing is changed in the tables of a newer store: "upgrade wyd or remove the file".
NewerUntouched ==
  [][version > Current => UNCHANGED <<version, tables, columns, boots>>]_schemaVars

\* Whoever opens the store, in whatever state a crash or another process left it: a
\* stamped schema is whole, boots stay apart, and a newer store is left alone (Store::init).
SchemaSafe ==
  /\ [](SchemaTypeOK /\ StampedIsWhole /\ FailsOnlyWhenRaced /\ BootsAreTold)
  /\ NewerUntouched
=============================================================================
