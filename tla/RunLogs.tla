------------------------------ MODULE RunLogs -------------------------------
(***************************************************************************)
(* What a run prints: the thread that drains it into a bounded file        *)
(* (runner/logs.rs, Supervisor::drain), the budget all files share, the    *)
(* row that tells how much was kept, and those that read it back with a    *)
(* byte cursor: `wyd logs`, `wyd run`, the web server and MCP clients.     *)
(*                                                                         *)
(* One stream stands for the two, and a byte for some thousands.  Taking   *)
(* from the budget and writing to the file are two steps, as are reading a *)
(* chunk and asking the store whether the run is over.  A supervisor may   *)
(* be killed; the next one counts the files, closes the rows of the runs   *)
(* it finds open and prunes old ones.  The disk may fail Faulty runs.      *)
(***************************************************************************)
EXTENDS Naturals, FiniteSets, FiniteSetsExt

CONSTANTS
  Writer,        \* runs
  Output,        \* the bytes each run has to print
  StreamLimit,   \* RunSpec.log_limit
  BudgetLimit,   \* DEFAULT_TOTAL_LOG_LIMIT
  ChunkBytes,    \* what a reader asks for
  MaxStarts,     \* bounds the supervisors started after the first
  Faulty         \* runs whose writes, opens and removals may fail

ASSUME LogAssumption ==
  /\ IsFiniteSet(Writer) /\ Output \in [Writer -> Nat]
  /\ {StreamLimit, BudgetLimit, MaxStarts} \subseteq Nat
  /\ ChunkBytes \in Nat \ {0} /\ Faulty \subseteq Writer

VARIABLES
  phase,      \* a run: "unborn", "running", "over" (run_over), "finished" or "pruned"
  left,       \* bytes it has yet to print
  drainer,    \* its thread: "off", "opening", "reading", "appending", "deaf", "ended"
  files,      \* runs that have a file
  size,       \* its length
  sink,       \* LogSink.written and truncated
  pending,    \* the bytes read, and those granted, before the write
  logs,       \* RunSlot.logs: what the sink has published
  row,        \* what run_finish has written of it
  lost,       \* runs that printed what no file has, while they ran
  late,       \* runs of which a drain has read and dropped bytes after run_over
  missed,     \* runs whose drain was not at the end when they finished, or failed
  used,       \* GlobalBudget.used
  starts,     \* supervisors started after the first
  reader      \* one that reads a run's output back

drainVars ==
  <<phase, left, drainer, files, size, sink, pending, logs, row, lost, late, missed, used>>
logVars == <<drainVars, starts, reader>>

Kinds == {"follow", "once", "print", "page"}
Least(a, b) == IF a < b THEN a ELSE b
Room(limit, n) == IF n < limit THEN limit - n ELSE 0
NoLogs == [bytes |-> 0, truncated |-> FALSE]
LogState == [bytes : 0 .. StreamLimit, truncated : BOOLEAN]
Total(bytes, runs) == MapThenSumSet(LAMBDA w : bytes[w], runs)
Stored(runs) == Total(size, runs)
\* what has been taken from the budget and not been written yet
Unwritten == Total([w \in Writer |-> pending[w].granted], Writer)

LogTypeOK ==
  /\ phase \in [Writer -> {"unborn", "running", "over", "finished", "pruned"}]
  /\ \A w \in Writer : left[w] + size[w] + pending[w].n <= Output[w]
  /\ drainer \in [Writer -> {"off", "opening", "reading", "appending", "deaf", "ended"}]
  /\ files \subseteq Writer /\ left \in [Writer -> Nat] /\ size \in [Writer -> Nat]
  /\ sink \in [Writer -> LogState] /\ logs \in [Writer -> LogState] /\ row \in [Writer -> LogState]
  /\ \A w \in Writer : size[w] > StreamLimit => w \in missed
  /\ pending \in [Writer -> [n : Nat, granted : 0 .. StreamLimit]]
  /\ lost \subseteq Writer /\ late \subseteq Writer /\ missed \subseteq Writer
  /\ used \in Nat /\ starts \in 0 .. MaxStarts

Touch(f, w, value) == [f EXCEPT ![w] = value]

-----------------------------------------------------------------------------
(* The thread that drains.                                                 *)

\* paths.prepare, and the worker starts the thread
StartLogs(w) ==
  /\ phase[w] = "unborn"
  /\ phase' = Touch(phase, w, "running") /\ drainer' = Touch(drainer, w, "opening")
  /\ UNCHANGED <<left, files, size, sink, pending, logs, row, lost, late, missed, used, starts, reader>>

Publish(w, written, truncated) ==
  /\ sink' = Touch(sink, w, [bytes |-> written, truncated |-> truncated])
  /\ logs' = Touch(logs, w, [bytes |-> written, truncated |-> truncated])

OpenSink(w) ==
  /\ drainer[w] = "opening" /\ drainer' = Touch(drainer, w, "reading")
  /\ files' = files \cup {w}
  /\ Publish(w, size[w], size[w] >= StreamLimit)
  /\ UNCHANGED <<phase, left, size, pending, row, lost, late, missed, used, starts, reader>>

\* It drains on, and drops the bytes.
OpenFails(w) ==
  /\ w \in Faulty /\ drainer[w] = "opening" /\ drainer' = Touch(drainer, w, "deaf")
  /\ missed' = missed \cup {w}
  /\ UNCHANGED <<phase, left, files, size, sink, pending, logs, row, lost, late, used, starts, reader>>

Prints(w, n) == n \in 1 .. left[w] /\ left' = Touch(left, w, left[w] - n)

\* A drain that could not open its file, and every drain after run_over: it reads on,
\* stores nothing and says nothing of it.
DrainDrops(w) ==
  /\ \/ drainer[w] = "deaf"
     \/ drainer[w] = "reading" /\ phase[w] # "running"
  /\ \E n \in 1 .. Output[w] : Prints(w, n)
  /\ lost' = IF phase[w] = "running" THEN lost \cup {w} ELSE lost
  /\ late' = IF phase[w] = "running" THEN late ELSE late \cup {w}
  /\ UNCHANGED <<phase, drainer, files, size, sink, pending, logs, row, missed, used, starts, reader>>

\* GlobalBudget::take
Granted(want) == Least(want, Room(BudgetLimit, used))

DrainTakes(w) ==
  /\ drainer[w] = "reading" /\ phase[w] = "running"
  /\ \E n \in 1 .. Output[w] :
       LET want == Least(n, Room(StreamLimit, sink[w].bytes)) IN
       /\ Prints(w, n) /\ want > 0
       /\ pending' = Touch(pending, w, [n |-> n, granted |-> Granted(want)])
       /\ used' = used + Granted(want)
       /\ sink' = Touch(sink, w, [sink[w] EXCEPT !.truncated = @ \/ Granted(want) < want])
  /\ drainer' = Touch(drainer, w, "appending")
  /\ UNCHANGED <<phase, files, size, logs, row, lost, late, missed, starts, reader>>

\* Mutant of DrainFull: a full stream has nothing to say any more.
DrainFullQuietly(w) ==
  /\ drainer[w] = "reading" /\ phase[w] = "running"
  /\ Room(StreamLimit, sink[w].bytes) = 0 /\ \E n \in 1 .. Output[w] : Prints(w, n)
  /\ lost' = lost \cup {w}
  /\ UNCHANGED <<phase, drainer, files, size, sink, pending, logs, row, late, missed, used, starts,
                 reader>>

DrainFull(w) ==
  /\ drainer[w] = "reading" /\ phase[w] = "running"
  /\ Room(StreamLimit, sink[w].bytes) = 0 /\ \E n \in 1 .. Output[w] : Prints(w, n)
  /\ Publish(w, sink[w].bytes, TRUE)
  /\ lost' = lost \cup {w}
  /\ UNCHANGED <<phase, drainer, files, size, pending, row, late, missed, used, starts, reader>>

NotPending == [n |-> 0, granted |-> 0]

AppendBytes(w) ==
  /\ drainer[w] = "appending" /\ drainer' = Touch(drainer, w, "reading")
  /\ LET got == pending[w].granted
         short == got < pending[w].n
     IN /\ size' = Touch(size, w, size[w] + got)
        /\ Publish(w, sink[w].bytes + got, sink[w].truncated \/ short)
        /\ lost' = IF short THEN lost \cup {w} ELSE lost
  /\ pending' = Touch(pending, w, NotPending)
  /\ UNCHANGED <<phase, left, files, row, late, missed, used, starts, reader>>

\* Part of it may be on disk; the budget is not given back, nothing published.
AppendFails(w) ==
  /\ w \in Faulty /\ drainer[w] = "appending" /\ drainer' = Touch(drainer, w, "reading")
  /\ \E k \in 0 .. pending[w].granted :
       /\ k < pending[w].granted
       /\ size' = Touch(size, w, size[w] + k)
  /\ lost' = lost \cup {w} /\ missed' = missed \cup {w}
  /\ pending' = Touch(pending, w, NotPending)
  /\ UNCHANGED <<phase, left, files, sink, logs, row, late, used, starts, reader>>

\* nobody holds the pipe any more
EndOfPipe(w) ==
  /\ drainer[w] \in {"reading", "deaf"} /\ drainer' = Touch(drainer, w, "ended")
  /\ UNCHANGED <<phase, left, files, size, sink, pending, logs, row, lost, late, missed, used, starts, reader>>

\* run_over is stored before the worker waits for its drains.
SetRunOver(w) ==
  /\ phase[w] = "running" /\ drainer[w] # "off"
  /\ phase' = Touch(phase, w, "over")
  /\ UNCHANGED <<left, drainer, files, size, sink, pending, logs, row, lost, late, missed, used, starts,
                 reader>>

\* The drains have ended, or had their two seconds; what the sinks have published until
\* then is what the row tells.
FinishRow(w) ==
  /\ phase[w] = "over" /\ phase' = Touch(phase, w, "finished")
  /\ row' = Touch(row, w, logs[w])
  /\ missed' = IF drainer[w] = "ended" THEN missed ELSE missed \cup {w}
  /\ UNCHANGED <<left, drainer, files, size, sink, pending, logs, lost, late, used, starts, reader>>

-----------------------------------------------------------------------------
(* The supervisor is killed, and the next one started: scan_log_bytes,     *)
(* recover, prune.  What the runs still print goes nowhere.                *)

Freed(old, removed) == Stored(removed)

NewSupervisor ==
  /\ starts < MaxStarts /\ starts' = starts + 1
  /\ \E old \in SUBSET {w \in Writer : phase[w] = "finished"} :
     \E removed \in SUBSET old :
       /\ old \ Faulty \subseteq removed
       /\ phase' = [w \in Writer |-> CASE w \in old -> "pruned"
                                       [] phase[w] \in {"running", "over"} -> "finished"
                                       [] OTHER -> phase[w]]
       /\ files' = files \ removed
       /\ size' = [w \in Writer |-> IF w \in removed THEN 0 ELSE size[w]]
       /\ used' = Stored(Writer) - Freed(old, removed)
  /\ drainer' = [w \in Writer |-> IF drainer[w] = "off" THEN "off" ELSE "ended"]
  /\ pending' = [w \in Writer |-> NotPending]
  /\ lost' = lost \cup {w \in Writer : drainer[w] = "appending"}
  /\ missed' = missed \cup {w \in Writer : phase[w] \in {"running", "over"}}
  /\ UNCHANGED <<left, sink, logs, row, late, reader>>

-----------------------------------------------------------------------------
(* Readers.                                                                *)

NotReading == [run |-> "none", kind |-> "none", at |-> "none",
               cursor |-> 0, seen |-> 0, eof |-> FALSE, told |-> FALSE]
HasRow(w) == phase[w] \notin {"unborn", "pruned"}

\* `wyd logs [--follow]`; `wyd run` after wait_for_finish; a client that pages a
\* finished run through the supervisor or the web server
BeginRead ==
  /\ reader.at = "none"
  /\ \E w \in Writer, kind \in Kinds :
       /\ HasRow(w)
       /\ kind \in {"print", "page"} => phase[w] = "finished"
       /\ reader' = [NotReading EXCEPT !.run = w, !.kind = kind, !.at = "read"]
  /\ UNCHANGED <<drainVars, starts>>

NextCursor(start, take, len) == start + take

\* logs::read_chunk: no file is an empty, finished chunk
ReadChunk(r) ==
  LET start == Least(r.cursor, size[r.run])
      take == Least(size[r.run] - start, ChunkBytes)
  IN IF r.run \in files
     THEN [r EXCEPT !.cursor = NextCursor(start, take, size[r.run]), !.seen = r.seen + take,
                    !.eof = start + take >= size[r.run]]
     ELSE [r EXCEPT !.cursor = 0, !.eof = TRUE]

\* run_logs: no row is needed to read on
ReadLogs ==
  /\ reader.at = "read" /\ reader.kind \in {"follow", "once"}
  /\ reader' = [ReadChunk(reader) EXCEPT !.at = "check"]
  /\ UNCHANGED <<drainVars, starts>>

SeenFinished(w) == ~HasRow(w) \/ phase[w] = "finished"

CheckFinished ==
  /\ reader.at = "check"
  /\ reader' =
       CASE reader.eof /\ SeenFinished(reader.run) ->
              [reader EXCEPT !.at = "done",
                             !.told = HasRow(reader.run) /\ row[reader.run].truncated]
         [] reader.eof /\ ~SeenFinished(reader.run) /\ reader.kind = "once" ->
              [reader EXCEPT !.at = "done"]
         [] OTHER -> [reader EXCEPT !.at = "read"]
  /\ UNCHANGED <<drainVars, starts>>

\* Supervisor::output, LocalProvider::run_output: an error without a row
ReadOutput ==
  /\ reader.at = "read" /\ reader.kind \in {"print", "page"}
  /\ LET next == ReadChunk(reader) IN
     reader' = CASE ~HasRow(reader.run) -> [reader EXCEPT !.at = "failed"]
                 [] HasRow(reader.run) /\ next.eof ->
                      [next EXCEPT !.at = "done", !.told = row[reader.run].truncated]
                 \* print_run_output, follow = false: one chunk of a stream
                 [] OTHER -> [next EXCEPT !.at = IF reader.kind = "print" THEN "done" ELSE "read"]
  /\ UNCHANGED <<drainVars, starts>>

-----------------------------------------------------------------------------
LogInit ==
  /\ phase = [w \in Writer |-> "unborn"] /\ left = Output
  /\ drainer = [w \in Writer |-> "off"] /\ files = {} /\ size = [w \in Writer |-> 0]
  /\ sink = [w \in Writer |-> NoLogs] /\ pending = [w \in Writer |-> NotPending]
  /\ logs = [w \in Writer |-> NoLogs] /\ row = [w \in Writer |-> NoLogs]
  /\ lost = {} /\ late = {} /\ missed = {} /\ used = 0 /\ starts = 0 /\ reader = NotReading

DrainNext(w) ==
  \/ OpenSink(w) \/ OpenFails(w) \/ DrainDrops(w) \/ DrainTakes(w) \/ DrainFull(w)
  \/ AppendBytes(w) \/ AppendFails(w) \/ EndOfPipe(w)

LogNext ==
  \/ \E w \in Writer : StartLogs(w) \/ DrainNext(w) \/ SetRunOver(w) \/ FinishRow(w)
  \/ NewSupervisor \/ BeginRead \/ ReadLogs \/ CheckFinished \/ ReadOutput

\* A reader reads on, and a drain writes what it has read.
LogFairness ==
  /\ WF_logVars(ReadLogs) /\ WF_logVars(CheckFinished) /\ WF_logVars(ReadOutput)

LogSpec == LogInit /\ [][LogNext]_logVars
LogFairSpec == LogSpec /\ LogFairness

-----------------------------------------------------------------------------
(* What should hold.                                                       *)

\* The files and what is about to be written are within what the budget has
\* counted, and that is within its limit, across removals that fail and
\* supervisors that are killed in between (GlobalBudget, scan_log_bytes, prune).
DiskWithinBudget == Stored(Writer) + Unwritten <= used /\ used <= BudgetLimit

\* A run whose drains ended within their two seconds, on a disk that worked, has a row that
\* tells how much is retained and whether anything was dropped while it ran
\* (write_all_bounded, run_finish).  What a drain reads after run_over is dropped without
\* a word: see PrintedIsKept.
RowTellsLoss ==
  \A w \in Writer : phase[w] = "finished" /\ w \notin missed =>
      row[w].bytes = size[w] /\ (w \in lost => row[w].truncated)

\* If that row tells of no loss, the file has what the run printed to the last byte, except
\* for what a drain read after run_over.  That exception is the code's: it stops storing
\* before it waits for the drains, so that what was printed last is dropped by drains that
\* work and end in time, and no flag tells, where src/README.md:221-225 has truncation
\* reported (run_worker, drain).
PrintedIsKept ==
  \A w \in Writer : phase[w] = "finished" /\ w \notin missed \cup late /\ ~ row[w].truncated =>
      left[w] + size[w] = Output[w]

\* A client that follows the cursor to the end of a finished run's output has been given
\* every retained byte once, and whether any was dropped while it ran (read_chunk).
PagesAreWhole ==
  (reader.kind = "page" /\ reader.at = "done" /\ HasRow(reader.run) /\ reader.run \notin missed) =>
      /\ reader.seen = size[reader.run]
      /\ reader.run \in lost => reader.told

\* The disk holds no more than the budget, a row tells what was dropped while the run ran,
\* what nothing tells of is kept, and a page a client reads is whole and in order
\* (GlobalBudget::take, drain, read_chunk).
LogsHonest ==
  LogTypeOK /\ DiskWithinBudget /\ RowTellsLoss /\ PrintedIsKept /\ PagesAreWhole

\* `wyd logs --follow` ends once the run has, pruned or not (run_logs).
FollowReturns ==
  (reader.at # "none" /\ phase[reader.run] \in {"finished", "pruned"})
    ~> (reader.at \in {"done", "failed"})
=============================================================================
