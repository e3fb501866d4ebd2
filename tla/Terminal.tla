------------------------------ MODULE Terminal ------------------------------
(***************************************************************************)
(* The terminal UI (tui/mod.rs, tui/rows.rs): rows that follow from the    *)
(* latest snapshot, a section, a project and a query; a cursor and marks   *)
(* that are row numbers; and popups that confirm what is to be done.       *)
(*                                                                         *)
(* The scanner replaces the snapshot at any time: between two keys, and    *)
(* between a frame and the key that answers it.  The UI thread draws a     *)
(* frame, then handles an event and draws again.  What the user sees of    *)
(* the rows and of a popup is what was drawn last.                         *)
(*                                                                         *)
(* Things are numbers, in the order of their rows.  One category, one      *)
(* project and one query stand for all; ports and sessions, which nothing  *)
(* can be done to, are left out, as is the scroll position.                *)
(***************************************************************************)
EXTENDS Naturals, FiniteSets, SequencesExt

CONSTANTS
  Item,          \* items of processes
  Enclosing,     \* the item an item is nested in, or 0
  OfCategory,    \* items of the one category
  Suspicious,    \* leftovers
  OfProject,     \* what belongs to the one project
  Hit,           \* what the query hits
  Engine,        \* Docker resources
  Persistent,    \* those with data
  Prunable,      \* unused anonymous volumes
  Containers,    \* those that run
  Listed,        \* runs
  Scanned,       \* the snapshots there may be: sets of items and resources
  MaxScans,      \* bounds the snapshots
  MaxKeys        \* bounds the keys

ASSUME TerminalAssumption ==
  /\ Item \cup Engine \cup Listed \subseteq Nat /\ IsFiniteSet(Item \cup Engine \cup Listed)
  /\ \A i \in Item : Enclosing[i] \in (Item \cup {0}) /\ Enclosing[i] < i
  /\ {Persistent, Prunable, Containers} \subseteq SUBSET Engine
  /\ Scanned \subseteq SUBSET (Item \cup Engine)
  /\ {MaxScans, MaxKeys} \subseteq Nat

VARIABLES
  snapshot,    \* the latest: which items and resources it has
  app,         \* App
  drawn,       \* what the popup of the last frame names
  turn,        \* where the loop of `run` is: "frame" or "event"
  done,        \* what the last key has done, and to what
  scans, keys

termVars == <<snapshot, app, drawn, turn, done, scans, keys>>

ProjectRow == 1000
PrunableRow == 1001
Nothing == [by |-> "none", of |-> {}]
Section == {"all", "category", "leftovers", "docker", "projects", "runs"}
Popups == {"kill", "docker", "prune"}
Mode == {"list", "details", "help", "quit"} \cup Popups

TermTypeOK ==
  /\ snapshot \in Scanned /\ scans \in 0 .. MaxScans /\ keys \in 0 .. MaxKeys
  /\ app.mode \in Mode /\ app.section \in Section /\ app.focus \in {"overview", "runtime"}
  /\ app.line \in 0 .. 5 /\ app.selected \in Nat /\ app.marked \subseteq Nat
  /\ {app.query, app.filtering, app.project, app.force} \subseteq BOOLEAN
  /\ app.frozen \subseteq Item /\ app.frozenDocker \subseteq Engine
  /\ turn \in {"frame", "event"}

-----------------------------------------------------------------------------
(* rows.rs.                                                                *)

\* what is in S, by number
Sorted(S) == [n \in 1 .. Cardinality(S) |-> CHOOSE x \in S : Cardinality({y \in S : y < x}) = n - 1]

\* an item's parent, as long as the snapshot has it
Parent(i) == IF Enclosing[i] \in snapshot THEN Enclosing[i] ELSE 0
Outer == [i \in Item \cup {0} |->
            LET up[j \in Item \cup {0}] == IF j = 0 THEN {} ELSE {j} \cup up[Parent(j)] IN up[i]]
Inner(i) == {j \in Item \cap snapshot : i \in Outer[j]}

\* section_match
Matching(section) ==
  CASE section = "all" -> Item [] section = "category" -> OfCategory
    [] section = "leftovers" -> Suspicious [] OTHER -> {}

\* Mutant of Passes: an item is judged by itself.
PassesAlone(i, chosen, kind) == ~chosen \/ i \in kind
\* query_ok, project_ok: an item, or one nested in it
Passes(i, chosen, kind) == ~chosen \/ Inner(i) \cap kind # {}

\* collect_items: what passes is shown where what it is nested in is, and all of
\* what is nested in an item of the section
ItemShown(i, section, project, query) ==
  \A j \in Outer[i] :
    /\ Passes(j, project, OfProject) /\ Passes(j, query, Hit)
    /\ (Outer[j] \cup Inner(j)) \cap Matching(section) # {}

VisibleRows(a) ==
  LET has(S) == {x \in S : (~a.query \/ x \in Hit)} IN
  CASE a.section = "runs" -> Sorted(has(Listed))
    [] a.section = "projects" ->
         Sorted(IF snapshot \cap Item \cap OfProject # {} THEN has({ProjectRow}) ELSE {})
    [] a.section = "docker" ->
         Sorted({x \in has((Engine \cap snapshot) \ Prunable) : ~a.project \/ x \in OfProject}
                \cup (IF Prunable \cap snapshot = {} THEN {} ELSE {PrunableRow}))
    [] OTHER -> Sorted({i \in Item \cap snapshot : ItemShown(i, a.section, a.project, a.query)})

\* overview: a line of a category that only some snapshots have comes and goes
Overview ==
  <<"all">> \o (IF OfCategory \cap snapshot = {} THEN <<>> ELSE <<"category">>)
    \o <<"docker", "projects", "leftovers", "runs">>

-----------------------------------------------------------------------------
(* Frames.                                                                 *)

\* draw, as far as a popup goes
Draw(a) ==
  drawn' = CASE a.mode = "kill" -> a.frozen [] a.mode = "docker" -> a.frozenDocker
             [] OTHER -> {}

AtMost(n, limit) == IF n < limit THEN n ELSE limit
Clamped(a) ==
  [a EXCEPT !.selected = IF VisibleRows(a) = <<>> THEN 0 ELSE AtMost(@, Len(VisibleRows(a)) - 1),
            !.line = AtMost(@, Len(Overview) - 1)]

\* the top of run's loop; it comes round without an event, too
Frame ==
  /\ app.mode # "quit" /\ turn' = "event"
  /\ app' = Clamped(app) /\ Draw(app') /\ done' = Nothing
  /\ UNCHANGED <<snapshot, scans, keys>>

Scan ==
  /\ scans < MaxScans /\ scans' = scans + 1
  /\ snapshot' \in Scanned
  /\ UNCHANGED <<app, drawn, turn, done, keys>>

\* an event, handled with the snapshot of now and drawn
Key(after, effect) ==
  /\ turn = "event" /\ turn' = "frame" /\ keys < MaxKeys /\ keys' = keys + 1
  /\ app' = after /\ done' = effect /\ Draw(after)
  /\ UNCHANGED <<snapshot, scans>>

Act(after) == Key(after, Nothing)

-----------------------------------------------------------------------------
(* handle_key, Mode::List.                                                 *)

Browsing == app.mode = "list" /\ ~app.filtering
Reset(a) == [a EXCEPT !.selected = 0, !.marked = {}]

\* the query, then the project, then the section
Unwound(a) ==
  CASE a.query -> Reset([a EXCEPT !.query = FALSE])
    [] ~a.query /\ a.project -> Reset([a EXCEPT !.project = FALSE])
    [] OTHER -> Reset([a EXCEPT !.section = "all", !.line = 0])
Unwindable(a) == a.query \/ a.project \/ a.section # "all"

Quit(a) == [a EXCEPT !.mode = "quit"]
\* escape, or the key that quits at once
Escape ==
  /\ Browsing
  /\ \/ Act(IF Unwindable(app) THEN Unwound(app) ELSE Quit(app))
     \/ Act(Quit(app))
Back == Browsing /\ Act(IF Unwindable(app) THEN Unwound(app) ELSE app)

\* apply_overview
AppliedOverview(a) ==
  IF a.line < Len(Overview)
  THEN Reset([a EXCEPT !.section = Overview[a.line + 1], !.focus = "runtime"])
  ELSE a
ApplyOverview == Browsing /\ Act(AppliedOverview(app))

FocusPane == Browsing /\ \E pane \in {"overview", "runtime"} : Act([app EXCEPT !.focus = pane])

JumpProjects ==
  /\ Browsing
  /\ \E i \in 1 .. Len(Overview) :
       /\ Overview[i] = "projects"
       /\ Act(Reset([app EXCEPT !.line = i - 1, !.section = "projects", !.focus = "runtime"]))

\* move_sel
Moved(n, limit) == {IF n = 0 THEN 0 ELSE n - 1, AtMost(n + 1, limit - 1)}
MoveSelection ==
  /\ Browsing
  /\ IF app.focus = "overview"
     THEN \E n \in Moved(app.line, Len(Overview)) : Act([app EXCEPT !.line = n])
     ELSE /\ VisibleRows(app) # <<>>
          /\ \E n \in Moved(app.selected, Len(VisibleRows(app))) : Act([app EXCEPT !.selected = n])

MarkRow ==
  /\ Browsing /\ app.focus = "runtime" /\ VisibleRows(app) # <<>>
  /\ Act([app EXCEPT !.marked = IF app.selected \in @ THEN @ \ {app.selected}
                                                      ELSE @ \cup {app.selected}])

\* on_enter
SelectedRow == IF app.selected < Len(VisibleRows(app)) THEN VisibleRows(app)[app.selected + 1] ELSE 0
EnterRow ==
  /\ Browsing
  /\ Act(CASE app.focus = "overview" -> AppliedOverview(app)
           [] app.focus = "runtime" /\ SelectedRow = ProjectRow ->
                Reset([app EXCEPT !.project = TRUE, !.section = "all", !.line = 0])
           [] app.focus = "runtime" /\ SelectedRow \notin {0, ProjectRow} ->
                [app EXCEPT !.mode = "details"]
           [] OTHER -> app)

\* handle_filter_key
StartFilter == Browsing /\ Act([app EXCEPT !.filtering = TRUE])
FilterKey ==
  /\ app.mode = "list" /\ app.filtering
  /\ \/ Act([app EXCEPT !.filtering = FALSE])
     \/ Act(Reset([app EXCEPT !.filtering = FALSE, !.query = FALSE]))
     \/ \E q \in BOOLEAN : Act(Reset([app EXCEPT !.query = q]))

HelpKey == Browsing /\ Act([app EXCEPT !.mode = "help"])

-----------------------------------------------------------------------------
(* What is done to the rows that are marked, or else to the selected one.  *)

Acting == Browsing \/ app.mode = "details"
Targets(a) ==
  LET rows == VisibleRows(a)
      at == IF a.marked = {} THEN {a.selected} ELSE a.marked
  IN {rows[i + 1] : i \in {n \in at : n < Len(rows)}}

\* identities_for: an item and all that is nested in it
Identities(targets) == UNION {Inner(i) : i \in targets \cap Item}

\* open_kill_confirm
KillPopup ==
  /\ Acting
  /\ \E force \in BOOLEAN :
       LET frozen == Identities(Targets(app)) IN
       Act([app EXCEPT !.frozen = frozen,
                       !.force = IF frozen = {} THEN @ ELSE force,
                       !.mode = IF frozen = {} THEN @ ELSE "kill"])

\* open_docker_confirm adds to what is there
DockerPopup ==
  /\ Acting
  /\ LET frozen == app.frozenDocker \cup (Targets(app) \cap Engine) IN
     Act([app EXCEPT !.frozenDocker = frozen, !.mode = IF frozen = {} THEN @ ELSE "docker"])

\* stop_docker asks nothing; the engine may refuse
StopContainers ==
  /\ Acting /\ Targets(app) \cap Containers # {}
  /\ \E stopped \in SUBSET (Targets(app) \cap Containers) :
       Key(IF stopped = {} THEN app ELSE [app EXCEPT !.marked = {}], [by |-> "stop", of |-> stopped])

PrunePopup ==
  /\ Browsing /\ Prunable \cap snapshot # {} /\ Act([app EXCEPT !.mode = "prune"])

-----------------------------------------------------------------------------
(* The popups.                                                             *)

\* esc, n, backspace, and what else leaves details or help
Dismiss ==
  /\ app.mode \in Popups \cup {"details", "help"}
  /\ Act([app EXCEPT !.mode = "list",
                     !.frozenDocker = IF app.mode = "docker" THEN {} ELSE @])

\* handle_mouse, of any mode but the list
ClickOutside ==
  /\ app.mode \in Popups \cup {"details", "help"}
  /\ Act([app EXCEPT !.mode = "list", !.frozenDocker = {}])

Listing(a) == [a EXCEPT !.mode = "list", !.marked = {}]

\* Mutant of ConfirmKill: the targets are looked up when they are confirmed.
ConfirmKillAnew ==
  /\ app.mode = "kill"
  /\ Key([Listing(app) EXCEPT !.frozen = {}], [by |-> "kill", of |-> Identities(Targets(app))])
\* process::send rechecks each identity
ConfirmKill ==
  /\ app.mode = "kill"
  /\ Key([Listing(app) EXCEPT !.frozen = {}], [by |-> "kill", of |-> app.frozen])

\* y of what has no data, D of what has; the rest is forgotten
ConfirmRemove ==
  /\ app.mode = "docker"
  /\ \E targets \in {app.frozenDocker \ Persistent, app.frozenDocker \cap Persistent} :
       Key(IF targets = {} THEN app ELSE [Listing(app) EXCEPT !.frozenDocker = {}],
           [by |-> "remove", of |-> targets])

\* what is prunable by now
ConfirmPrune ==
  /\ app.mode = "prune"
  /\ Key([app EXCEPT !.mode = "list"], [by |-> "prune", of |-> Prunable \cap snapshot])

-----------------------------------------------------------------------------
(* The mouse, on the list.                                                 *)

ClickLine ==
  /\ app.mode = "list"
  /\ \E i \in 1 .. Len(Overview) : Act(AppliedOverview([app EXCEPT !.line = i - 1, !.focus = "overview"]))

\* a second click on a row opens it
ClickRow ==
  /\ app.mode = "list"
  /\ \E i \in 1 .. Len(VisibleRows(app)) :
       LET again == app.focus = "runtime" /\ app.selected = i - 1 IN
       Act([app EXCEPT !.selected = i - 1, !.focus = "runtime", !.mode = IF again THEN "details" ELSE @])

-----------------------------------------------------------------------------
\* App::new
NewApp ==
  [mode |-> "list", section |-> "all", focus |-> "runtime", line |-> 0, selected |-> 0,
   marked |-> {}, query |-> FALSE, filtering |-> FALSE, project |-> FALSE,
   force |-> FALSE, frozen |-> {}, frozenDocker |-> {}]

TermInit ==
  /\ snapshot \in Scanned /\ scans = 0 /\ keys = 0 /\ turn = "frame" /\ done = Nothing
  /\ app = NewApp
  /\ drawn = {}

TermNext ==
  \/ Frame \/ Scan
  \/ Escape \/ Back \/ ApplyOverview \/ FocusPane \/ JumpProjects \/ MoveSelection \/ MarkRow
  \/ EnterRow \/ StartFilter \/ FilterKey \/ HelpKey
  \/ KillPopup \/ DockerPopup \/ StopContainers \/ PrunePopup
  \/ Dismiss \/ ClickOutside \/ ConfirmKill \/ ConfirmRemove \/ ConfirmPrune
  \/ ClickLine \/ ClickRow

TermSpec == TermInit /\ [][TermNext]_termVars

-----------------------------------------------------------------------------
\* What is signalled or removed was named by the popup the key has answered, though the
\* snapshot, and with it what the marks point at, may be another by then
\* (App::frozen, frozen_docker).
ActsOnWhatWasShown ==
  [][keys' # keys /\ done'.by \in {"kill", "remove"} => done'.of \subseteq drawn]_termVars

\* A popup offers to remove only rows that are marked or selected as it opens, nothing
\* that an earlier one was left with (open_docker_confirm adds to frozen_docker).
NothingLeftOver == app.frozenDocker # {} => app.mode = "docker"

\* A filter hides no item it matches: with section, project and query at once, the item
\* has a row, and so has every item it is nested in (collect_items, query_ok, project_ok).
MatchesAreListed ==
  app.section \in {"all", "category", "leftovers"} =>
    LET rows == ToSet(VisibleRows(app)) IN
    /\ \A i \in Item \cap snapshot \cap Matching(app.section) :
         (~app.query \/ i \in Hit) /\ (~app.project \/ i \in OfProject) => i \in rows
    /\ \A i \in rows : Outer[i] \subseteq rows

\* A popup acts on what it named when it was drawn, and nothing of it is left for the next
\* one (tui/mod.rs confirm, cancel).
PopupsKeepTheirWord == [](TermTypeOK /\ NothingLeftOver) /\ ActsOnWhatWasShown
=============================================================================
