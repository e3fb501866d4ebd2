------------------------------ MODULE Classify ------------------------------
(***************************************************************************)
(* From a process snapshot to marked items: classify(), group(), attach()  *)
(* and mark() of src/classify, the ownership a collector records from the  *)
(* items, and the leftover marks that ownership adds (collect.rs).         *)
(*                                                                         *)
(* A process is known by the signatures its name and command line hit.     *)
(* Processes exit one after the other; the children of one that exits go   *)
(* to init, which is in every snapshot and has no signature.  The walks of *)
(* the code give up after 64 parents; no tree is taken to be that deep.    *)
(***************************************************************************)
EXTENDS Naturals, FiniteSets, Sequences

CONSTANTS
    Pid,      \* process ids, other than that of init
    Top,      \* init (pid 1)
    Kinds,    \* what processes look like: the records of Kind
    AgeHours  \* leftovers.server_age_hours, at least 1

\* The order in which classify() tries its signatures.
Signatures == <<"Mcp", "Agent", "LanguageServer", "DevServer", "Worker",
                "Database", "DevService", "Browser", "UnknownDev">>
Category == {Signatures[i] : i \in 1 .. Len(Signatures)}

\* hits: the signatures hit; extra: the category a signature of the
\* configuration gives it, or None; name: the display name; pkg: npm, npx and
\* the like; dev: an automation browser; argv: has a command line; tty: has a
\* terminal; age: hours since its start; listens: has a listening port;
\* service: its path is that of an installed service; configured: it is one
\* of the persistent commands of the configuration; starts: whether it is a
\* sandbox, a supervisor (sshd, tmux, cron, ...) or a shell to source.rs.
Kind == [hits : SUBSET Category, extra : Category \cup {"None"}, name : STRING,
         pkg : BOOLEAN, dev : BOOLEAN, argv : BOOLEAN, tty : BOOLEAN, age : Nat,
         listens : BOOLEAN, service : BOOLEAN, configured : BOOLEAN,
         starts : {"None", "sandbox", "supervisor", "shell"}]

ASSUME ClassifyConstants ==
    Pid \subseteq Nat /\ Top \notin Pid /\ Kinds \subseteq Kind /\ AgeHours \in Nat \ {0}

VARIABLES
    alive,    \* the processes in the next snapshot
    parent,   \* parent[p]: a process or Top
    kind,     \* kind[p]
    items,    \* the items of the last snapshot, as mark() leaves them
    origin,   \* origin[p]: the agent recorded as the owner of p, or Top
    ended     \* the agents whose session is recorded as ended

vars == <<alive, parent, kind, items, origin, ended>>

-----------------------------------------------------------------------------
(* classify(): the configured signatures come first, then the first of the  *)
(* table wins; package managers only wrap MCP servers, language servers and *)
(* workers.                                                                 *)

Least(S) == CHOOSE x \in S : \A y \in S : x <= y

ClassOf ==
    [k \in Kinds |->
        LET tried == {n \in 1 .. Len(Signatures) :
                        /\ Signatures[n] \in k.hits
                        /\ ~(k.pkg /\ Signatures[n] \in {"Mcp", "LanguageServer", "Worker"})}
        IN IF k.extra # "None" THEN k.extra
           ELSE IF tried = {} THEN "None" ELSE Signatures[Least(tried)]]

Cat(p) == ClassOf[kind[p]]

-----------------------------------------------------------------------------
(* The forest and group()                                                   *)

\* Forest::build and the walks up: a parent not in the snapshot ends them.
Above ==
    LET up[p \in Pid] ==
            IF parent[p] \in alive THEN {parent[p]} \cup up[parent[p]] ELSE {}
    IN up
Below(p) == {q \in alive : p \in Above[q]}

\* has_dev_browser_ancestor: below a controller, or what is named playwright.
DevBrowserAbove(p) ==
    \E q \in Above[p] : \/ Cat(q) \in {"Mcp", "Agent"}
                        \/ Cat(q) # "None" /\ kind[q].name = "playwright"

\* The nearest process of S above a process, or Top.
NearestIn(S) ==
    LET up[p \in Pid] ==
            IF parent[p] \notin alive THEN Top
            ELSE IF parent[p] \in S THEN parent[p] ELSE up[parent[p]]
    IN up

KeepBrowser ==
    {p \in alive : Cat(p) = "Browser" /\ (kind[p].dev \/ DevBrowserAbove(p))}

\* group: what is classified and neither wraps something classified, nor is
\* a browser its controller shows, nor a bare runtime without arguments.
ItemPids ==
    LET classified == {p \in alive : Cat(p) \notin {"None", "Browser"}} \cup KeepBrowser
        wrappers == {p \in alive : Cat(p) = "UnknownDev" /\ Below(p) \cap classified # {}}
    IN {p \in classified \ wrappers :
          /\ ~(Cat(p) = "Browser" /\ DevBrowserAbove(p))
          /\ Cat(p) = "UnknownDev" => kind[p].argv}

\* nearest_item_ancestor
NearestItem == NearestIn(ItemPids)

\* collapse_same: an item of the category and name of the one above it.
Folded(near) ==
    LET same(p, q) == Cat(p) = Cat(q) /\ kind[p].name = kind[q].name
        fold[p \in Pid] ==
            IF near[p] # Top /\ same(p, near[p]) THEN fold[near[p]] ELSE p
    IN fold
FoldOf == Folded(NearestItem)

\* runtime_guess: ruby has no signature.
Guess(p) == IF Cat(p) = "None" /\ kind[p].name = "ruby" THEN "UnknownDev" ELSE Cat(p)

\* promote_listeners: a generic runtime that listens is a dev server.  There
\* is no item below one, or it would be a wrapper: the ports are its own.
Promoted(p) == IF Guess(p) = "UnknownDev" /\ kind[p].listens THEN "DevServer" ELSE Guess(p)

\* build_item: the items of the forest, each with the item above it.
Trees(here, near, fold) ==
    {[root |-> r, pids |-> {p \in here : fold[p] = r},
      cat |-> Promoted(r), up |-> IF near[r] = Top THEN Top ELSE fold[near[r]]] :
        r \in {q \in here : fold[q] = q}}
ForestItems == Trees(ItemPids, NearestItem, FoldOf)

\* rollup_browsers: one item for the browsers below an MCP server.
Rollups ==
    LET browsers(m) == Below(m) \cap KeepBrowser
    IN {[root |-> Least(browsers(m)), pids |-> browsers(m), cat |-> "Browser",
         up |-> FoldOf[m]] :
           m \in {q \in ItemPids : Cat(q) = "Mcp" /\ browsers(q) # {}}}

PidsOf(S) == UNION {i.pids : i \in S}

\* Mutant of Adopted: only the listeners at the top of the forest.
AdoptRoots(seen) ==
    {[root |-> p, pids |-> {p}, cat |-> Promoted(p), up |-> Top] :
        p \in {q \in alive \ seen : /\ kind[q].listens /\ parent[q] = Top
                                    /\ Guess(q) \notin {"None", "Browser"}}}

\* adopt_port_orphans: a listener no item has, unless it is a browser.
Adopted(seen) ==
    {[root |-> p, pids |-> {p}, cat |-> Promoted(p), up |-> Top] :
        p \in {q \in alive \ seen : kind[q].listens /\ Guess(q) \notin {"None", "Browser"}}}

-----------------------------------------------------------------------------
(* mark(): leftover scores                                                  *)

Interactive(p) == kind[p].tty \/ \E q \in Above[p] : kind[q].tty
Reparented(p) == parent[p] \notin alive

\* exempt: a dev service, an installed one, or a database init started.
Exempt(i) ==
    LET k == kind[i.root]
    IN \/ i.cat = "DevService"
       \/ k.service /\ i.cat \notin {"LanguageServer", "Database"}
       \/ i.cat = "Database" /\ parent[i.root] = Top
       \/ k.configured

Points(b, n) == IF b THEN n ELSE 0

AtMost100(n) == IF n > 100 THEN 100 ELSE n

\* mark_one: points for having no owner, and for age.
Score(i) ==
    LET unowned == /\ i.up = Top
                   /\ i.cat \in {"Mcp", "Browser", "DevServer", "LanguageServer",
                                 "Database", "Worker"}
                   /\ ~Interactive(i.root)
        old == i.cat \in {"DevServer", "Worker"} /\ kind[i.root].age >= AgeHours
    IN AtMost100(
           Points(unowned /\ i.cat \in {"Mcp", "Browser", "LanguageServer", "Database"}, 50)
         + Points(unowned /\ i.cat = "Mcp", 25)
         + Points(unowned /\ i.cat = "Browser", 30)
         + Points(unowned /\ Reparented(i.root), 40)
         + Points(old, 20))

MarkedState(i) ==
    IF i.cat = "Agent" THEN "Active"
    ELSE IF Exempt(i) THEN "Persistent"
    ELSE IF Score(i) >= 30 THEN "Suspicious" ELSE "Active"

\* walk: the nearest agent item at or above an item root.
Owners(near, fold) ==
    LET own[r \in Pid \cup {Top}] ==
            IF r = Top THEN Top
            ELSE IF Cat(r) = "Agent" THEN r
            ELSE IF near[r] = Top THEN Top ELSE own[fold[near[r]]]
    IN own
OwnerOf == Owners(NearestItem, FoldOf)

\* snapshot_with: what one scan shows.
Marked(grouped, own) ==
    {[root |-> i.root, pids |-> i.pids, cat |-> i.cat, up |-> i.up,
      owner |-> own[i.up], state |-> MarkedState(i),
      score |-> IF MarkedState(i) = "Suspicious" THEN Score(i) ELSE 0] :
        i \in grouped \cup Adopted(PidsOf(grouped))}
Snapshot == Marked(ForestItems \cup Rollups, OwnerOf)

\* Mutant of SessionMarks: the items below others are not gone into.
MarksTopLevel(i) ==
    /\ i.cat # "Agent" /\ i.state # "Persistent" /\ i.up = Top
    /\ \E p \in i.pids : origin[p] \in ended

\* session_leftover_one: a recorded owner that ended, on top of mark().
SessionMarks(i) ==
    /\ i.cat # "Agent" /\ i.state # "Persistent"
    /\ \E p \in i.pids : origin[p] \in ended

StateOf(i) == IF SessionMarks(i) THEN "Suspicious" ELSE i.state
ScoreOf(i) == IF SessionMarks(i) THEN AtMost100(i.score + 30) ELSE i.score

-----------------------------------------------------------------------------
(* What started a process (source.rs) and the list of ports (ports.rs)      *)

\* supervisor_marker: sshd, tmux, screen, cron, or what runs in a sandbox.
Supervisors == {q \in alive : kind[q].starts \in {"sandbox", "supervisor"}}

\* shell_marker: a shell counts with a terminal only.
Shells == {q \in alive : kind[q].starts = "shell" /\ kind[q].tty}

\* Mutant of SourceOf: the supervisors are searched from the root of the chain.
SourceOf_FromRoot(p) ==
    LET supervisors == Above[p] \cap Supervisors
    IN IF kind[p].starts = "sandbox" THEN p
       ELSE IF supervisors # {} THEN Least(supervisors) ELSE NearestIn(Shells)[p]

\* detect: the sandbox of the process itself, or else the nearest supervisor,
\* whatever shell is nearer, or else the nearest shell; init is the last
\* resort.  The answer is the process the source is read from.
SourceOf(p) ==
    LET supervisor == NearestIn(Supervisors)[p]
    IN IF kind[p].starts = "sandbox" THEN p
       ELSE IF supervisor # Top THEN supervisor ELSE NearestIn(Shells)[p]

\* entry: the session on record owns a port, the system source otherwise.
PortEntry(p) ==
    IF origin[p] # Top
    THEN [by |-> origin[p], state |-> IF origin[p] \in ended THEN "ended" ELSE "active"]
    ELSE [by |-> SourceOf(p), state |-> "source"]

-----------------------------------------------------------------------------
(* Steps                                                                    *)

\* A collector records: sessions absent from the scan end, and the members
\* of the items under an agent get that agent as their owner.
Record ==
    LET under(p) == {i \in items : p \in i.pids /\ i.cat # "Agent" /\ i.owner # Top}
    IN /\ origin' = [p \in Pid |-> IF under(p) # {} THEN (CHOOSE i \in under(p) : TRUE).owner
                                   ELSE origin[p]]
       /\ ended' = ended \cup ({origin'[p] : p \in Pid} \ (alive \cup {Top}))
       /\ UNCHANGED <<alive, parent, kind, items>>

\* A process exits, init gets its children, and the next scan follows.
Exit(p) ==
    /\ p \in alive
    /\ alive' = alive \ {p}
    /\ parent' = [q \in Pid |-> IF parent[q] = p THEN Top ELSE parent[q]]
    /\ UNCHANGED <<kind, origin, ended>>
    /\ items' = Snapshot'

Init ==
    /\ alive = Pid
    /\ parent \in [Pid -> Pid \cup {Top}]
    /\ \A p \in Pid : parent[p] \in {Top} \cup {q \in Pid : q < p}
    /\ kind \in [Pid -> Kinds]
    /\ origin = [p \in Pid |-> Top]
    /\ ended = {}
    /\ items = Snapshot

Next == Record \/ \E p \in Pid : Exit(p)

Spec == Init /\ [][Next]_vars

-----------------------------------------------------------------------------
(* Properties                                                               *)

\* Items have processes of the snapshot, a category and an item above them.
ItemsOK ==
    /\ ended \subseteq {p \in Pid : Cat(p) = "Agent"}
    /\ \A i \in items :
         /\ i.root \in i.pids /\ i.pids \subseteq alive /\ i.cat \in Category
         /\ i.up = Top \/ \E j \in items : i.up = j.root
         /\ ScoreOf(i) \in 0 .. 100
         /\ StateOf(i) = "Suspicious" <=> ScoreOf(i) >= 30

\* Folding, rolling up and adopting never show a process in two items, so
\* memory is not counted twice and a plan names a process once.  One case is
\* excepted: browsers below an MCP server that is itself below one are rolled
\* up in both.
ShownOnce ==
    \A i, j \in items : \A p \in i.pids \cap j.pids :
        \/ i = j
        \/ /\ i.cat = "Browser" /\ j.cat = "Browser"
           /\ \E m \in Above[p] : Cat(m) = "Mcp" /\ \E n \in Above[m] : Cat(n) = "Mcp"

\* Whatever wrappers and folded helpers hide, a classified process that
\* listens on a port is shown; only browsers are left to their controller.
ListenersShown ==
    \A p \in alive : kind[p].listens /\ Guess(p) \notin {"None", "Browser"} => p \in PidsOf(items)

\* What runs under an agent that runs is never a leftover, whatever its age
\* and whatever was recorded of it before (the fixture tests of leftovers.rs
\* say so of one tree).
OwnedIsClean ==
    \A i \in items :
        (i.up # Top /\ i.owner # Top /\ \A p \in i.pids : origin[p] \notin ended)
            => StateOf(i) # "Suspicious"

\* Once a collector has seen that an agent is gone, everything recorded as
\* the agent's, at whatever depth and whatever it is below now, is a leftover
\* unless it is persistent.
OrphansFlagged ==
    [][Record => \A i \in items :
          /\ i.cat # "Agent"
          /\ \E p \in i.pids : origin'[p] \notin alive \cup {Top}
          => StateOf(i)' \in {"Suspicious", "Persistent"}]_vars

\* Processes that exit, and collectors that record, only add to the case
\* against the others: a leftover stays one, and its score does not fall.  A
\* database that init adopts turns into a service, and a browser is told from
\* the desktop's, and shown apart, by what its controllers are; one that comes
\* into view when a controller goes may have what was at the top below it.
ExitsNeverClear ==
    [][\A i \in items :
          /\ StateOf(i) = "Suspicious" /\ i.root \in alive'
          /\ i.cat \notin {"Database", "Browser"}
          => \E j \in items' :
               /\ i.root \in j.pids
               /\ \/ ScoreOf(j)' >= ScoreOf(i)
                  \/ i.up = Top /\ \E b \in items' : b.cat = "Browser" /\ b.root = j.up]_vars

\* wyd ports and the list of items agree, though each derives what it shows on its own: a
\* port whose agent has ended belongs to an item that is a leftover, or persistent, whatever
\* the listener has been grouped with or has moved below since.
PortsAgree ==
    \A p \in alive :
        kind[p].listens /\ Cat(p) # "Browser" /\ PortEntry(p).state = "ended" =>
            \E i \in items : p \in i.pids /\ StateOf(i) \in {"Suspicious", "Persistent"}

\* The source of a port that no agent owns only fades: when a process exits, its child and
\* what is below it lose whatever is above, so that a supervisor gives way to a shell that is
\* nearer, or to init, and a shell to init; nothing that was further up, or of less weight
\* than what is gone, turns up as what started the listener.
SourcesFade ==
    [][\A p \in alive' :
          /\ kind[p].listens /\ PortEntry(p).state = "source" /\ PortEntry(p)'.state = "source"
          /\ PortEntry(p)'.by # PortEntry(p).by
          => \/ PortEntry(p)'.by = Top
             \/ PortEntry(p).by \in Supervisors /\ PortEntry(p)'.by \in Shells \cap Above[p]]_vars

\* What a snapshot shows of a process table: an item's parts agree, no process is shown
\* twice, and none that listens is hidden (build_items, adopt).
ItemsHold == ItemsOK /\ ShownOnce /\ ListenersShown

\* The leftover marks: none below an agent that runs, one on everything that a dead agent
\* left, and none that goes because something exits (leftovers.rs mark, score).
MarksHold == []OwnedIsClean /\ OrphansFlagged /\ ExitsNeverClear

\* The list of ports: in step with the leftover marks, and with sources that only fade
\* (ports.rs entry, source.rs detect).
PortsHold == []PortsAgree /\ SourcesFade
=============================================================================
