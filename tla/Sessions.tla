------------------------------ MODULE Sessions ------------------------------
(***************************************************************************)
(* The ownership store and the collectors that write it: the tables        *)
(* sessions, resources, resource_members, exact_ownership, session_aliases *)
(* and attribution_decisions of store.rs, the record loop of collect.rs    *)
(* and the session_start / session_end requests of server.rs.              *)
(*                                                                         *)
(* A process identity (boot, pid, start time) is one element of Proc that  *)
(* lives at most once.  Scanning, the two ownership transactions, the      *)
(* attribution pass and the garbage collection of one collector are        *)
(* separate steps, and any other collector, vendor hook or process event   *)
(* can come between them.                                                  *)
(***************************************************************************)
EXTENDS Naturals, FiniteSets, Functions

CONSTANTS
    Proc,        \* process identities
    Agent,       \* those the classifier calls an agent
    Vendor,      \* those whose vendor registers them with session_start
    Helper,      \* those with the category and name of the item above them
    Persistent,  \* those whose item is Persistent, never a leftover
    Parent,      \* Parent[p]: the parent of p, or Nobody
    Nobody,      \* no process
    Collector,   \* programs that record scans: TUI, web, wyd serve
    Once,        \* collectors that make one pass and may be killed in it
    Worlds,      \* the sets of processes that run in some behaviour
    Retention,   \* RETENTION_SECS, in ticks
    MaxTime      \* bound on the clock

ASSUME SessionConstants ==
    /\ Agent \subseteq Proc /\ Vendor \subseteq Proc
    /\ Helper \subseteq Proc /\ Persistent \subseteq Proc
    /\ Nobody \notin Proc
    /\ Parent \in [Proc -> Proc \cup {Nobody}]
    /\ Once \subseteq Collector /\ Worlds \subseteq SUBSET Proc
    /\ Retention \in Nat /\ MaxTime \in Nat

Never == MaxTime + 1   \* a NULL time column
Times == 0 .. Never

VARIABLES
    now,        \* the wall clock, in ticks
    life,       \* life[p]: "unborn", "live" or "dead"
    session,    \* sessions: root -> ended_at (Never: NULL), for the rows present
    resource,   \* resources: root -> last_seen_at, for the rows present
    member,     \* resource_members: pairs of a resource and a process
    owner,      \* exact_ownership: resource -> session, for the rows present
    alias,      \* session_aliases: vendor processes -> session
    decisions,  \* attribution_decisions: how many rows each resource has
    col,        \* col[c]: what collector c is about to do
    hook        \* hook[v]: how far the session_start of v has come

tables == <<session, resource, member, owner, alias, decisions>>
vars == <<now, life, tables, col, hook>>

Live == {p \in Proc : life[p] = "live"}

-----------------------------------------------------------------------------
(* What one scan says: group() and derive_ownership() on the processes      *)
(* seen.  A process whose parent is not in the snapshot is a root.          *)

\* Vendor-only processes have no signature: they are no items.
IsItem(p) == p \in Agent \/ p \notin Vendor

\* nearest_item_ancestor: the walk up stops at a parent not in the snapshot.
ItemAbove(seen) ==
    LET up[p \in Proc] ==
            IF Parent[p] \notin seen THEN Nobody
            ELSE IF IsItem(Parent[p]) THEN Parent[p] ELSE up[Parent[p]]
    IN up

\* collapse_same folds a helper into the item above it.
RootOf(seen) ==
    LET above == ItemAbove(seen)
        root[p \in Proc] ==
            IF p \in Helper /\ above[p] # Nobody THEN root[above[p]] ELSE p
    IN root

\* Mutant of SessionOf: an item under no session goes to one that runs.
SessionOrAny(seen) ==
    LET above == ItemAbove(seen)
        root == RootOf(seen)
        any == IF seen \cap Agent = {} THEN Nobody ELSE CHOOSE s \in seen \cap Agent : TRUE
        own[p \in Proc] ==
            IF above[root[p]] = Nobody THEN any
            ELSE IF root[above[root[p]]] \in Agent THEN root[above[root[p]]]
            ELSE own[above[root[p]]]
    IN own

\* walk: the nearest enclosing session owns; a folded agent starts none.
SessionOf(seen) ==
    LET above == ItemAbove(seen)
        root == RootOf(seen)
        own[p \in Proc] ==
            IF above[root[p]] = Nobody THEN Nobody
            ELSE IF root[above[root[p]]] \in Agent THEN root[above[root[p]]]
            ELSE own[above[root[p]]]
    IN own

Items(seen) == {RootOf(seen)[p] : p \in {q \in seen : IsItem(q)}}
MembersOf(seen, r) == {p \in seen : IsItem(p) /\ RootOf(seen)[p] = r}

\* derive_ownership: the sessions and the owned resources of a snapshot.
Sessions(seen) == Items(seen) \cap Agent

Owned(seen) == {r \in Items(seen) \ Agent : SessionOf(seen)[r] # Nobody}

-----------------------------------------------------------------------------
(* The store                                                                *)

Drop(f, S) == Restrict(f, DOMAIN f \ S)

\* Rows f written into the rows g (ON CONFLICT DO UPDATE).
Upsert(f, g) == [x \in DOMAIN f \cup DOMAIN g |-> IF x \in DOMAIN f THEN f[x] ELSE g[x]]

\* Mutant of ApplyOwnership: a session already there keeps its ended_at.
ApplyKeepsEnd(seen) ==
    /\ session' = Upsert(session, [s \in Sessions(seen) |-> Never])
    /\ resource' = Upsert([r \in Owned(seen) |-> now], resource)
    /\ member' = {m \in member : m[1] \notin Owned(seen)}
                   \cup {m \in Owned(seen) \X seen : m[2] \in MembersOf(seen, m[1])}
    /\ owner' = Upsert([r \in Owned(seen) |-> SessionOf(seen)[r]], owner)

\* apply_ownership: one transaction; a session seen again is open again, and
\* the members of a resource are replaced.
ApplyOwnership(seen) ==
    /\ session' = Upsert([s \in Sessions(seen) |-> Never], session)
    /\ resource' = Upsert([r \in Owned(seen) |-> now], resource)
    /\ member' = {m \in member : m[1] \notin Owned(seen)}
                   \cup {m \in Owned(seen) \X seen : m[2] \in MembersOf(seen, m[1])}
    /\ owner' = Upsert([r \in Owned(seen) |-> SessionOf(seen)[r]], owner)

\* end_absent_sessions: every open session whose root the scan lacks.
EndAbsentSessions(seen) ==
    session' = [s \in DOMAIN session |->
                  IF session[s] = Never /\ s \notin seen THEN now ELSE session[s]]

Cutoff == IF now > Retention THEN now - Retention ELSE 0
Expired == {s \in DOMAIN session : session[s] # Never /\ session[s] < Cutoff}
LiveResources(seen) ==
    {r \in DOMAIN resource : r \in seen \/ \E p \in seen : <<r, p>> \in member}
Protected(seen) == {owner[r] : r \in LiveResources(seen) \cap DOMAIN owner}

\* Mutant of GcDoomed: the members of a resource do not protect its session.
GcByRoot(seen) ==
    Expired \ {owner[r] : r \in (DOMAIN resource \cap seen) \cap DOMAIN owner}

\* The sessions one gc deletes.
GcDoomed(seen) == Expired \ Protected(seen)

\* gc: old unprotected sessions with their ownership rows, the old
\* resources nothing owns any more, and what refers to either.
Gc(seen) ==
    LET doomed == GcDoomed(seen)
        owner1 == Drop(owner, {r \in DOMAIN owner : owner[r] \in doomed})
        orphans == {r \in DOMAIN resource \ DOMAIN owner1 : resource[r] < Cutoff}
    IN /\ session' = Drop(session, doomed)
       /\ owner' = owner1
       /\ resource' = Drop(resource, orphans)
       /\ member' = {m \in member : m[1] \notin orphans}
       /\ alias' = Drop(alias, {v \in DOMAIN alias : alias[v] \notin DOMAIN session'})

\* owning_session_for_process and explain_process: the resources a process
\* is recorded in that have an owner.
Recorded(p) == {r \in DOMAIN owner : r = p \/ <<r, p>> \in member}
Origins(p) == {owner[r] : r \in Recorded(p)}

\* Mutant of Leftover: the owner is looked up by the root alone.
LeftoverByRoot(seen, r) ==
    /\ r \notin Agent /\ r \notin Persistent
    /\ r \in DOMAIN owner /\ owner[r] \in DOMAIN session /\ session[owner[r]] # Never

\* session_leftover_one: an item with a process whose origin session ended.
Leftover(seen, r) ==
    /\ r \notin Agent /\ r \notin Persistent
    /\ \E p \in MembersOf(seen, r) : \E s \in Origins(p) :
         s \in DOMAIN session /\ session[s] # Never

-----------------------------------------------------------------------------
(* Processes and the clock                                                  *)

Spawn(p) ==
    /\ life[p] = "unborn"
    /\ Parent[p] # Nobody => life[Parent[p]] = "live"
    /\ life' = [life EXCEPT ![p] = "live"]
    /\ UNCHANGED <<now, tables, col, hook>>

Die(p) ==
    /\ life[p] = "live"
    /\ life' = [life EXCEPT ![p] = "dead"]
    /\ UNCHANGED <<now, tables, col, hook>>

\* A tick is of the order of the retention: no first pass, from its scan to
\* its gc, spans one.
Tick ==
    /\ now < MaxTime
    /\ \A c \in Collector : col[c].gc => col[c].pc = "scan"
    /\ now' = now + 1
    /\ UNCHANGED <<life, tables, col, hook>>

-----------------------------------------------------------------------------
(* Collectors: record() of collect.rs, one step per store call              *)

Idle(gc) == [pc |-> "scan", seen |-> {}, todo |-> {}, gc |-> gc]

Scan(c) ==
    /\ col[c].pc = "scan"
    /\ col' = [col EXCEPT ![c].pc = "apply", ![c].seen = Live]
    /\ UNCHANGED <<now, life, tables, hook>>

\* Errors of the store are dropped: the pass goes on without the write.
Apply(c) ==
    /\ col[c].pc = "apply"
    /\ col' = [col EXCEPT ![c].pc = "end"]
    /\ \/ ApplyOwnership(col[c].seen)
       \/ UNCHANGED <<session, resource, member, owner>>
    /\ UNCHANGED <<now, life, alias, decisions, hook>>

\* The items that have an origin and no decision yet are still to be
\* decided when the pass looks them up.
Undecided(seen) ==
    {r \in Items(seen) \ Agent :
        decisions[r] = 0 /\ \E p \in MembersOf(seen, r) : Recorded(p) # {}}

End(c) ==
    /\ col[c].pc = "end"
    /\ EndAbsentSessions(col[c].seen)
    /\ col' = [col EXCEPT ![c].pc = "attribute"]
    /\ UNCHANGED <<now, life, resource, member, owner, alias, decisions, hook>>

\* attribution_for reads the latest decision ...
Attribute(c) ==
    /\ col[c].pc = "attribute"
    /\ col' = [col EXCEPT ![c].pc = "persist", ![c].todo = Undecided(col[c].seen)]
    /\ UNCHANGED <<now, life, tables, hook>>

\* ... and persist_decision writes one in a transaction of its own.
Persist(c) ==
    /\ col[c].pc = "persist"
    /\ decisions' = [r \in Proc |-> decisions[r] + IF r \in col[c].todo THEN 1 ELSE 0]
    /\ col' = [col EXCEPT ![c] = IF @.gc THEN [@ EXCEPT !.pc = "gc", !.todo = {}]
                                          ELSE Idle(FALSE)]
    /\ UNCHANGED <<now, life, session, resource, member, owner, alias, hook>>

\* The first pass of a program ends with a gc against the scan it made.
Collect(c) ==
    /\ col[c].pc = "gc"
    /\ Gc(col[c].seen)
    /\ col' = [col EXCEPT ![c] = IF c \in Once THEN [Idle(FALSE) EXCEPT !.pc = "quit"]
                                              ELSE Idle(FALSE)]
    /\ UNCHANGED <<now, life, decisions, hook>>

\* A collector is killed between two of its store calls.
Kill(c) ==
    /\ c \in Once /\ col[c].pc # "quit"
    /\ col' = [col EXCEPT ![c] = [Idle(FALSE) EXCEPT !.pc = "quit"]]
    /\ UNCHANGED <<now, life, tables, hook>>

-----------------------------------------------------------------------------
(* Vendor hooks: session_start and session_end of server.rs                 *)

\* session_start refuses a pid that its own scan does not find ...
HookScan(v) ==
    /\ hook[v] = "none" /\ life[v] = "live"
    /\ hook' = [hook EXCEPT ![v] = "ensure"]
    /\ UNCHANGED <<now, life, tables, col>>

\* ... ensure_session inserts unless the row is there (INSERT OR IGNORE) ...
HookEnsure(v) ==
    /\ hook[v] = "ensure"
    /\ session' = Upsert(session, [s \in {v} |-> Never])
    /\ hook' = [hook EXCEPT ![v] = "alias"]
    /\ UNCHANGED <<now, life, resource, member, owner, alias, decisions, col>>

\* ... and register_alias is a statement of its own.
HookAlias(v) ==
    /\ hook[v] = "alias"
    /\ alias' = Upsert([x \in {v} |-> v], alias)
    /\ hook' = [hook EXCEPT ![v] = "done"]
    /\ UNCHANGED <<now, life, session, resource, member, owner, decisions, col>>

\* session_end: a mark on the alias.  The session stays as it is, and the
\* vendor may register the same process again.
HookEnd(v) ==
    /\ hook[v] = "done"
    /\ hook' = [hook EXCEPT ![v] = "none"]
    /\ UNCHANGED <<now, life, tables, col>>

-----------------------------------------------------------------------------
NoRows == [x \in {} |-> Never]

Init ==
    /\ now = 0
    /\ \E world \in Worlds :
         life = [p \in Proc |-> IF p \in world THEN "unborn" ELSE "dead"]
    /\ session = NoRows /\ resource = NoRows /\ owner = NoRows /\ alias = NoRows
    /\ member = {}
    /\ decisions = [p \in Proc |-> 0]
    /\ col = [c \in Collector |-> Idle(TRUE)]
    /\ hook = [v \in Vendor |-> "none"]

Step(c) == Scan(c) \/ Apply(c) \/ End(c) \/ Attribute(c) \/ Persist(c) \/ Collect(c)

Next ==
    \/ \E p \in Proc : Spawn(p) \/ Die(p)
    \/ Tick
    \/ \E c \in Collector : Step(c) \/ Kill(c)
    \/ \E v \in Vendor : HookScan(v) \/ HookEnsure(v) \/ HookAlias(v) \/ HookEnd(v)

\* A program that stays scans again and again; a store write does not fail
\* for ever; a request that was taken is answered.
Fairness ==
    /\ \A c \in Collector \ Once :
         /\ WF_vars(Step(c))
         /\ SF_vars(col[c].pc = "apply" /\ Apply(c) /\ ApplyOwnership(col[c].seen))
    /\ \A v \in Vendor : WF_vars(HookEnsure(v)) /\ WF_vars(HookAlias(v))

Spec == Init /\ [][Next]_vars /\ Fairness

-----------------------------------------------------------------------------
(* Properties                                                               *)

\* The tables hold rows of their types.
SessTypeOK ==
    /\ now \in 0 .. MaxTime
    /\ life \in [Proc -> {"unborn", "live", "dead"}]
    /\ DOMAIN session \subseteq Agent \cup Vendor
    /\ \A s \in DOMAIN session : session[s] \in Times
    /\ DOMAIN resource \subseteq Proc \ Agent
    /\ member \subseteq (Proc \ Agent) \X Proc
    /\ \A v \in DOMAIN alias : v \in Vendor /\ alias[v] = v

\* The tables have no foreign keys, yet every ownership row leads to a
\* resource row and a session row, and every member row to a resource: the
\* lookups of explain_process never meet a missing session row.
EdgesHaveRows ==
    /\ \A r \in DOMAIN owner : r \in DOMAIN resource /\ owner[r] \in DOMAIN session
    /\ \A m \in member : m[1] \in DOMAIN resource

Ancestors ==
    LET up[p \in Proc] == IF Parent[p] = Nobody THEN {}
                          ELSE {Parent[p]} \cup up[Parent[p]]
    IN up

\* Whatever order the passes of several collectors come in, old scans
\* applied late included, the session recorded for a process is one of a
\* process it descends from: no later agent adopts a survivor.
OriginIsAncestor ==
    \A p \in Proc : Origins(p) \subseteq Ancestors[p]

\* attribution_for reads and persists in two transactions, so collectors
\* that decide together each add a row; but the table does not grow with
\* the number of scans.
DecisionsBounded ==
    \A r \in Proc : decisions[r] <= Cardinality(Collector)

\* What the tables of the store say to each other after any mix of scans: rows for every
\* edge, an origin above the process, decisions that do not grow with the scans.
TablesHold == SessTypeOK /\ EdgesHaveRows /\ OriginIsAncestor /\ DecisionsBounded

\* gc spares the session, whatever its age, of every resource with a process
\* that still runs: the ownership row of a survivor stays.
SurvivorKeepsOrigin ==
    [][\A r \in DOMAIN owner :
          (\E p \in Proc : life[p] = "live" /\ r \in Recorded(p)) => r \in DOMAIN owner']_vars

\* ended_at is the first time the root was found absent: a session that
\* stays ended keeps it.
EndTimeStands ==
    [][\A s \in DOMAIN session \cap DOMAIN session' :
          session[s] # Never /\ session'[s] # Never => session'[s] = session[s]]_vars

\* What was recorded stands: the ownership of a survivor, and the time a session ended
\* (gc, end_absent_sessions).
HistoryStands == SurvivorKeepsOrigin /\ EndTimeStands

\* A session whose root died is closed or collected, although an old scan
\* may open it once more.
DeadSessionsEnd ==
    \A s \in Agent \cup Vendor :
        (life[s] = "dead" /\ s \in DOMAIN session /\ session[s] = Never)
            ~> (s \notin DOMAIN session \/ session[s] # Never)

\* An old scan can close the session of a running agent; the next pass that
\* sees the agent opens it again.
WrongEndHeals ==
    \A a \in Agent :
        (life[a] = "live" /\ a \in DOMAIN session /\ session[a] # Never)
            ~> (life[a] = "dead" \/ (a \in DOMAIN session /\ session[a] = Never))

\* A resource that outlives the sessions recorded for it is reported as a
\* leftover, unless an older scan, applied late, takes the record away.
SurvivorMarked ==
    \A p \in {q \in Proc \ (Agent \cup Persistent) : IsItem(q)} :
        (/\ life[p] = "live" /\ Origins(p) # {}
         /\ \A s \in Origins(p) : life[s] = "dead")
            ~> \/ life[p] = "dead" \/ Origins(p) = {}
               \/ Leftover(Live, RootOf(Live)[p])
=============================================================================
