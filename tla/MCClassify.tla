----------------------------- MODULE MCClassify -----------------------------
(***************************************************************************)
(* Every table of three processes of the kinds that interact (agents, MCP  *)
(* servers of two names, browsers, a wrapper that listens and one named as *)
(* a browser's, a database, an old worker, a shell in a terminal, tmux, an *)
(* unknown ruby), every sequence of candidates of the resolver, and every  *)
(* sequence of lookups in every small directory tree. The three do not     *)
(* touch each other: a behaviour is of one of them.                        *)
(***************************************************************************)
EXTENDS Classify, Resolver, Projects

VARIABLE part

Plain == [hits |-> {}, extra |-> "None", name |-> "sh", pkg |-> FALSE, dev |-> FALSE,
          argv |-> TRUE, tty |-> FALSE, age |-> 1, listens |-> FALSE,
          service |-> FALSE, configured |-> FALSE, starts |-> "None"]
Of(cat, name) == [Plain EXCEPT !.hits = {cat}, !.name = name]

MCKinds ==
    {Of("Agent", "omp"),
     Of("Mcp", "context7"), Of("Mcp", "mcp-server"),
     Of("Browser", "Chromium"), [Of("Browser", "Chromium") EXCEPT !.dev = TRUE],
     [Of("UnknownDev", "node") EXCEPT !.listens = TRUE], Of("UnknownDev", "playwright"),
     Of("Database", "postgres"),
     [Of("Worker", "celery") EXCEPT !.age = 8, !.hits = {"Worker", "Database"}],
     [Plain EXCEPT !.tty = TRUE, !.starts = "shell"],
     [Plain EXCEPT !.name = "tmux", !.starts = "supervisor"],
     [Plain EXCEPT !.name = "ruby", !.listens = TRUE]}

\* ResolverRules::v1
V1 == [descendant_anchor |-> 75, direct_parent_anchor |-> 85, explicit_anchor |-> 100,
       exact_cwd |-> 10, same_git_root |-> 8, project_cap |-> 10,
       temporal_10s |-> 5, temporal_60s |-> 3, temporal_5m |-> 1, temporal_cap |-> 5,
       relationship_support |-> 5, relationship_cap |-> 5,
       ownership_threshold |-> 75, ambiguity_margin |-> 15]

Cand(session, anchor, cap, cwd, delta, tool) ==
    [session |-> session, anchor |-> anchor, score |-> None, cap |-> cap,
     exact_cwd |-> cwd, same_git_root |-> TRUE, delta |-> delta, tool |-> tool,
     predates |-> FALSE, reaches_other |-> FALSE]
MCEvidence ==
    {Cand(1, a, cap, cwd, 7, tool) :
        a \in {"Descendant", "Explicit"}, cap \in {None, 80}, cwd \in BOOLEAN, tool \in BOOLEAN}
    \cup {Cand(2, a, None, cwd, d, FALSE) :
        a \in {None, "Descendant"}, cwd \in BOOLEAN, d \in {None, 60}}
    \cup {Attribution(3, cwd, d, TRUE) : cwd \in BOOLEAN, d \in {None, 0}}
    \cup {[Cand(3, "Explicit", None, TRUE, 0, TRUE) EXCEPT !.reaches_other = TRUE]}

MCDir == {"/", "/w", "/w/a", "/w/b", "/w/a/s"}
MCUp == [d \in MCDir |-> IF d = "/w/a/s" THEN "/w/a" ELSE IF d \in {"/w/a", "/w/b"} THEN "/w" ELSE "/"]

NoItems ==
    /\ alive = {} /\ items = {} /\ ended = {}
    /\ parent = [p \in Pid |-> Top] /\ kind = [p \in Pid |-> Of("Agent", "omp")] /\ origin = [p \in Pid |-> Top]
NoLookups ==
    /\ git = {} /\ marker = {} /\ cached = {}
    /\ cache = [d \in Dir |-> NoProject] /\ answer = [dir |-> NoProject, project |-> NoProject]

MCInit ==
    \/ part = "items" /\ Init /\ ResolverInit /\ NoLookups
    \/ part = "resolver" /\ NoItems /\ ResolverInit /\ NoLookups
    \/ part = "projects" /\ NoItems /\ ResolverInit /\ ProjectsInit
MCNext ==
    /\ part' = part
    /\ \/ part = "items" /\ Next /\ UNCHANGED <<resolverVars, projectVars>>
       \/ part = "resolver" /\ ResolverNext /\ UNCHANGED <<vars, projectVars>>
       \/ part = "projects" /\ ProjectsNext /\ UNCHANGED <<vars, resolverVars>>
MCSpec == MCInit /\ [][MCNext]_<<part, vars, resolverVars, projectVars>>
=============================================================================
