------------------------------ MODULE Projects ------------------------------
(***************************************************************************)
(* ProjectCache of src/classify/project.rs: which project a directory      *)
(* belongs to, and the cache that keeps a directory from being walked      *)
(* twice.  Directories are looked up in any order: one lookup per process  *)
(* of a scan, and a cache that a long-lived collector keeps across scans.  *)
(***************************************************************************)
EXTENDS Naturals, Sequences, FiniteSets

CONSTANTS
    Dir,    \* directories
    Up,     \* Up[d]: the parent of d; the root is its own parent
    NoProject \* no project, or a directory not in the cache

ASSUME ProjectsConstants ==
    /\ Up \in [Dir -> Dir] /\ NoProject \notin Dir /\ IsFiniteSet(Dir)
    \* they are a tree: every way up ends
    /\ \E depth \in [Dir -> 0 .. Cardinality(Dir)] :
         \A d \in Dir : Up[d] # d => depth[Up[d]] < depth[d]

VARIABLES
    git,    \* the directories with a .git, or right below a configured root
    marker, \* the directories with a package.json, Cargo.toml, ...
    cache,  \* by_dir[d]: a project, i.e. its root, or NoProject
    cached, \* the keys of by_dir
    answer  \* the last lookup: its directory and what detect() returned

projectVars == <<git, marker, cache, cached, answer>>

-----------------------------------------------------------------------------
\* The directories from d up to the root, d first.
PathUp ==
    LET path[d \in Dir] == IF Up[d] = d THEN <<d>> ELSE <<d>> \o path[Up[d]]
    IN path

\* The first place of a path where P holds, 0 when there is none.
First(path, P(_)) ==
    LET hits == {i \in DOMAIN path : P(path[i])}
    IN IF hits = {} THEN 0 ELSE CHOOSE i \in hits : \A j \in hits : i <= j

\* Mutant of Stop: only the cache ends the walk.
StopAtCache(path) == First(path, LAMBDA x : x \in cached)

\* The walk up ends at what is cached or is the root of a project.
Stop(path) == First(path, LAMBDA x : x \in cached \/ x \in git)

\* No git: the marker nearest to where the walk started.
NearestMarker(path) ==
    LET i == First(path, LAMBDA x : x \in marker) IN IF i = 0 THEN NoProject ELSE path[i]

\* detect: a hit of the cache goes before a look at the directory, and every
\* directory walked gets the result.
Detect(d) ==
    LET path == PathUp[d]
        stop == Stop(path)
        walked == {path[i] : i \in {j \in DOMAIN path : stop = 0 \/ j <= stop}}
        found == IF stop = 0 THEN NearestMarker(path)
                 ELSE IF path[stop] \in cached THEN cache[path[stop]] ELSE path[stop]
    IN /\ cache' = [x \in Dir |-> IF x \in walked THEN found ELSE cache[x]]
       /\ cached' = cached \cup walked
       /\ answer' = [dir |-> d, project |-> found]
       /\ UNCHANGED <<git, marker>>

ProjectsInit ==
    /\ git \in SUBSET Dir /\ marker \in SUBSET Dir
    /\ cache = [d \in Dir |-> NoProject]
    /\ cached = {}
    /\ answer = [dir |-> NoProject, project |-> NoProject]

ProjectsNext == \E d \in Dir : Detect(d)

ProjectsSpec == ProjectsInit /\ [][ProjectsNext]_projectVars

-----------------------------------------------------------------------------
\* What detect() returns for a directory that nothing was looked up before.
Uncached(d) ==
    LET path == PathUp[d]
        i == First(path, LAMBDA x : x \in git)
    IN IF i = 0 THEN NearestMarker(path) ELSE path[i]

\* Inside a git tree every lookup finds the nearest git root, whatever was
\* looked up before and however much of the way was cached (the test
\* git_root_wins_and_is_cached asks twice for one directory).
GitRootWins ==
    LET d == answer.dir IN
    d # NoProject /\ (\E i \in DOMAIN PathUp[d] : PathUp[d][i] \in git)
        => answer.project = Uncached(d)
=============================================================================
