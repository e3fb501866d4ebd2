----------------------------- MODULE CgroupRoot -----------------------------
(***************************************************************************)
(* Looking for a delegated cgroup subtree (platform/cgroup.rs): the        *)
(* candidates one after the other, each asked to enable the controllers a  *)
(* run wants, until one can deliver them all.                              *)
(*                                                                         *)
(* A controller is available in a directory when its parent enables it for *)
(* its children; a directory that has processes of its own, and is not the *)
(* mount, enables nothing.  What was enabled in a candidate that is then   *)
(* refused stays enabled.                                                  *)
(***************************************************************************)
EXTENDS Naturals, Sequences

CONSTANTS
  Wanted,     \* controllers
  Explicit,   \* WYD_CGROUP_ROOT, or NoDir
  Own,        \* the supervisor's own cgroup, or NoDir
  Mount,      \* CGROUP2_MOUNT
  DirAbove,   \* the directory a directory is in
  NoDir

VARIABLES
  offered,    \* controllers the kernel has at the mount
  enabled,    \* cgroup.subtree_control
  occupied,   \* directories with processes of their own
  writable,   \* directories wyd may write to
  tried,      \* candidates tried so far
  root        \* CgroupRoot: its path, and what was enabled in it

rootVars == <<offered, enabled, occupied, writable, tried, root>>

Dirs == DOMAIN DirAbove

\* What the search needs of them: a directory below the mount is in another one.
ASSUME RootConstants ==
  /\ Mount \in Dirs /\ NoDir \notin Dirs /\ {Explicit, Own} \subseteq Dirs \cup {NoDir}
  /\ \A d \in Dirs \ {Mount} : DirAbove[d] \in Dirs

\* a directory and those above it, up to the mount
Ancestors ==
  LET up[d \in Dirs] == IF d = Mount THEN <<d>> ELSE <<d>> \o up[DirAbove[d]] IN up

\* candidates(), most specific first; the mount is one of them in any case
Candidates ==
  (IF Explicit = NoDir THEN <<>> ELSE <<Explicit>>)
    \o (CASE Own # NoDir -> Ancestors[Own]
          [] Own = NoDir /\ Explicit # Mount -> <<Mount>>
          [] Own = NoDir /\ Explicit = Mount -> <<>>)

NoRoot == [path |-> NoDir, controllers |-> {}]
Available(d) == IF d = Mount THEN offered ELSE enabled[DirAbove[d]]

\* the kernel's answer to a write of "+memory +pids +cpu" to subtree_control
MayEnable(d) == d \in writable /\ (d \notin occupied \/ d = Mount)

\* Cgroup::enable_controllers, of a directory that lacks some and has some to offer
EnabledBy(d) ==
  IF ~(Wanted \subseteq enabled[d]) /\ (Available(d) \cap (Wanted \ enabled[d])) # {} /\ MayEnable(d)
  THEN [enabled EXCEPT ![d] = @ \cup (Available(d) \cap Wanted)]
  ELSE enabled

\* Mutants of Delivers: what was enabled is not looked at again; what is looked at
\* was read before it.
DeliversSome(d, after) == enabled[d] # after[d] \/ Wanted \subseteq after[d]
DeliveredBefore(d, after) == Wanted \subseteq enabled[d]
\* qualify, before its probe
Delivers(d, after) == Wanted \subseteq after[d]

\* qualify: then a probe child is made
TryCandidate ==
  /\ root = NoRoot /\ tried < Len(Candidates)
  /\ LET d == Candidates[tried + 1] IN
       /\ enabled' = EnabledBy(d)
       /\ IF Delivers(d, enabled') /\ d \in writable
          THEN root' = [path |-> d, controllers |-> enabled'[d]] /\ UNCHANGED tried
          ELSE tried' = tried + 1 /\ UNCHANGED root
  /\ UNCHANGED <<offered, occupied, writable>>

RootInit ==
  /\ offered \in SUBSET Wanted
  /\ enabled \in {e \in [Dirs -> SUBSET Wanted] :
                    \A d \in Dirs : e[d] \subseteq (IF d = Mount THEN offered ELSE e[DirAbove[d]])}
  /\ occupied \in {o \in SUBSET Dirs : \A d \in o \ {Mount} : enabled[d] = {}}
  /\ writable \in SUBSET Dirs
  /\ tried = 0 /\ root = NoRoot

RootSpec == RootInit /\ [][TryCandidate]_rootVars

RootTypeOK ==
  /\ offered \subseteq Wanted /\ enabled \in [Dirs -> SUBSET Wanted]
  /\ tried \in 0 .. Len(Candidates)
  /\ root = NoRoot \/ (root.path \in Dirs /\ root.controllers \subseteq Wanted)

-----------------------------------------------------------------------------
\* A root that was found enables, for the cgroups of runs, every controller a hard
\* limit needs, though parents, other candidates and their processes differ: "a limit
\* that does not exist is never promised" (discover, qualify).
RootDelivers ==
  root # NoRoot => Wanted \subseteq enabled[root.path] /\ root.path \in writable

\* None is found only when no candidate, as the search leaves it, could serve.
NoneMissed ==
  (root = NoRoot /\ tried = Len(Candidates)) =>
    \A i \in 1 .. Len(Candidates) :
       ~(Candidates[i] \in writable /\ Wanted \subseteq enabled[Candidates[i]])
=============================================================================
