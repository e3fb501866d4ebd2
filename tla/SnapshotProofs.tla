--------------------------- MODULE SnapshotProofs ---------------------------
(***************************************************************************)
(* What a scan shows and what the terminal makes of it, for every process  *)
(* table, every set of candidates, every tree of directories and every     *)
(* sequence of keys and snapshots.                                         *)
(*                                                                         *)
(* Classify.  The walks up the forest are recursive functions; that they   *)
(* exist and what they give is proved once, by induction from the top      *)
(* (AboveIs, NearestIs, FoldIs, OwnerIs), and gathered in three formulas,  *)
(* TheTree, TheItems and TheOwners, that hold of every table before and    *)
(* after a step.  ItemsInv says that the items are those of the table; it  *)
(* is enough for all that a single snapshot promises.  That leftovers stay *)
(* needs what is on record as well: OnRecord says that all that folds into *)
(* an item has one owner on record, and that nothing below an agent has    *)
(* one that has ended.                                                     *)
(*                                                                         *)
(* Resolver and Projects have one argument each: what is decided depends   *)
(* on the set of candidates only, and a lookup keeps what the lookups      *)
(* before it have left in the cache.  Terminal: a list is the sorted set   *)
(* of what is shown, and an invariant follows the rows that a popup was    *)
(* opened for, from the key that froze them to the one that confirms.      *)
(* RunFeed: the two threads, step by step, with what the thread has read   *)
(* compared to the store and what it waits for to where the keys are.      *)
(***************************************************************************)
EXTENDS Classify, Resolver, Projects, Terminal, RunFeed, Recursion, FiniteSetTheorems,
        TLAPS

-----------------------------------------------------------------------------
(* The forest.                                                             *)

\* A process table is a forest whose links lead to earlier processes.
Forest ==
  /\ alive \subseteq Pid /\ kind \in [Pid -> Kinds]
  /\ parent \in [Pid -> Pid \cup {Top}] /\ \A p \in Pid : parent[p] = Top \/ parent[p] < p

Agents == {p \in Pid : Cat(p) = "Agent"}

\* A function of processes defined along links to earlier ones exists.
LEMMA UpTheForest ==
  ASSUME NEW V, NEW base \in [Pid -> V], NEW step \in [Pid -> [V -> V]],
         NEW over \in [Pid -> Pid \cup {Top}], \A p \in Pid : over[p] # Top => over[p] < p
  PROVE  \E f : Follows(f, Pid, Top, over, V, base, step)
<1> DEFINE rank == [p \in Pid |-> p]
<1>1. rank \in [Pid -> Nat] /\ Top \notin Pid
  BY ClassifyConstants
<1>2. \A p \in Pid : over[p] # Top => rank[over[p]] < rank[p]
  OBVIOUS
<1> HIDE DEF rank
<1>3. Links(Pid, Top, rank, over, V, base, step)
  BY <1>1, <1>2 DEF Links
<1> QED BY <1>3, TreeRecursion

\* Induction from the top of the forest down.
LEMMA DownTheForest ==
  ASSUME NEW T, \A p \in Pid : (\A q \in Pid : q < p => q \in T) => p \in T
  PROVE  Pid \subseteq T
<1> DEFINE rank == [p \in Pid |-> p]
<1>1. rank \in [Pid -> Nat]
  BY ClassifyConstants
<1>2. \A p \in Pid : (\A q \in Pid : rank[q] < rank[p] => q \in T) => p \in T
  OBVIOUS
<1> HIDE DEF rank
<1> QED BY <1>1, <1>2, RankInduction

\* The link up that ends where the snapshot does.
Link == [p \in Pid |-> IF parent[p] \in alive THEN parent[p] ELSE Top]

\* What the links of a process table are.
LEMMA LinksUp ==
  ASSUME Forest
  PROVE  /\ Link \in [Pid -> Pid \cup {Top}] /\ \A p \in Pid : Link[p] # Top => Link[p] < p
         /\ \A p \in Pid : /\ parent[p] \in alive => Link[p] = parent[p] /\ Link[p] \in Pid
                           /\ parent[p] \notin alive => Link[p] = Top
         /\ Top \notin alive
BY ClassifyConstants DEF Forest, Link

\* The recursion of Above, and what it gives: those above a process are earlier ones of the
\* snapshot, and of two of them one is above the other.
LEMMA AboveIs ==
  ASSUME Forest
  PROVE  \A p \in Pid :
           Above[p] = IF parent[p] \in alive THEN {parent[p]} \cup Above[parent[p]] ELSE {}
<1> DEFINE G(f) == f = [p \in Pid |-> IF parent[p] \in alive THEN {parent[p]} \cup f[parent[p]] ELSE {}]
           base == [p \in Pid |-> {}]
           step == [p \in Pid |-> [X \in SUBSET alive |-> IF parent[p] \in alive THEN {parent[p]} \cup X ELSE {}]]
<1>1. base \in [Pid -> SUBSET alive] /\ step \in [Pid -> [SUBSET alive -> SUBSET alive]]
  OBVIOUS
<1>2. PICK f \in [Pid -> SUBSET alive] :
        \A p \in Pid : f[p] = IF Link[p] = Top THEN base[p] ELSE step[p][f[Link[p]]]
  <2>1. Link \in [Pid -> Pid \cup {Top}] /\ \A p \in Pid : Link[p] # Top => Link[p] < p
    BY LinksUp
  <2> HIDE DEF base, step
  <2>2. \E f : Follows(f, Pid, Top, Link, SUBSET alive, base, step)
    BY <1>1, <2>1, UpTheForest
  <2> QED BY <2>2 DEF Follows
<1>3. ASSUME NEW p \in Pid
      PROVE  f[p] = IF parent[p] \in alive THEN {parent[p]} \cup f[parent[p]] ELSE {}
  <2>1. CASE parent[p] \in alive
    <3>1. Link[p] = parent[p] /\ Link[p] # Top /\ f[parent[p]] \in SUBSET alive
      BY <2>1, LinksUp
    <3>2. step[p][f[parent[p]]] = {parent[p]} \cup f[parent[p]]
      BY <2>1, <3>1
    <3> HIDE DEF step, base
    <3> QED BY <1>2, <2>1, <3>1, <3>2
  <2>2. CASE parent[p] \notin alive
    <3>1. Link[p] = Top /\ base[p] = {}
      BY <2>2, LinksUp
    <3> HIDE DEF step, base
    <3> QED BY <1>2, <2>2, <3>1
  <2> QED BY <2>1, <2>2
<1>4. G(f)
  <2> HIDE DEF base, step
  <2> QED BY <1>3
<1>5. Above = CHOOSE g : G(g)
  BY DEF Above
<1> HIDE DEF G
<1>6. G(Above)
  BY <1>4, <1>5
<1> QED BY <1>6 DEF G

\* Those above a process: earlier ones of the snapshot, one above the other.
LEMMA AboveOrders ==
  ASSUME Forest
  PROVE  \A p \in Pid :
           /\ Above[p] \subseteq alive
           /\ \A q \in Above[p] : q < p /\ Above[q] \subseteq Above[p]
           /\ \A q, r \in Above[p] : q = r \/ q \in Above[r] \/ r \in Above[q]
<1> DEFINE Ordered(p) == /\ Above[p] \subseteq alive
                         /\ \A q \in Above[p] : q < p /\ Above[q] \subseteq Above[p]
                         /\ \A q, r \in Above[p] : q = r \/ q \in Above[r] \/ r \in Above[q]
           T == {p \in Pid : Ordered(p)}
<1>1. \A p \in Pid : (\A q \in Pid : q < p => q \in T) => p \in T
  <2> SUFFICES ASSUME NEW p \in Pid, \A q \in Pid : q < p => q \in T PROVE Ordered(p)
    OBVIOUS
  <2>1. CASE parent[p] \in alive
    <3> DEFINE u == parent[p]
    <3>a. u \in Pid /\ u \in alive
      BY <2>1 DEF Forest
    <3>b. u < p
      BY <3>a, ClassifyConstants DEF Forest
    <3>c. Above[p] = {u} \cup Above[u]
      BY <2>1, AboveIs
    <3>1. u \in Pid /\ u < p /\ u \in alive /\ Above[p] = {u} \cup Above[u]
      BY <3>a, <3>b, <3>c
    <3>2. Ordered(u)
      BY <3>1
    <3>3. \A q \in Above[u] : q < p
      <4>1. p \in Nat /\ u \in Nat /\ \A q \in Above[u] : q \in Nat
        BY <3>1, <3>2, ClassifyConstants DEF Forest
      <4> QED BY <3>1, <3>2, <4>1
    <3> HIDE DEF u
    <3> QED BY <3>1, <3>2, <3>3
  <2>2. CASE parent[p] \notin alive
    BY <2>2, AboveIs
  <2> QED BY <2>1, <2>2
<1> HIDE DEF T
<1>2. Pid \subseteq T
  BY <1>1, DownTheForest
<1> QED BY <1>2 DEF T

\* The nearest of a set: none, or one of the set above.
LEMMA NearestIs ==
  ASSUME Forest, NEW S
  PROVE  \A p \in Pid :
           /\ NearestIn(S)[p] = IF parent[p] \notin alive THEN Top
                                ELSE IF parent[p] \in S THEN parent[p] ELSE NearestIn(S)[parent[p]]
           /\ NearestIn(S)[p] # Top => NearestIn(S)[p] \in S \cap Above[p]
<1> DEFINE G(f) == f = [p \in Pid |-> IF parent[p] \notin alive THEN Top
                                      ELSE IF parent[p] \in S THEN parent[p] ELSE f[parent[p]]]
           V == Pid \cup {Top}
           base == [p \in Pid |-> Top]
           step == [p \in Pid |-> [x \in V |-> IF parent[p] \in S THEN parent[p] ELSE x]]
<1>1. base \in [Pid -> V] /\ step \in [Pid -> [V -> V]]
  BY DEF Forest
<1>2. PICK f \in [Pid -> V] :
        \A p \in Pid : f[p] = IF Link[p] = Top THEN base[p] ELSE step[p][f[Link[p]]]
  <2>1. Link \in [Pid -> Pid \cup {Top}] /\ \A p \in Pid : Link[p] # Top => Link[p] < p
    BY LinksUp
  <2> HIDE DEF base, step, V
  <2>2. \E f : Follows(f, Pid, Top, Link, V, base, step)
    BY <1>1, <2>1, UpTheForest
  <2> QED BY <2>2 DEF Follows
<1>3. ASSUME NEW p \in Pid
      PROVE  f[p] = IF parent[p] \notin alive THEN Top
                    ELSE IF parent[p] \in S THEN parent[p] ELSE f[parent[p]]
  <2>1. CASE parent[p] \in alive
    <3>1. Link[p] = parent[p] /\ Link[p] # Top /\ f[parent[p]] \in V
      BY <2>1, LinksUp
    <3>2. step[p][f[parent[p]]] = IF parent[p] \in S THEN parent[p] ELSE f[parent[p]]
      BY <3>1
    <3> HIDE DEF step, base
    <3> QED BY <1>2, <2>1, <3>1, <3>2
  <2>2. CASE parent[p] \notin alive
    <3>1. Link[p] = Top /\ base[p] = Top
      BY <2>2, LinksUp
    <3> HIDE DEF step, base
    <3> QED BY <1>2, <2>2, <3>1
  <2> QED BY <2>1, <2>2
<1>4. G(f)
  <2> HIDE DEF base, step
  <2> QED BY <1>3
<1>5. NearestIn(S) = CHOOSE g : G(g)
  BY DEF NearestIn
<1> HIDE DEF G
<1>6. G(NearestIn(S))
  BY <1>4, <1>5
<1> DEFINE n == NearestIn(S)
<1>7. \A p \in Pid : n[p] = IF parent[p] \notin alive THEN Top
                            ELSE IF parent[p] \in S THEN parent[p] ELSE n[parent[p]]
  BY <1>6 DEF G
<1> HIDE DEF n
<1> DEFINE T == {p \in Pid : n[p] # Top => n[p] \in S \cap Above[p]}
<1>8. \A p \in Pid : (\A q \in Pid : q < p => q \in T) => p \in T
  <2> SUFFICES ASSUME NEW p \in Pid, \A q \in Pid : q < p => q \in T, n[p] # Top
               PROVE  n[p] \in S \cap Above[p]
    OBVIOUS
  <2>1. parent[p] \in alive /\ parent[p] \in Pid /\ parent[p] < p
    BY <1>7, LinksUp DEF Forest
  <2>2. Above[p] = {parent[p]} \cup Above[parent[p]]
    BY <2>1, AboveIs
  <2>3. CASE parent[p] \in S
    BY <1>7, <2>1, <2>2, <2>3
  <2>4. CASE parent[p] \notin S
    <3>1. n[p] = n[parent[p]] /\ parent[p] \in T
      BY <1>7, <2>1, <2>4
    <3> QED BY <2>2, <3>1
  <2> QED BY <2>3, <2>4
<1> HIDE DEF T
<1>9. Pid \subseteq T
  BY <1>8, DownTheForest
<1> QED BY <1>7, <1>9 DEF T, n

-----------------------------------------------------------------------------
(* Items.                                                                  *)

SameKind(p, q) == Cat(p) = Cat(q) /\ kind[p].name = kind[q].name

\* Items are processes of the snapshot.
LEMMA ItemsAlive == ItemPids \subseteq alive
BY DEF ItemPids, KeepBrowser

\* The recursion of collapse_same: what folds into an item is an item that folds no further.
LEMMA FoldIs ==
  ASSUME Forest
  PROVE  \A p \in Pid :
           /\ FoldOf[p] = IF NearestItem[p] # Top /\ SameKind(p, NearestItem[p])
                          THEN FoldOf[NearestItem[p]] ELSE p
           /\ FoldOf[p] \in Pid /\ FoldOf[p] <= p /\ FoldOf[FoldOf[p]] = FoldOf[p]
           /\ p \in ItemPids => FoldOf[p] \in ItemPids
<1> DEFINE near == NearestItem
           G(f) == f = [p \in Pid |-> IF near[p] # Top /\ SameKind(p, near[p]) THEN f[near[p]] ELSE p]
           over == [p \in Pid |-> IF near[p] # Top /\ SameKind(p, near[p]) THEN near[p] ELSE Top]
           base == [p \in Pid |-> p]
           step == [p \in Pid |-> [x \in Pid |-> x]]
<1>0. \A p \in Pid : near[p] # Top => near[p] \in ItemPids /\ near[p] \in Pid /\ near[p] < p
  <2>1. \A p \in Pid : near[p] # Top => near[p] \in ItemPids \cap Above[p]
    BY NearestIs DEF NearestItem
  <2> HIDE DEF near
  <2>2. \A p \in Pid : Above[p] \subseteq Pid /\ \A q \in Above[p] : q < p
    BY AboveOrders DEF Forest
  <2> QED BY <2>1, <2>2
<1> HIDE DEF near
<1>1. PICK f : Follows(f, Pid, Top, over, Pid, base, step)
  <2>1. base \in [Pid -> Pid] /\ step \in [Pid -> [Pid -> Pid]]
    OBVIOUS
  <2>2. over \in [Pid -> Pid \cup {Top}] /\ \A p \in Pid : over[p] # Top => over[p] < p
    BY <1>0
  <2> HIDE DEF base, step, over
  <2> QED BY <2>1, <2>2, UpTheForest
<1>2. f \in [Pid -> Pid]
  BY <1>1 DEF Follows
<1>3. ASSUME NEW p \in Pid
      PROVE  f[p] = IF near[p] # Top /\ SameKind(p, near[p]) THEN f[near[p]] ELSE p
  <2>1. f[p] = IF over[p] = Top THEN base[p] ELSE step[p][f[over[p]]]
    <3> HIDE DEF over, base, step
    <3> QED BY <1>1 DEF Follows
  <2>2. CASE near[p] # Top /\ SameKind(p, near[p])
    <3>1. over[p] = near[p] /\ over[p] # Top /\ f[near[p]] \in Pid
      BY <1>0, <1>2, <2>2
    <3>2. step[p][f[near[p]]] = f[near[p]]
      BY <3>1
    <3> HIDE DEF over, base, step
    <3> QED BY <2>1, <2>2, <3>1, <3>2
  <2>3. CASE ~(near[p] # Top /\ SameKind(p, near[p]))
    <3>1. over[p] = Top /\ base[p] = p
      BY <2>3
    <3> HIDE DEF over, base, step
    <3> QED BY <2>1, <2>3, <3>1
  <2> QED BY <2>2, <2>3
<1>4. G(f)
  <2> HIDE DEF over, base, step
  <2> QED BY <1>2, <1>3
<1>5. FoldOf = CHOOSE g : G(g)
  BY DEF FoldOf, Folded, near, SameKind
<1> HIDE DEF G
<1>6. G(FoldOf)
  BY <1>4, <1>5
<1>7. \A p \in Pid : FoldOf[p] = IF near[p] # Top /\ SameKind(p, near[p]) THEN FoldOf[near[p]] ELSE p
  BY <1>6 DEF G
<1> DEFINE T == {p \in Pid : /\ FoldOf[p] \in Pid /\ FoldOf[p] <= p /\ FoldOf[FoldOf[p]] = FoldOf[p]
                             /\ p \in ItemPids => FoldOf[p] \in ItemPids}
<1>8. \A p \in Pid : (\A q \in Pid : q < p => q \in T) => p \in T
  <2> SUFFICES ASSUME NEW p \in Pid, \A q \in Pid : q < p => q \in T PROVE p \in T
    OBVIOUS
  <2>0. p \in Nat /\ Pid \subseteq Nat
    BY ClassifyConstants
  <2>1. CASE near[p] # Top /\ SameKind(p, near[p])
    <3> DEFINE q == near[p]
    <3>1. q \in Pid /\ q < p /\ q \in ItemPids /\ FoldOf[p] = FoldOf[q]
      BY <1>0, <1>7, <2>1
    <3> HIDE DEF q
    <3>2. /\ FoldOf[q] \in Pid /\ FoldOf[q] <= q /\ FoldOf[FoldOf[q]] = FoldOf[q]
          /\ FoldOf[q] \in ItemPids
      BY <3>1
    <3>3. FoldOf[q] <= p
      <4>1. FoldOf[q] \in Nat /\ q \in Nat
        BY <2>0, <3>1, <3>2
      <4> QED BY <2>0, <3>1, <3>2, <4>1
    <3> QED BY <3>1, <3>2, <3>3
  <2>2. CASE ~(near[p] # Top /\ SameKind(p, near[p]))
    <3>1. FoldOf[p] = p
      BY <1>7, <2>2
    <3> QED BY <2>0, <3>1
  <2> QED BY <2>1, <2>2
<1> HIDE DEF T
<1>9. Pid \subseteq T
  BY <1>8, DownTheForest
<1> QED BY <1>7, <1>9 DEF T, near

\* The nearest item above an item is an item that folds into another.
LEMMA NearestItemIs ==
  ASSUME Forest, NEW p \in Pid, NearestItem[p] # Top
  PROVE  NearestItem[p] \in ItemPids /\ NearestItem[p] \in Pid /\ NearestItem[p] \in Above[p] /\ NearestItem[p] < p
<1>1. NearestItem[p] \in ItemPids \cap Above[p]
  BY NearestIs DEF NearestItem
<1> QED BY <1>1, AboveOrders DEF Forest

\* The recursion of walk.
LEMMA OwnerIs ==
  ASSUME Forest
  PROVE  /\ OwnerOf[Top] = Top
         /\ \A p \in Pid : OwnerOf[p] = IF Cat(p) = "Agent" THEN p
                                         ELSE IF NearestItem[p] = Top THEN Top
                                         ELSE OwnerOf[FoldOf[NearestItem[p]]]
<1> DEFINE near == NearestItem
           agent(p) == Cat(p) = "Agent"
           V == Pid \cup {Top}
           Up1(f, r) == IF r = Top THEN Top ELSE IF agent(r) THEN r
                        ELSE IF near[r] = Top THEN Top ELSE f[FoldOf[near[r]]]
           G(f) == f = [r \in V |-> Up1(f, r)]
           over == [p \in Pid |-> IF agent(p) \/ near[p] = Top THEN Top ELSE FoldOf[near[p]]]
           base == [p \in Pid |-> IF agent(p) THEN p ELSE Top]
           step == [p \in Pid |-> [x \in V |-> x]]
<1>0. /\ Top \notin Pid
      /\ \A p \in Pid : near[p] # Top => FoldOf[near[p]] \in Pid /\ FoldOf[near[p]] < p
  <2> SUFFICES ASSUME NEW p \in Pid, near[p] # Top PROVE FoldOf[near[p]] \in Pid /\ FoldOf[near[p]] < p
    BY ClassifyConstants
  <2>1. near[p] \in Pid /\ near[p] < p
    BY NearestItemIs
  <2>2. FoldOf[near[p]] \in Pid /\ FoldOf[near[p]] <= near[p]
    BY <2>1, FoldIs
  <2>3. p \in Nat /\ near[p] \in Nat /\ FoldOf[near[p]] \in Nat
    BY <2>1, <2>2, ClassifyConstants
  <2> QED BY <2>1, <2>2, <2>3
<1> HIDE DEF near, agent
<1>1. PICK f : Follows(f, Pid, Top, over, V, base, step)
  <2>1. base \in [Pid -> V] /\ step \in [Pid -> [V -> V]]
    OBVIOUS
  <2>2. over \in [Pid -> Pid \cup {Top}] /\ \A p \in Pid : over[p] # Top => over[p] < p
    BY <1>0
  <2> HIDE DEF base, step, over, V
  <2> QED BY <2>1, <2>2, UpTheForest
<1>2. f \in [Pid -> V]
  BY <1>1 DEF Follows
<1>3. ASSUME NEW p \in Pid
      PROVE  f[p] = IF agent(p) THEN p ELSE IF near[p] = Top THEN Top ELSE f[FoldOf[near[p]]]
  <2>1. f[p] = IF over[p] = Top THEN base[p] ELSE step[p][f[over[p]]]
    <3> HIDE DEF over, base, step
    <3> QED BY <1>1 DEF Follows
  <2>2. CASE ~agent(p) /\ near[p] # Top
    <3>1. over[p] = FoldOf[near[p]] /\ over[p] # Top /\ f[FoldOf[near[p]]] \in V
      BY <1>0, <1>2, <2>2
    <3>2. step[p][f[FoldOf[near[p]]]] = f[FoldOf[near[p]]]
      BY <3>1
    <3> HIDE DEF over, base, step
    <3> QED BY <2>1, <2>2, <3>1, <3>2
  <2>3. CASE agent(p) \/ near[p] = Top
    <3>1. over[p] = Top /\ base[p] = IF agent(p) THEN p ELSE Top
      BY <2>3
    <3> HIDE DEF over, base, step
    <3> QED BY <2>1, <2>3, <3>1
  <2> QED BY <2>2, <2>3
<1>4. \E g : G(g)
  <2> DEFINE g == [r \in V |-> IF r = Top THEN Top ELSE f[r]]
  <2>1. ASSUME NEW r \in V PROVE g[r] = Up1(g, r)
    <3>1. CASE r = Top
      BY <3>1
    <3>2. CASE r # Top
      <4>1. r \in Pid /\ g[r] = f[r]
        BY <3>2
      <4>2. near[r] # Top => g[FoldOf[near[r]]] = f[FoldOf[near[r]]]
        BY <1>0, <4>1
      <4> HIDE DEF g
      <4> QED BY <1>3, <3>2, <4>1, <4>2
    <3> QED BY <3>1, <3>2
  <2>2. g = [r \in V |-> g[r]]
    OBVIOUS
  <2> HIDE DEF g, Up1
  <2> QED BY <2>1, <2>2
<1>5. OwnerOf = CHOOSE g : G(g)
  BY DEF OwnerOf, Owners, near, agent
<1> HIDE DEF G
<1>6. G(OwnerOf)
  BY <1>4, <1>5
<1>7. /\ OwnerOf[Top] = Top
      /\ \A p \in Pid : OwnerOf[p] = IF agent(p) THEN p
                                     ELSE IF near[p] = Top THEN Top ELSE OwnerOf[FoldOf[near[p]]]
  BY <1>0, <1>6 DEF G
<1> QED BY <1>7 DEF near, agent

-----------------------------------------------------------------------------
(* The snapshot.                                                           *)

\* What is classified has a category.
LEMMA CatIs ==
  ASSUME Forest, NEW p \in Pid
  PROVE  /\ Cat(p) \in Category \cup {"None"}
         /\ Guess(p) # "None" => Promoted(p) \in Category
<1> DEFINE k == kind[p]
           tried == {n \in 1 .. Len(Signatures) :
                       /\ Signatures[n] \in k.hits
                       /\ ~(k.pkg /\ Signatures[n] \in {"Mcp", "LanguageServer", "Worker"})}
<1>1. k.extra \in Category \cup {"None"}
  BY ClassifyConstants DEF Forest, Kind
<1>2. Cat(p) = IF k.extra # "None" THEN k.extra
               ELSE IF tried = {} THEN "None" ELSE Signatures[Least(tried)]
  BY DEF Cat, ClassOf, Forest
<1>3. tried # {} => Signatures[Least(tried)] \in Category
  <2> SUFFICES ASSUME tried # {} PROVE Signatures[Least(tried)] \in Category
    OBVIOUS
  <2>1. \A n \in tried : n \in Nat /\ Signatures[n] \in Category
    BY DEF Category
  <2> HIDE DEF tried
  <2>2. \E n \in tried : \A m \in tried : n <= m
    BY <2>1, LeastElement
  <2>3. Least(tried) \in tried
    BY <2>2 DEF Least
  <2> QED BY <2>1, <2>3
<1>4. "UnknownDev" \in Category /\ "DevServer" \in Category
  <2>1. Len(Signatures) = 9 /\ Signatures[9] = "UnknownDev" /\ Signatures[4] = "DevServer"
    BY DEF Signatures
  <2> QED BY <2>1 DEF Category
<1> HIDE DEF tried, k
<1>5. Cat(p) \in Category \cup {"None"}
  BY <1>1, <1>2, <1>3
<1> QED BY <1>4, <1>5 DEF Guess, Promoted

\* The items as build_items has them, before they are marked.
Grouped == ForestItems \cup Rollups
Bare == Grouped \cup Adopted(PidsOf(Grouped))
Dressed(i) ==
  [root |-> i.root, pids |-> i.pids, cat |-> i.cat, up |-> i.up, owner |-> OwnerOf[i.up],
   state |-> MarkedState(i), score |-> IF MarkedState(i) = "Suspicious" THEN Score(i) ELSE 0]

\* A snapshot is its items as build_items has them, marked.
LEMMA SnapshotIs == Snapshot = {Dressed(i) : i \in Bare}
BY DEF Snapshot, Marked, Bare, Grouped, Dressed

\* Mcp servers of the forest, and the browsers below one.
Servers == {q \in ItemPids : Cat(q) = "Mcp"}
Browsers(m) == Below(m) \cap KeepBrowser

\* An item of the forest: its root folds into no other, and its members fold into the root.
LEMMA ForestItemIs ==
  ASSUME Forest, NEW i \in ForestItems
  PROVE  /\ i.root \in ItemPids /\ FoldOf[i.root] = i.root
         /\ i.pids = {p \in ItemPids : FoldOf[p] = i.root} /\ i.cat = Promoted(i.root)
         /\ i.up = Top \/ \E q \in ItemPids : i.up = FoldOf[q]
         /\ i = [root |-> i.root, pids |-> {p \in ItemPids : FoldOf[p] = i.root}, cat |-> Promoted(i.root),
                 up |-> IF NearestItem[i.root] = Top THEN Top ELSE FoldOf[NearestItem[i.root]]]
<1>1. PICK r \in ItemPids :
        /\ FoldOf[r] = r
        /\ i = [root |-> r, pids |-> {p \in ItemPids : FoldOf[p] = r}, cat |-> Promoted(r),
                up |-> IF NearestItem[r] = Top THEN Top ELSE FoldOf[NearestItem[r]]]
  BY DEF ForestItems, Trees
<1>2. r \in Pid
  BY ItemsAlive DEF Forest
<1>3. NearestItem[r] # Top => NearestItem[r] \in ItemPids
  BY <1>2, NearestItemIs
<1> QED BY <1>1, <1>3

\* What an item folds into is the root of one.
LEMMA FoldedShown ==
  ASSUME Forest, NEW q \in ItemPids
  PROVE  \E j \in ForestItems : j.root = FoldOf[q]
<1>1. FoldOf[q] \in ItemPids /\ FoldOf[FoldOf[q]] = FoldOf[q]
  BY ItemsAlive, FoldIs DEF Forest
<1> DEFINE At(r) == [root |-> r, pids |-> {p \in ItemPids : FoldOf[p] = r}, cat |-> Promoted(r),
                       up |-> IF NearestItem[r] = Top THEN Top ELSE FoldOf[NearestItem[r]]]
<1>2. ForestItems = {At(r) : r \in {x \in ItemPids : FoldOf[x] = x}}
  BY DEF ForestItems, Trees
<1>3. At(FoldOf[q]).root = FoldOf[q]
  OBVIOUS
<1> HIDE DEF At
<1> QED BY <1>1, <1>2, <1>3

\* A rollup of browsers: those below one MCP server, of which its root is the first.
LEMMA RollupIs ==
  ASSUME Forest, NEW i \in Rollups
  PROVE  \E m \in Servers : /\ i = [root |-> Least(Browsers(m)), pids |-> Browsers(m), cat |-> "Browser",
                                    up |-> FoldOf[m]]
                            /\ i.root \in i.pids
<1>1. PICK m \in Servers :
        /\ Browsers(m) # {}
        /\ i = [root |-> Least(Browsers(m)), pids |-> Browsers(m), cat |-> "Browser", up |-> FoldOf[m]]
  BY DEF Rollups, Servers, Browsers
<1>2. Least(Browsers(m)) \in Browsers(m)
  <2>1. Browsers(m) \subseteq Nat
    BY ClassifyConstants DEF Browsers, Below, Forest
  <2>2. \E n \in Browsers(m) : \A x \in Browsers(m) : n <= x
    BY <1>1, <2>1, LeastElement
  <2> QED BY <2>2 DEF Least
<1> QED BY <1>1, <1>2

\* An adopted listener is in no other item.
LEMMA AdoptedIs ==
  ASSUME NEW i \in Adopted(PidsOf(Grouped))
  PROVE  /\ i = [root |-> i.root, pids |-> {i.root}, cat |-> Promoted(i.root), up |-> Top]
         /\ i.root \in alive \ PidsOf(Grouped) /\ Guess(i.root) # "None"
BY DEF Adopted

\* An item has processes of the snapshot, its root among them, a category, and an item above.
LEMMA BareIs ==
  ASSUME Forest, NEW i \in Bare
  PROVE  /\ i.root \in i.pids /\ i.pids \subseteq alive /\ i.cat \in Category
         /\ i.up \in Pid \cup {Top} /\ (i.up = Top \/ \E j \in Bare : j.root = i.up)
<1>0. ItemPids \subseteq Pid /\ alive \subseteq Pid
  BY ItemsAlive DEF Forest
<1>u. ASSUME NEW q \in ItemPids PROVE FoldOf[q] \in Pid /\ \E j \in Bare : j.root = FoldOf[q]
  BY <1>0, FoldIs, FoldedShown DEF Bare, Grouped
<1>1. CASE i \in ForestItems
  <2>1. /\ i.root \in ItemPids /\ FoldOf[i.root] = i.root
        /\ i.pids = {p \in ItemPids : FoldOf[p] = i.root} /\ i.cat = Promoted(i.root)
        /\ i.up = Top \/ \E q \in ItemPids : i.up = FoldOf[q]
    BY <1>1, ForestItemIs
  <2>2. i.root \in i.pids /\ i.pids \subseteq alive
    BY <2>1, ItemsAlive
  <2>3. Cat(i.root) # "None"
    BY <2>1 DEF ItemPids, KeepBrowser
  <2>4. i.cat \in Category
    BY <1>0, <2>1, <2>3, CatIs DEF Guess
  <2>5. i.up \in Pid \cup {Top} /\ (i.up = Top \/ \E j \in Bare : j.root = i.up)
    BY <1>u, <2>1
  <2> QED BY <2>2, <2>4, <2>5
<1>2. CASE i \in Rollups
  <2>1. PICK m \in Servers :
          /\ i = [root |-> Least(Browsers(m)), pids |-> Browsers(m), cat |-> "Browser", up |-> FoldOf[m]]
          /\ i.root \in i.pids
    BY <1>2, RollupIs
  <2>2. i.pids = Browsers(m) /\ i.cat = "Browser" /\ i.up = FoldOf[m] /\ m \in ItemPids
    BY <2>1 DEF Servers
  <2>3. i.pids \subseteq alive
    BY <2>2 DEF Browsers, Below
  <2>4. "Browser" \in Category
    <3>1. Len(Signatures) = 9 /\ Signatures[8] = "Browser"
      BY DEF Signatures
    <3> QED BY <3>1 DEF Category
  <2> QED BY <1>u, <2>1, <2>2, <2>3, <2>4
<1>3. CASE i \in Adopted(PidsOf(Grouped))
  <2>1. /\ i.pids = {i.root} /\ i.cat = Promoted(i.root) /\ i.up = Top
        /\ i.root \in alive /\ Guess(i.root) # "None"
    BY <1>3, AdoptedIs
  <2> QED BY <1>0, <2>1, CatIs
<1> QED BY <1>1, <1>2, <1>3 DEF Bare, Grouped

\* No process is in two items, but for a browser below two MCP servers.
LEMMA BareOnce ==
  ASSUME Forest, NEW i \in Bare, NEW j \in Bare, NEW p \in i.pids, p \in j.pids, i # j
  PROVE  /\ i.cat = "Browser" /\ j.cat = "Browser"
         /\ \E m \in Above[p] : Cat(m) = "Mcp" /\ \E n \in Above[m] : Cat(n) = "Mcp"
<1> DEFINE Goal == /\ i.cat = "Browser" /\ j.cat = "Browser"
                   /\ \E m \in Above[p] : Cat(m) = "Mcp" /\ \E n \in Above[m] : Cat(n) = "Mcp"
<1>0. alive \subseteq Pid
  BY DEF Forest
<1>1. ASSUME NEW x \in Rollups, p \in x.pids PROVE p \notin ItemPids
  <2>1. PICK m \in Servers : x.pids = Browsers(m)
    BY <1>1, RollupIs
  <2>2. Cat(p) = "Browser" /\ m \in Above[p] /\ Cat(m) = "Mcp"
    BY <1>1, <2>1 DEF Browsers, Below, KeepBrowser, Servers
  <2> QED BY <2>2 DEF ItemPids, DevBrowserAbove
<1>2. ASSUME NEW x \in ForestItems, p \in x.pids PROVE p \in ItemPids /\ x.root = FoldOf[p]
  BY <1>2, ForestItemIs
<1>3. ASSUME NEW x \in Adopted(PidsOf(Grouped)), p \in x.pids
      PROVE  p = x.root /\ p \notin PidsOf(Grouped)
  BY <1>3, AdoptedIs
<1>4. \A x \in Grouped : x.pids \subseteq PidsOf(Grouped)
  BY DEF PidsOf
<1>5. CASE i \in ForestItems /\ j \in ForestItems
  <2>1. i.root = j.root
    BY <1>2, <1>5
  <2> QED BY <1>5, <2>1, ForestItemIs
<1>6. CASE i \in Rollups /\ j \in Rollups
  <2>1. PICK m \in Servers :
          i = [root |-> Least(Browsers(m)), pids |-> Browsers(m), cat |-> "Browser", up |-> FoldOf[m]]
    BY <1>6, RollupIs
  <2>2. PICK n \in Servers :
          j = [root |-> Least(Browsers(n)), pids |-> Browsers(n), cat |-> "Browser", up |-> FoldOf[n]]
    BY <1>6, RollupIs
  <2>3. m # n /\ i.cat = "Browser" /\ j.cat = "Browser" /\ Cat(m) = "Mcp" /\ Cat(n) = "Mcp"
    BY <2>1, <2>2 DEF Servers
  <2>4. p \in Pid /\ m \in Above[p] /\ n \in Above[p]
    BY <1>0, <2>1, <2>2 DEF Browsers, Below
  <2>5. m \in Above[n] \/ n \in Above[m]
    BY <2>3, <2>4, AboveOrders
  <2> QED BY <2>3, <2>4, <2>5
<1>7. CASE i \in Adopted(PidsOf(Grouped)) /\ j \in Adopted(PidsOf(Grouped))
  <2>1. i.root = p /\ j.root = p
    BY <1>3, <1>7
  <2>2. i = j
    BY <1>7, <2>1, AdoptedIs
  <2> QED BY <2>2
<1>8. ~ (i \in Adopted(PidsOf(Grouped)) /\ j \in Grouped) /\ ~ (j \in Adopted(PidsOf(Grouped)) /\ i \in Grouped)
  BY <1>3, <1>4
<1>9. ~ (i \in ForestItems /\ j \in Rollups) /\ ~ (j \in ForestItems /\ i \in Rollups)
  BY <1>1, <1>2
<1> QED BY <1>5, <1>6, <1>7, <1>8, <1>9 DEF Bare, Grouped

\* The item above an item.
UpItem(p) == IF NearestItem[p] = Top THEN Top ELSE FoldOf[NearestItem[p]]

\* What the walks up the forest find.
TheTree ==
  /\ \A p \in Pid : Above[p] = IF parent[p] \in alive THEN {parent[p]} \cup Above[parent[p]] ELSE {}
  /\ \A p \in Pid : /\ Above[p] \subseteq alive
                    /\ \A q \in Above[p] : q < p /\ Above[q] \subseteq Above[p]
                    /\ \A q, r \in Above[p] : q = r \/ q \in Above[r] \/ r \in Above[q]

\* What nearest_item_ancestor and collapse_same make of them.
TheItems ==
  /\ \A p \in Pid : NearestItem[p] # Top => NearestItem[p] \in ItemPids \cap Above[p]
  /\ \A p \in Pid : \A q \in ItemPids \cap Above[p] :
        NearestItem[p] # Top /\ (q = NearestItem[p] \/ q \in Above[NearestItem[p]])
  /\ \A p \in Pid : FoldOf[p] = IF NearestItem[p] # Top /\ SameKind(p, NearestItem[p])
                                THEN FoldOf[NearestItem[p]] ELSE p
  /\ \A p \in Pid : /\ FoldOf[p] \in Pid /\ FoldOf[p] <= p /\ FoldOf[FoldOf[p]] = FoldOf[p]
                    /\ SameKind(p, FoldOf[p]) /\ (p \in ItemPids => FoldOf[p] \in ItemPids)
                    /\ FoldOf[p] = p \/ FoldOf[p] \in Above[p]

\* Whom walk finds.
TheOwners ==
  \A p \in alive : /\ UpItem(p) = Top \/ UpItem(p) \in ItemPids
                   /\ OwnerOf[UpItem(p)] \in (Agents \cap alive) \cup {Top}
                   /\ (OwnerOf[UpItem(p)] # Top) <=> (Above[p] \cap Agents # {})
                   /\ \/ Cat(p) = "Agent" \/ Above[p] \cap Agents = {}
                      \/ Above[FoldOf[p]] \cap Agents # {}

\* These facts hold of every process table.
LEMMA TreeHolds == Forest => TheTree
BY AboveIs, AboveOrders DEF TheTree

\* The nearest of a set comes before all others.
LEMMA NearestFirst ==
  ASSUME Forest, NEW S
  PROVE  \A p \in Pid : \A q \in S \cap Above[p] :
           NearestIn(S)[p] # Top /\ (q = NearestIn(S)[p] \/ q \in Above[NearestIn(S)[p]])
<1> DEFINE n == NearestIn(S)
           Before(p) == \A q \in S \cap Above[p] : n[p] # Top /\ (q = n[p] \/ q \in Above[n[p]])
           T == {p \in Pid : Before(p)}
<1>1. \A p \in Pid : n[p] = IF parent[p] \notin alive THEN Top
                            ELSE IF parent[p] \in S THEN parent[p] ELSE n[parent[p]]
  BY NearestIs
<1> HIDE DEF n
<1>2. \A p \in Pid : (\A q \in Pid : q < p => q \in T) => p \in T
  <2> SUFFICES ASSUME NEW p \in Pid, \A q \in Pid : q < p => q \in T, NEW q \in S \cap Above[p]
               PROVE  n[p] # Top /\ (q = n[p] \/ q \in Above[n[p]])
    OBVIOUS
  <2>1. parent[p] \in alive /\ Above[p] = {parent[p]} \cup Above[parent[p]]
    BY AboveIs
  <2>2. parent[p] \in Pid /\ parent[p] < p /\ parent[p] # Top
    BY <2>1, LinksUp DEF Forest
  <2>3. CASE parent[p] \in S
    BY <1>1, <2>1, <2>2, <2>3
  <2>4. CASE parent[p] \notin S
    <3>1. n[p] = n[parent[p]] /\ Before(parent[p]) /\ q \in Above[parent[p]]
      BY <1>1, <2>1, <2>2, <2>4
    <3> QED BY <3>1
  <2> QED BY <2>3, <2>4
<1> HIDE DEF T
<1>3. Pid \subseteq T
  BY <1>2, DownTheForest
<1> QED BY <1>3 DEF T, n

\* So do these, of the items.
LEMMA ItemsHere == Forest => TheItems
<1> SUFFICES ASSUME Forest PROVE TheItems
  OBVIOUS
<1>1. \A p \in Pid : NearestItem[p] # Top => NearestItem[p] \in ItemPids \cap Above[p]
  BY NearestIs DEF NearestItem
<1>2. \A p \in Pid : \A q \in ItemPids \cap Above[p] :
        NearestItem[p] # Top /\ (q = NearestItem[p] \/ q \in Above[NearestItem[p]])
  BY NearestFirst DEF NearestItem
<1> DEFINE Close(p) == /\ SameKind(p, FoldOf[p])
                       /\ FoldOf[p] = p \/ FoldOf[p] \in Above[p]
           T == {p \in Pid : Close(p)}
<1>3. \A p \in Pid : (\A q \in Pid : q < p => q \in T) => p \in T
  <2> SUFFICES ASSUME NEW p \in Pid, \A q \in Pid : q < p => q \in T PROVE Close(p)
    OBVIOUS
  <2>1. CASE NearestItem[p] # Top /\ SameKind(p, NearestItem[p])
    <3> DEFINE q == NearestItem[p]
    <3>1. q \in Pid /\ q < p /\ q \in Above[p] /\ SameKind(p, q) /\ FoldOf[p] = FoldOf[q]
      BY <2>1, NearestItemIs, FoldIs
    <3> HIDE DEF q
    <3>2. Close(q) /\ Above[q] \subseteq Above[p]
      BY <3>1, AboveOrders
    <3>3. SameKind(p, FoldOf[q])
      BY <3>1, <3>2 DEF SameKind
    <3> QED BY <3>1, <3>2, <3>3
  <2>2. CASE ~(NearestItem[p] # Top /\ SameKind(p, NearestItem[p]))
    BY <2>2, FoldIs DEF SameKind
  <2> QED BY <2>1, <2>2
<1> HIDE DEF T
<1>4. Pid \subseteq T
  BY <1>3, DownTheForest
<1> QED BY <1>1, <1>2, <1>4, FoldIs DEF T, TheItems

\* An agent is always an item, and its category tells.
LEMMA AgentsShown ==
  ASSUME Forest
  PROVE  Agents \cap alive \subseteq ItemPids
BY DEF Agents, ItemPids

\* And these, of their owners: there is one if and only if an agent is above.
LEMMA OwnersHold == Forest => TheOwners
<1> SUFFICES ASSUME Forest PROVE TheOwners
  OBVIOUS
<1>0. /\ TheTree /\ TheItems /\ ItemPids \subseteq alive /\ alive \subseteq Pid /\ Top \notin Pid
      /\ Agents \cap alive \subseteq ItemPids
  BY TreeHolds, ItemsHere, ItemsAlive, AgentsShown, ClassifyConstants DEF Forest
<1>1. /\ OwnerOf[Top] = Top
      /\ \A p \in Pid : OwnerOf[p] = IF Cat(p) = "Agent" THEN p ELSE OwnerOf[UpItem(p)]
  BY OwnerIs, <1>0 DEF UpItem
<1>2. \A p \in Pid : UpItem(p) = Top \/ (UpItem(p) \in ItemPids /\ UpItem(p) < p)
  <2> SUFFICES ASSUME NEW p \in Pid, UpItem(p) # Top PROVE UpItem(p) \in ItemPids /\ UpItem(p) < p
    OBVIOUS
  <2>1. NearestItem[p] # Top /\ NearestItem[p] \in Pid /\ NearestItem[p] < p /\ NearestItem[p] \in ItemPids
    BY NearestItemIs DEF UpItem
  <2>2. UpItem(p) = FoldOf[NearestItem[p]]
    BY <2>1 DEF UpItem
  <2>3. UpItem(p) \in ItemPids /\ UpItem(p) <= NearestItem[p] /\ UpItem(p) \in Pid
    BY <2>1, <2>2, FoldIs
  <2>4. p \in Nat /\ NearestItem[p] \in Nat /\ UpItem(p) \in Nat
    BY <2>1, <2>3, ClassifyConstants
  <2> QED BY <2>1, <2>3, <2>4
\* Folding stays below the agents above.
<1> DEFINE Kept(p) == Cat(p) = "Agent" \/ Above[FoldOf[p]] \cap Agents # {} \/ Above[p] \cap Agents = {}
           K == {p \in Pid : Kept(p)}
<1>3. \A p \in Pid : (\A q \in Pid : q < p => q \in K) => p \in K
  <2> SUFFICES ASSUME NEW p \in Pid, \A q \in Pid : q < p => q \in K,
                      Cat(p) # "Agent", NEW a \in Above[p] \cap Agents
               PROVE  Above[FoldOf[p]] \cap Agents # {}
    OBVIOUS
  <2>1. CASE NearestItem[p] # Top /\ SameKind(p, NearestItem[p])
    <3> DEFINE q == NearestItem[p]
    <3>1. q \in Pid /\ q < p /\ Cat(q) # "Agent" /\ FoldOf[p] = FoldOf[q]
      BY <2>1, NearestItemIs, FoldIs DEF SameKind
    <3>2. a \in ItemPids
      BY <1>0 DEF TheTree
    <3>3. a = q \/ a \in Above[q]
      BY <1>0, <3>2 DEF TheItems
    <3>4. a \in Above[q]
      BY <3>1, <3>3 DEF Agents
    <3> HIDE DEF q
    <3> QED BY <3>1, <3>4
  <2>2. CASE ~(NearestItem[p] # Top /\ SameKind(p, NearestItem[p]))
    BY <2>2, FoldIs
  <2> QED BY <2>1, <2>2
<1> HIDE DEF K
<1>4. Pid \subseteq K
  BY <1>3, DownTheForest
<1> DEFINE Owned(p) == /\ OwnerOf[UpItem(p)] \in (Agents \cap alive) \cup {Top}
                       /\ (OwnerOf[UpItem(p)] # Top) <=> (Above[p] \cap Agents # {})
           T == {p \in Pid : Owned(p)}
<1>5. \A p \in Pid : (\A q \in Pid : q < p => q \in T) => p \in T
  <2> SUFFICES ASSUME NEW p \in Pid, \A q \in Pid : q < p => q \in T PROVE Owned(p)
    OBVIOUS
  <2>1. CASE NearestItem[p] = Top
    <3>1. UpItem(p) = Top
      BY <2>1 DEF UpItem
    <3>2. Above[p] \cap Agents = {}
      BY <1>0, <2>1 DEF TheItems, TheTree
    <3> QED BY <1>1, <3>1, <3>2
  <2>2. CASE NearestItem[p] # Top
    <3> DEFINE n == NearestItem[p]
               u == FoldOf[n]
    <3>1. n \in Pid /\ n \in ItemPids /\ n \in Above[p] /\ n < p
      BY <2>2, NearestItemIs
    <3>2. UpItem(p) = u /\ u \in ItemPids /\ u \in Pid /\ u # Top /\ u < p /\ SameKind(n, u)
       /\ (u = n \/ u \in Above[n])
      <4>1. UpItem(p) = u /\ u \in ItemPids /\ u \in Pid /\ SameKind(n, u) /\ (u = n \/ u \in Above[n])
        BY <1>0, <2>2, <3>1 DEF UpItem, TheItems
      <4> QED BY <1>0, <1>2, <4>1
    <3>3. u \in Above[p] /\ Above[u] \subseteq Above[p] /\ Above[n] \subseteq Above[p]
      BY <1>0, <3>1, <3>2 DEF TheTree
    <3>4. Cat(n) = Cat(u)
      BY <3>2 DEF SameKind
    <3>5. \A a \in Above[p] \cap Agents : a = n \/ a \in Above[n]
      BY <1>0 DEF TheItems, TheTree
    <3>6. Owned(u) /\ Kept(n)
      BY <1>4, <3>1, <3>2 DEF K
    <3>7. OwnerOf[u] = IF Cat(u) = "Agent" THEN u ELSE OwnerOf[UpItem(u)]
      BY <1>1, <3>2
    <3> HIDE DEF n, u
    <3>8. CASE Cat(u) = "Agent"
      <4>1. OwnerOf[UpItem(p)] = u /\ u \in Agents /\ u \in alive
        BY <1>0, <3>2, <3>7, <3>8 DEF Agents
      <4> QED BY <3>2, <3>3, <4>1
    <3>9. CASE Cat(u) # "Agent"
      <4>1. OwnerOf[UpItem(p)] = OwnerOf[UpItem(u)]
        BY <3>2, <3>7, <3>9
      <4>2. Above[u] \cap Agents # {} <=> Above[p] \cap Agents # {}
        <5>1. n \notin Agents
          BY <3>4, <3>9 DEF Agents
        <5>2. Above[p] \cap Agents # {} => Above[n] \cap Agents # {}
          BY <3>5, <5>1
        <5>3. Above[n] \cap Agents # {} => Above[u] \cap Agents # {}
          <6> DEFINE X == Above[n] \cap Agents
                     Y == Above[FoldOf[n]] \cap Agents
          <6>1. Y # {} \/ X = {}
            BY <3>4, <3>6, <3>9
          <6> QED BY <6>1 DEF u
        <5> QED BY <3>3, <5>2, <5>3
      <4> QED BY <3>6, <4>1, <4>2
    <3> QED BY <3>8, <3>9
  <2> QED BY <2>1, <2>2
<1> HIDE DEF T
<1>6. Pid \subseteq T
  BY <1>5, DownTheForest
<1>7. ASSUME NEW p \in alive PROVE Owned(p) /\ Kept(p) /\ (UpItem(p) = Top \/ UpItem(p) \in ItemPids)
  BY <1>0, <1>2, <1>4, <1>6 DEF K, T
<1> HIDE DEF K
<1> QED BY <1>7 DEF TheOwners

\* Who owns an item is an agent of the snapshot, or nobody.
LEMMA OwnedByAgents ==
  ASSUME Forest, NEW b \in Bare
  PROVE  OwnerOf[b.up] \in (Agents \cap alive) \cup {Top}
<1>0. TheItems /\ TheOwners /\ ItemPids \subseteq alive /\ alive \subseteq Pid
  BY ItemsHere, OwnersHold, ItemsAlive DEF Forest
<1>1. CASE b \in ForestItems
  <2>1. b.up = UpItem(b.root) /\ b.root \in alive
    BY <1>0, <1>1, ForestItemIs DEF UpItem
  <2> QED BY <1>0, <2>1 DEF TheOwners
<1>2. CASE b \in Rollups
  <2>1. PICK m \in Servers : b.up = FoldOf[m]
    BY <1>2, RollupIs
  <2>2. m \in ItemPids /\ m \in Pid /\ Cat(m) = "Mcp"
    BY <1>0 DEF Servers
  <2> DEFINE u == FoldOf[m]
  <2>3. u \in ItemPids /\ u \in Pid /\ Cat(u) = "Mcp"
    BY <1>0, <2>2 DEF TheItems, SameKind
  <2> HIDE DEF u
  <2>4. OwnerOf[u] = IF NearestItem[u] = Top THEN Top ELSE OwnerOf[FoldOf[NearestItem[u]]]
    BY <2>3, OwnerIs
  <2>5. OwnerOf[u] = OwnerOf[UpItem(u)]
    BY <2>4, OwnerIs DEF UpItem
  <2>6. OwnerOf[UpItem(u)] \in (Agents \cap alive) \cup {Top}
    BY <1>0, <2>3 DEF TheOwners
  <2> QED BY <2>1, <2>5, <2>6 DEF u
<1>3. CASE b \in Adopted(PidsOf(Grouped))
  <2>1. b.up = Top
    BY <1>3, AdoptedIs
  <2> QED BY <2>1, OwnerIs
<1> QED BY <1>1, <1>2, <1>3 DEF Bare, Grouped

\* The items are those of the last snapshot; an owner on record is an agent, and a session
\* on record as ended is that of an agent that is gone.
ItemsInv ==
  /\ Forest
  /\ origin \in [Pid -> Agents \cup {Top}]
  /\ ended \subseteq Agents \ alive
  /\ items = Snapshot

\* An item shown is one of build_items, marked.
LEMMA DressedIs ==
  ASSUME ItemsInv, NEW i \in items
  PROVE  \E b \in Bare : i = Dressed(b)
BY SnapshotIs DEF ItemsInv

\* The owner an item shows is an agent of the snapshot.
LEMMA ItemsOwned ==
  ASSUME ItemsInv, NEW i \in items
  PROVE  i.owner \in (Agents \cap alive) \cup {Top}
<1>1. PICK b \in Bare : i = Dressed(b)
  BY DressedIs
<1>2. i.owner = OwnerOf[b.up]
  BY <1>1 DEF Dressed
<1> QED BY <1>2, OwnedByAgents DEF ItemsInv

\* The same processes give the same tree.
LEMMA TreeSame ==
  ASSUME alive' = alive, parent' = parent, kind' = kind
  PROVE  /\ Above' = Above /\ ItemPids' = ItemPids /\ FoldOf' = FoldOf /\ NearestItem' = NearestItem
         /\ Agents' = Agents /\ \A q : Cat(q)' = Cat(q)
<1>1. Above' = Above
  BY DEF Above
<1>2. \A q : Cat(q)' = Cat(q)
  BY DEF Cat
<1>3. \A q : Below(q)' = Below(q) /\ DevBrowserAbove(q)' = DevBrowserAbove(q)
  BY <1>1, <1>2 DEF Below, DevBrowserAbove
<1>4. KeepBrowser' = KeepBrowser
  BY <1>2, <1>3 DEF KeepBrowser
<1>5. ItemPids' = ItemPids
  BY <1>2, <1>3, <1>4 DEF ItemPids
<1>6. NearestItem' = NearestItem
  BY <1>5 DEF NearestItem, NearestIn
<1>7. FoldOf' = FoldOf
  BY <1>2, <1>6 DEF FoldOf, Folded
<1>8. Agents' = Agents
  BY <1>2 DEF Agents
<1> QED BY <1>1, <1>2, <1>5, <1>6, <1>7, <1>8

\* The same processes give the same snapshot.
LEMMA SnapshotStays ==
  ASSUME alive' = alive, parent' = parent, kind' = kind
  PROVE  Snapshot' = Snapshot
<1>1. /\ Above' = Above /\ ItemPids' = ItemPids /\ FoldOf' = FoldOf /\ NearestItem' = NearestItem
      /\ \A q : Cat(q)' = Cat(q)
  BY TreeSame
<1>2. \A p : Below(p)' = Below(p)
  BY <1>1 DEF Below
<1>3. \A p : DevBrowserAbove(p)' = DevBrowserAbove(p)
  BY <1>1 DEF DevBrowserAbove
<1>4. KeepBrowser' = KeepBrowser
  BY <1>1, <1>3 DEF KeepBrowser
<1>5. \A p : Guess(p)' = Guess(p) /\ Promoted(p)' = Promoted(p)
  BY <1>1 DEF Guess, Promoted
<1>6. ForestItems' = ForestItems
  BY <1>1, <1>5 DEF ForestItems, Trees
<1>7. Rollups' = Rollups
  BY <1>1, <1>2, <1>4 DEF Rollups
<1>8. OwnerOf' = OwnerOf
  BY <1>1 DEF OwnerOf, Owners
<1>9. \A S : Adopted(S)' = Adopted(S)
  BY <1>5 DEF Adopted
<1>10. \A i : /\ Interactive(i.root)' = Interactive(i.root)
              /\ Reparented(i.root)' = Reparented(i.root) /\ Exempt(i)' = Exempt(i)
  BY <1>1 DEF Interactive, Reparented, Exempt
<1>11. \A i : Score(i)' = Score(i)
  BY <1>10 DEF Score
<1>12. \A i : MarkedState(i)' = MarkedState(i)
  BY <1>10, <1>11 DEF MarkedState
<1> DEFINE grouped == ForestItems \cup Rollups
           shown == grouped \cup Adopted(PidsOf(grouped))
<1>13. shown' = shown
  BY <1>6, <1>7, <1>9 DEF PidsOf
<1>14. Snapshot =
         {[root |-> i.root, pids |-> i.pids, cat |-> i.cat, up |-> i.up,
           owner |-> OwnerOf[i.up], state |-> MarkedState(i),
           score |-> IF MarkedState(i) = "Suspicious" THEN Score(i) ELSE 0] : i \in shown}
  BY DEF Snapshot, Marked
<1>15. Snapshot' =
         {[root |-> i.root, pids |-> i.pids, cat |-> i.cat, up |-> i.up,
           owner |-> OwnerOf'[i.up], state |-> MarkedState(i)',
           score |-> IF MarkedState(i)' = "Suspicious" THEN Score(i)' ELSE 0] : i \in shown'}
  BY DEF Snapshot, Marked
<1> HIDE DEF shown
<1> QED BY <1>8, <1>11, <1>12, <1>13, <1>14, <1>15

\* The items of an agent that a process is in.
Shows(p) == {i \in items : p \in i.pids /\ i.cat # "Agent" /\ i.owner # Top}

\* What a collector records.
LEMMA RecordIs ==
  ASSUME Record
  PROVE  /\ origin' = [p \in Pid |-> IF Shows(p) # {} THEN (CHOOSE i \in Shows(p) : TRUE).owner ELSE origin[p]]
         /\ ended' = ended \cup ({origin'[p] : p \in Pid} \ (alive \cup {Top}))
         /\ alive' = alive /\ parent' = parent /\ kind' = kind /\ items' = items
         /\ \A p \in Pid : IF Shows(p) # {} THEN \E i \in Shows(p) : origin'[p] = i.owner
                           ELSE origin'[p] = origin[p]
<1>1. /\ origin' = [p \in Pid |-> IF Shows(p) # {} THEN (CHOOSE i \in Shows(p) : TRUE).owner ELSE origin[p]]
      /\ ended' = ended \cup ({origin'[p] : p \in Pid} \ (alive \cup {Top}))
      /\ alive' = alive /\ parent' = parent /\ kind' = kind /\ items' = items
  BY DEF Record, Shows
<1> QED BY <1>1

\* What an exit leaves.
LEMMA ExitIs ==
  ASSUME ItemsInv, NEW x \in Pid, Exit(x)
  PROVE  /\ x \in alive /\ alive' = alive \ {x} /\ kind' = kind /\ origin' = origin /\ ended' = ended
         /\ Forest' /\ items' = Snapshot'
         /\ parent' = [q \in Pid |-> IF parent[q] = x THEN Top ELSE parent[q]]
         /\ Agents' = Agents
BY DEF Exit, ItemsInv, Forest, Agents, Cat

\* The first scan.
LEMMA ItemsInvInit == Init => ItemsInv
BY DEF Init, ItemsInv, Forest

\* Collectors and exits keep the invariant.
LEMMA ItemsInvStep == ItemsInv /\ [Next]_vars => ItemsInv'
<1> SUFFICES ASSUME ItemsInv, [Next]_vars PROVE ItemsInv'
  OBVIOUS
<1>1. CASE Record
  <2>1. Forest' /\ Agents' = Agents /\ items' = Snapshot'
    BY <1>1, RecordIs, SnapshotStays DEF ItemsInv, Forest, Agents, Cat
  <2>2. \A p \in Pid : origin'[p] \in Agents \cup {Top}
    BY <1>1, RecordIs, ItemsOwned DEF ItemsInv, Shows
  <2>3. origin' = [p \in Pid |-> origin'[p]]
    BY <1>1, RecordIs
  <2>4. origin' \in [Pid -> Agents \cup {Top}]
    BY <2>2, <2>3
  <2>5. ended' \subseteq Agents \ alive
    BY <1>1, <2>2, RecordIs DEF ItemsInv
  <2> QED BY <1>1, <2>1, <2>4, <2>5, RecordIs DEF ItemsInv
<1>2. ASSUME NEW x \in Pid, Exit(x) PROVE ItemsInv'
  BY <1>2, ExitIs DEF ItemsInv
<1>3. CASE UNCHANGED vars
  BY <1>3, SnapshotStays DEF vars, ItemsInv, Forest, Agents, Cat
<1> QED BY <1>1, <1>2, <1>3 DEF Next

-----------------------------------------------------------------------------
(* What a snapshot shows.                                                  *)

\* A score is at most 100, and at most that of age for what has an owner.
LEMMA ScoreIs ==
  ASSUME NEW i
  PROVE  Score(i) \in 0 .. 100 /\ (i.up # Top => Score(i) <= 20)
<1>1. \A b \in BOOLEAN, n \in Nat : Points(b, n) \in {0, n}
  BY DEF Points
<1>2. \A n \in Nat : AtMost100(n) \in 0 .. 100 /\ AtMost100(n) <= n
  BY DEF AtMost100
<1> DEFINE unowned == /\ i.up = Top
                      /\ i.cat \in {"Mcp", "Browser", "DevServer", "LanguageServer", "Database", "Worker"}
                      /\ ~Interactive(i.root)
           old == i.cat \in {"DevServer", "Worker"} /\ kind[i.root].age >= AgeHours
           a == Points(unowned /\ i.cat \in {"Mcp", "Browser", "LanguageServer", "Database"}, 50)
           b == Points(unowned /\ i.cat = "Mcp", 25)
           c == Points(unowned /\ i.cat = "Browser", 30)
           d == Points(unowned /\ Reparented(i.root), 40)
           e == Points(old, 20)
<1>3. Score(i) = AtMost100(a + b + c + d + e)
  BY DEF Score
<1>4. a \in {0, 50} /\ b \in {0, 25} /\ c \in {0, 30} /\ d \in {0, 40} /\ e \in {0, 20}
  BY DEF Points
<1>5. i.up # Top => a = 0 /\ b = 0 /\ c = 0 /\ d = 0
  BY DEF Points
<1> HIDE DEF a, b, c, d, e
<1>6. a + b + c + d + e \in Nat /\ (i.up # Top => a + b + c + d + e <= 20)
  BY <1>4, <1>5
<1> DEFINE n == a + b + c + d + e
<1>7. n \in Nat /\ (i.up # Top => n <= 20) /\ Score(i) = AtMost100(n)
  BY <1>3, <1>6
<1> HIDE DEF n
<1>8. AtMost100(n) \in 0 .. 100 /\ AtMost100(n) <= n
  BY <1>2, <1>7
<1> QED BY <1>7, <1>8

\* State and score of an item agree; only a score marks one, or a session that ended.
LEMMA MarksAgree ==
  ASSUME ItemsInv, NEW i \in items
  PROVE  /\ i.score \in 0 .. 100 /\ i.state \in {"Active", "Persistent", "Suspicious"}
         /\ (i.state = "Suspicious") <=> (i.score >= 30)
         /\ i.state = "Suspicious" => i.up = Top
         /\ ScoreOf(i) \in 0 .. 100 /\ (StateOf(i) = "Suspicious" <=> ScoreOf(i) >= 30)
<1>1. PICK b \in Bare : i = Dressed(b)
  BY DressedIs
<1>2. /\ i.state = MarkedState(b) /\ i.up = b.up
      /\ i.score = IF MarkedState(b) = "Suspicious" THEN Score(b) ELSE 0
  BY <1>1 DEF Dressed
<1>3. Score(b) \in 0 .. 100 /\ (b.up # Top => Score(b) <= 20)
  BY ScoreIs
<1>4. /\ MarkedState(b) \in {"Active", "Persistent", "Suspicious"}
      /\ MarkedState(b) = "Suspicious" => Score(b) >= 30
  BY DEF MarkedState
<1>5. /\ i.score \in 0 .. 100 /\ i.state \in {"Active", "Persistent", "Suspicious"}
      /\ (i.state = "Suspicious") <=> (i.score >= 30)
      /\ i.state = "Suspicious" => i.up = Top
  BY <1>2, <1>3, <1>4
<1>6. CASE SessionMarks(i)
  <2>1. StateOf(i) = "Suspicious" /\ ScoreOf(i) = AtMost100(i.score + 30)
    BY <1>6 DEF StateOf, ScoreOf
  <2>2. AtMost100(i.score + 30) \in 30 .. 100
    BY <1>5 DEF AtMost100
  <2> QED BY <1>5, <2>1, <2>2
<1>7. CASE ~SessionMarks(i)
  BY <1>5, <1>7 DEF StateOf, ScoreOf
<1> QED BY <1>5, <1>6, <1>7

\* Items are made of processes of the snapshot, and their marks agree.
LEMMA ItemsAreOK == ItemsInv => ItemsOK
<1> SUFFICES ASSUME ItemsInv PROVE ItemsOK
  OBVIOUS
<1>1. ended \subseteq {p \in Pid : Cat(p) = "Agent"}
  BY DEF ItemsInv, Agents
<1>2. ASSUME NEW i \in items
      PROVE  /\ i.root \in i.pids /\ i.pids \subseteq alive /\ i.cat \in Category
             /\ i.up = Top \/ \E j \in items : i.up = j.root
  <2>1. PICK b \in Bare : i = Dressed(b)
    BY DressedIs
  <2>2. i.root = b.root /\ i.pids = b.pids /\ i.cat = b.cat /\ i.up = b.up
    BY <2>1 DEF Dressed
  <2>3. /\ b.root \in b.pids /\ b.pids \subseteq alive /\ b.cat \in Category
        /\ b.up = Top \/ \E c \in Bare : c.root = b.up
    BY BareIs DEF ItemsInv
  <2>4. \A c \in Bare : Dressed(c) \in items /\ Dressed(c).root = c.root
    BY SnapshotIs DEF ItemsInv, Dressed
  <2> QED BY <2>2, <2>3, <2>4
<1> QED BY <1>1, <1>2, MarksAgree DEF ItemsOK

\* No process is in two items, but for the case ShownOnce names.
LEMMA AllShownOnce == ItemsInv => ShownOnce
<1> SUFFICES ASSUME ItemsInv, NEW i \in items, NEW j \in items, NEW p \in i.pids \cap j.pids, i # j
             PROVE  /\ i.cat = "Browser" /\ j.cat = "Browser"
                    /\ \E m \in Above[p] : Cat(m) = "Mcp" /\ \E n \in Above[m] : Cat(n) = "Mcp"
  BY DEF ShownOnce
<1>1. PICK b \in Bare : i = Dressed(b)
  BY DressedIs
<1>2. PICK c \in Bare : j = Dressed(c)
  BY DressedIs
<1>3. i.pids = b.pids /\ j.pids = c.pids /\ i.cat = b.cat /\ j.cat = c.cat /\ b # c
  BY <1>1, <1>2 DEF Dressed
<1>4. /\ b.cat = "Browser" /\ c.cat = "Browser"
      /\ \E m \in Above[p] : Cat(m) = "Mcp" /\ \E n \in Above[m] : Cat(n) = "Mcp"
  BY <1>3, BareOnce DEF ItemsInv
<1> QED BY <1>3, <1>4

\* A listener that no group has is adopted.
LEMMA AllListenersShown == ItemsInv => ListenersShown
<1> SUFFICES ASSUME ItemsInv, NEW p \in alive, kind[p].listens, Guess(p) \notin {"None", "Browser"}
             PROVE  p \in PidsOf(items)
  BY DEF ListenersShown
<1>1. \E b \in Bare : p \in b.pids
  <2>1. CASE p \in PidsOf(Grouped)
    BY <2>1 DEF PidsOf, Bare
  <2>2. CASE p \notin PidsOf(Grouped)
    <3>1. [root |-> p, pids |-> {p}, cat |-> Promoted(p), up |-> Top] \in Adopted(PidsOf(Grouped))
      BY <2>2 DEF Adopted
    <3> QED BY <3>1 DEF Bare
  <2> QED BY <2>1, <2>2
<1>2. PICK b \in Bare : p \in b.pids
  BY <1>1
<1>3. Dressed(b) \in items /\ p \in Dressed(b).pids
  BY <1>2, SnapshotIs DEF ItemsInv, Dressed
<1> QED BY <1>3 DEF PidsOf

\* The invariant of the items.
LEMMA ItemsInvAlways == Spec => []ItemsInv
BY ItemsInvInit, ItemsInvStep, PTL DEF Spec

\* A snapshot shows no process twice and hides none that listens (build_items, adopt).
THEOREM SnapshotsHold == Spec => []ItemsHold
<1>1. ItemsInv => ItemsHold
  BY ItemsAreOK, AllShownOnce, AllListenersShown DEF ItemsHold
<1> QED BY <1>1, ItemsInvAlways, PTL

\* A generic runtime that is an item has no item below it.
WrappersHidden ==
  \A n \in ItemPids : Cat(n) = "UnknownDev" => \A z \in ItemPids : n \notin Above[z]

\* A runtime with something classified below it is a wrapper.
LEMMA WrappersHide == WrappersHidden
BY ItemsAlive DEF ItemPids, Below, WrappersHidden

\* The facts about trees hold before and after a process exits.
LEMMA TreesAfter ==
  ASSUME ItemsInv, NEW x \in Pid, Exit(x)
  PROVE  /\ TheTree /\ TheItems /\ TheOwners /\ WrappersHidden /\ ItemPids \subseteq alive
         /\ TheTree' /\ TheItems' /\ TheOwners' /\ WrappersHidden' /\ (ItemPids \subseteq alive)'
<1>1. Forest /\ Forest'
  BY ExitIs DEF ItemsInv
<1>2. (Forest => TheTree /\ TheItems /\ TheOwners /\ WrappersHidden /\ ItemPids \subseteq alive)'
  BY TreeHolds, ItemsHere, OwnersHold, WrappersHide, ItemsAlive, PTL
<1>3. TheTree /\ TheItems /\ TheOwners /\ WrappersHidden /\ ItemPids \subseteq alive
  BY <1>1, TreeHolds, ItemsHere, OwnersHold, WrappersHide, ItemsAlive
<1> QED BY <1>1, <1>2, <1>3

\* A process that exits cuts what is above others, and cuts it at the far end.
LEMMA AboveShrinks ==
  ASSUME ItemsInv, NEW x \in Pid, Exit(x)
  PROVE  \A q \in Pid : /\ Above'[q] \subseteq Above[q]
                        /\ \A n \in Above'[q], m \in Above[q] : n \in Above[m] => m \in Above'[q]
<1> DEFINE Cut(q) == /\ Above'[q] \subseteq Above[q]
                     /\ \A n \in Above'[q], m \in Above[q] : n \in Above[m] => m \in Above'[q]
           T == {q \in Pid : Cut(q)}
<1>0. TheTree /\ TheTree' /\ alive \subseteq Pid
  BY TreesAfter DEF ItemsInv, Forest
<1>1. /\ \A q \in Pid : Above'[q] = IF parent'[q] \in alive' THEN {parent'[q]} \cup Above'[parent'[q]] ELSE {}
      /\ \A q \in Pid : Above[q] = IF parent[q] \in alive THEN {parent[q]} \cup Above[parent[q]] ELSE {}
  BY <1>0 DEF TheTree
<1>2. \A q \in Pid : (\A p \in Pid : p < q => p \in T) => q \in T
  <2> SUFFICES ASSUME NEW q \in Pid, \A p \in Pid : p < q => p \in T PROVE Cut(q)
    OBVIOUS
  <2>1. CASE parent'[q] \in alive'
    <3> DEFINE u == parent[q]
    <3>1. u \in alive /\ u \in Pid /\ u < q /\ parent'[q] = u
      BY <1>0, <2>1, ExitIs, LinksUp DEF ItemsInv, Forest
    <3>2. Above'[q] = {u} \cup Above'[u] /\ Above[q] = {u} \cup Above[u]
      BY <1>1, <2>1, <3>1
    <3>3. Cut(u)
      BY <3>1
    <3>4. \A m \in Above[u] : u \notin Above[m]
      <4> SUFFICES ASSUME NEW m \in Above[u], u \in Above[m] PROVE FALSE
        OBVIOUS
      <4>1. m < u /\ m \in Pid
        BY <1>0, <3>1 DEF TheTree
      <4>2. u < m /\ u \in Nat /\ m \in Nat
        BY <1>0, <3>1, <4>1, ClassifyConstants DEF TheTree
      <4> QED BY <4>1, <4>2
    <3> HIDE DEF u
    <3> QED BY <3>2, <3>3, <3>4
  <2>2. CASE parent'[q] \notin alive'
    BY <1>1, <2>2
  <2> QED BY <2>1, <2>2
<1> HIDE DEF T
<1>3. Pid \subseteq T
  BY <1>2, DownTheForest
<1> QED BY <1>3 DEF T

\* What is an item stays one while it runs; what becomes one is a browser, or a generic
\* runtime that has no item below it any more.
LEMMA ItemsStay ==
  ASSUME ItemsInv, NEW x \in Pid, Exit(x)
  PROVE  /\ \A q \in ItemPids : q # x => q \in ItemPids'
         /\ \A q \in ItemPids' : q \notin ItemPids => Cat(q) \in {"Browser", "UnknownDev"}
<1>0. /\ alive' = alive \ {x} /\ kind' = kind /\ alive \subseteq Pid
      /\ \A q \in Pid : Above'[q] \subseteq Above[q]
  BY ExitIs, AboveShrinks DEF ItemsInv, Forest
<1>1. \A q : Cat(q)' = Cat(q)
  BY <1>0 DEF Cat
<1>2. \A q \in alive' : DevBrowserAbove(q)' => DevBrowserAbove(q)
  BY <1>0, <1>1 DEF DevBrowserAbove
<1>3. /\ KeepBrowser' \subseteq KeepBrowser
      /\ \A q \in KeepBrowser : q # x /\ ~DevBrowserAbove(q) => q \in KeepBrowser'
  BY <1>0, <1>1, <1>2 DEF KeepBrowser
<1> DEFINE classified == {p \in alive : Cat(p) \notin {"None", "Browser"}} \cup KeepBrowser
           wrappers == {p \in alive : Cat(p) = "UnknownDev" /\ Below(p) \cap classified # {}}
           after == {p \in alive' : Cat(p) \notin {"None", "Browser"}} \cup KeepBrowser'
           wrapping == {p \in alive' : Cat(p) = "UnknownDev" /\ Below(p)' \cap after # {}}
<1>4. /\ ItemPids = {p \in classified \ wrappers : /\ ~(Cat(p) = "Browser" /\ DevBrowserAbove(p))
                                                   /\ Cat(p) = "UnknownDev" => kind[p].argv}
      /\ ItemPids' = {p \in after \ wrapping : /\ ~(Cat(p) = "Browser" /\ DevBrowserAbove(p)')
                                               /\ Cat(p) = "UnknownDev" => kind[p].argv}
  BY <1>0, <1>1 DEF ItemPids
<1>5. after \subseteq classified
  BY <1>0, <1>3
<1>6. \A p \in alive' : Below(p)' \subseteq Below(p)
  BY <1>0 DEF Below
<1>7. \A p \in alive' : p \in wrapping => p \in wrappers
  <2> HIDE DEF classified, after
  <2> QED BY <1>0, <1>5, <1>6
<1>8. \A q \in classified : q \in alive
  BY DEF KeepBrowser
<1>9. \A q \in classified : q # x /\ ~(Cat(q) = "Browser" /\ DevBrowserAbove(q)) => q \in after
  BY <1>0, <1>3, <1>8 DEF KeepBrowser
<1>10. \A q \in after : q \in alive'
  BY DEF KeepBrowser
<1>11. \A q \in ItemPids : q # x => q \in ItemPids'
  <2> HIDE DEF classified, after, wrappers, wrapping
  <2> QED BY <1>4, <1>2, <1>7, <1>9, <1>10
<1>12. \A q \in alive : q \notin wrappers \/ Cat(q) = "UnknownDev"
  OBVIOUS
<1>13. \A q \in ItemPids' : q \notin ItemPids => Cat(q) \in {"Browser", "UnknownDev"}
  <2> HIDE DEF classified, after, wrappers, wrapping
  <2> QED BY <1>4, <1>5, <1>8, <1>12
<1> QED BY <1>11, <1>13

\* The nearest item stays the nearest; one that folds into it did so before.
LEMMA NearestStays ==
  ASSUME ItemsInv, NEW x \in Pid, Exit(x), NEW q \in alive', NearestItem'[q] # Top
  PROVE  /\ NearestItem'[q] \in ItemPids' /\ NearestItem'[q] \in Above[q] /\ NearestItem'[q] \in alive'
         /\ NearestItem'[q] \in Pid /\ NearestItem'[q] < q
         /\ NearestItem'[q] \in ItemPids => NearestItem[q] = NearestItem'[q]
         /\ q \in ItemPids' => Cat(NearestItem'[q]) # "UnknownDev"
<1> DEFINE n == NearestItem'[q]
           m == NearestItem[q]
<1>0. /\ alive' = alive \ {x} /\ kind' = kind /\ alive \subseteq Pid /\ q \in Pid
      /\ TheTree /\ TheTree' /\ TheItems /\ TheItems' /\ WrappersHidden' /\ ItemPids' \subseteq alive'
      /\ Above'[q] \subseteq Above[q]
      /\ \A a \in Above'[q], b \in Above[q] : a \in Above[b] => b \in Above'[q]
  BY ExitIs, TreesAfter, AboveShrinks DEF ItemsInv, Forest
<1>1. n \in ItemPids' /\ n \in Above'[q] /\ n \in Above[q] /\ n \in alive' /\ n \in Pid /\ n < q
  BY <1>0 DEF TheItems, TheTree
<1>2. ASSUME n \in ItemPids PROVE m = n
  <2>1. m # Top /\ (n = m \/ n \in Above[m])
    BY <1>0, <1>1, <1>2 DEF TheItems
  <2>2. SUFFICES ASSUME n \in Above[m], m # n PROVE FALSE
    BY <2>1
  <2>3. m \in ItemPids /\ m \in Above[q] /\ m \in Above'[q]
    BY <1>0, <1>1, <2>1, <2>2 DEF TheItems
  <2>4. m # x
    BY <1>0, <2>3 DEF TheTree
  <2>5. m \in ItemPids'
    BY <2>3, <2>4, ItemsStay
  <2>6. m \in Above'[n]
    BY <1>0, <2>2, <2>3, <2>5 DEF TheItems
  <2>7. m < n /\ n < m /\ n \in Nat /\ m \in Nat
    BY <1>0, <1>1, <2>2, <2>3, <2>6, ClassifyConstants DEF TheTree
  <2> QED BY <2>7
<1>3. ASSUME q \in ItemPids' PROVE Cat(n) # "UnknownDev"
  <2>1. \A p : Cat(p)' = Cat(p)
    BY <1>0 DEF Cat
  <2>2. \A p \in ItemPids' : Cat(p)' = "UnknownDev" => \A z \in ItemPids' : p \notin Above'[z]
    BY <1>0 DEF WrappersHidden
  <2> HIDE DEF n
  <2>3. Cat(n) = "UnknownDev" => n \notin Above'[q]
    BY <1>1, <1>3, <2>1, <2>2
  <2> QED BY <1>1, <2>3
<1> QED BY <1>1, <1>2, <1>3

\* What folds into an item after an exit was folded into it before.
LEMMA FoldsStay ==
  ASSUME ItemsInv, NEW x \in Pid, Exit(x), NEW q \in ItemPids', Cat(q) # "Browser",
         NearestItem'[q] # Top, SameKind(q, NearestItem'[q])
  PROVE  q \in ItemPids /\ NearestItem[q] = NearestItem'[q] /\ NearestItem'[q] \in ItemPids
<1>0. q \in alive'
  BY TreesAfter
<1>1. /\ NearestItem'[q] \in ItemPids' /\ Cat(NearestItem'[q]) # "UnknownDev"
      /\ NearestItem'[q] \in ItemPids => NearestItem[q] = NearestItem'[q]
  BY <1>0, NearestStays
<1>2. Cat(NearestItem'[q]) = Cat(q)
  BY DEF SameKind
<1> QED BY <1>1, <1>2, ItemsStay

\* What is on record of a process, browsers excepted: nothing for agents and for what is no
\* item, the same for all that folds into an item, and no ended session for what is below an
\* agent of the snapshot.
OnRecord ==
  \A q \in alive : Cat(q) # "Browser" =>
    /\ q \notin ItemPids \/ Cat(q) = "Agent" => origin[q] = Top
    /\ q \in ItemPids => origin[FoldOf[q]] = origin[q]
    /\ origin[q] \in ended => Above[q] \cap Agents = {}

\* Nothing is on record at first.
LEMMA OnRecordInit == Init /\ ItemsInv => OnRecord
<1> SUFFICES ASSUME Init, ItemsInv PROVE OnRecord
  OBVIOUS
<1>1. /\ \A q \in Pid : origin[q] = Top /\ FoldOf[q] \in Pid
      /\ ended = {} /\ alive \subseteq Pid
  BY FoldIs DEF Init, ItemsInv, Forest
<1> QED BY <1>1 DEF OnRecord

\* The items of a snapshot: of the forest, a rollup of browsers, or adopted.
ForestItem(i) ==
  /\ i.root \in ItemPids /\ FoldOf[i.root] = i.root /\ i.pids = {p \in ItemPids : FoldOf[p] = i.root}
  /\ i.cat = Promoted(i.root) /\ i.up = UpItem(i.root)
RollupItem(i) == i.cat = "Browser" /\ \A p \in i.pids : Cat(p) = "Browser" /\ p \notin ItemPids
AdoptedItem(i) ==
  /\ i.root \in alive \ ItemPids /\ i.pids = {i.root} /\ i.cat = Promoted(i.root) /\ i.up = Top
  /\ kind[i.root].listens /\ Guess(i.root) \notin {"None", "Browser"}

\* What is in a snapshot, and what is shown in it.
TheSnapshot ==
  /\ \A i \in Snapshot : /\ ForestItem(i) \/ RollupItem(i) \/ AdoptedItem(i)
                         /\ i.owner = OwnerOf[i.up] /\ i.state = MarkedState(i)
                         /\ i.score = IF i.state = "Suspicious" THEN Score(i) ELSE 0
  /\ \A r \in ItemPids : FoldOf[r] = r => \E i \in Snapshot : i.root = r /\ ForestItem(i)
  /\ \A r \in alive \ ItemPids :
        kind[r].listens /\ Guess(r) \notin {"None", "Browser"} => \E i \in Snapshot : i.root = r /\ AdoptedItem(i)

\* Who is in the groups: the items, and browsers.
LEMMA GroupedPids ==
  ASSUME Forest, NEW r \in alive
  PROVE  /\ r \in PidsOf(Grouped) => r \in ItemPids \/ Cat(r) = "Browser"
         /\ r \in ItemPids => r \in PidsOf(Grouped)
<1>1. ASSUME NEW b \in Grouped, r \in b.pids PROVE r \in ItemPids \/ Cat(r) = "Browser"
  <2>1. CASE b \in ForestItems
    BY <1>1, <2>1, ForestItemIs
  <2>2. CASE b \in Rollups
    <3>1. PICK m \in Servers : b.pids = Browsers(m)
      BY <2>2, RollupIs
    <3> QED BY <1>1, <3>1 DEF Browsers, KeepBrowser
  <2> QED BY <2>1, <2>2 DEF Grouped
<1>2. ASSUME r \in ItemPids PROVE r \in PidsOf(Grouped)
  <2>1. PICK j \in ForestItems : j.root = FoldOf[r]
    BY <1>2, FoldedShown
  <2>2. r \in j.pids
    BY <1>2, <2>1, ForestItemIs
  <2> QED BY <2>1, <2>2 DEF PidsOf, Grouped
<1> QED BY <1>1, <1>2 DEF PidsOf

\* There are these three kinds of items.
LEMMA BareKinds ==
  ASSUME Forest, NEW b \in Bare
  PROVE  ForestItem(b) \/ RollupItem(b) \/ AdoptedItem(b)
<1>1. CASE b \in ForestItems
  BY <1>1, ForestItemIs DEF ForestItem, UpItem
<1>2. CASE b \in Rollups
  <2>1. PICK m \in Servers : /\ b = [root |-> Least(Browsers(m)), pids |-> Browsers(m), cat |-> "Browser",
                                     up |-> FoldOf[m]]
    BY <1>2, RollupIs
  <2>2. b.cat = "Browser" /\ b.pids = Browsers(m)
    BY <2>1
  <2>3. ASSUME NEW p \in Browsers(m) PROVE Cat(p) = "Browser" /\ p \notin ItemPids
    <3>1. Cat(p) = "Browser" /\ m \in Above[p] /\ Cat(m) = "Mcp"
      BY DEF Browsers, Below, KeepBrowser, Servers
    <3> QED BY <3>1 DEF ItemPids, DevBrowserAbove
  <2> QED BY <2>2, <2>3 DEF RollupItem
<1>3. CASE b \in Adopted(PidsOf(Grouped))
  <2>1. /\ b.pids = {b.root} /\ b.cat = Promoted(b.root) /\ b.up = Top
        /\ b.root \in alive \ PidsOf(Grouped) /\ kind[b.root].listens
        /\ Guess(b.root) \notin {"None", "Browser"}
    BY <1>3 DEF Adopted
  <2>2. b.root \notin ItemPids
    BY <2>1, GroupedPids
  <2> QED BY <2>1, <2>2 DEF AdoptedItem
<1> QED BY <1>1, <1>2, <1>3 DEF Bare, Grouped

\* Marking changes nothing that a mark depends on.
LEMMA DressedSame ==
  ASSUME NEW b, NEW i, i = Dressed(b)
  PROVE  /\ i.root = b.root /\ i.pids = b.pids /\ i.cat = b.cat /\ i.up = b.up
         /\ i.owner = OwnerOf[i.up] /\ i.state = MarkedState(i)
         /\ i.score = IF i.state = "Suspicious" THEN Score(i) ELSE 0
         /\ (ForestItem(i) <=> ForestItem(b)) /\ (RollupItem(i) <=> RollupItem(b))
         /\ (AdoptedItem(i) <=> AdoptedItem(b))
<1>1. /\ i.root = b.root /\ i.pids = b.pids /\ i.cat = b.cat /\ i.up = b.up /\ i.owner = OwnerOf[b.up]
      /\ i.state = MarkedState(b) /\ i.score = IF MarkedState(b) = "Suspicious" THEN Score(b) ELSE 0
  BY DEF Dressed
<1>2. Score(i) = Score(b)
  BY <1>1 DEF Score
<1>3. MarkedState(i) = MarkedState(b)
  BY <1>1, <1>2 DEF MarkedState, Exempt
<1>4. /\ (ForestItem(i) <=> ForestItem(b)) /\ (RollupItem(i) <=> RollupItem(b))
      /\ (AdoptedItem(i) <=> AdoptedItem(b))
  BY <1>1 DEF ForestItem, RollupItem, AdoptedItem
<1> QED BY <1>1, <1>2, <1>3, <1>4

\* A snapshot has these items, for every process table.
LEMMA SnapshotHolds == Forest => TheSnapshot
<1> SUFFICES ASSUME Forest PROVE TheSnapshot
  OBVIOUS
<1>1. ASSUME NEW i \in Snapshot
      PROVE  /\ ForestItem(i) \/ RollupItem(i) \/ AdoptedItem(i)
             /\ i.owner = OwnerOf[i.up] /\ i.state = MarkedState(i)
             /\ i.score = IF i.state = "Suspicious" THEN Score(i) ELSE 0
  <2>1. PICK b \in Bare : i = Dressed(b)
    BY SnapshotIs
  <2>2. ForestItem(b) \/ RollupItem(b) \/ AdoptedItem(b)
    BY BareKinds
  <2> QED BY <2>1, <2>2, DressedSame
<1>2. ASSUME NEW r \in ItemPids, FoldOf[r] = r
      PROVE  \E i \in Snapshot : i.root = r /\ ForestItem(i)
  <2>1. PICK b \in ForestItems : b.root = r
    BY <1>2, FoldedShown
  <2>2. ForestItem(b) /\ b \in Bare
    BY ForestItemIs DEF ForestItem, UpItem, Bare, Grouped
  <2> DEFINE i == Dressed(b)
  <2>3. i \in Snapshot /\ i = Dressed(b)
    BY <2>2, SnapshotIs
  <2> HIDE DEF i
  <2> QED BY <2>1, <2>2, <2>3, DressedSame
<1>3. ASSUME NEW r \in alive \ ItemPids, kind[r].listens, Guess(r) \notin {"None", "Browser"}
      PROVE  \E i \in Snapshot : i.root = r /\ AdoptedItem(i)
  <2>1. r \notin PidsOf(Grouped)
    BY <1>3, GroupedPids DEF Guess
  <2> DEFINE b == [root |-> r, pids |-> {r}, cat |-> Promoted(r), up |-> Top]
  <2>2. b \in Bare /\ AdoptedItem(b) /\ b.root = r
    BY <1>3, <2>1 DEF Bare, Adopted, AdoptedItem
  <2> HIDE DEF b
  <2> DEFINE i == Dressed(b)
  <2>3. i \in Snapshot /\ i = Dressed(b)
    BY <2>2, SnapshotIs
  <2> HIDE DEF i
  <2> QED BY <2>2, <2>3, DressedSame
<1> QED BY <1>1, <1>2, <1>3 DEF TheSnapshot

\* Whom a collector records for a process, browsers excepted: the owner of the item it is in.
Recorded(q) ==
  IF q \in ItemPids /\ Cat(q) # "Agent" /\ OwnerOf[UpItem(FoldOf[q])] # Top
  THEN OwnerOf[UpItem(FoldOf[q])] ELSE origin[q]

\* Promotion makes no agent and no browser.
LEMMA CatPromoted ==
  ASSUME NEW p
  PROVE  (Promoted(p) = "Agent" <=> Cat(p) = "Agent") /\ (Promoted(p) = "Browser" <=> Cat(p) = "Browser")
BY DEF Promoted, Guess

\* A collector records the owner of the item a process is in.
LEMMA RecordedIs ==
  ASSUME ItemsInv, Record, NEW q \in alive, Cat(q) # "Browser"
  PROVE  origin'[q] = Recorded(q)
<1>0. TheSnapshot /\ TheItems /\ items = Snapshot /\ alive \subseteq Pid /\ q \in Pid
  BY SnapshotHolds, ItemsHere DEF ItemsInv, Forest
<1>1. IF Shows(q) # {} THEN \E i \in Shows(q) : origin'[q] = i.owner ELSE origin'[q] = origin[q]
  BY <1>0, RecordIs
<1>2. ASSUME NEW i \in Shows(q)
      PROVE  q \in ItemPids /\ Cat(q) # "Agent" /\ i.owner = OwnerOf[UpItem(FoldOf[q])] /\ i.owner # Top
  <2>1. i \in items /\ q \in i.pids /\ i.cat # "Agent" /\ i.owner # Top /\ i.owner = OwnerOf[i.up]
    BY <1>0 DEF Shows, TheSnapshot
  <2>2. ForestItem(i) \/ RollupItem(i) \/ AdoptedItem(i)
    BY <1>0, <2>1 DEF TheSnapshot
  <2>3. OwnerOf[Top] = Top
    BY OwnerIs DEF ItemsInv
  <2>4. ForestItem(i)
    BY <2>1, <2>2, <2>3 DEF RollupItem, AdoptedItem
  <2>5. q \in ItemPids /\ FoldOf[q] = i.root /\ i.cat = Promoted(i.root) /\ i.up = UpItem(FoldOf[q])
    BY <2>1, <2>4 DEF ForestItem
  <2>6. Cat(i.root) # "Agent" /\ Cat(q) = Cat(i.root)
    BY <1>0, <2>1, <2>5, CatPromoted DEF TheItems, SameKind
  <2> QED BY <2>1, <2>5, <2>6
<1>3. ASSUME q \in ItemPids, Cat(q) # "Agent", OwnerOf[UpItem(FoldOf[q])] # Top PROVE Shows(q) # {}
  <2> DEFINE r == FoldOf[q]
  <2>1. r \in ItemPids /\ FoldOf[r] = r /\ Cat(q) = Cat(r)
    BY <1>0, <1>3 DEF TheItems, SameKind
  <2>2. PICK i \in Snapshot : i.root = r /\ ForestItem(i)
    BY <1>0, <2>1 DEF TheSnapshot
  <2>3. q \in i.pids /\ i.cat = Promoted(r) /\ i.up = UpItem(r)
    BY <1>3, <2>2 DEF ForestItem
  <2>4. i.owner = OwnerOf[UpItem(r)] /\ i.cat # "Agent"
    BY <1>0, <1>3, <2>1, <2>2, <2>3, CatPromoted DEF TheSnapshot
  <2> QED BY <1>0, <1>3, <2>3, <2>4 DEF Shows
<1>4. CASE Shows(q) # {}
  BY <1>1, <1>2, <1>4 DEF Recorded
<1>5. CASE Shows(q) = {}
  BY <1>1, <1>3, <1>5 DEF Recorded
<1> QED BY <1>4, <1>5

\* What a collector records keeps to OnRecord: an owner that it finds runs, and what is below
\* none has no agent above.
LEMMA OnRecordRecord ==
  ASSUME ItemsInv, OnRecord, Record, ItemsInv'
  PROVE  OnRecord'
<1>0. /\ alive' = alive /\ ended' = ended \cup ({origin'[p] : p \in Pid} \ (alive \cup {Top}))
      /\ Above' = Above /\ ItemPids' = ItemPids /\ FoldOf' = FoldOf /\ Agents' = Agents
      /\ \A q : Cat(q)' = Cat(q)
  BY RecordIs, TreeSame
<1>1. /\ TheItems /\ TheOwners /\ ItemPids \subseteq alive /\ alive \subseteq Pid /\ Top \notin Pid
      /\ ended' \subseteq Agents \ alive
  BY <1>0, ItemsHere, OwnersHold, ItemsAlive, ClassifyConstants DEF ItemsInv, Forest
<1> SUFFICES ASSUME NEW q \in alive, Cat(q) # "Browser"
             PROVE  /\ q \notin ItemPids \/ Cat(q) = "Agent" => origin'[q] = Top
                    /\ q \in ItemPids => origin'[FoldOf[q]] = origin'[q]
                    /\ origin'[q] \in ended' => Above[q] \cap Agents = {}
  BY <1>0 DEF OnRecord
<1> DEFINE r == FoldOf[q]
<1>2. origin'[q] = Recorded(q)
  BY RecordedIs
<1>3. q \notin ItemPids \/ Cat(q) = "Agent" => origin'[q] = Top
  BY <1>2 DEF Recorded, OnRecord
<1>4. ASSUME q \in ItemPids PROVE origin'[r] = origin'[q]
  <2>1. r \in ItemPids /\ r \in alive /\ FoldOf[r] = r /\ Cat(r) = Cat(q)
    BY <1>1, <1>4 DEF TheItems, SameKind
  <2>2. origin'[r] = Recorded(r)
    BY <2>1, RecordedIs
  <2>3. origin[r] = origin[q]
    BY <1>4 DEF OnRecord
  <2> QED BY <1>2, <1>4, <2>1, <2>2, <2>3 DEF Recorded
<1>5. ASSUME origin'[q] \in ended' PROVE Above[q] \cap Agents = {}
  <2>1. q \in ItemPids /\ Cat(q) # "Agent"
    BY <1>1, <1>3, <1>5 DEF Agents
  <2>2. r \in ItemPids /\ r \in alive /\ r \in Pid
    BY <1>1, <2>1 DEF TheItems
  <2>3. OwnerOf[UpItem(r)] \in (Agents \cap alive) \cup {Top}
    BY <1>1, <2>2 DEF TheOwners
  <2>4. OwnerOf[UpItem(r)] = Top
    BY <1>1, <1>2, <1>5, <2>1, <2>3 DEF Recorded
  <2>5. Above[r] \cap Agents = {}
    BY <1>1, <2>2, <2>4 DEF TheOwners
  <2> QED BY <1>1, <2>1, <2>5 DEF TheOwners
<1> QED BY <1>3, <1>4, <1>5

\* An exit keeps to OnRecord: it brings nothing together that was apart.
LEMMA OnRecordExit ==
  ASSUME ItemsInv, OnRecord, NEW x \in Pid, Exit(x)
  PROVE  OnRecord'
<1>0. /\ alive' = alive \ {x} /\ kind' = kind /\ origin' = origin /\ ended' = ended /\ Agents' = Agents
      /\ alive \subseteq Pid /\ \A q \in Pid : Above'[q] \subseteq Above[q]
      /\ TheItems /\ TheItems' /\ ItemPids' \subseteq alive'
      /\ \A q \in ItemPids : q # x => q \in ItemPids'
  BY ExitIs, AboveShrinks, TreesAfter, ItemsStay DEF ItemsInv, Forest
<1>1. \A q : Cat(q)' = Cat(q) /\ \A p : SameKind(q, p)' <=> SameKind(q, p)
  BY <1>0 DEF Cat, SameKind
<1>2. \A q \in Pid : FoldOf'[q] = IF NearestItem'[q] # Top /\ SameKind(q, NearestItem'[q])
                                  THEN FoldOf'[NearestItem'[q]] ELSE q
  <2>1. \A q \in Pid : FoldOf'[q] = IF NearestItem'[q] # Top /\ (Cat(q)' = Cat(NearestItem[q])'
                                            /\ kind'[q].name = kind'[NearestItem'[q]].name)
                                    THEN FoldOf'[NearestItem'[q]] ELSE q
    BY <1>0 DEF TheItems, SameKind
  <2> QED BY <2>1, <1>0 DEF SameKind, Cat
<1> DEFINE Same(q) == q \in ItemPids' /\ Cat(q) # "Browser" => origin[FoldOf'[q]] = origin[q]
           T == {q \in Pid : Same(q)}
<1>3. \A q \in Pid : (\A p \in Pid : p < q => p \in T) => q \in T
  <2> SUFFICES ASSUME NEW q \in Pid, \A p \in Pid : p < q => p \in T, q \in ItemPids', Cat(q) # "Browser"
               PROVE  origin[FoldOf'[q]] = origin[q]
    OBVIOUS
  <2>1. CASE NearestItem'[q] # Top /\ SameKind(q, NearestItem'[q])
    <3> DEFINE n == NearestItem'[q]
    <3>1. q \in ItemPids /\ NearestItem[q] = n /\ n \in ItemPids /\ n # Top /\ SameKind(q, n)
      BY <2>1, FoldsStay
    <3>2. n \in Pid /\ n \in alive /\ n < q /\ n \in ItemPids' /\ Cat(n) # "Browser"
      BY <1>0, <2>1, <3>1, NearestStays DEF SameKind
    <3>3. FoldOf'[q] = FoldOf'[n] /\ FoldOf[q] = FoldOf[n]
      BY <1>0, <1>2, <2>1, <3>1 DEF TheItems
    <3> HIDE DEF n
    <3>4. origin[FoldOf'[n]] = origin[n]
      BY <3>2
    <3>5. origin[FoldOf[n]] = origin[n] /\ origin[FoldOf[q]] = origin[q]
      BY <1>0, <3>1, <3>2 DEF OnRecord
    <3> QED BY <3>3, <3>4, <3>5
  <2>2. CASE ~(NearestItem'[q] # Top /\ SameKind(q, NearestItem'[q]))
    BY <1>2, <2>2
  <2> QED BY <2>1, <2>2
<1> HIDE DEF T
<1>4. Pid \subseteq T
  BY <1>3, DownTheForest
<1>5. ASSUME NEW q \in alive', Cat(q) # "Browser"
      PROVE  /\ q \notin ItemPids' \/ Cat(q) = "Agent" => origin[q] = Top
             /\ q \in ItemPids' => origin[FoldOf'[q]] = origin[q]
             /\ origin[q] \in ended => Above'[q] \cap Agents = {}
  BY <1>0, <1>4, <1>5 DEF T, OnRecord
<1> QED BY <1>0, <1>1, <1>5 DEF OnRecord

\* Every step does.
LEMMA OnRecordStep == ItemsInv /\ OnRecord /\ [Next]_vars => OnRecord'
<1> SUFFICES ASSUME ItemsInv, OnRecord, [Next]_vars PROVE OnRecord'
  OBVIOUS
<1>1. CASE Record
  BY <1>1, ItemsInvStep, OnRecordRecord
<1>2. ASSUME NEW x \in Pid, Exit(x) PROVE OnRecord'
  BY <1>2, OnRecordExit
<1>3. CASE UNCHANGED vars
  BY <1>3, TreeSame DEF vars, OnRecord
<1> QED BY <1>1, <1>2, <1>3 DEF Next

\* Both invariants.
LEMMA OnRecordAlways == Spec => [](ItemsInv /\ OnRecord)
<1>1. Init => ItemsInv /\ OnRecord
  BY ItemsInvInit, OnRecordInit
<1>2. ItemsInv /\ OnRecord /\ [Next]_vars => (ItemsInv /\ OnRecord)'
  BY ItemsInvStep, OnRecordStep
<1> QED BY <1>1, <1>2, PTL DEF Spec

-----------------------------------------------------------------------------
(* Steps and the marks.                                                    *)

\* What has an owner gets no points for having none.
LEMMA OwnedClean == ItemsInv => OwnedIsClean
<1> SUFFICES ASSUME ItemsInv, NEW i \in items, i.up # Top, \A p \in i.pids : origin[p] \notin ended
             PROVE  StateOf(i) # "Suspicious"
  BY DEF OwnedIsClean
<1>1. ~SessionMarks(i)
  BY DEF SessionMarks
<1> QED BY <1>1, MarksAgree DEF StateOf

\* A collector that finds a recorded owner gone has its session ended.
LEMMA RecordFlags ==
  ASSUME ItemsInv, Record, NEW i \in items, i.cat # "Agent",
         NEW p \in i.pids, origin'[p] \notin alive \cup {Top}
  PROVE  StateOf(i)' \in {"Suspicious", "Persistent"}
<1>1. p \in Pid
  BY ItemsAreOK DEF ItemsInv, ItemsOK, Forest
<1>2. origin'[p] \in ended'
  BY <1>1, RecordIs
<1>3. i.state # "Persistent" => SessionMarks(i)'
  BY <1>2 DEF SessionMarks
<1> QED BY <1>3 DEF StateOf

\* What is on record as a dead agent's, and listens, is in an item that shows it.
LEMMA PortsMarked == ItemsInv /\ OnRecord => PortsAgree
<1> SUFFICES ASSUME ItemsInv, OnRecord, NEW p \in alive, kind[p].listens, Cat(p) # "Browser",
                    PortEntry(p).state = "ended"
             PROVE  \E i \in items : p \in i.pids /\ StateOf(i) \in {"Suspicious", "Persistent"}
  BY DEF PortsAgree
<1>0. TheSnapshot /\ TheItems /\ items = Snapshot /\ alive \subseteq Pid
  BY SnapshotHolds, ItemsHere DEF ItemsInv, Forest
<1>1. origin[p] # Top /\ origin[p] \in ended
  BY DEF PortEntry
<1>2. p \in ItemPids /\ Cat(p) # "Agent"
  BY <1>1 DEF OnRecord
<1> DEFINE r == FoldOf[p]
<1>3. r \in ItemPids /\ FoldOf[r] = r /\ Cat(p) = Cat(r)
  BY <1>0, <1>2 DEF TheItems, SameKind
<1>4. PICK i \in items : i.root = r /\ ForestItem(i)
  BY <1>0, <1>3 DEF TheSnapshot
<1>5. p \in i.pids /\ i.cat # "Agent"
  BY <1>2, <1>3, <1>4, CatPromoted DEF ForestItem
<1>6. i.state # "Persistent" => SessionMarks(i)
  BY <1>1, <1>5 DEF SessionMarks
<1>7. StateOf(i) \in {"Suspicious", "Persistent"}
  BY <1>6 DEF StateOf
<1> QED BY <1>5, <1>7

\* n gives the nearest of S, in a table of the processes here that go up by up.
Climbs(n, S, up, here) ==
  \A p \in Pid : n[p] = IF up[p] \notin here THEN Top ELSE IF up[p] \in S THEN up[p] ELSE n[up[p]]

\* The nearest supervisor and the nearest shell above a process.
TheSources ==
  /\ Climbs(NearestIn(Supervisors), Supervisors, parent, alive)
  /\ Climbs(NearestIn(Shells), Shells, parent, alive)
  /\ \A p \in Pid :
       /\ NearestIn(Supervisors)[p] # Top => NearestIn(Supervisors)[p] \in Supervisors
       /\ NearestIn(Shells)[p] # Top => NearestIn(Shells)[p] \in Shells \cap Above[p]

\* They are so in every process table.
LEMMA SourcesHere == Forest => TheSources
BY NearestIs DEF TheSources, Climbs

\* When a process exits, the nearest of a set stays the nearest or none is left: what is above
\* a process is cut off at the far end.
LEMMA NearestFades ==
  ASSUME ItemsInv, NEW x \in Pid, Exit(x), NEW S, NEW n, NEW m,
         Climbs(n, S, parent, alive), Climbs(m, S \ {x}, parent', alive')
  PROVE  \A p \in Pid : m[p] = n[p] \/ m[p] = Top
<1> DEFINE T == {p \in Pid : m[p] = n[p] \/ m[p] = Top}
<1>1. \A p \in Pid : (\A q \in Pid : q < p => q \in T) => p \in T
  <2> SUFFICES ASSUME NEW p \in Pid, \A q \in Pid : q < p => q \in T PROVE m[p] = n[p] \/ m[p] = Top
    OBVIOUS
  <2>1. CASE parent'[p] \in alive'
    <3> DEFINE u == parent[p]
    <3>1. u \in alive /\ u \in Pid /\ u < p /\ parent'[p] = u /\ u # x
      BY <2>1, ExitIs, LinksUp DEF ItemsInv, Forest
    <3>2. u \in T
      BY <3>1
    <3>3. n[p] = IF u \in S THEN u ELSE n[u]
      BY <3>1 DEF Climbs
    <3>4. m[p] = IF u \in S THEN u ELSE m[u]
      BY <2>1, <3>1 DEF Climbs
    <3> HIDE DEF u
    <3> QED BY <3>2, <3>3, <3>4
  <2>2. CASE parent'[p] \notin alive'
    BY <2>2 DEF Climbs
  <2> QED BY <2>1, <2>2
<1> HIDE DEF T
<1>2. Pid \subseteq T
  BY <1>1, DownTheForest
<1> QED BY <1>2 DEF T

\* What is shown as the source of a process fades when another exits.
LEMMA SourceFades ==
  ASSUME ItemsInv, NEW x \in Pid, Exit(x), NEW p \in alive', SourceOf(p)' # SourceOf(p)
  PROVE  \/ SourceOf(p)' = Top
         \/ SourceOf(p) \in Supervisors /\ SourceOf(p)' \in Shells \cap Above[p]
<1>0. /\ alive' = alive \ {x} /\ kind' = kind /\ p \in Pid /\ TheSources /\ TheSources'
  <2>1. (Forest => TheSources)'
    BY SourcesHere, PTL
  <2> QED BY <2>1, ExitIs, SourcesHere DEF ItemsInv, Forest
<1>1. Supervisors' = Supervisors \ {x} /\ Shells' = Shells \ {x}
  BY <1>0 DEF Supervisors, Shells
<1> DEFINE a == NearestIn(Supervisors)
           b == NearestIn(Shells)
           c == NearestIn(Supervisors)'
           d == NearestIn(Shells)'
<1>2. Climbs(a, Supervisors, parent, alive) /\ Climbs(b, Shells, parent, alive)
  BY <1>0 DEF TheSources
<1>3. Climbs(c, Supervisors \ {x}, parent', alive') /\ Climbs(d, Shells \ {x}, parent', alive')
  BY <1>0, <1>1 DEF TheSources, Climbs
<1>4. (a[p] # Top => a[p] \in Supervisors) /\ (b[p] # Top => b[p] \in Shells \cap Above[p])
  BY <1>0 DEF TheSources
<1>5. /\ SourceOf(p) = IF kind[p].starts = "sandbox" THEN p ELSE IF a[p] # Top THEN a[p] ELSE b[p]
      /\ SourceOf(p)' = IF kind[p].starts = "sandbox" THEN p ELSE IF c[p] # Top THEN c[p] ELSE d[p]
  BY <1>0 DEF SourceOf
<1> HIDE DEF a, b, c, d
<1>6. (c[p] = a[p] \/ c[p] = Top) /\ (d[p] = b[p] \/ d[p] = Top)
  BY <1>0, <1>2, <1>3, NearestFades
<1> QED BY <1>4, <1>5, <1>6

\* No step makes up a source.
LEMMA SourcesStep ==
  ASSUME ItemsInv, [Next]_vars, NEW p \in alive', PortEntry(p).state = "source",
         PortEntry(p)'.state = "source", PortEntry(p)'.by # PortEntry(p).by
  PROVE  \/ PortEntry(p)'.by = Top
         \/ PortEntry(p).by \in Supervisors /\ PortEntry(p)'.by \in Shells \cap Above[p]
<1>1. PortEntry(p).by = SourceOf(p)
  BY DEF PortEntry
<1>2. PortEntry(p)'.by = SourceOf(p)'
  BY DEF PortEntry
<1>3. ASSUME alive' = alive, parent' = parent, kind' = kind PROVE FALSE
  <2>1. Supervisors' = Supervisors /\ Shells' = Shells
    BY <1>3 DEF Supervisors, Shells
  <2>2. SourceOf(p)' = SourceOf(p)
    BY <1>3, <2>1 DEF SourceOf, NearestIn
  <2> QED BY <1>1, <1>2, <2>2
<1>4. CASE Record
  BY <1>3, <1>4, RecordIs
<1>5. ASSUME NEW x \in Pid, Exit(x)
      PROVE  \/ PortEntry(p)'.by = Top
             \/ PortEntry(p).by \in Supervisors /\ PortEntry(p)'.by \in Shells \cap Above[p]
  BY <1>1, <1>2, <1>5, SourceFades
<1>6. CASE UNCHANGED vars
  BY <1>3, <1>6 DEF vars
<1> QED BY <1>4, <1>5, <1>6 DEF Next

-----------------------------------------------------------------------------
(* Leftovers stay.                                                         *)

\* An item of the same root and category scores as much after a process exits, if nothing is
\* above it that was not; what exempts one exempts the other, databases excepted.
LEMMA ScoreRises ==
  ASSUME ItemsInv, NEW x \in Pid, Exit(x), NEW i, NEW j, j.root = i.root, j.cat = i.cat,
         i.root \in alive', i.up = Top => j.up = Top
  PROVE  Score(i) <= Score(j)' /\ (i.cat # "Database" => (Exempt(j)' <=> Exempt(i)))
<1>0. /\ alive' = alive \ {x} /\ kind' = kind /\ x \in alive /\ i.root \in Pid
      /\ parent' = [q \in Pid |-> IF parent[q] = x THEN Top ELSE parent[q]]
      /\ Above'[i.root] \subseteq Above[i.root] /\ Top \notin alive
  BY ExitIs, AboveShrinks, ClassifyConstants DEF ItemsInv, Forest
<1>1. Interactive(j.root)' => Interactive(i.root)
  BY <1>0 DEF Interactive
<1>2. Reparented(i.root) => Reparented(j.root)'
  BY <1>0 DEF Reparented
<1> DEFINE u == /\ i.up = Top
                /\ i.cat \in {"Mcp", "Browser", "DevServer", "LanguageServer", "Database", "Worker"}
                /\ ~Interactive(i.root)
           v == /\ j.up = Top
                /\ i.cat \in {"Mcp", "Browser", "DevServer", "LanguageServer", "Database", "Worker"}
                /\ ~Interactive(j.root)'
           r == Reparented(i.root)
           s == Reparented(j.root)'
           w == i.cat \in {"Mcp", "Browser", "LanguageServer", "Database"}
           m == i.cat = "Mcp"
           b == i.cat = "Browser"
           o == i.cat \in {"DevServer", "Worker"} /\ kind[i.root].age >= AgeHours
<1>3. Score(i) = AtMost100(Points(u /\ w, 50) + Points(u /\ m, 25) + Points(u /\ b, 30) + Points(u /\ r, 40)
                           + Points(o, 20))
  BY DEF Score
<1>4. Score(j)' = AtMost100(Points(v /\ w, 50) + Points(v /\ m, 25) + Points(v /\ b, 30) + Points(v /\ s, 40)
                            + Points(o, 20))
  BY <1>0 DEF Score
<1>5. (u => v) /\ (r => s)
  BY <1>1, <1>2
<1>6. u \in BOOLEAN /\ v \in BOOLEAN /\ r \in BOOLEAN /\ s \in BOOLEAN /\ w \in BOOLEAN /\ m \in BOOLEAN
      /\ b \in BOOLEAN /\ o \in BOOLEAN
  BY DEF Reparented
<1>7. i.cat # "Database" => (Exempt(j)' <=> Exempt(i))
  BY <1>0 DEF Exempt
<1> HIDE DEF u, v, r, s, w, m, b, o
<1>8. AtMost100(Points(u /\ w, 50) + Points(u /\ m, 25) + Points(u /\ b, 30) + Points(u /\ r, 40) + Points(o, 20))
      <= AtMost100(Points(v /\ w, 50) + Points(v /\ m, 25) + Points(v /\ b, 30) + Points(v /\ s, 40) + Points(o, 20))
  BY ONLY <1>5, <1>6 DEF Points, AtMost100
<1>9. Score(i) <= Score(j)'
  BY <1>3, <1>4, <1>8
<1> QED BY <1>7, <1>9

\* Scores are bounded.
LEMMA ScoresIn == \A k : Score(k) \in 0 .. 100
BY ScoreIs

\* A mark that mark() gives stays, and so does one that a session gives.
LEMMA MarkRises ==
  ASSUME ItemsInv, NEW x \in Pid, Exit(x), NEW i \in items, NEW j \in items', j.root = i.root, j.cat = i.cat,
         i.root \in alive', i.up = Top => j.up = Top, i.cat # "Database",
         SessionMarks(i) => \E p \in j.pids : origin[p] \in ended
  PROVE  ScoreOf(j)' >= ScoreOf(i)
<1>0. /\ i.state = MarkedState(i) /\ i.score = IF i.state = "Suspicious" THEN Score(i) ELSE 0
      /\ origin' = origin /\ ended' = ended /\ ItemsInv'
  BY SnapshotHolds, ItemsInvStep, ExitIs DEF ItemsInv, TheSnapshot, Next
<1>1. j.state = MarkedState(j)' /\ j.score = IF j.state = "Suspicious" THEN Score(j)' ELSE 0
  <2>1. (Forest => TheSnapshot)'
    BY SnapshotHolds, PTL
  <2> QED BY <1>0, <2>1 DEF ItemsInv, TheSnapshot
<1>2. /\ Score(i) <= Score(j)' /\ (Exempt(j)' <=> Exempt(i))
      /\ Score(i) \in 0 .. 100
  BY ScoreRises, ScoreIs
<1>3. Score(j)' \in 0 .. 100
  <2>1. (\A k : Score(k) \in 0 .. 100)'
    BY ScoresIn, PTL
  <2> QED BY <2>1
<1>4. /\ i.state = "Suspicious" => j.state = "Suspicious"
      /\ i.state # "Persistent" => j.state # "Persistent"
  BY <1>0, <1>1, <1>2, <1>3 DEF MarkedState
<1>5. i.score <= j.score /\ i.score \in 0 .. 100 /\ j.score \in 0 .. 100
  BY <1>0, <1>1, <1>2, <1>3, <1>4
<1>6. SessionMarks(i) => SessionMarks(j)'
  BY <1>0, <1>4 DEF SessionMarks
<1>7. \A a, b \in 0 .. 100 : a <= b => /\ AtMost100(a + 30) <= AtMost100(b + 30)
                                       /\ a <= AtMost100(b + 30) /\ a <= b
  BY DEF AtMost100
<1>8. /\ ScoreOf(i) = IF SessionMarks(i) THEN AtMost100(i.score + 30) ELSE i.score
      /\ ScoreOf(j)' = IF SessionMarks(j)' THEN AtMost100(j.score + 30) ELSE j.score
  BY DEF ScoreOf
<1>9. ScoreOf(i) <= ScoreOf(j)'
  <2>1. /\ AtMost100(i.score + 30) <= AtMost100(j.score + 30)
        /\ i.score <= AtMost100(j.score + 30) /\ i.score <= j.score
    BY <1>5, <1>7
  <2> QED BY <1>6, <1>8, <2>1
<1>10. ScoreOf(i) \in 0 .. 100 /\ ScoreOf(j)' \in 0 .. 100
  <2>1. (ItemsInv => ItemsOK)'
    BY ItemsAreOK, PTL
  <2> QED BY <1>0, <2>1, ItemsAreOK DEF ItemsOK
<1> QED BY <1>9, <1>10

\* A forest item after a step, if its root still folds into no other.
LEMMA StillShown ==
  ASSUME ItemsInv, NEW x \in Pid, Exit(x), NEW r \in ItemPids', FoldOf'[r] = r
  PROVE  \E j \in items' : /\ j.root = r /\ r \in j.pids /\ j.cat = Promoted(r)
                           /\ j.up = IF NearestItem'[r] = Top THEN Top ELSE FoldOf'[NearestItem'[r]]
<1>1. (Forest => TheSnapshot)'
  BY SnapshotHolds, PTL
<1>2. TheSnapshot' /\ items' = Snapshot' /\ kind' = kind
  BY <1>1, ExitIs
<1>3. PICK j \in items' : j.root = r /\ ForestItem(j)'
  BY <1>2 DEF TheSnapshot
<1>4. /\ j.pids = {p \in ItemPids' : FoldOf'[p] = r} /\ j.cat = Promoted(r)'
      /\ j.up = IF NearestItem'[r] = Top THEN Top ELSE FoldOf'[NearestItem'[r]]
  BY <1>3 DEF ForestItem, UpItem
<1>5. Promoted(r)' = Promoted(r)
  BY <1>2 DEF Promoted, Guess, Cat
<1> QED BY <1>3, <1>4, <1>5

\* An item at the top that comes to be below another: a browser has come into view.
LEMMA BrowserInView ==
  ASSUME ItemsInv, NEW x \in Pid, Exit(x), NEW r \in ItemPids \cap ItemPids',
         NearestItem[r] = Top, NearestItem'[r] # Top
  PROVE  \E b \in items' : b.cat = "Browser" /\ b.root = FoldOf'[NearestItem'[r]]
<1> DEFINE n == NearestItem'[r]
           f == FoldOf'[n]
<1>0. TheItems' /\ kind' = kind /\ r \in alive' /\ Top \notin Pid
  BY TreesAfter, ExitIs, ClassifyConstants
<1>1. /\ n \in ItemPids' /\ n \in Pid /\ Cat(n) # "UnknownDev"
      /\ n \in ItemPids => NearestItem[r] = n
  BY <1>0, NearestStays
<1>2. n \notin ItemPids /\ Cat(n) = "Browser"
  <2>1. n # Top
    BY <1>0, <1>1
  <2> QED BY <1>1, <2>1, ItemsStay
<1>3. \A p \in Pid : /\ FoldOf'[p] \in Pid /\ FoldOf'[FoldOf'[p]] = FoldOf'[p] /\ SameKind(p, FoldOf[p])'
                     /\ p \in ItemPids' => FoldOf'[p] \in ItemPids'
  BY <1>0 DEF TheItems
<1>4. \A p \in Pid : Cat(FoldOf'[p]) = Cat(p)
  BY <1>0, <1>3 DEF SameKind, Cat
<1> HIDE DEF n
<1>5. f \in ItemPids' /\ FoldOf'[f] = f /\ Cat(f) = "Browser"
  BY <1>1, <1>2, <1>3, <1>4
<1> HIDE DEF f
<1>6. PICK b \in items' : b.root = f /\ b.cat = Promoted(f)
  BY <1>5, StillShown
<1>7. b.cat = "Browser"
  BY <1>5, <1>6, CatPromoted
<1> QED BY <1>6, <1>7 DEF f, n

\* Leftovers stay.
LEMMA LeftoversStay ==
  ASSUME ItemsInv, OnRecord, NEW x \in Pid, Exit(x), NEW i \in items,
         StateOf(i) = "Suspicious", i.root \in alive', i.cat \notin {"Database", "Browser"}
  PROVE  \E j \in items' :
            /\ i.root \in j.pids
            /\ \/ ScoreOf(j)' >= ScoreOf(i)
               \/ i.up = Top /\ \E b \in items' : b.cat = "Browser" /\ b.root = j.up
<1> DEFINE r == i.root
           n == NearestItem'[r]
<1>0. /\ TheSnapshot /\ TheItems /\ TheItems' /\ items = Snapshot /\ items' = Snapshot' /\ kind' = kind
      /\ alive' = alive \ {x} /\ alive \subseteq Pid /\ r \in Pid /\ r \in alive /\ r # x
      /\ origin' = origin /\ ended' = ended /\ Top \notin Pid
      /\ ItemPids \subseteq alive /\ ended \subseteq Pid
  BY TreesAfter, SnapshotHolds, ExitIs, ClassifyConstants DEF ItemsInv, Forest, Agents
<1>1. (ForestItem(i) \/ AdoptedItem(i)) /\ i.cat = Promoted(r) /\ Cat(r) # "Browser"
  <2>1. ForestItem(i) \/ RollupItem(i) \/ AdoptedItem(i)
    BY <1>0 DEF TheSnapshot
  <2>2. ForestItem(i) \/ AdoptedItem(i)
    BY <2>1 DEF RollupItem
  <2>3. i.cat = Promoted(r)
    BY <2>2 DEF ForestItem, AdoptedItem
  <2> QED BY <2>2, <2>3, CatPromoted
\* What folds does so into an item that was its nearest before.
<1>2. ASSUME r \in ItemPids', r \notin ItemPids \/ FoldOf[r] = r PROVE FoldOf'[r] = r
  <2>1. FoldOf'[r] = IF n # Top /\ SameKind(r, n) THEN FoldOf'[n] ELSE r
    <3>1. \A p \in Pid : FoldOf'[p] = IF NearestItem'[p] # Top /\ SameKind(p, NearestItem[p])'
                                      THEN FoldOf'[NearestItem'[p]] ELSE p
      BY <1>0 DEF TheItems
    <3> QED BY <1>0, <3>1 DEF SameKind, Cat
  <2>2. SUFFICES ASSUME n # Top, SameKind(r, n) PROVE FALSE
    BY <2>1
  <2>3. r \in ItemPids /\ NearestItem[r] = n /\ n \in ItemPids
    BY <1>1, <1>2, <2>2, FoldsStay
  <2>4. n \in Pid /\ n < r /\ FoldOf[r] = FoldOf[n] /\ FoldOf[n] <= n /\ FoldOf[n] \in Pid
    BY <1>0, <2>2, <2>3, NearestItemIs DEF TheItems, ItemsInv
  <2>5. FoldOf[r] = r /\ r \in Nat /\ n \in Nat
    BY <1>0, <1>2, <2>3, <2>4, ClassifyConstants
  <2> QED BY <2>4, <2>5
<1>3. CASE ForestItem(i)
  <2>1. r \in ItemPids /\ FoldOf[r] = r /\ i.pids = {p \in ItemPids : FoldOf[p] = r} /\ i.up = UpItem(r)
    BY <1>3 DEF ForestItem
  <2>2. r \in ItemPids' /\ FoldOf'[r] = r
    BY <1>0, <1>2, <2>1, ItemsStay
  <2>3. PICK j \in items' : /\ j.root = r /\ r \in j.pids /\ j.cat = Promoted(r)
                            /\ j.up = IF n = Top THEN Top ELSE FoldOf'[n]
    BY <2>2, StillShown
  <2>4. SessionMarks(i) => origin[r] \in ended
    <3>1. \A p \in i.pids : origin[FoldOf[p]] = origin[p] /\ FoldOf[p] = r
      <4> SUFFICES ASSUME NEW p \in i.pids PROVE origin[FoldOf[p]] = origin[p] /\ FoldOf[p] = r
        OBVIOUS
      <4>1. p \in ItemPids /\ p \in alive /\ p \in Pid /\ FoldOf[p] = r
        BY <1>0, <2>1
      <4>2. Cat(p) # "Browser"
        BY <1>0, <1>1, <4>1 DEF TheItems, SameKind
      <4> QED BY <4>1, <4>2 DEF OnRecord
    <3> QED BY <3>1 DEF SessionMarks
  <2>5. CASE i.up = Top => j.up = Top
    BY <1>0, <1>1, <2>3, <2>4, <2>5, MarkRises
  <2>6. CASE i.up = Top /\ j.up # Top
    <3>1. n # Top
      BY <2>3, <2>6
    <3>2. NearestItem[r] = Top
      <4> SUFFICES ASSUME NearestItem[r] # Top PROVE FALSE
        OBVIOUS
      <4>1. NearestItem[r] \in Pid
        BY <1>0, NearestItemIs DEF ItemsInv
      <4>2. FoldOf[NearestItem[r]] \in Pid /\ UpItem(r) = FoldOf[NearestItem[r]]
        BY <1>0, <4>1 DEF TheItems, UpItem
      <4> QED BY <1>0, <2>1, <2>6, <4>2
    <3>3. \E b \in items' : b.cat = "Browser" /\ b.root = FoldOf'[n]
      BY <2>1, <2>2, <3>1, <3>2, BrowserInView
    <3> QED BY <2>3, <2>6, <3>1, <3>3
  <2> QED BY <2>5, <2>6
<1>4. CASE AdoptedItem(i)
  <2>1. /\ r \in alive \ ItemPids /\ i.pids = {r} /\ i.up = Top
        /\ kind[r].listens /\ Guess(r) \notin {"None", "Browser"}
    BY <1>4 DEF AdoptedItem
  <2>2. origin[r] = Top /\ ~SessionMarks(i)
    BY <1>0, <1>1, <2>1 DEF OnRecord, SessionMarks
  <2>3. i.state = "Suspicious" /\ Score(i) >= 30
    BY <1>0, <2>2 DEF StateOf, TheSnapshot, MarkedState
  <2>4. CASE r \notin ItemPids'
    <3>1. (Forest => TheSnapshot)'
      BY SnapshotHolds, PTL
    <3>2. TheSnapshot' /\ r \in alive' /\ kind'[r].listens /\ Guess(r)' = Guess(r) /\ Promoted(r)' = Promoted(r)
      BY <1>0, <2>1, <3>1, ExitIs DEF Guess, Cat, Promoted
    <3>3. PICK j \in items' : j.root = r /\ AdoptedItem(j)'
      BY <1>0, <2>1, <2>4, <3>2 DEF TheSnapshot
    <3>4. j.pids = {r} /\ j.up = Top /\ j.cat = Promoted(r)
      BY <3>2, <3>3 DEF AdoptedItem
    <3> QED BY <1>0, <1>1, <2>2, <3>3, <3>4, MarkRises
  <2>5. CASE r \in ItemPids'
    <3>1. PICK j \in items' : /\ j.root = r /\ r \in j.pids /\ j.cat = Promoted(r)
                              /\ j.up = IF n = Top THEN Top ELSE FoldOf'[n]
      BY <1>2, <2>1, <2>5, StillShown
    <3>2. Cat(r) = "UnknownDev"
      BY <1>1, <2>1, <2>5, ItemsStay
    <3>3. i.cat = "DevServer"
      BY <1>1, <2>1, <3>2 DEF Promoted, Guess
    <3>4. Reparented(r)
      <4> SUFFICES ASSUME ~Reparented(r) PROVE FALSE
        OBVIOUS
      <4> QED BY <2>3, <3>3 DEF Score, Points, AtMost100
    <3>5. n = Top
      <4>1. parent[r] \notin alive
        BY <3>4 DEF Reparented
      <4>2. Above[r] = {}
        BY <1>0, <4>1, TreesAfter DEF TheTree
      <4>3. n # Top => n \in Above[r]
        BY <1>0, NearestStays
      <4> QED BY <4>2, <4>3
    <3> QED BY <1>0, <1>1, <2>1, <2>2, <3>1, <3>5, MarkRises
  <2> QED BY <2>4, <2>5
<1> QED BY <1>1, <1>3, <1>4

\* A collector takes no mark away.
LEMMA RecordKeeps ==
  ASSUME ItemsInv, OnRecord, Record, NEW i \in items, i.cat # "Browser"
  PROVE  ScoreOf(i)' >= ScoreOf(i)
<1>0. /\ TheSnapshot /\ TheItems /\ TheOwners /\ items = Snapshot /\ alive \subseteq Pid
      /\ ended \subseteq ended' /\ ended \subseteq Agents \ alive /\ Top \notin Pid /\ ItemPids \subseteq alive
  BY SnapshotHolds, ItemsHere, OwnersHold, ItemsAlive, RecordIs, ClassifyConstants DEF ItemsInv, Forest
<1>1. ASSUME SessionMarks(i) PROVE SessionMarks(i)'
  <2>1. PICK p \in i.pids : origin[p] \in ended
    BY <1>1 DEF SessionMarks
  <2>2. ForestItem(i) \/ AdoptedItem(i)
    BY <1>0 DEF TheSnapshot, RollupItem
  <2>3. p \in alive /\ Cat(p) # "Browser"
    <3>1. CASE ForestItem(i)
      BY <1>0, <3>1, CatPromoted DEF ForestItem, TheItems, SameKind
    <3>2. CASE AdoptedItem(i)
      BY <3>2, CatPromoted DEF AdoptedItem
    <3> QED BY <2>2, <3>1, <3>2
  <2>4. Above[p] \cap Agents = {} /\ origin[p] # Top /\ p \in ItemPids
    BY <1>0, <2>1, <2>3 DEF OnRecord, Agents
  <2>5. Above[FoldOf[p]] \cap Agents = {}
    BY <1>0, <2>3, <2>4, TreeHolds DEF TheItems, TheTree, ItemsInv
  <2>6. OwnerOf[UpItem(FoldOf[p])] = Top
    BY <1>0, <2>3, <2>4, <2>5 DEF TheItems, TheOwners
  <2>7. origin'[p] = origin[p]
    BY <2>3, <2>6, RecordedIs DEF Recorded
  <2> QED BY <1>0, <1>1, <2>1, <2>7 DEF SessionMarks
<1>2. /\ ScoreOf(i) = IF SessionMarks(i) THEN AtMost100(i.score + 30) ELSE i.score
      /\ ScoreOf(i)' = IF SessionMarks(i)' THEN AtMost100(i.score + 30) ELSE i.score
      /\ i.score \in 0 .. 100
  BY MarksAgree DEF ScoreOf
<1>3. \A a \in 0 .. 100 : AtMost100(a + 30) >= a /\ a >= a /\ AtMost100(a + 30) >= AtMost100(a + 30)
  BY DEF AtMost100
<1>4. CASE SessionMarks(i)
  BY <1>1, <1>2, <1>3, <1>4
<1>5. CASE ~SessionMarks(i)
  BY <1>2, <1>3, <1>5
<1> QED BY <1>4, <1>5

\* No step clears a leftover.
LEMMA NeverClear ==
  ASSUME ItemsInv, OnRecord, [Next]_vars, NEW i \in items,
         StateOf(i) = "Suspicious", i.root \in alive', i.cat \notin {"Database", "Browser"}
  PROVE  \E j \in items' :
            /\ i.root \in j.pids
            /\ \/ ScoreOf(j)' >= ScoreOf(i)
               \/ i.up = Top /\ \E b \in items' : b.cat = "Browser" /\ b.root = j.up
<1>1. i.root \in i.pids
  BY ItemsAreOK DEF ItemsOK
<1>2. CASE Record
  BY <1>1, <1>2, RecordIs, RecordKeeps
<1>3. CASE \E x \in Pid : Exit(x)
  BY <1>3, LeftoversStay
<1>4. CASE UNCHANGED vars
  <2>1. ScoreOf(i)' = ScoreOf(i) /\ items' = items
    BY <1>4 DEF vars, ScoreOf, SessionMarks
  <2>2. ScoreOf(i) \in 0 .. 100
    BY MarksAgree
  <2> QED BY <1>1, <2>1, <2>2
<1> QED BY <1>2, <1>3, <1>4 DEF Next

\* What runs under an agent is clean, what a dead agent left is marked, and no exit and no
\* collector takes a mark away (leftovers.rs mark, score; collect.rs).
THEOREM MarksAlwaysHold == Spec => MarksHold
<1>1. ItemsInv => OwnedIsClean
  BY OwnedClean
<1>2. ItemsInv /\ OnRecord /\ [Next]_vars =>
        (Record => \A i \in items : /\ i.cat # "Agent"
                                    /\ \E p \in i.pids : origin'[p] \notin alive \cup {Top}
                                    => StateOf(i)' \in {"Suspicious", "Persistent"})
  BY RecordFlags
<1>3. ItemsInv /\ OnRecord /\ [Next]_vars =>
        \A i \in items :
          /\ StateOf(i) = "Suspicious" /\ i.root \in alive'
          /\ i.cat \notin {"Database", "Browser"}
          => \E j \in items' :
               /\ i.root \in j.pids
               /\ \/ ScoreOf(j)' >= ScoreOf(i)
                  \/ i.up = Top /\ \E b \in items' : b.cat = "Browser" /\ b.root = j.up
  BY NeverClear
<1> QED BY <1>1, <1>2, <1>3, OnRecordAlways, PTL DEF Spec, MarksHold, OrphansFlagged, ExitsNeverClear

\* The ports of what a dead agent left are those of leftovers, and what is shown as the source
\* of a port only fades (ports.rs entry, source.rs detect).
THEOREM PortsAlwaysHold == Spec => PortsHold
<1>1. ItemsInv /\ OnRecord => PortsAgree
  BY PortsMarked
<1>2. ItemsInv /\ [Next]_vars =>
        \A p \in alive' :
          /\ kind[p].listens /\ PortEntry(p).state = "source" /\ PortEntry(p)'.state = "source"
          /\ PortEntry(p)'.by # PortEntry(p).by
          => \/ PortEntry(p)'.by = Top
             \/ PortEntry(p).by \in Supervisors /\ PortEntry(p)'.by \in Shells \cap Above[p]
  BY SourcesStep
<1> QED BY <1>1, <1>2, OnRecordAlways, PTL DEF Spec, PortsHold, SourcesFade

-----------------------------------------------------------------------------
(* The resolver.                                                           *)

\* What a sequence of candidates decides, without its order: a candidate that is ahead of
\* all others, and whether one reaches the threshold.
Clear(s, i) ==
  /\ i \in Eligible(s) /\ Total(s[i]) >= Rules.ownership_threshold
  /\ \A j \in Eligible(s) \ {i} : Ahead(s[i], s[j])
Reached(s) == \E i \in Eligible(s) : Total(s[i]) >= Rules.ownership_threshold

\* Every score is a number up to 100 (total).
LEMMA Scores ==
  ASSUME NEW c \in Evidence
  PROVE  /\ Total(c) \in Nat /\ Total(c) <= 100
         /\ AnchorScore(c) \in Nat /\ ProjectSupport(c) \in Nat
         /\ TemporalSupport(c) \in Nat /\ RelationshipSupport(c) \in Nat
<1>0. \A n, cap \in Nat : Capped(n, cap) \in Nat /\ Capped(n, cap) <= cap
  BY DEF Capped
<1>1. IsCandidate(c) /\ Rules \in RuleSet
  BY ResolverConstants
<1>2. AnchorScore(c) \in Nat
  <2>1. c.score = None \/ c.score \in Nat
    BY <1>1 DEF IsCandidate
  <2> QED BY <1>1, <2>1 DEF AnchorScore, RuleSet
<1>3. ProjectSupport(c) \in Nat
  <2>1. (IF c.exact_cwd THEN Rules.exact_cwd
         ELSE IF c.same_git_root THEN Rules.same_git_root ELSE 0) \in Nat
    BY <1>1 DEF RuleSet
  <2>2. Rules.project_cap \in Nat
    BY <1>1 DEF RuleSet
  <2> QED BY <1>0, <2>1, <2>2 DEF ProjectSupport
<1>4. TemporalSupport(c) \in Nat
  <2>1. (IF c.delta <= 10 THEN Rules.temporal_10s
         ELSE IF c.delta <= 60 THEN Rules.temporal_60s
         ELSE IF c.delta <= 300 THEN Rules.temporal_5m ELSE 0) \in Nat
    BY <1>1 DEF RuleSet
  <2>2. Rules.temporal_cap \in Nat
    BY <1>1 DEF RuleSet
  <2> QED BY <1>0, <2>1, <2>2 DEF TemporalSupport
<1>5. RelationshipSupport(c) \in Nat
  <2>1. (IF c.tool THEN Rules.relationship_support ELSE 0) \in Nat /\ Rules.relationship_cap \in Nat
    BY <1>1 DEF RuleSet
  <2> QED BY <1>0, <2>1 DEF RelationshipSupport
<1>6. Total(c) \in Nat /\ Total(c) <= 100
  <2> DEFINE sum == AnchorScore(c) + ProjectSupport(c) + TemporalSupport(c) + RelationshipSupport(c)
  <2>1. sum \in Nat
    BY <1>2, <1>3, <1>4, <1>5
  <2>2. c.cap = None \/ c.cap \in Nat
    BY <1>1 DEF IsCandidate
  <2>3. Total(c) = IF c.cap = None THEN Capped(sum, 100) ELSE Capped(Capped(sum, 100), c.cap)
    BY DEF Total
  <2> HIDE DEF sum
  <2> QED BY <2>1, <2>2, <2>3 DEF Capped
<1> QED BY <1>2, <1>3, <1>4, <1>5, <1>6

\* The candidates that an anchor makes eligible are some of them.
LEMMA EligibleIs ==
  ASSUME NEW s \in Seq(Evidence)
  PROVE  /\ Eligible(s) \subseteq 1 .. Len(s) /\ Len(s) \in Nat
         /\ \A i \in Eligible(s) : s[i] \in Evidence /\ Total(s[i]) \in Nat /\ Total(s[i]) <= 100
<1>1. \A i \in Eligible(s) : i \in 1 .. Len(s) /\ s[i] \in Evidence
  BY DEF Eligible
<1>2. \A i \in Eligible(s) : Total(s[i]) \in Nat /\ Total(s[i]) <= 100
  BY <1>1, Scores, Zenon
<1>3. Len(s) \in Nat
  OBVIOUS
<1> QED BY <1>1, <1>2, <1>3, Zenon

\* There is a first of the best, and none is better.
LEMMA BestIs ==
  ASSUME NEW s \in Seq(Evidence), Eligible(s) # {}
  PROVE  /\ Best(s) \in Eligible(s)
         /\ \A j \in Eligible(s) : Total(s[j]) <= Total(s[Best(s)])
<1> DEFINE E == Eligible(s)
           Gap == {100 - Total(s[i]) : i \in E}
           Head1(i) == \A j \in E : Total(s[j]) < Total(s[i]) \/ (Total(s[j]) = Total(s[i]) /\ i <= j)
<1>0. E \subseteq Nat /\ \A i \in E : Total(s[i]) \in Nat /\ Total(s[i]) <= 100
  <2>1. \A i \in 1 .. Len(s) : i \in Nat
    OBVIOUS
  <2> QED BY <2>1, EligibleIs, Zenon
<1>1. PICK g \in Gap : \A h \in Gap : g <= h
  <2>1. Gap \subseteq Nat /\ Gap # {}
    <3> HIDE DEF E
    <3>1. \A i \in E : 100 - Total(s[i]) \in Nat
      BY <1>0
    <3>2. E # {}
      BY DEF E
    <3> QED BY <3>1, <3>2
  <2> HIDE DEF Gap
  <2> QED BY <2>1, LeastElement
<1> DEFINE Tops == {i \in E : 100 - Total(s[i]) = g}
<1>2. PICK i \in Tops : \A j \in Tops : i <= j
  <2>1. Tops \subseteq Nat /\ Tops # {}
    <3> HIDE DEF E
    <3> QED BY <1>0
  <2> HIDE DEF Tops
  <2> QED BY <2>1, LeastElement
<1>3. i \in E /\ Head1(i)
  <2> SUFFICES ASSUME NEW j \in E
               PROVE  Total(s[j]) < Total(s[i]) \/ (Total(s[j]) = Total(s[i]) /\ i <= j)
    OBVIOUS
  <2> HIDE DEF E
  <2>1. 100 - Total(s[i]) <= 100 - Total(s[j]) /\ i \in E
    BY <1>1
  <2>2. 100 - Total(s[i]) = 100 - Total(s[j]) => i <= j
    BY <1>2
  <2>3. Total(s[i]) \in Nat /\ Total(s[j]) \in Nat
    BY <1>0, <2>1
  <2>4. \A m, n \in Nat : 100 - m <= 100 - n => n < m \/ (n = m /\ 100 - m = 100 - n)
    OBVIOUS
  <2> QED BY <2>1, <2>2, <2>3, <2>4
<1>4. Best(s) = CHOOSE k \in E : Head1(k)
  BY DEF Best
<1> HIDE DEF Head1
<1>5. Best(s) \in E /\ Head1(Best(s))
  BY <1>3, <1>4
<1>6. \A j \in E : Total(s[j]) <= Total(s[Best(s)])
  <2> SUFFICES ASSUME NEW j \in E PROVE Total(s[j]) <= Total(s[Best(s)])
    OBVIOUS
  <2> HIDE DEF E
  <2>1. Total(s[j]) < Total(s[Best(s)]) \/ Total(s[j]) = Total(s[Best(s)])
    BY <1>5 DEF Head1
  <2>2. Total(s[j]) \in Nat /\ Total(s[Best(s)]) \in Nat
    BY <1>0, <1>5
  <2> QED BY <2>1, <2>2
<1> QED BY <1>5, <1>6

\* The decision: clear, contested, or unknown (select).
LEMMA ResolveIs ==
  ASSUME NEW s \in Seq(Evidence)
  PROVE  /\ \A i : Clear(s, i) => Resolve(s) = [verdict |-> "Owned", winner |-> s[i].session]
         /\ (Reached(s) /\ \A i : ~Clear(s, i)) => Resolve(s) = [verdict |-> "Ambiguous", winner |-> None]
         /\ ~Reached(s) => Resolve(s) = [verdict |-> "Unknown", winner |-> None]
<1> DEFINE E == Eligible(s)
           top == Best(s)
           limit == Rules.ownership_threshold
<1>0. limit \in Nat /\ Rules.ambiguity_margin \in Nat /\ Rules.ambiguity_margin > 0
  BY ResolverConstants DEF RuleSet
<1>1. CASE E = {}
  BY <1>1 DEF Clear, Reached, Resolve
<1>2. CASE E # {}
  <2>1. top \in E /\ \A j \in E : Total(s[j]) <= Total(s[top])
    BY <1>2, BestIs
  <2>2. \A i \in E : Total(s[i]) \in Nat
    BY EligibleIs, Zenon
  <2>3. Resolve(s) =
          IF Total(s[top]) < limit THEN [verdict |-> "Unknown", winner |-> None]
          ELSE IF \A j \in E \ {top} : Ahead(s[top], s[j])
          THEN [verdict |-> "Owned", winner |-> s[top].session]
          ELSE [verdict |-> "Ambiguous", winner |-> None]
    BY <1>2 DEF Resolve
  <2> HIDE DEF top, E, limit
  <2>4. Reached(s) <=> ~ (Total(s[top]) < limit)
    <3>1. Reached(s) <=> \E i \in E : Total(s[i]) >= limit
      BY DEF Reached, E, limit
    <3>2. \A i \in E : Total(s[i]) >= limit => ~ (Total(s[top]) < limit)
      BY <1>0, <2>1, <2>2
    <3>3. ~ (Total(s[top]) < limit) => Total(s[top]) >= limit
      BY <1>0, <2>1, <2>2
    <3> QED BY <2>1, <3>1, <3>2, <3>3
  <2>5. ASSUME NEW i, Clear(s, i) PROVE i = top
    <3>1. i \in E /\ (top # i => Ahead(s[i], s[top]))
      BY <2>1, <2>5 DEF Clear, E
    <3>2. Total(s[top]) \in Nat /\ Total(s[i]) \in Nat /\ Total(s[i]) <= Total(s[top])
      BY <2>1, <2>2, <3>1
    <3> QED BY <1>0, <3>1, <3>2 DEF Ahead
  <2>6. Clear(s, top) <=> ~ (Total(s[top]) < limit) /\ \A j \in E \ {top} : Ahead(s[top], s[j])
    <3>1. Total(s[top]) >= limit <=> ~ (Total(s[top]) < limit)
      BY <1>0, <2>1, <2>2
    <3> QED BY <2>1, <3>1 DEF Clear, E, limit
  <2> QED BY <2>3, <2>4, <2>5, <2>6
<1> QED BY <1>1, <1>2

\* The same candidates in other places decide the same.
LEMMA SameDecision ==
  ASSUME NEW s \in Seq(Evidence), NEW t \in Seq(Evidence), NEW f \in [Eligible(s) -> Eligible(t)],
         \A i, j \in Eligible(s) : f[i] = f[j] => i = j,
         \A k \in Eligible(t) : \E i \in Eligible(s) : f[i] = k,
         \A i \in Eligible(s) : t[f[i]] = s[i]
  PROVE  Resolve(t) = Resolve(s)
<1>1. \A i \in Eligible(s) : Clear(s, i) => Clear(t, f[i])
  BY DEF Clear
<1>2. \A i \in Eligible(s) : Clear(t, f[i]) => Clear(s, i)
  BY DEF Clear
<1>3. Reached(s) <=> Reached(t)
  BY DEF Reached
<1>4. \A i : Clear(s, i) => i \in Eligible(s)
  BY DEF Clear
<1>5. \A k : Clear(t, k) => k \in Eligible(t)
  BY DEF Clear
<1>6. CASE \E i : Clear(s, i)
  <2>1. PICK i \in Eligible(s) : Clear(s, i)
    BY <1>4, <1>6
  <2>2. Clear(t, f[i]) /\ t[f[i]] = s[i]
    BY <1>1, <2>1
  <2> QED BY <2>1, <2>2, ResolveIs
<1>7. CASE ~ \E i : Clear(s, i)
  <2>1. ~ \E k : Clear(t, k)
    BY <1>2, <1>5, <1>7
  <2> QED BY <1>3, <1>7, <2>1, ResolveIs
<1> QED BY <1>6, <1>7

-----------------------------------------------------------------------------
ResolverInv == inputs \in Seq(Evidence) /\ decision = Resolve(inputs)

\* The order of the candidates decides nothing.
LEMMA OrderDecidesNothing == ResolverInv => OrderIrrelevant
<1> SUFFICES ASSUME ResolverInv, NEW i \in DOMAIN inputs, NEW j \in DOMAIN inputs
             PROVE  Resolve([inputs EXCEPT ![i] = inputs[j], ![j] = inputs[i]]) = decision
  BY DEF OrderIrrelevant
<1> DEFINE s == inputs
           t == [s EXCEPT ![i] = s[j], ![j] = s[i]]
           swap(k) == IF k = i THEN j ELSE IF k = j THEN i ELSE k
           f == [k \in Eligible(s) |-> swap(k)]
<1>1. /\ s \in Seq(Evidence) /\ DOMAIN s = 1 .. Len(s) /\ Len(s) \in Nat
      /\ \A k \in 1 .. Len(s) : s[k] \in Evidence
      /\ i \in 1 .. Len(s) /\ j \in 1 .. Len(s)
  BY DEF ResolverInv
<1>2. /\ DOMAIN t = DOMAIN s /\ \A k \in DOMAIN s : t[k] = s[swap(k)]
  OBVIOUS
<1>3. \A k \in DOMAIN s : swap(k) \in DOMAIN s /\ swap(swap(k)) = k
  OBVIOUS
<1>4. t \in Seq(Evidence)
  BY <1>1
<1> HIDE DEF t, swap
<1>5. \A k \in Eligible(s) : k \in DOMAIN s /\ swap(k) \in Eligible(t) /\ t[swap(k)] = s[k]
  BY <1>2, <1>3 DEF Eligible
<1>6. \A k \in Eligible(t) : swap(k) \in Eligible(s) /\ swap(swap(k)) = k
  BY <1>2, <1>3 DEF Eligible
<1>7. /\ f \in [Eligible(s) -> Eligible(t)]
      /\ \A k \in Eligible(s) : f[k] = swap(k)
  BY <1>5
<1> HIDE DEF f
<1>8. \A k, l \in Eligible(s) : f[k] = f[l] => k = l
  BY <1>3, <1>5, <1>7
<1>9. \A k \in Eligible(t) : \E l \in Eligible(s) : f[l] = k
  BY <1>6, <1>7
<1>10. \A k \in Eligible(s) : t[f[k]] = s[k]
  BY <1>5, <1>7
<1> HIDE DEF s
<1>11. Resolve(t) = Resolve(s)
  BY <1>1, <1>4, <1>7, <1>8, <1>9, <1>10, SameDecision
<1> QED BY <1>11 DEF ResolverInv, t, s

\* What does not count as a candidate decides nothing.
LEMMA OthersDecideNothing ==
  ASSUME ResolverInv, NEW c \in Evidence, ~Counts(c)
  PROVE  Resolve(Append(inputs, c)) = decision
<1> DEFINE s == inputs
           t == Append(s, c)
           f == [k \in Eligible(s) |-> k]
<1>1. s \in Seq(Evidence) /\ DOMAIN s = 1 .. Len(s) /\ Len(s) \in Nat
  BY DEF ResolverInv
<1>2. /\ t \in Seq(Evidence) /\ DOMAIN t = 1 .. (Len(s) + 1)
      /\ t[Len(s) + 1] = c /\ \A k \in 1 .. Len(s) : t[k] = s[k]
  BY <1>1
<1> HIDE DEF t
<1>3. Eligible(t) = Eligible(s) /\ \A k \in Eligible(s) : t[k] = s[k]
  <2>1. \A k \in 1 .. (Len(s) + 1) : k \in 1 .. Len(s) \/ k = Len(s) + 1
    BY <1>1
  <2>2. \A k \in 1 .. Len(s) : k \in 1 .. (Len(s) + 1)
    BY <1>1
  <2> HIDE DEF s
  <2> QED BY <1>1, <1>2, <2>1, <2>2 DEF Eligible
<1> HIDE DEF s
<1>4. Resolve(t) = Resolve(s)
  <2>1. /\ f \in [Eligible(s) -> Eligible(t)] /\ \A k \in Eligible(s) : f[k] = k
    BY <1>3
  <2> HIDE DEF f
  <2> QED BY <1>1, <1>2, <1>3, <2>1, SameDecision
<1> QED BY <1>4 DEF ResolverInv, t, s

\* More support is no lower score.
LEMMA SupportCounts ==
  ASSUME NEW c \in Evidence, NEW d \in Evidence, Stronger(c, d)
  PROVE  Total(c) >= Total(d)
<1>0. /\ Rules \in RuleSet /\ Rules.exact_cwd >= Rules.same_git_root
      /\ IsCandidate(c) /\ IsCandidate(d)
  BY ResolverConstants
<1>c. \A m, n, cap \in Nat : m >= n => Capped(m, cap) >= Capped(n, cap)
  BY DEF Capped
<1>1. AnchorScore(c) = AnchorScore(d) /\ TemporalSupport(c) = TemporalSupport(d)
  BY DEF Stronger, AnchorScore, TemporalSupport
<1>2. ProjectSupport(c) >= ProjectSupport(d)
  <2> DEFINE p(x) == IF x.exact_cwd THEN Rules.exact_cwd
                     ELSE IF x.same_git_root THEN Rules.same_git_root ELSE 0
  <2>1. Rules.exact_cwd \in Nat /\ Rules.same_git_root \in Nat /\ Rules.project_cap \in Nat
    BY <1>0 DEF RuleSet
  <2>2. p(c) \in Nat /\ p(d) \in Nat /\ p(c) >= p(d)
    BY <1>0, <2>1 DEF Stronger
  <2>3. ProjectSupport(c) = Capped(p(c), Rules.project_cap) /\ ProjectSupport(d) = Capped(p(d), Rules.project_cap)
    BY DEF ProjectSupport
  <2> HIDE DEF p
  <2> QED BY <1>c, <2>1, <2>2, <2>3
<1>3. RelationshipSupport(c) >= RelationshipSupport(d)
  <2> DEFINE p(x) == IF x.tool THEN Rules.relationship_support ELSE 0
  <2>1. Rules.relationship_support \in Nat /\ Rules.relationship_cap \in Nat
    BY <1>0 DEF RuleSet
  <2>2. p(c) \in Nat /\ p(d) \in Nat /\ p(c) >= p(d)
    BY <1>0, <2>1 DEF Stronger
  <2>3. /\ RelationshipSupport(c) = Capped(p(c), Rules.relationship_cap)
        /\ RelationshipSupport(d) = Capped(p(d), Rules.relationship_cap)
    BY DEF RelationshipSupport
  <2> HIDE DEF p
  <2> QED BY <1>c, <2>1, <2>2, <2>3
<1>4. QED
  <2> DEFINE sum(x) == AnchorScore(x) + ProjectSupport(x) + TemporalSupport(x) + RelationshipSupport(x)
  <2>1. sum(c) \in Nat /\ sum(d) \in Nat /\ sum(c) >= sum(d)
    BY <1>1, <1>2, <1>3, Scores
  <2>2. c.cap = d.cap /\ (c.cap = None \/ c.cap \in Nat)
    BY <1>0 DEF Stronger, IsCandidate
  <2>3. /\ Total(c) = IF c.cap = None THEN Capped(sum(c), 100) ELSE Capped(Capped(sum(c), 100), c.cap)
        /\ Total(d) = IF d.cap = None THEN Capped(sum(d), 100) ELSE Capped(Capped(sum(d), 100), d.cap)
    BY DEF Total
  <2> HIDE DEF sum
  <2>4. Capped(sum(c), 100) \in Nat /\ Capped(sum(d), 100) \in Nat /\ Capped(sum(c), 100) >= Capped(sum(d), 100)
    BY <2>1 DEF Capped
  <2> QED BY <1>c, <2>2, <2>3, <2>4

\* A winner for whom more is found wins.
LEMMA WinnerWins ==
  ASSUME ResolverInv, NEW i \in DOMAIN inputs, NEW c \in Evidence, Stronger(c, inputs[i]),
         inputs[i].session = decision.winner,
         \A j \in DOMAIN inputs \ {i} : inputs[j].session # decision.winner
  PROVE  Resolve([inputs EXCEPT ![i] = c]).winner = decision.winner
<1> DEFINE s == inputs
           t == [s EXCEPT ![i] = c]
<1>1. /\ s \in Seq(Evidence) /\ s[i] \in Evidence /\ decision = Resolve(s)
      /\ t \in Seq(Evidence) /\ DOMAIN t = DOMAIN s /\ t[i] = c
      /\ \A k \in DOMAIN s \ {i} : t[k] = s[k]
  BY DEF ResolverInv
<1>2. decision.winner # None
  BY <1>1, ResolverConstants DEF IsCandidate
<1>3. PICK k : Clear(s, k)
  <2> HIDE DEF s
  <2>1. ~ (\A k : ~Clear(s, k))
    BY <1>1, <1>2, ResolveIs
  <2> QED BY <2>1
<1>4. decision.winner = s[k].session /\ k \in Eligible(s)
  <2> HIDE DEF s
  <2> QED BY <1>1, <1>3, ResolveIs DEF Clear
<1>5. k = i
  BY <1>4 DEF Eligible
<1>6. Total(c) >= Total(s[i]) /\ Total(c) \in Nat /\ Total(s[i]) \in Nat
  BY <1>1, SupportCounts, Scores
<1> HIDE DEF t, s
<1>7. Eligible(t) = Eligible(s)
  <2>1. Counts(c) <=> Counts(s[i])
    BY DEF Stronger, Counts, s
  <2>2. \A j \in DOMAIN s : Counts(t[j]) <=> Counts(s[j])
    BY <1>1, <2>1
  <2> QED BY <1>1, <2>2 DEF Eligible
<1>8. Clear(t, i)
  <2>1. /\ i \in Eligible(s) /\ Total(s[i]) >= Rules.ownership_threshold
        /\ \A j \in Eligible(s) \ {i} : Total(s[i]) >= Total(s[j]) + Rules.ambiguity_margin
    BY <1>3, <1>5 DEF Clear, Ahead
  <2>2. Rules.ownership_threshold \in Nat /\ Rules.ambiguity_margin \in Nat
    BY ResolverConstants DEF RuleSet
  <2>3. Total(t[i]) >= Rules.ownership_threshold
    BY <1>1, <1>6, <2>1, <2>2
  <2>4. ASSUME NEW j \in Eligible(s) \ {i} PROVE Ahead(t[i], t[j])
    <3>1. t[j] = s[j] /\ Total(s[j]) \in Nat
      BY <1>1, EligibleIs DEF Eligible
    <3>2. Total(s[i]) >= Total(s[j]) + Rules.ambiguity_margin
      BY <2>1
    <3> QED BY <1>1, <1>6, <2>2, <3>1, <3>2 DEF Ahead
  <2> QED BY <1>7, <2>1, <2>3, <2>4 DEF Clear
<1>9. Resolve(t).winner = c.session
  BY <1>1, <1>8, ResolveIs
<1>10. c.session = decision.winner
  BY <1>1 DEF Stronger
<1> QED BY <1>9, <1>10 DEF t, s

\* The contract of the resolver.
THEOREM ResolverAlwaysDecides == ResolverSpec => ResolverDecides
<1>1. ResolverInit => ResolverInv
  BY DEF ResolverInit, ResolverInv
<1>2. ResolverInv /\ [ResolverNext]_resolverVars => ResolverInv'
  <2> SUFFICES ASSUME ResolverInv, [ResolverNext]_resolverVars PROVE ResolverInv'
    OBVIOUS
  <2>1. CASE \E c \in Evidence : Offer(c)
    BY <2>1 DEF Offer, ResolverInv
  <2>2. CASE \E c \in Evidence : \E i \in 1 .. MaxCandidates : Support(i, c)
    <3>1. PICK c \in Evidence : \E i \in 1 .. MaxCandidates : Support(i, c)
      BY <2>2
    <3>2. PICK i : Support(i, c)
      BY <3>1
    <3>3. i \in DOMAIN inputs /\ inputs' = [inputs EXCEPT ![i] = c] /\ decision' = Resolve(inputs')
      BY <3>2 DEF Support
    <3>4. inputs' \in Seq(Evidence)
      BY <3>3 DEF ResolverInv
    <3> QED BY <3>3, <3>4 DEF ResolverInv
  <2>3. CASE UNCHANGED resolverVars
    BY <2>3 DEF resolverVars, ResolverInv
  <2> QED BY <2>1, <2>2, <2>3 DEF ResolverNext
<1>3. ResolverInv /\ [ResolverNext]_resolverVars =>
        [\A c \in Evidence : Offer(c) /\ (c.anchor = None \/ c.predates \/ c.reaches_other)
            => decision' = decision]_resolverVars
  <2> SUFFICES ASSUME ResolverInv, NEW c \in Evidence, Offer(c),
                      c.anchor = None \/ c.predates \/ c.reaches_other
               PROVE  decision' = decision
    OBVIOUS
  <2>1. ~Counts(c)
    BY DEF Counts
  <2>2. decision' = Resolve(Append(inputs, c))
    BY DEF Offer
  <2> QED BY <2>1, <2>2, OthersDecideNothing
<1>4. ResolverInv /\ [ResolverNext]_resolverVars =>
        [\A i \in DOMAIN inputs :
           (/\ DOMAIN inputs' = DOMAIN inputs /\ inputs'[i] # inputs[i]
            /\ inputs[i].session = decision.winner /\ Counts(inputs[i])
            /\ \A j \in DOMAIN inputs \ {i} : inputs[j].session # decision.winner)
             => decision'.winner = decision.winner]_resolverVars
  <2> SUFFICES ASSUME ResolverInv, ResolverNext, NEW i \in DOMAIN inputs,
                      DOMAIN inputs' = DOMAIN inputs, inputs'[i] # inputs[i],
                      inputs[i].session = decision.winner,
                      \A j \in DOMAIN inputs \ {i} : inputs[j].session # decision.winner
               PROVE  decision'.winner = decision.winner
    BY DEF resolverVars
  <2>1. ~ \E c \in Evidence : Offer(c)
    <3> SUFFICES ASSUME NEW c \in Evidence, Offer(c) PROVE FALSE
      OBVIOUS
    <3>1. inputs \in Seq(Evidence) /\ inputs' = Append(inputs, c)
      BY DEF ResolverInv, Offer
    <3>2. Len(inputs) \in Nat /\ DOMAIN inputs = 1 .. Len(inputs) /\ DOMAIN inputs' = 1 .. (Len(inputs) + 1)
      BY <3>1
    <3>3. Len(inputs) + 1 \in DOMAIN inputs' /\ Len(inputs) + 1 \notin DOMAIN inputs
      BY <3>2
    <3> QED BY <3>3
  <2>2. PICK c \in Evidence : \E k : Support(k, c)
    BY <2>1 DEF ResolverNext
  <2>3. PICK k : Support(k, c)
    BY <2>2
  <2>4. /\ k \in DOMAIN inputs /\ Stronger(c, inputs[k])
        /\ inputs' = [inputs EXCEPT ![k] = c] /\ decision' = Resolve(inputs')
    BY <2>3 DEF Support
  <2>5. k = i
    BY <2>4
  <2> QED BY <2>4, <2>5, WinnerWins
<1> QED
  BY <1>1, <1>2, <1>3, <1>4, OrderDecidesNothing, PTL
     DEF ResolverSpec, ResolverDecides, OnlyAnchorsCount, SupportKeepsWinner

-----------------------------------------------------------------------------
(* The projects.                                                           *)

\* The recursion of PathUp, which ends because directories are a tree.
LEMMA PathUpIs ==
  /\ PathUp \in [Dir -> Seq(Dir)]
  /\ \A d \in Dir : PathUp[d] = IF Up[d] = d THEN <<d>> ELSE <<d>> \o PathUp[Up[d]]
<1> DEFINE G(f) == f = [d \in Dir |-> IF Up[d] = d THEN <<d>> ELSE <<d>> \o f[Up[d]]]
           over == [d \in Dir |-> IF Up[d] = d THEN NoProject ELSE Up[d]]
           step == [d \in Dir |-> [X \in Seq(Dir) |-> <<d>> \o X]]
           base == [d \in Dir |-> <<d>>]
<1>1. PICK depth \in [Dir -> Nat] : \A d \in Dir : Up[d] # d => depth[Up[d]] < depth[d]
  <2>1. Cardinality(Dir) \in Nat
    BY ProjectsConstants, FS_CardinalityType
  <2>2. PICK depth \in [Dir -> 0 .. Cardinality(Dir)] :
          \A d \in Dir : Up[d] # d => depth[Up[d]] < depth[d]
    BY ProjectsConstants
  <2> QED BY <2>1, <2>2
<1>2. PICK f \in [Dir -> Seq(Dir)] :
        \A d \in Dir : f[d] = IF over[d] = NoProject THEN base[d] ELSE step[d][f[over[d]]]
  <2>1. step \in [Dir -> [Seq(Dir) -> Seq(Dir)]] /\ base \in [Dir -> Seq(Dir)]
    OBVIOUS
  <2>2. /\ NoProject \notin Dir /\ over \in [Dir -> Dir \cup {NoProject}]
        /\ \A d \in Dir : over[d] # NoProject => depth[over[d]] < depth[d]
    BY <1>1, ProjectsConstants
  <2> HIDE DEF step, base, over
  <2>3. Links(Dir, NoProject, depth, over, Seq(Dir), base, step)
    BY <1>1, <2>1, <2>2 DEF Links
  <2>4. \E f : Follows(f, Dir, NoProject, over, Seq(Dir), base, step)
    BY <2>3, TreeRecursion
  <2> QED BY <2>4 DEF Follows
<1>3. ASSUME NEW d \in Dir
      PROVE  f[d] = IF Up[d] = d THEN <<d>> ELSE <<d>> \o f[Up[d]]
  <2>1. CASE Up[d] = d
    <3>1. over[d] = NoProject /\ base[d] = <<d>>
      BY <2>1
    <3> HIDE DEF over, step, base
    <3> QED BY <1>2, <2>1, <3>1
  <2>2. CASE Up[d] # d
    <3>1. over[d] = Up[d] /\ over[d] # NoProject /\ over[d] \in Dir
      BY <2>2, ProjectsConstants
    <3>2. f[over[d]] \in Seq(Dir)
      BY <3>1
    <3>3. step[d][f[over[d]]] = <<d>> \o f[over[d]]
      BY <3>2
    <3> HIDE DEF over, step, base
    <3> QED BY <1>2, <2>2, <3>1, <3>3
  <2> QED BY <2>1, <2>2
<1>4. G(f)
  <2> HIDE DEF over, step, base
  <2> QED BY <1>3
<1>5. G(PathUp)
  <2>1. PathUp = CHOOSE g : G(g)
    BY DEF PathUp
  <2> HIDE DEF G
  <2> QED BY <1>4, <2>1
<1>6. PathUp \in [Dir -> Seq(Dir)]
  <2> DEFINE Good == {d \in Dir : PathUp[d] \in Seq(Dir)}
  <2>1. \A d \in Dir : (\A x \in Dir : depth[x] < depth[d] => x \in Good) => d \in Good
    <3> SUFFICES ASSUME NEW d \in Dir, \A x \in Dir : depth[x] < depth[d] => x \in Good
                 PROVE  PathUp[d] \in Seq(Dir)
      OBVIOUS
    <3>1. CASE Up[d] = d
      <4>1. PathUp[d] = <<d>>
        BY <1>5, <3>1
      <4> QED BY <4>1
    <3>2. CASE Up[d] # d
      <4>1. PathUp[Up[d]] \in Seq(Dir)
        BY <1>1, <3>2, ProjectsConstants
      <4>2. PathUp[d] = <<d>> \o PathUp[Up[d]]
        BY <1>5, <3>2
      <4> QED BY <4>1, <4>2
    <3> QED BY <3>1, <3>2
  <2>2. Dir \subseteq Good
    <3>1. depth \in [Dir -> Nat]
      BY <1>1
    <3> HIDE DEF Good
    <3> QED BY <2>1, <3>1, RankInduction
  <2>3. PathUp = [d \in Dir |-> PathUp[d]]
    BY <1>5
  <2> QED BY <2>2, <2>3
<1> QED BY <1>5, <1>6

\* An element put before a sequence.
LEMMA PutBefore ==
  ASSUME NEW S, NEW x \in S, NEW s \in Seq(S)
  PROVE  /\ Len(<<x>> \o s) = Len(s) + 1 /\ (<<x>> \o s)[1] = x
         /\ \A j \in 1 .. Len(s) : (<<x>> \o s)[j + 1] = s[j]
OBVIOUS

\* Whatever is met on the way up has the rest of it as its own way up.
LEMMA RestOfPath ==
  ASSUME NEW d \in Dir, NEW i \in 1 .. Len(PathUp[d])
  PROVE  /\ PathUp[d][i] \in Dir
         /\ Len(PathUp[PathUp[d][i]]) = Len(PathUp[d]) - i + 1
         /\ \A k \in 1 .. (Len(PathUp[d]) - i + 1) :
              PathUp[PathUp[d][i]][k] = PathUp[d][i + k - 1]
<1> DEFINE Rest(x) ==
      \A j \in 1 .. Len(PathUp[x]) :
         /\ Len(PathUp[PathUp[x][j]]) = Len(PathUp[x]) - j + 1
         /\ \A k \in 1 .. (Len(PathUp[x]) - j + 1) :
              PathUp[PathUp[x][j]][k] = PathUp[x][j + k - 1]
           Good == {x \in Dir : Rest(x)}
<1>1. PICK depth \in [Dir -> Nat] : \A x \in Dir : Up[x] # x => depth[Up[x]] < depth[x]
  <2>1. Cardinality(Dir) \in Nat
    BY ProjectsConstants, FS_CardinalityType
  <2>2. PICK depth \in [Dir -> 0 .. Cardinality(Dir)] :
          \A x \in Dir : Up[x] # x => depth[Up[x]] < depth[x]
    BY ProjectsConstants
  <2> QED BY <2>1, <2>2
<1>2. \A x \in Dir : (\A y \in Dir : depth[y] < depth[x] => y \in Good) => x \in Good
  <2> SUFFICES ASSUME NEW x \in Dir, \A y \in Dir : depth[y] < depth[x] => y \in Good
               PROVE  Rest(x)
    OBVIOUS
  <2>1. PathUp[x] \in Seq(Dir) /\ Len(PathUp[x]) \in Nat
    BY PathUpIs
  <2>2. CASE Up[x] = x
    <3>1. PathUp[x] = <<x>>
      BY <2>2, PathUpIs
    <3>2. Len(PathUp[x]) = 1 /\ PathUp[x][1] = x
      BY <3>1
    <3>3. \A j \in 1 .. 1 : j = 1 /\ 1 - j + 1 = 1 /\ \A k \in 1 .. 1 : j + k - 1 = k
      OBVIOUS
    <3> QED BY <3>2, <3>3
  <2>3. CASE Up[x] # x
    <3> DEFINE u == Up[x]
    <3>0. u \in Dir /\ PathUp[u] \in Seq(Dir) /\ Len(PathUp[u]) \in Nat
      BY ProjectsConstants, PathUpIs
    <3>1. u \in Dir /\ Rest(u) /\ PathUp[u] \in Seq(Dir) /\ Len(PathUp[u]) \in Nat
      <4> HIDE DEF Rest
      <4>1. u \in Good
        BY <1>1, <2>3, <3>0
      <4> QED BY <3>0, <4>1
    <3>2. PathUp[x] = <<x>> \o PathUp[u]
      BY <2>3, PathUpIs
    <3> HIDE DEF u
    <3>3. /\ Len(PathUp[x]) = Len(PathUp[u]) + 1 /\ PathUp[x][1] = x
          /\ \A j \in 1 .. Len(PathUp[u]) : PathUp[x][j + 1] = PathUp[u][j]
      BY <3>1, <3>2, PutBefore
    <3>4. ASSUME NEW j \in 1 .. Len(PathUp[x])
          PROVE  /\ Len(PathUp[PathUp[x][j]]) = Len(PathUp[x]) - j + 1
                 /\ \A k \in 1 .. (Len(PathUp[x]) - j + 1) :
                      PathUp[PathUp[x][j]][k] = PathUp[x][j + k - 1]
      <4>1. CASE j = 1
        BY <2>1, <3>3, <4>1
      <4>2. CASE j # 1
        <5>1. j - 1 \in 1 .. Len(PathUp[u]) /\ PathUp[x][j] = PathUp[u][j - 1]
          <6>1. j - 1 \in 1 .. Len(PathUp[u]) /\ (j - 1) + 1 = j
            BY <3>1, <3>3, <4>2
          <6> QED BY <3>3, <6>1
        <5>2. /\ Len(PathUp[PathUp[x][j]]) = Len(PathUp[u]) - (j - 1) + 1
              /\ \A k \in 1 .. (Len(PathUp[u]) - (j - 1) + 1) :
                   PathUp[PathUp[x][j]][k] = PathUp[u][(j - 1) + k - 1]
          BY <3>1, <5>1
        <5>3. Len(PathUp[u]) - (j - 1) + 1 = Len(PathUp[x]) - j + 1
          <6>1. \A l, n, m \in Int : n = l + 1 => l - (m - 1) + 1 = n - m + 1
            OBVIOUS
          <6>2. Len(PathUp[x]) = Len(PathUp[u]) + 1 /\ Len(PathUp[u]) \in Int
            BY <3>1, <3>3
          <6>3. Len(PathUp[x]) \in Int /\ j \in Int
            BY <6>2
          <6> QED BY ONLY <6>1, <6>2, <6>3
        <5>4. ASSUME NEW k \in 1 .. (Len(PathUp[x]) - j + 1)
              PROVE  PathUp[u][(j - 1) + k - 1] = PathUp[x][j + k - 1]
          <6>1. (j - 1) + k - 1 \in 1 .. Len(PathUp[u]) /\ ((j - 1) + k - 1) + 1 = j + k - 1
            BY <3>1, <3>3, <4>2
          <6> QED BY <3>3, <6>1
        <5> QED BY <5>2, <5>3, <5>4
      <4> QED BY <4>1, <4>2
    <3> QED BY <3>4
  <2> QED BY <2>2, <2>3
<1>3. Dir \subseteq Good
  <2>1. depth \in [Dir -> Nat]
    BY <1>1
  <2> HIDE DEF Good
  <2> QED BY <1>2, <2>1, RankInduction
<1>4. Rest(d)
  BY <1>3
<1>5. PathUp[d][i] \in Dir
  <2>1. PathUp[d] \in Seq(Dir)
    BY PathUpIs
  <2> QED BY <2>1
<1> QED BY <1>4, <1>5

\* x is the git root of d: the first directory on the way up that has one.
IsRoot(d, x) ==
  \E i \in 1 .. Len(PathUp[d]) :
    PathUp[d][i] = x /\ x \in git /\ \A j \in 1 .. (i - 1) : PathUp[d][j] \notin git
InGit(d) == \E i \in 1 .. Len(PathUp[d]) : PathUp[d][i] \in git

\* The first place of a set of places.
LEMMA FirstIs ==
  ASSUME NEW n \in Nat, NEW H, H \subseteq 1 .. n, H # {}
  PROVE  LET i == CHOOSE i \in H : \A j \in H : i <= j
         IN  i \in H /\ \A j \in 1 .. (i - 1) : j \notin H
<1> DEFINE i == CHOOSE i \in H : \A j \in H : i <= j
<1>1. \E x \in H : \A y \in H : x <= y
  <2>1. H \subseteq Nat
    OBVIOUS
  <2> QED BY <2>1, LeastElement
<1>2. i \in H /\ \A j \in H : i <= j
  BY <1>1, Zenon
<1> HIDE DEF i
<1>3. \A j \in 1 .. (i - 1) : j \notin H
  <2>1. i \in Nat
    BY <1>2
  <2> QED BY <1>2, <2>1
<1> QED BY <1>2, <1>3 DEF i

\* Where the elements of a path are.
LEMMA PathPlaces ==
  ASSUME NEW d \in Dir
  PROVE  /\ DOMAIN PathUp[d] = 1 .. Len(PathUp[d]) /\ Len(PathUp[d]) \in Nat
         /\ \A i \in 1 .. Len(PathUp[d]) : PathUp[d][i] \in Dir
<1>1. PathUp[d] \in Seq(Dir)
  BY PathUpIs
<1> QED BY <1>1

\* There is one.
LEMMA OneRoot ==
  ASSUME NEW d \in Dir, NEW x, NEW y, IsRoot(d, x), IsRoot(d, y) PROVE x = y
<1>1. PICK i \in 1 .. Len(PathUp[d]) :
        PathUp[d][i] = x /\ x \in git /\ \A j \in 1 .. (i - 1) : PathUp[d][j] \notin git
  BY DEF IsRoot
<1>2. PICK k \in 1 .. Len(PathUp[d]) :
        PathUp[d][k] = y /\ y \in git /\ \A j \in 1 .. (k - 1) : PathUp[d][j] \notin git
  BY DEF IsRoot
<1>3. i \in Nat /\ k \in Nat /\ i >= 1 /\ k >= 1
  BY PathPlaces
<1>4. ~ (i < k) /\ ~ (k < i)
  <2>1. i < k => i \in 1 .. (k - 1)
    BY <1>3
  <2>2. k < i => k \in 1 .. (i - 1)
    BY <1>3
  <2> QED BY <1>1, <1>2, <2>1, <2>2
<1> QED BY <1>1, <1>2, <1>3, <1>4

\* What a lookup finds when nothing is cached is the git root.
LEMMA UncachedIsRoot ==
  ASSUME NEW d \in Dir, InGit(d) PROVE IsRoot(d, Uncached(d))
<1> DEFINE path == PathUp[d]
           H == {i \in DOMAIN path : path[i] \in git}
           i == CHOOSE i \in H : \A j \in H : i <= j
<1>1. DOMAIN path = 1 .. Len(path) /\ Len(path) \in Nat
  BY PathPlaces
<1>2. H \subseteq 1 .. Len(path) /\ H # {}
  BY <1>1 DEF InGit
<1>3. i \in H /\ \A j \in 1 .. (i - 1) : j \notin H
  <2> HIDE DEF H
  <2> QED BY <1>1, <1>2, FirstIs
<1>4. Uncached(d) = path[i]
  <2>1. First(path, LAMBDA x : x \in git) = i
    BY <1>2 DEF First
  <2>2. i # 0
    <3> HIDE DEF i
    <3> QED BY <1>1, <1>3
  <2> HIDE DEF i, H, path
  <2> QED BY <2>1, <2>2 DEF Uncached, path
<1>5. i \in 1 .. Len(path) /\ path[i] \in git /\ \A j \in 1 .. (i - 1) : path[j] \notin git
  <2> HIDE DEF i
  <2>1. i \in 1 .. Len(path) /\ path[i] \in git
    BY <1>1, <1>3
  <2>2. \A j \in 1 .. (i - 1) : j \in 1 .. Len(path) /\ j \notin H
    BY <1>1, <1>3, <2>1
  <2> QED BY <1>1, <2>1, <2>2
<1> HIDE DEF i
<1> QED BY <1>4, <1>5 DEF IsRoot

\* Where no git was met on the way, the rest of the way has the same root.
LEMMA RootOfRest ==
  ASSUME NEW d \in Dir, NEW i \in 1 .. Len(PathUp[d]),
         \A j \in 1 .. (i - 1) : PathUp[d][j] \notin git
  PROVE  /\ InGit(PathUp[d][i]) => InGit(d)
         /\ InGit(d) => InGit(PathUp[d][i])
         /\ \A x : IsRoot(PathUp[d][i], x) => IsRoot(d, x)
<1> DEFINE e == PathUp[d][i]
           n == Len(PathUp[d])
<1>1. /\ e \in Dir /\ n \in Nat /\ Len(PathUp[e]) = n - i + 1
      /\ \A k \in 1 .. (n - i + 1) : PathUp[e][k] = PathUp[d][i + k - 1]
  BY RestOfPath, PathPlaces
<1>2. \A k \in 1 .. (n - i + 1) : i + k - 1 \in 1 .. n
  <2> HIDE DEF n
  <2> QED BY <1>1
<1>3. InGit(e) => InGit(d)
  BY <1>1, <1>2 DEF InGit
<1>4. ASSUME NEW x, IsRoot(e, x) PROVE IsRoot(d, x)
  <2>1. PICK k \in 1 .. Len(PathUp[e]) :
          PathUp[e][k] = x /\ x \in git /\ \A j \in 1 .. (k - 1) : PathUp[e][j] \notin git
    BY <1>4 DEF IsRoot
  <2>2. i + k - 1 \in 1 .. n /\ PathUp[d][i + k - 1] = x /\ k \in Nat /\ k <= n - i + 1
    BY <1>1, <1>2, <2>1
  <2>3. ASSUME NEW j \in 1 .. (i + k - 1 - 1) PROVE PathUp[d][j] \notin git
    <3>1. CASE j < i
      <4>1. j \in 1 .. (i - 1)
        BY <3>1, <1>1
      <4> QED BY <4>1
    <3>2. CASE ~ (j < i)
      <4>1. j - i + 1 \in 1 .. (k - 1) /\ j - i + 1 \in 1 .. (n - i + 1) /\ i + (j - i + 1) - 1 = j
        <5> HIDE DEF n
        <5> QED BY <3>2, <1>1, <2>2
      <4>2. PathUp[e][j - i + 1] = PathUp[d][i + (j - i + 1) - 1]
        BY <1>1, <4>1
      <4> QED BY <2>1, <4>1, <4>2
    <3> QED BY <3>1, <3>2
  <2> QED BY <2>1, <2>2, <2>3 DEF IsRoot
<1>5. ASSUME InGit(d) PROVE InGit(e)
  <2>1. PICK g \in 1 .. n : PathUp[d][g] \in git
    BY <1>5 DEF InGit
  <2>2. ~ (g < i)
    <3>1. g < i => g \in 1 .. (i - 1)
      BY <1>1
    <3> QED BY <2>1, <3>1
  <2>3. g - i + 1 \in 1 .. (n - i + 1) /\ i + (g - i + 1) - 1 = g
    <3> HIDE DEF n
    <3> QED BY <1>1, <2>2
  <2>4. PathUp[e][g - i + 1] = PathUp[d][i + (g - i + 1) - 1]
    BY <1>1, <2>3
  <2> QED BY <1>1, <2>1, <2>3, <2>4 DEF InGit
<1> QED BY <1>3, <1>4, <1>5

\* What is cached within a git tree is its git root, and so was the last answer.
ProjectsInv ==
  /\ git \subseteq Dir /\ cached \subseteq Dir
  /\ \A d \in cached : InGit(d) => IsRoot(d, cache[d])
  /\ \/ answer.dir = NoProject
     \/ answer.dir \in Dir /\ (InGit(answer.dir) => IsRoot(answer.dir, answer.project))

\* A lookup finds the git root, however much of the way was cached, and leaves it with
\* every directory it has walked (detect).
LEMMA LookupKeeps ==
  ASSUME ProjectsInv, NEW d \in Dir, Detect(d) PROVE ProjectsInv'
<1> DEFINE path == PathUp[d]
           H == {i \in DOMAIN path : path[i] \in cached \/ path[i] \in git}
           stop == Stop(path)
           walked == {path[i] : i \in {j \in DOMAIN path : stop = 0 \/ j <= stop}}
           found == IF stop = 0 THEN NearestMarker(path)
                    ELSE IF path[stop] \in cached THEN cache[path[stop]] ELSE path[stop]
<1>0. DOMAIN path = 1 .. Len(path) /\ Len(path) \in Nat /\ \A i \in 1 .. Len(path) : path[i] \in Dir
  BY PathPlaces
<1>1. /\ cache' = [x \in Dir |-> IF x \in walked THEN found ELSE cache[x]]
      /\ cached' = cached \cup walked /\ answer' = [dir |-> d, project |-> found] /\ git' = git
  BY DEF Detect
<1>2. \/ stop = 0 /\ H = {}
      \/ stop \in 1 .. Len(path) /\ stop \in H /\ \A j \in 1 .. (stop - 1) : j \notin H
  <2>1. CASE H = {}
    BY <2>1 DEF Stop, First
  <2>2. CASE H # {}
    <3>1. stop = CHOOSE i \in H : \A j \in H : i <= j
      BY <2>2 DEF Stop, First
    <3>2. H \subseteq 1 .. Len(path)
      BY <1>0
    <3> HIDE DEF H, stop
    <3>3. stop \in H /\ \A j \in 1 .. (stop - 1) : j \notin H
      BY <1>0, <2>2, <3>1, <3>2, FirstIs
    <3> QED BY <3>2, <3>3
  <2> QED BY <2>1, <2>2
<1> HIDE DEF stop
<1>3. ASSUME NEW i \in 1 .. Len(path), stop = 0 \/ i <= stop
      PROVE  \A j \in 1 .. (i - 1) : PathUp[d][j] \notin git
  <2> SUFFICES ASSUME NEW j \in 1 .. (i - 1) PROVE path[j] \notin git
    OBVIOUS
  <2>1. j \in 1 .. Len(path) /\ (stop = 0 \/ j \in 1 .. (stop - 1))
    BY <1>0, <1>2, <1>3
  <2>2. j \notin H
    <3> HIDE DEF H
    <3> QED BY <1>2, <2>1
  <2> QED BY <1>0, <2>1, <2>2
<1>4. InGit(d) => IsRoot(d, found)
  <2> SUFFICES ASSUME InGit(d) PROVE IsRoot(d, found)
    OBVIOUS
  <2>1. PICK g \in 1 .. Len(path) : path[g] \in git
    BY DEF InGit
  <2>2. g \in H
    BY <1>0, <2>1
  <2>3. stop \in 1 .. Len(path) /\ stop # 0 /\ stop \in H
    <3> HIDE DEF H
    <3> QED BY <1>0, <1>2, <2>2
  <2>4. \A j \in 1 .. (stop - 1) : PathUp[d][j] \notin git
    BY <1>0, <1>3, <2>3
  <2>5. CASE path[stop] \in cached
    <3>1. IsRoot(path[stop], cache[path[stop]])
      <4>1. InGit(path[stop])
        BY <2>3, <2>4, RootOfRest
      <4> QED BY <2>5, <4>1 DEF ProjectsInv
    <3>2. IsRoot(d, cache[path[stop]])
      BY <2>3, <2>4, <3>1, RootOfRest
    <3> QED BY <2>3, <2>5, <3>2
  <2>6. CASE path[stop] \notin cached
    <3>1. path[stop] \in git
      BY <2>3, <2>6
    <3> QED BY <2>3, <2>4, <2>6, <3>1 DEF IsRoot
  <2> QED BY <2>5, <2>6
<1> HIDE DEF found
<1>5. ASSUME NEW x \in walked, InGit(x) PROVE IsRoot(x, found)
  <2>1. PICK i \in 1 .. Len(path) : path[i] = x /\ (stop = 0 \/ i <= stop)
    BY <1>0
  <2>2. x \in Dir /\ \A j \in 1 .. (i - 1) : PathUp[d][j] \notin git
    BY <1>0, <1>3, <2>1
  <2>3. InGit(d) /\ \A y : IsRoot(x, y) => IsRoot(d, y)
    BY <1>5, <2>1, <2>2, RootOfRest
  <2>4. IsRoot(x, Uncached(x))
    BY <1>5, <2>2, UncachedIsRoot
  <2>5. Uncached(x) = found
    BY <1>4, <2>3, <2>4, OneRoot
  <2> QED BY <2>4, <2>5
<1>6. walked \subseteq Dir
  BY <1>0
<1> HIDE DEF walked, path
<1>7. ASSUME NEW x \in cached', InGit(x)' PROVE IsRoot(x, cache[x])'
  <2>1. x \in Dir /\ InGit(x)
    BY <1>1, <1>6, <1>7 DEF ProjectsInv, InGit
  <2>2. IsRoot(x, cache'[x])
    BY <1>1, <1>5, <2>1 DEF ProjectsInv
  <2> QED BY <1>1, <2>2 DEF IsRoot
<1>8. (answer.dir \in Dir /\ (InGit(answer.dir) => IsRoot(answer.dir, answer.project)))'
  <2>1. answer'.dir = d /\ answer'.project = found
    BY <1>1
  <2> QED BY <1>1, <1>4, <2>1 DEF IsRoot, InGit
<1>9. git' \subseteq Dir /\ cached' \subseteq Dir
  BY <1>1, <1>6 DEF ProjectsInv
<1> QED BY <1>7, <1>8, <1>9 DEF ProjectsInv

\* Inside a git tree every lookup finds the nearest git root, whatever was looked up
\* before (ProjectCache::detect).
THEOREM GitRootAlwaysWins == ProjectsSpec => []GitRootWins
<1>1. ProjectsInit => ProjectsInv
  BY DEF ProjectsInit, ProjectsInv
<1>2. ProjectsInv /\ [ProjectsNext]_projectVars => ProjectsInv'
  <2> SUFFICES ASSUME ProjectsInv, [ProjectsNext]_projectVars PROVE ProjectsInv'
    OBVIOUS
  <2>1. CASE ProjectsNext
    BY <2>1, LookupKeeps DEF ProjectsNext
  <2>2. CASE UNCHANGED projectVars
    BY <2>2 DEF projectVars, ProjectsInv, InGit, IsRoot
  <2> QED BY <2>1, <2>2
<1>3. ProjectsInv => GitRootWins
  <2> SUFFICES ASSUME ProjectsInv, answer.dir # NoProject,
                      \E i \in DOMAIN PathUp[answer.dir] : PathUp[answer.dir][i] \in git
               PROVE  answer.project = Uncached(answer.dir)
    BY DEF GitRootWins
  <2>1. answer.dir \in Dir
    BY DEF ProjectsInv
  <2>2. InGit(answer.dir)
    BY <2>1, PathPlaces DEF InGit
  <2> QED BY <2>1, <2>2, UncachedIsRoot, OneRoot DEF ProjectsInv
<1> QED
  BY <1>1, <1>2, <1>3, PTL DEF ProjectsSpec

-----------------------------------------------------------------------------
(* The terminal.                                                           *)

\* A set of numbers, sorted, is a sequence of them that leaves none out (Sorted).
LEMMA SortedLists ==
  ASSUME NEW S, S \subseteq Nat, IsFiniteSet(S)
  PROVE  Sorted(S) \in Seq(S) /\ Len(Sorted(S)) \in Nat /\ ToSet(Sorted(S)) = S
<1> DEFINE below(x) == {y \in S : y < x}
           at == [x \in S |-> Cardinality(below(x)) + 1]
           N == Cardinality(S)
<1>1. N \in Nat /\ \A x \in S : IsFiniteSet(below(x)) /\ Cardinality(below(x)) \in Nat
  <2>1. \A x \in S : below(x) \in SUBSET S
    OBVIOUS
  <2> HIDE DEF below
  <2> QED BY <2>1, FS_Subset, FS_CardinalityType
<1>2. ASSUME NEW x \in S, NEW z \in S, x < z
      PROVE  Cardinality(below(x)) < Cardinality(below(z))
  <2>1. below(x) \in SUBSET below(z) /\ below(x) # below(z)
    <3>1. x \in Nat /\ z \in Nat /\ \A y \in S : y \in Nat
      OBVIOUS
    <3>2. \A y \in S : y < x => y < z
      BY <1>2, <3>1
    <3>3. x \in below(z) /\ x \notin below(x)
      BY <1>2, <3>1
    <3> QED BY <3>2, <3>3
  <2> HIDE DEF below
  <2>2. /\ Cardinality(below(x)) <= Cardinality(below(z))
        /\ Cardinality(below(x)) # Cardinality(below(z))
    BY <1>1, <2>1, FS_Subset
  <2> QED BY <1>1, <2>2
<1>3. ASSUME NEW x \in S PROVE Cardinality(below(x)) < N
  <2>1. below(x) \in SUBSET S /\ below(x) # S
    OBVIOUS
  <2> HIDE DEF below
  <2>2. Cardinality(below(x)) <= N /\ Cardinality(below(x)) # N
    BY <2>1, FS_Subset
  <2> QED BY <1>1, <2>2
<1>4. at \in Injection(S, 1 .. N)
  <2> HIDE DEF below, N
  <2>1. at \in [S -> 1 .. N]
    BY <1>1, <1>3
  <2>2. ASSUME NEW x \in S, NEW z \in S, at[x] = at[z] PROVE x = z
    <3>1. x \in Nat /\ z \in Nat /\ Cardinality(below(x)) = Cardinality(below(z))
      BY <1>1, <2>2
    <3>2. ~ (x < z) /\ ~ (z < x)
      BY <1>1, <1>2, <3>1
    <3> QED BY <3>1, <3>2
  <2> HIDE DEF at
  <2> QED BY <2>1, <2>2 DEF Injection, IsInjective
<1>5. at \in Surjection(S, 1 .. N)
  <2>1. IsFiniteSet(1 .. N) /\ Cardinality(1 .. N) = N
    <3> HIDE DEF N
    <3>1. 1 \in Int /\ N \in Int
      BY <1>1
    <3>2. IsFiniteSet(1 .. N) /\ Cardinality(1 .. N) = IF 1 > N THEN 0 ELSE N - 1 + 1
      BY <3>1, FS_Interval
    <3> QED BY <1>1, <3>2
  <2> HIDE DEF at
  <2> QED BY <1>4, <2>1, FS_Injection
<1>6. ASSUME NEW n \in 1 .. N
      PROVE  Sorted(S)[n] \in S /\ at[Sorted(S)[n]] = n
  <2>1. PICK x \in S : at[x] = n
    <3> HIDE DEF at
    <3> QED BY <1>5 DEF Surjection
  <2>2. \E z \in S : Cardinality({y \in S : y < z}) = n - 1
    <3>1. at[x] = Cardinality(below(x)) + 1 /\ n \in Nat
      BY <1>1
    <3>2. Cardinality(below(x)) = n - 1
      <4> HIDE DEF at, below
      <4> QED BY <1>1, <2>1, <3>1
    <3> QED BY <3>2
  <2>3. Sorted(S)[n] = CHOOSE z \in S : Cardinality({y \in S : y < z}) = n - 1
    <3> HIDE DEF below, at, N
    <3>1. Sorted(S) = [k \in 1 .. N |-> CHOOSE z \in S : Cardinality({y \in S : y < z}) = k - 1]
      BY Zenon DEF Sorted, N
    <3> QED BY <3>1, Zenon
  <2>4. Sorted(S)[n] \in S /\ Cardinality(below(Sorted(S)[n])) = n - 1
    BY <2>2, <2>3, Zenon
  <2> QED BY <1>1, <2>4
<1>7. Sorted(S) = [n \in 1 .. N |-> Sorted(S)[n]]
  <2> HIDE DEF below, at, N
  <2>1. Sorted(S) = [k \in 1 .. N |-> CHOOSE x \in S : Cardinality({y \in S : y < x}) = k - 1]
    BY Zenon DEF Sorted, N
  <2> DEFINE pick(k) == CHOOSE x \in S : Cardinality({y \in S : y < x}) = k - 1
  <2>2. Sorted(S) = [k \in 1 .. N |-> pick(k)]
    BY <2>1, Zenon
  <2> HIDE DEF pick
  <2> QED BY <2>2
<1>8. Sorted(S) \in Seq(S) /\ Len(Sorted(S)) = N
  <2> DEFINE s == Sorted(S)
  <2>1. s \in [1 .. N -> S]
    <3> HIDE DEF N
    <3> QED BY <1>6, <1>7
  <2> HIDE DEF s, N
  <2>2. s \in Seq(S) /\ Len(s) = N
    <3>1. N \in Nat
      BY <1>1
    <3> QED BY <2>1, <3>1
  <2> QED BY <2>2 DEF s
<1>9. ToSet(Sorted(S)) = S
  <2>1. ToSet(Sorted(S)) = {Sorted(S)[n] : n \in 1 .. N}
    <3>1. DOMAIN Sorted(S) = 1 .. N
      BY DEF Sorted
    <3> QED BY <3>1, Zenon DEF ToSet
  <2>2. \A x \in S : at[x] \in 1 .. N /\ x = Sorted(S)[at[x]]
    <3> HIDE DEF at, N
    <3> QED BY <1>4, <1>6 DEF Injection, IsInjective
  <2> HIDE DEF at, N
  <2> QED BY <1>6, <2>1, <2>2
<1> HIDE DEF N
<1> QED BY <1>1, <1>8, <1>9

-----------------------------------------------------------------------------
(* Nesting.                                                                *)

\* The recursion of Outer: an item and what its parent is nested in, up to the first
\* that the snapshot has not (Parent).
LEMMA OuterIs ==
  /\ Outer[0] = {}
  /\ \A i \in Item : /\ Parent(i) \in (Item \cap snapshot) \cup {0} /\ Parent(i) < i
                     /\ Outer[i] = {i} \cup Outer[Parent(i)]
<1> DEFINE G(f) == f = [j \in Item \cup {0} |-> IF j = 0 THEN {} ELSE {j} \cup f[Parent(j)]]
           over == [j \in Item |-> Parent(j)]
           rank == [j \in Item |-> j]
           base == [j \in Item |-> {j}]
           step == [j \in Item |-> [X \in SUBSET Item |-> {j} \cup X]]
<1>1. 0 \notin Item /\ Item \subseteq Nat
  BY TerminalAssumption
<1>2. \A i \in Item : Parent(i) \in (Item \cap snapshot) \cup {0} /\ Parent(i) < i
  BY <1>1, TerminalAssumption DEF Parent
<1>3. PICK f : Follows(f, Item, 0, over, SUBSET Item, base, step)
  <2>1. /\ over \in [Item -> Item \cup {0}] /\ rank \in [Item -> Nat]
        /\ \A j \in Item : over[j] # 0 => rank[over[j]] < rank[j]
    BY <1>1, <1>2
  <2>2. base \in [Item -> SUBSET Item] /\ step \in [Item -> [SUBSET Item -> SUBSET Item]]
    OBVIOUS
  <2> HIDE DEF over, rank, base, step
  <2>3. Links(Item, 0, rank, over, SUBSET Item, base, step)
    BY <1>1, <2>1, <2>2 DEF Links
  <2> QED BY <2>3, TreeRecursion
<1>4. f \in [Item -> SUBSET Item]
  BY <1>3 DEF Follows
<1>5. ASSUME NEW i \in Item
      PROVE  f[i] = {i} \cup (IF Parent(i) = 0 THEN {} ELSE f[Parent(i)])
  <2>1. f[i] = IF over[i] = 0 THEN base[i] ELSE step[i][f[over[i]]]
    <3> HIDE DEF over, base, step
    <3> QED BY <1>3 DEF Follows
  <2>2. over[i] = Parent(i) /\ base[i] = {i}
    OBVIOUS
  <2>3. Parent(i) # 0 => f[Parent(i)] \in SUBSET Item
    BY <1>2, <1>4
  <2>4. \A X \in SUBSET Item : step[i][X] = {i} \cup X
    OBVIOUS
  <2> HIDE DEF over, base, step
  <2> QED BY <2>1, <2>2, <2>3, <2>4
<1>6. \E g : G(g)
  <2> DEFINE g == [j \in Item \cup {0} |-> IF j = 0 THEN {} ELSE f[j]]
  <2>1. \A i \in Item : g[Parent(i)] = IF Parent(i) = 0 THEN {} ELSE f[Parent(i)]
    BY <1>2
  <2>2. \A j \in Item \cup {0} : g[j] = IF j = 0 THEN {} ELSE {j} \cup g[Parent(j)]
    <3>1. g[0] = {} /\ \A i \in Item : g[i] = f[i]
      BY <1>1
    <3> HIDE DEF g
    <3> QED BY <1>1, <1>5, <2>1, <3>1
  <2>3. g = [j \in Item \cup {0} |-> g[j]]
    OBVIOUS
  <2> HIDE DEF g
  <2> QED BY <2>2, <2>3
<1>7. PICK h : G(h) /\ Outer = [i \in Item \cup {0} |-> h[i]]
  <2>1. Outer = [i \in Item \cup {0} |-> (CHOOSE g : G(g))[i]]
    BY DEF Outer
  <2> HIDE DEF G
  <2>2. G(CHOOSE g : G(g))
    BY <1>6
  <2> QED BY <2>1, <2>2
<1> QED BY <1>1, <1>2, <1>7

\* What an item is nested in are items of the snapshot, and what those are nested in is
\* among them.
LEMMA OuterIsClosed ==
  \A i \in Item : /\ i \in Outer[i] /\ Outer[i] \subseteq Item
                  /\ Outer[i] \subseteq snapshot \cup {i}
                  /\ \A j \in Outer[i] : Outer[j] \subseteq Outer[i]
<1> DEFINE Closed(i) == /\ i \in Outer[i] /\ Outer[i] \subseteq Item
                        /\ Outer[i] \subseteq snapshot \cup {i}
                        /\ \A j \in Outer[i] : Outer[j] \subseteq Outer[i]
           rank == [j \in Item |-> j]
           T == {i \in Item : Closed(i)}
<1>1. \A i \in Item : (\A j \in Item : rank[j] < rank[i] => j \in T) => i \in T
  <2> SUFFICES ASSUME NEW i \in Item, \A j \in Item : j < i => j \in T PROVE Closed(i)
    OBVIOUS
  <2>1. CASE Parent(i) = 0
    BY <2>1, OuterIs
  <2>2. CASE Parent(i) # 0
    <3> DEFINE p == Parent(i)
    <3>1. p \in Item \cap snapshot /\ p < i /\ Outer[i] = {i} \cup Outer[p]
      BY <2>2, OuterIs
    <3>2. Closed(p)
      BY <3>1
    <3> HIDE DEF p
    <3> QED BY <3>1, <3>2
  <2> QED BY <2>1, <2>2
<1>2. rank \in [Item -> Nat]
  BY TerminalAssumption
<1> HIDE DEF T, rank
<1>3. Item \subseteq T
  BY <1>1, <1>2, RankInduction
<1> QED BY <1>3 DEF T

\* A match and what it is nested in is listed in every state (collect_items).
LEMMA MatchesListed == MatchesAreListed
<1> SUFFICES ASSUME app.section \in {"all", "category", "leftovers"} PROVE MatchesAreListed
  BY DEF MatchesAreListed
<1> DEFINE S == {i \in Item \cap snapshot : ItemShown(i, app.section, app.project, app.query)}
<1>1. ToSet(VisibleRows(app)) = S
  <2>1. VisibleRows(app) = Sorted(S)
    BY DEF VisibleRows
  <2>2. S \subseteq Nat /\ IsFiniteSet(S)
    <3>1. S \in SUBSET (Item \cup Engine \cup Listed)
      OBVIOUS
    <3> HIDE DEF S
    <3> QED BY <3>1, FS_Subset, TerminalAssumption
  <2> HIDE DEF S
  <2> QED BY <2>1, <2>2, SortedLists
<1>2. ASSUME NEW i \in Item \cap snapshot \cap Matching(app.section),
             ~app.query \/ i \in Hit, ~app.project \/ i \in OfProject
      PROVE  i \in S
  <2>1. ASSUME NEW j \in Outer[i]
        PROVE  /\ Passes(j, app.project, OfProject) /\ Passes(j, app.query, Hit)
               /\ (Outer[j] \cup Inner(j)) \cap Matching(app.section) # {}
    <3>1. i \in Inner(j)
      BY DEF Inner
    <3> QED BY <1>2, <3>1 DEF Passes
  <2> QED BY <2>1 DEF ItemShown
<1>3. ASSUME NEW i \in S, NEW j \in Outer[i] PROVE j \in S
  <2>1. i \in Item /\ i \in snapshot /\ ItemShown(i, app.section, app.project, app.query)
    OBVIOUS
  <2>2. j \in Item /\ j \in snapshot /\ Outer[j] \subseteq Outer[i]
    BY <2>1, OuterIsClosed
  <2>3. ItemShown(j, app.section, app.project, app.query)
    BY <2>1, <2>2 DEF ItemShown
  <2> QED BY <2>2, <2>3
<1> HIDE DEF S
<1> QED BY <1>1, <1>2, <1>3 DEF MatchesAreListed

\* Section, project and query together hide no item they match, nor what it is nested in,
\* whatever the items and their nesting (collect_items, query_ok, project_ok).
THEOREM MatchesAlwaysListed == TermSpec => []MatchesAreListed
BY MatchesListed, PTL

-----------------------------------------------------------------------------
(* What a key does to the app.                                             *)

\* What App is, whatever the snapshot.
Apps ==
  [mode : Mode, section : Section, focus : {"overview", "runtime"}, line : 0 .. 5,
   selected : Nat, marked : SUBSET Nat, query : BOOLEAN, filtering : BOOLEAN,
   project : BOOLEAN, force : BOOLEAN, frozen : SUBSET Item, frozenDocker : SUBSET Engine]

\* What a popup of an app names.
Named(a) == IF a.mode = "kill" THEN a.frozen ELSE IF a.mode = "docker" THEN a.frozenDocker ELSE {}
Left(a) == a.frozenDocker # {} => a.mode = "docker"

TermInv ==
  /\ app \in Apps /\ Left(app) /\ drawn = Named(app)
  /\ snapshot \in Scanned /\ scans \in 0 .. MaxScans /\ keys \in 0 .. MaxKeys
  /\ turn \in {"frame", "event"}

\* The rows are a sequence of numbers, and there are six lines at most.
LEMMA RowsAreNumbers ==
  ASSUME NEW a \in Apps
  PROVE  VisibleRows(a) \in Seq(Nat) /\ Len(VisibleRows(a)) \in Nat
<1>1. \E S : S \subseteq Nat /\ IsFiniteSet(S) /\ VisibleRows(a) = Sorted(S)
  <2> DEFINE All == Item \cup Engine \cup Listed \cup {ProjectRow} \cup {PrunableRow}
             has(S) == {x \in S : (~a.query \/ x \in Hit)}
             s1 == has(Listed)
             s2 == IF snapshot \cap Item \cap OfProject # {} THEN has({ProjectRow}) ELSE {}
             s3 == {x \in has((Engine \cap snapshot) \ Prunable) : ~a.project \/ x \in OfProject}
                   \cup (IF Prunable \cap snapshot = {} THEN {} ELSE {PrunableRow})
             s4 == {i \in Item \cap snapshot : ItemShown(i, a.section, a.project, a.query)}
  <2>1. All \subseteq Nat /\ IsFiniteSet(All)
    <3>1. IsFiniteSet(Item \cup Engine \cup Listed) /\ Item \cup Engine \cup Listed \subseteq Nat
      BY TerminalAssumption
    <3>2. IsFiniteSet(Item \cup Engine \cup Listed \cup {ProjectRow})
      BY <3>1, FS_AddElement
    <3>3. IsFiniteSet(All)
      BY <3>2, FS_AddElement
    <3> QED BY <3>1, <3>3 DEF ProjectRow, PrunableRow
  <2>2. \A S \in SUBSET All : S \subseteq Nat /\ IsFiniteSet(S)
    <3> HIDE DEF All
    <3> QED BY <2>1, FS_Subset
  <2>3. s1 \in SUBSET All /\ s2 \in SUBSET All /\ s4 \in SUBSET All
    OBVIOUS
  <2>4. s3 \in SUBSET All
    OBVIOUS
  <2>5. \/ VisibleRows(a) = Sorted(s1) \/ VisibleRows(a) = Sorted(s2)
        \/ VisibleRows(a) = Sorted(s3) \/ VisibleRows(a) = Sorted(s4)
    <3>1. CASE a.section = "runs"
      BY <3>1 DEF VisibleRows
    <3>2. CASE a.section = "projects"
      BY <3>2 DEF VisibleRows
    <3>3. CASE a.section = "docker"
      BY <3>3 DEF VisibleRows
    <3>4. CASE a.section \notin {"runs", "projects", "docker"}
      BY <3>4 DEF VisibleRows
    <3> QED BY <3>1, <3>2, <3>3, <3>4
  <2> HIDE DEF All, s1, s2, s3, s4
  <2> QED BY <2>2, <2>3, <2>4, <2>5
<1>2. PICK S : S \subseteq Nat /\ IsFiniteSet(S) /\ VisibleRows(a) = Sorted(S)
  BY <1>1
<1>3. Sorted(S) \in Seq(S) /\ Len(Sorted(S)) \in Nat
  BY <1>2, SortedLists
<1>4. Sorted(S) \in Seq(Nat)
  <2> DEFINE s == Sorted(S)
  <2>1. s \in Seq(S) /\ \A x \in S : x \in Nat
    BY <1>2, <1>3
  <2> HIDE DEF s
  <2>2. \A i \in 1 .. Len(s) : s[i] \in Nat
    BY <2>1
  <2>3. s \in Seq(Nat)
    BY <2>1, <2>2
  <2> QED BY <2>3 DEF s
<1> QED BY <1>2, <1>3, <1>4

\* The lines of the overview: all, four kinds or five, and projects.
LEMMA OverviewIs == Overview \in Seq(Section) /\ Len(Overview) \in 5 .. 6
<1>1. CASE OfCategory \cap snapshot = {}
  <2>1. Overview = <<"all">> \o <<>> \o <<"docker", "projects", "leftovers", "runs">>
    BY <1>1 DEF Overview
  <2> QED BY <2>1 DEF Section
<1>2. CASE OfCategory \cap snapshot # {}
  <2>1. Overview = <<"all">> \o <<"category">> \o <<"docker", "projects", "leftovers", "runs">>
    BY <1>2 DEF Overview
  <2> QED BY <2>1 DEF Section
<1> QED BY <1>1, <1>2

\* A line of the overview is a number below six.
LEMMA LinesInRange == \A i \in 1 .. Len(Overview) : i - 1 \in 0 .. 5
<1>1. \A n \in 5 .. 6 : \A i \in 1 .. n : i - 1 \in 0 .. 5
  OBVIOUS
<1> QED BY <1>1, OverviewIs

\* Whatever is clamped to the rows, reset, unwound or applied is an app that has the mode
\* and the frozen targets it had.
Alike(a, b) == b \in Apps /\ b.mode = a.mode /\ b.frozen = a.frozen /\ b.frozenDocker = a.frozenDocker

\* Arithmetic of the bounds that the keys move within.
LEMMA AtMostIs ==
  ASSUME NEW n \in Nat, NEW limit \in Nat
  PROVE  AtMost(n, limit) \in Nat /\ AtMost(n, limit) <= n /\ AtMost(n, limit) <= limit
BY DEF AtMost

\* Clamping, resetting, unwinding and applying change neither the mode nor what was frozen.
LEMMA ClampedIs ==
  ASSUME NEW a \in Apps PROVE Alike(a, Clamped(a))
<1> DEFINE sel == IF VisibleRows(a) = <<>> THEN 0 ELSE AtMost(a.selected, Len(VisibleRows(a)) - 1)
           lin == AtMost(a.line, Len(Overview) - 1)
<1>1. sel \in Nat
  <2>1. VisibleRows(a) # <<>> => Len(VisibleRows(a)) - 1 \in Nat
    BY RowsAreNumbers
  <2>2. a.selected \in Nat
    BY DEF Apps
  <2> QED BY <2>1, <2>2, AtMostIs
<1>2. lin \in 0 .. 5
  <2>1. a.line \in 0 .. 5 /\ Len(Overview) - 1 \in 4 .. 5
    BY OverviewIs DEF Apps
  <2> QED BY <2>1 DEF AtMost
<1>3. Clamped(a) = [a EXCEPT !.selected = sel, !.line = lin]
  BY DEF Clamped
<1> HIDE DEF sel, lin
<1> QED BY <1>1, <1>2, <1>3 DEF Alike, Apps

\* The same for a reset.
LEMMA ResetIs ==
  ASSUME NEW a \in Apps PROVE Alike(a, Reset(a))
BY DEF Alike, Apps, Reset

\* Two such changes are one.
LEMMA AlikeTwice ==
  ASSUME NEW a, NEW b, NEW c, Alike(a, b), Alike(b, c) PROVE Alike(a, c)
BY DEF Alike

\* The same for what Escape undoes.
LEMMA UnwoundIs ==
  ASSUME NEW a \in Apps PROVE Alike(a, Unwound(a))
<1>1. Alike(a, [a EXCEPT !.query = FALSE]) /\ Alike(a, [a EXCEPT !.project = FALSE])
  BY DEF Alike, Apps
<1>3. Alike(a, [a EXCEPT !.section = "all", !.line = 0])
  <2>1. "all" \in Section /\ 0 \in 0 .. 5
    BY DEF Section
  <2> QED BY <2>1 DEF Alike, Apps
<1>2. \A b : Alike(a, b) => Alike(a, Reset(b))
  BY ResetIs, AlikeTwice DEF Alike
<1> QED BY <1>1, <1>2, <1>3 DEF Unwound

\* The same for a line of the overview that is applied.
LEMMA AppliedIs ==
  ASSUME NEW a \in Apps PROVE Alike(a, AppliedOverview(a))
<1>1. CASE a.line < Len(Overview)
  <2>1. Overview[a.line + 1] \in Section
    BY <1>1, OverviewIs DEF Apps
  <2>2. Alike(a, [a EXCEPT !.section = Overview[a.line + 1], !.focus = "runtime"])
    BY <2>1 DEF Alike, Apps
  <2> QED BY <1>1, <2>2, ResetIs, AlikeTwice DEF Alike, AppliedOverview
<1>2. CASE ~(a.line < Len(Overview))
  BY <1>2 DEF AppliedOverview, Alike
<1> QED BY <1>1, <1>2

-----------------------------------------------------------------------------
(* The keys.                                                               *)

\* What a step may do, as ActsOnWhatWasShown says it.
WordKept == keys' # keys /\ done'.by \in {"kill", "remove"} => done'.of \subseteq drawn
Stepped == TermInv' /\ WordKept

\* A key leads to an app, and its popup is drawn.
LEMMA KeyStep ==
  ASSUME TermInv, NEW after \in Apps, Left(after), NEW effect, Key(after, effect),
         effect.by \in {"kill", "remove"} => effect.of \subseteq drawn
  PROVE  Stepped
<1>1. /\ turn' = "frame" /\ keys < MaxKeys /\ keys' = keys + 1 /\ app' = after
      /\ done' = effect /\ snapshot' = snapshot /\ scans' = scans /\ Draw(after)
  BY DEF Key
<1>2. drawn' = Named(after)
  BY <1>1 DEF Draw, Named
<1>3. keys' \in 0 .. MaxKeys
  BY <1>1, TerminalAssumption DEF TermInv
<1> QED BY <1>1, <1>2, <1>3 DEF TermInv, Stepped, WordKept, Named, Left

\* A key that changes the application only.
LEMMA ActStep ==
  ASSUME TermInv, NEW after \in Apps, Left(after), Act(after)
  PROVE  Stepped
<1>1. Key(after, Nothing) /\ Nothing.by \notin {"kill", "remove"}
  BY DEF Act, Nothing
<1> QED BY <1>1, KeyStep

\* A key that changes neither the mode nor what was frozen.
LEMMA AlikeStep ==
  ASSUME TermInv, NEW a, Left(a), NEW after, Alike(a, after), Act(after)
  PROVE  Stepped
<1>1. after \in Apps /\ Left(after)
  BY DEF Alike, Left
<1> QED BY <1>1, ActStep

\* The keys of the list leave the frozen targets alone; the list has none to remove.
LEMMA BrowsingSteps ==
  ASSUME TermInv,
         \/ Escape \/ Back \/ ApplyOverview \/ FocusPane \/ JumpProjects \/ MoveSelection
         \/ MarkRow \/ EnterRow \/ StartFilter \/ FilterKey \/ HelpKey \/ PrunePopup
         \/ ClickLine \/ ClickRow
  PROVE  Stepped
<1>0. app \in Apps /\ Left(app)
  BY DEF TermInv
<1>1. app.mode = "list" /\ app.frozenDocker = {}
  BY <1>0 DEF Left, Browsing, Escape, Back, ApplyOverview, FocusPane, JumpProjects, MoveSelection,
     MarkRow, EnterRow, StartFilter, FilterKey, HelpKey, PrunePopup, ClickLine, ClickRow
<1>a. Alike(app, app)
  BY <1>0 DEF Alike
<1>m. ASSUME NEW m \in Mode, Act([app EXCEPT !.mode = m]) PROVE Stepped
  <2>1. [app EXCEPT !.mode = m] \in Apps /\ Left([app EXCEPT !.mode = m])
    BY <1>0, <1>1 DEF Apps, Left
  <2> QED BY <1>m, <2>1, ActStep
<1>2. CASE Escape
  <2>1. CASE Act(Quit(app))
    BY <2>1, <1>m DEF Quit, Mode
  <2>2. CASE Act(Unwound(app))
    BY <1>0, <2>2, UnwoundIs, AlikeStep
  <2> QED BY <1>2, <2>1, <2>2 DEF Escape
<1>3. CASE Back
  BY <1>0, <1>3, <1>a, UnwoundIs, AlikeStep DEF Back
<1>4. CASE ApplyOverview
  BY <1>0, <1>4, AppliedIs, AlikeStep DEF ApplyOverview
<1>5. CASE FocusPane
  <2>1. PICK pane \in {"overview", "runtime"} : Act([app EXCEPT !.focus = pane])
    BY <1>5 DEF FocusPane
  <2>2. Alike(app, [app EXCEPT !.focus = pane])
    BY <1>0 DEF Alike, Apps
  <2> QED BY <1>0, <2>1, <2>2, AlikeStep
<1>6. CASE JumpProjects
  <2>1. PICK i \in 1 .. Len(Overview) :
          Act(Reset([app EXCEPT !.line = i - 1, !.section = "projects", !.focus = "runtime"]))
    BY <1>6 DEF JumpProjects
  <2>2. i - 1 \in 0 .. 5 /\ "projects" \in Section
    BY LinesInRange DEF Section
  <2>3. Alike(app, [app EXCEPT !.line = i - 1, !.section = "projects", !.focus = "runtime"])
    BY <1>0, <2>2 DEF Alike, Apps
  <2>4. Alike(app, Reset([app EXCEPT !.line = i - 1, !.section = "projects", !.focus = "runtime"]))
    BY <2>3, ResetIs, AlikeTwice DEF Alike
  <2> QED BY <1>0, <2>1, <2>4, AlikeStep
<1>7. CASE MoveSelection
  <2>1. CASE app.focus = "overview"
    <3>1. PICK n \in Moved(app.line, Len(Overview)) : Act([app EXCEPT !.line = n])
      BY <1>7, <2>1 DEF MoveSelection
    <3>2. n \in 0 .. 5
      <4>1. app.line \in 0 .. 5 /\ Len(Overview) \in 5 .. 6
        BY <1>0, OverviewIs DEF Apps
      <4>2. n = (IF app.line = 0 THEN 0 ELSE app.line - 1) \/ n = AtMost(app.line + 1, Len(Overview) - 1)
        BY <3>1 DEF Moved
      <4>3. (IF app.line = 0 THEN 0 ELSE app.line - 1) \in 0 .. 5
        BY <4>1
      <4>4. AtMost(app.line + 1, Len(Overview) - 1) \in 0 .. 5
        <5>1. \A l \in 0 .. 5, k \in 5 .. 6 : AtMost(l + 1, k - 1) \in 0 .. 5
          BY DEF AtMost
        <5> QED BY <4>1, <5>1
      <4> QED BY <4>2, <4>3, <4>4
    <3>3. Alike(app, [app EXCEPT !.line = n])
      BY <1>0, <3>2 DEF Alike, Apps
    <3> QED BY <1>0, <3>1, <3>3, AlikeStep
  <2>2. CASE app.focus # "overview"
    <3>1. /\ VisibleRows(app) # <<>>
          /\ \E m \in Moved(app.selected, Len(VisibleRows(app))) : Act([app EXCEPT !.selected = m])
      BY <1>7, <2>2 DEF MoveSelection
    <3>2. PICK n \in Moved(app.selected, Len(VisibleRows(app))) : Act([app EXCEPT !.selected = n])
      BY <3>1
    <3>3. n \in Nat
      <4>1. app.selected \in Nat /\ Len(VisibleRows(app)) - 1 \in Nat
        BY <1>0, <3>1, RowsAreNumbers DEF Apps
      <4> QED BY <3>2, <4>1 DEF Moved, AtMost
    <3>4. Alike(app, [app EXCEPT !.selected = n])
      BY <1>0, <3>3 DEF Alike, Apps
    <3> QED BY <1>0, <3>2, <3>4, AlikeStep
  <2> QED BY <2>1, <2>2
<1>8. CASE MarkRow
  <2> DEFINE marks == IF app.selected \in app.marked THEN app.marked \ {app.selected}
                                                     ELSE app.marked \cup {app.selected}
  <2>1. Act([app EXCEPT !.marked = marks])
    BY <1>8 DEF MarkRow
  <2>2. marks \in SUBSET Nat
    BY <1>0 DEF Apps
  <2> HIDE DEF marks
  <2>3. Alike(app, [app EXCEPT !.marked = marks])
    BY <1>0, <2>2 DEF Alike, Apps
  <2> QED BY <1>0, <2>1, <2>3, AlikeStep
<1>9. CASE EnterRow
  <2> DEFINE b == [app EXCEPT !.project = TRUE, !.section = "all", !.line = 0]
  <2>1. Alike(app, b)
    <3>1. "all" \in Section /\ 0 \in 0 .. 5
      BY DEF Section
    <3> QED BY <1>0, <3>1 DEF Alike, Apps
  <2> HIDE DEF b
  <2>2. Alike(app, Reset(b))
    BY <2>1, ResetIs, AlikeTwice DEF Alike
  <2>3. \/ Act(AppliedOverview(app)) \/ Act(Reset(b))
        \/ Act([app EXCEPT !.mode = "details"]) \/ Act(app)
    BY <1>9 DEF EnterRow, b
  <2>4. CASE Act(AppliedOverview(app))
    BY <1>0, <2>4, AppliedIs, AlikeStep
  <2>5. CASE Act(Reset(b))
    BY <1>0, <2>5, <2>2, AlikeStep
  <2>6. CASE Act([app EXCEPT !.mode = "details"])
    BY <2>6, <1>m DEF Mode
  <2>7. CASE Act(app)
    BY <1>0, <2>7, <1>a, AlikeStep
  <2> QED BY <2>3, <2>4, <2>5, <2>6, <2>7
<1>10. CASE StartFilter
  <2>1. Alike(app, [app EXCEPT !.filtering = TRUE])
    BY <1>0 DEF Alike, Apps
  <2> QED BY <1>0, <1>10, <2>1, AlikeStep DEF StartFilter
<1>11. CASE FilterKey
  <2>1. CASE Act([app EXCEPT !.filtering = FALSE])
    <3>1. Alike(app, [app EXCEPT !.filtering = FALSE])
      BY <1>0 DEF Alike, Apps
    <3> QED BY <1>0, <2>1, <3>1, AlikeStep
  <2>2. CASE Act(Reset([app EXCEPT !.filtering = FALSE, !.query = FALSE]))
    <3>1. Alike(app, [app EXCEPT !.filtering = FALSE, !.query = FALSE])
      BY <1>0 DEF Alike, Apps
    <3>2. Alike(app, Reset([app EXCEPT !.filtering = FALSE, !.query = FALSE]))
      BY <3>1, ResetIs, AlikeTwice DEF Alike
    <3> QED BY <1>0, <2>2, <3>2, AlikeStep
  <2>3. CASE \E q \in BOOLEAN : Act(Reset([app EXCEPT !.query = q]))
    <3>1. PICK q \in BOOLEAN : Act(Reset([app EXCEPT !.query = q]))
      BY <2>3
    <3>2. Alike(app, [app EXCEPT !.query = q])
      BY <1>0 DEF Alike, Apps
    <3>3. Alike(app, Reset([app EXCEPT !.query = q]))
      BY <3>2, ResetIs, AlikeTwice DEF Alike
    <3> QED BY <1>0, <3>1, <3>3, AlikeStep
  <2> QED BY <1>11, <2>1, <2>2, <2>3 DEF FilterKey
<1>12. CASE HelpKey
  BY <1>12, <1>m DEF HelpKey, Mode
<1>13. CASE PrunePopup
  BY <1>13, <1>m DEF PrunePopup, Mode, Popups
<1>14. CASE ClickLine
  <2>1. PICK i \in 1 .. Len(Overview) :
          Act(AppliedOverview([app EXCEPT !.line = i - 1, !.focus = "overview"]))
    BY <1>14 DEF ClickLine
  <2>2. i - 1 \in 0 .. 5
    BY LinesInRange
  <2>3. Alike(app, [app EXCEPT !.line = i - 1, !.focus = "overview"])
    BY <1>0, <2>2 DEF Alike, Apps
  <2>4. Alike(app, AppliedOverview([app EXCEPT !.line = i - 1, !.focus = "overview"]))
    BY <2>3, AppliedIs, AlikeTwice DEF Alike
  <2> QED BY <1>0, <2>1, <2>4, AlikeStep
<1>15. CASE ClickRow
  <2>1. PICK i \in 1 .. Len(VisibleRows(app)), m \in {"details", app.mode} :
          Act([app EXCEPT !.selected = i - 1, !.focus = "runtime", !.mode = m])
    BY <1>15 DEF ClickRow
  <2> DEFINE b == [app EXCEPT !.selected = i - 1, !.focus = "runtime", !.mode = m]
  <2>2. i - 1 \in Nat /\ m \in Mode
    BY <1>0, <1>1, RowsAreNumbers DEF Mode
  <2>3. b \in Apps /\ b.frozenDocker = {}
    BY <1>0, <1>1, <2>2 DEF Apps
  <2>4. Act(b)
    BY <2>1
  <2> HIDE DEF b
  <2> QED BY <2>3, <2>4, ActStep DEF Left
<1> QED
  BY <1>2, <1>3, <1>4, <1>5, <1>6, <1>7, <1>8, <1>9, <1>10, <1>11, <1>12, <1>13, <1>14, <1>15

\* What the popups name are items, or resources of the engine.
LEMMA TargetsAreOfKinds ==
  Identities(Targets(app)) \subseteq Item /\ Targets(app) \cap Engine \subseteq Engine
BY DEF Identities, Inner

\* What opens a popup, leaves one or confirms it.
LEMMA PopupSteps ==
  ASSUME TermInv,
         \/ KillPopup \/ DockerPopup \/ StopContainers \/ Dismiss \/ ClickOutside
         \/ ConfirmKill \/ ConfirmRemove \/ ConfirmPrune
  PROVE  Stepped
<1>0. app \in Apps /\ Left(app) /\ drawn = Named(app)
  BY DEF TermInv
<1>a. Acting => app.mode \in {"list", "details"} /\ app.frozenDocker = {}
  BY <1>0 DEF Acting, Browsing, Left
<1>1. CASE KillPopup
  <2>1. Acting
    BY <1>1 DEF KillPopup
  <2>2. PICK force \in BOOLEAN :
          LET frozen == Identities(Targets(app)) IN
          Act([app EXCEPT !.frozen = frozen,
                          !.force = IF frozen = {} THEN @ ELSE force,
                          !.mode = IF frozen = {} THEN @ ELSE "kill"])
    BY <1>1 DEF KillPopup
  <2> DEFINE frozen == Identities(Targets(app))
             f == IF frozen = {} THEN app.force ELSE force
             m == IF frozen = {} THEN app.mode ELSE "kill"
             b == [app EXCEPT !.frozen = frozen, !.force = f, !.mode = m]
  <2>3. Act(b)
    BY <2>2
  <2>4. frozen \in SUBSET Item
    BY TargetsAreOfKinds
  <2>5. f \in BOOLEAN /\ m \in Mode
    <3> HIDE DEF frozen
    <3> QED BY <1>0 DEF Apps, Mode, Popups
  <2> HIDE DEF frozen, f, m
  <2>6. b \in Apps /\ Left(b)
    BY <1>0, <1>a, <2>1, <2>4, <2>5 DEF Apps, Left
  <2> HIDE DEF b
  <2> QED BY <2>3, <2>6, ActStep
<1>2. CASE DockerPopup
  <2> DEFINE frozen == app.frozenDocker \cup (Targets(app) \cap Engine)
             m == IF frozen = {} THEN app.mode ELSE "docker"
             b == [app EXCEPT !.frozenDocker = frozen, !.mode = m]
  <2>1. Act(b)
    BY <1>2 DEF DockerPopup
  <2>2. frozen \in SUBSET Engine
    BY <1>0 DEF Apps
  <2>3. m \in Mode /\ (frozen # {} => m = "docker")
    <3> HIDE DEF frozen
    <3> QED BY <1>0 DEF Apps, Mode, Popups
  <2> HIDE DEF frozen, m
  <2>4. b \in Apps /\ Left(b)
    BY <1>0, <2>2, <2>3 DEF Apps, Left
  <2> HIDE DEF b
  <2> QED BY <2>1, <2>4, ActStep
<1>3. CASE StopContainers
  <2>1. Acting
    BY <1>3 DEF StopContainers
  <2>2. PICK stopped :
          Key(IF stopped = {} THEN app ELSE [app EXCEPT !.marked = {}], [by |-> "stop", of |-> stopped])
    BY <1>3 DEF StopContainers
  <2> DEFINE b == IF stopped = {} THEN app ELSE [app EXCEPT !.marked = {}]
  <2>3. b \in Apps /\ Left(b)
    BY <1>0, <1>a, <2>1 DEF Apps, Left
  <2>4. Key(b, [by |-> "stop", of |-> stopped])
    BY <2>2
  <2> HIDE DEF b
  <2> QED BY <2>3, <2>4, KeyStep
<1>4. CASE Dismiss
  <2> DEFINE left == IF app.mode = "docker" THEN {} ELSE app.frozenDocker
             b == [app EXCEPT !.mode = "list", !.frozenDocker = left]
  <2>1. Act(b)
    BY <1>4 DEF Dismiss
  <2>2. left = {} /\ "list" \in Mode
    BY <1>0 DEF Left, Mode
  <2> HIDE DEF left
  <2>3. b \in Apps /\ Left(b)
    BY <1>0, <2>2 DEF Apps, Left
  <2> HIDE DEF b
  <2> QED BY <2>1, <2>3, ActStep
<1>5. CASE ClickOutside
  <2> DEFINE b == [app EXCEPT !.mode = "list", !.frozenDocker = {}]
  <2>1. Act(b)
    BY <1>5 DEF ClickOutside
  <2>2. "list" \in Mode
    BY DEF Mode
  <2>3. b \in Apps /\ Left(b)
    BY <1>0, <2>2 DEF Apps, Left
  <2> HIDE DEF b
  <2> QED BY <2>1, <2>3, ActStep
<1>6. CASE ConfirmKill
  <2> DEFINE b == [Listing(app) EXCEPT !.frozen = {}]
             e == [by |-> "kill", of |-> app.frozen]
  <2>1. app.mode = "kill" /\ Key(b, e)
    BY <1>6 DEF ConfirmKill
  <2>2. "list" \in Mode /\ app.frozenDocker = {} /\ drawn = app.frozen
    BY <1>0, <2>1 DEF Mode, Left, Named
  <2>3. b \in Apps /\ Left(b)
    BY <1>0, <2>2 DEF Apps, Left, Listing
  <2>4. e.by \in {"kill", "remove"} => e.of \subseteq drawn
    BY <2>2
  <2> HIDE DEF b, e
  <2> QED BY <2>1, <2>3, <2>4, KeyStep
<1>7. CASE ConfirmRemove
  <2>1. app.mode = "docker"
    BY <1>7 DEF ConfirmRemove
  <2>2. PICK targets \in {app.frozenDocker \ Persistent, app.frozenDocker \cap Persistent} :
          Key(IF targets = {} THEN app ELSE [Listing(app) EXCEPT !.frozenDocker = {}],
              [by |-> "remove", of |-> targets])
    BY <1>7 DEF ConfirmRemove
  <2> DEFINE b == IF targets = {} THEN app ELSE [Listing(app) EXCEPT !.frozenDocker = {}]
             e == [by |-> "remove", of |-> targets]
  <2>3. Key(b, e)
    BY <2>2
  <2>4. "list" \in Mode /\ targets \subseteq drawn
    BY <1>0, <2>1 DEF Mode, Named
  <2>5. b \in Apps /\ Left(b)
    BY <1>0, <2>4 DEF Apps, Left, Listing
  <2>6. e.by \in {"kill", "remove"} => e.of \subseteq drawn
    BY <2>4
  <2> HIDE DEF b, e
  <2> QED BY <2>3, <2>5, <2>6, KeyStep
<1>8. CASE ConfirmPrune
  <2> DEFINE b == [app EXCEPT !.mode = "list"]
             e == [by |-> "prune", of |-> Prunable \cap snapshot]
  <2>1. app.mode = "prune" /\ Key(b, e)
    BY <1>8 DEF ConfirmPrune
  <2>2. "list" \in Mode /\ app.frozenDocker = {}
    BY <1>0, <2>1 DEF Mode, Left
  <2>3. b \in Apps /\ Left(b)
    BY <1>0, <2>2 DEF Apps, Left
  <2>4. e.by \notin {"kill", "remove"}
    OBVIOUS
  <2> HIDE DEF b, e
  <2> QED BY <2>1, <2>3, <2>4, KeyStep
<1> QED BY <1>1, <1>2, <1>3, <1>4, <1>5, <1>6, <1>7, <1>8

\* All steps.
LEMMA TermStep ==
  ASSUME TermInv, [TermNext]_termVars PROVE Stepped
<1>0. app \in Apps /\ Left(app) /\ drawn = Named(app)
  BY DEF TermInv
<1>1. CASE Frame
  <2>1. /\ app' = Clamped(app) /\ Draw(app') /\ turn' = "event"
        /\ snapshot' = snapshot /\ scans' = scans /\ keys' = keys
    BY <1>1 DEF Frame
  <2>2. app' \in Apps /\ Left(app')
    BY <1>0, <2>1, ClampedIs DEF Alike, Left
  <2>3. drawn' = Named(app')
    BY <2>1 DEF Draw, Named
  <2> QED BY <2>1, <2>2, <2>3 DEF TermInv, Stepped, WordKept, Named, Left
<1>2. CASE Scan
  <2>1. scans' \in 0 .. MaxScans
    BY <1>2, TerminalAssumption DEF Scan, TermInv
  <2> QED BY <1>2, <2>1 DEF Scan, TermInv, Stepped, WordKept, Named, Left
<1>3. CASE UNCHANGED termVars
  BY <1>3 DEF termVars, TermInv, Stepped, WordKept, Named, Left
<1> QED BY <1>1, <1>2, <1>3, BrowsingSteps, PopupSteps DEF TermNext

\* At the start no popup is open.
LEMMA TermStart == TermInit => TermInv
<1> SUFFICES ASSUME TermInit PROVE TermInv
  OBVIOUS
<1>1. NewApp \in Apps /\ Left(NewApp) /\ Named(NewApp) = {}
  BY DEF NewApp, Apps, Left, Named, Mode, Section
<1> QED BY <1>1, TerminalAssumption DEF TermInit, TermInv

\* What the invariant says of the types, and of the frozen containers.
LEMMA TermInvSays == TermInv => TermTypeOK /\ NothingLeftOver
BY DEF TermInv, TermTypeOK, Apps, Left, NothingLeftOver

\* A popup acts on what it named when it was drawn, and leaves nothing for the next.
THEOREM PopupsAlwaysKeepTheirWord == TermSpec => PopupsKeepTheirWord
<1>1. TermSpec => []TermInv
  BY TermStart, TermStep, PTL DEF TermSpec, Stepped
<1>2. TermInv /\ [TermNext]_termVars =>
        [keys' # keys /\ done'.by \in {"kill", "remove"} => done'.of \subseteq drawn]_termVars
  BY TermStep DEF Stepped, WordKept
<1> QED
  BY <1>1, <1>2, TermInvSays, PTL DEF TermSpec, PopupsKeepTheirWord, ActsOnWhatWasShown

-----------------------------------------------------------------------------
(* The run list of the terminal.                                           *)

NotBehind(detail, list) == detail.id # NoId => detail.revision >= list[detail.id]

FeedRecord == [unread : BOOLEAN, list : Revisions, detail : Details, focus : Shown \cup {NoId},
               dirty : BOOLEAN, stop : BOOLEAN]
Loader == [at : {"opening", "focus", "list", "detail", "publish", "check", "waiting", "woken", "ended",
                 "failed"},
           focus : Shown \cup {NoId}, list : Revisions, detail : Details, error : BOOLEAN]
Screen == [list : Revisions, detail : Details, opened : Shown \cup {NoId}, clearing : BOOLEAN]

\* A revision counts changes; what is read of the store is never ahead of it, the list that
\* was read first never ahead of the detail; and a run that the thread does not know to be in
\* focus is one it is about to be told of.
FeedInv ==
  /\ stored \in Revisions /\ changes \in 0 .. MaxChanges /\ presses \in 0 .. MaxPresses
  /\ feed \in FeedRecord /\ loader \in Loader /\ screen \in Screen
  /\ ui \in {"keys", "dirty", "notify", "clear", "stop", "notify stop", "join", "gone"}
  /\ \A r \in Shown : stored[r] <= changes
  /\ loader.at = "detail" => \A r \in Shown : loader.list[r] <= stored[r]
  /\ loader.at = "publish" => NotBehind(loader.detail, loader.list)
  /\ NotBehind(feed.detail, feed.list) /\ NotBehind(screen.detail, screen.list)
  /\ loader.at \in {"list", "detail", "publish", "check", "waiting"} /\ feed.focus # loader.focus
       => ui = "dirty" \/ feed.dirty
  /\ loader.at = "waiting" /\ feed.dirty => ui = "notify"
  /\ loader.at = "waiting" /\ feed.stop => ui = "notify stop"

\* At the start nothing is published and nothing read.
LEMMA FeedStart == FeedInit => FeedInv
<1> SUFFICES ASSUME FeedInit PROVE FeedInv
  OBVIOUS
<1>1. MaxChanges \in Nat /\ MaxPresses \in Nat /\ NoId \notin Shown
  BY FeedAssumption
<1>2. [r \in Shown |-> 0] \in Revisions /\ NoDetail \in Details /\ NoDetail.id = NoId
  BY <1>1 DEF Revisions, Details, NoDetail
<1> QED BY <1>1, <1>2 DEF FeedInit, FeedInv, FeedRecord, Loader, Screen, NotBehind

\* What Load leaves of the thread.
LEMMA LoadIs ==
  ASSUME loader \in Loader
  PROVE  /\ \A at : Load([at |-> at]) => loader' = [loader EXCEPT !.at = at]
         /\ \A at, x : Load([at |-> at, focus |-> x, error |-> FALSE])
                        => loader' = [loader EXCEPT !.at = at, !.focus = x, !.error = FALSE]
         /\ \A at, x : Load([at |-> at, list |-> x]) => loader' = [loader EXCEPT !.at = at, !.list = x]
         /\ \A at, x : Load([at |-> at, detail |-> x]) => loader' = [loader EXCEPT !.at = at, !.detail = x]
         /\ \A at, x : Load([at |-> at, detail |-> x, error |-> TRUE])
                        => loader' = [loader EXCEPT !.at = at, !.detail = x, !.error = TRUE]
<1>1. \A at : Load([at |-> at]) => loader' = [loader EXCEPT !.at = at]
  BY DEF Load, Loader
<1>2. \A at, x : Load([at |-> at, focus |-> x, error |-> FALSE])
                  => loader' = [loader EXCEPT !.at = at, !.focus = x, !.error = FALSE]
  BY DEF Load, Loader
<1>3. \A at, x : Load([at |-> at, list |-> x]) => loader' = [loader EXCEPT !.at = at, !.list = x]
  BY DEF Load, Loader
<1>4. \A at, x : Load([at |-> at, detail |-> x])
                  => loader' = [loader EXCEPT !.at = at, !.detail = x]
  BY DEF Load, Loader
<1>5. \A at, x : Load([at |-> at, detail |-> x, error |-> TRUE])
                  => loader' = [loader EXCEPT !.at = at, !.detail = x, !.error = TRUE]
  BY DEF Load, Loader
<1> QED BY <1>1, <1>2, <1>3, <1>4, <1>5

\* Both threads and the store keep it.
LEMMA FeedStep == FeedInv /\ [FeedNext]_feedVars => FeedInv'
<1> SUFFICES ASSUME FeedInv, [FeedNext]_feedVars PROVE FeedInv'
  OBVIOUS
<1>a. MaxChanges \in Nat /\ MaxPresses \in Nat /\ NoId \notin Shown
  BY FeedAssumption
<1>b. /\ loader \in Loader
      /\ \A at : Load([at |-> at]) => loader' = [loader EXCEPT !.at = at]
      /\ \A at, x : Load([at |-> at, focus |-> x, error |-> FALSE])
                        => loader' = [loader EXCEPT !.at = at, !.focus = x, !.error = FALSE]
      /\ \A at, x : Load([at |-> at, list |-> x]) => loader' = [loader EXCEPT !.at = at, !.list = x]
      /\ \A at, x : Load([at |-> at, detail |-> x]) => loader' = [loader EXCEPT !.at = at, !.detail = x]
      /\ \A at, x : Load([at |-> at, detail |-> x, error |-> TRUE])
                        => loader' = [loader EXCEPT !.at = at, !.detail = x, !.error = TRUE]
  BY LoadIs DEF FeedInv
<1>c. /\ \A f \in Revisions, r \in Shown : f[r] \in Nat /\ f[r] <= MaxChanges
      /\ stored \in Revisions /\ loader.list \in Revisions /\ changes \in Nat /\ presses \in Nat
      /\ \A r \in Shown : stored[r] <= changes
  <2>1. ASSUME NEW f \in Revisions, NEW r \in Shown PROVE f[r] \in Nat /\ f[r] <= MaxChanges
    <3>1. f[r] \in 0 .. MaxChanges
      BY DEF Revisions
    <3> QED BY <1>a, <3>1
  <2>2. changes \in Nat /\ presses \in Nat
    <3>1. changes \in 0 .. MaxChanges /\ presses \in 0 .. MaxPresses
      BY DEF FeedInv
    <3> QED BY <1>a, <3>1
  <2>3. loader.list \in Revisions
    BY DEF FeedInv, Loader
  <2> QED BY <2>1, <2>2, <2>3 DEF FeedInv
<1>1. CASE RunChanges
  <2>1. PICK r \in Shown : stored' = [stored EXCEPT ![r] = @ + 1]
    BY <1>1 DEF RunChanges
  <2>2. stored \in [Shown -> 0 .. MaxChanges] /\ changes < MaxChanges /\ changes' = changes + 1
    BY <1>1, <1>c DEF RunChanges, Revisions
  <2>3. ASSUME NEW q \in Shown
        PROVE  stored'[q] \in 0 .. MaxChanges /\ stored'[q] <= changes' /\ stored[q] <= stored'[q]
    <3>1. stored[q] \in Nat /\ stored[q] <= changes /\ changes \in Nat
      BY <1>c
    <3>2. stored'[q] = stored[q] \/ stored'[q] = stored[q] + 1
      BY <2>1, <2>2
    <3> QED BY <1>a, <2>2, <3>1, <3>2
  <2>4. stored' \in Revisions
    BY <2>1, <2>2, <2>3 DEF Revisions
  <2>5. changes' \in 0 .. MaxChanges
    <3>1. changes \in Nat
      BY <1>c
    <3> QED BY <1>a, <2>2, <3>1
  <2>6. ASSUME loader.at = "detail", NEW q \in Shown PROVE loader.list[q] <= stored'[q]
    <3>1. loader.list[q] \in Nat /\ stored[q] \in Nat /\ loader.list[q] <= stored[q]
      BY <1>c, <2>6 DEF FeedInv
    <3>2. stored'[q] \in Nat /\ stored[q] <= stored'[q]
      BY <1>a, <2>3
    <3> QED BY <3>1, <3>2
  <2> QED BY <1>1, <2>3, <2>4, <2>5, <2>6 DEF RunChanges, FeedInv
<1>2. CASE OpenStore
  <2>1. \/ loader' = [loader EXCEPT !.at = "focus"] /\ feed' = feed
        \/ loader' = [loader EXCEPT !.at = "failed"] /\ feed' = [feed EXCEPT !.unread = TRUE]
    BY <1>2, <1>b DEF OpenStore
  <2>2. UNCHANGED <<stored, changes, screen, ui, presses>>
    BY <1>2 DEF OpenStore
  <2>3. /\ loader' \in Loader /\ loader'.at \in {"focus", "failed"}
        /\ feed' \in FeedRecord /\ feed'.detail = feed.detail /\ feed'.list = feed.list
    <3>1. CASE loader' = [loader EXCEPT !.at = "focus"] /\ feed' = feed
      BY <3>1 DEF FeedInv, Loader
    <3>2. CASE loader' = [loader EXCEPT !.at = "failed"] /\ feed' = [feed EXCEPT !.unread = TRUE]
      <4>1. loader' \in Loader /\ loader'.at = "failed"
        BY <3>2 DEF FeedInv, Loader
      <4>2. feed' \in FeedRecord /\ feed'.detail = feed.detail /\ feed'.list = feed.list
        BY <3>2 DEF FeedInv, FeedRecord
      <4> QED BY <4>1, <4>2
    <3> QED BY <2>1, <3>1, <3>2
  <2> QED BY <2>2, <2>3 DEF FeedInv, NotBehind
<1>3. CASE ReadFocus
  <2>1. loader' = [loader EXCEPT !.at = "list", !.focus = feed.focus, !.error = FALSE]
    BY <1>3, <1>b DEF ReadFocus
  <2>2. loader' \in Loader /\ loader'.at = "list" /\ loader'.focus = feed.focus
    BY <2>1 DEF FeedInv, Loader, FeedRecord
  <2>3. UNCHANGED <<stored, changes, feed, screen, ui, presses>>
    BY <1>3 DEF ReadFocus
  <2> QED BY <2>2, <2>3 DEF FeedInv, NotBehind
<1>4. CASE LoadList
  <2>1. PICK list \in {stored, [r \in Shown |-> 0]} : loader' = [loader EXCEPT !.at = "detail", !.list = list]
    BY <1>4, <1>b DEF LoadList
  <2>2. list \in Revisions /\ \A r \in Shown : list[r] <= stored[r]
    <3>1. stored \in Revisions /\ \A r \in Shown : stored[r] \in Nat
      BY <1>c
    <3>2. [r \in Shown |-> 0] \in Revisions
      BY <1>a DEF Revisions
    <3> QED BY <3>1, <3>2
  <2>3. loader' \in Loader /\ loader'.at = "detail" /\ loader'.list = list /\ loader'.focus = loader.focus
    BY <1>b, <2>1, <2>2 DEF FeedInv, Loader
  <2> QED BY <1>4, <2>2, <2>3 DEF LoadList, FeedInv, NotBehind
<1>5. CASE LoadDetail
  <2>1. PICK d \in {DetailOf(loader.focus), NoDetail}, e \in BOOLEAN :
          loader' = [loader EXCEPT !.at = "publish", !.detail = d, !.error = e]
    <3>1. CASE Load([at |-> "publish", detail |-> DetailOf(loader.focus)])
      <4>1. loader' = [loader EXCEPT !.at = "publish", !.detail = DetailOf(loader.focus)]
        BY <1>b, <3>1
      <4>2. loader' = [loader EXCEPT !.at = "publish", !.detail = DetailOf(loader.focus), !.error = loader.error]
        BY <1>b, <4>1 DEF Loader
      <4>3. loader.error \in BOOLEAN
        BY <1>b DEF Loader
      <4> QED BY <4>2, <4>3
    <3>2. CASE Load([at |-> "publish", detail |-> NoDetail, error |-> TRUE])
      <4>1. loader' = [loader EXCEPT !.at = "publish", !.detail = NoDetail, !.error = TRUE]
        BY <1>b, <3>2
      <4> QED BY <4>1
    <3> QED BY <1>5, <3>1, <3>2 DEF LoadDetail
  <2>2. d \in Details
    <3>1. loader.focus \in Shown \cup {NoId} /\ stored \in [Shown -> 0 .. MaxChanges] /\ 0 \in 0 .. MaxChanges
      <4>1. stored \in Revisions
        BY <1>c
      <4>2. loader.focus \in Shown \cup {NoId}
        BY <1>b DEF Loader
      <4> QED BY <1>a, <4>1, <4>2 DEF Revisions
    <3> QED BY <3>1 DEF DetailOf, Details, NoDetail
  <2>3. NotBehind(d, loader.list)
    <3>1. CASE d = NoDetail
      BY <3>1 DEF NotBehind, NoDetail
    <3>2. CASE d # NoDetail
      <4>1. loader.focus \in Shown /\ loader.at = "detail"
        BY <1>5, <1>b, <3>2 DEF Loader, LoadDetail, DetailOf
      <4>2. loader.list[loader.focus] <= stored[loader.focus]
        BY <4>1 DEF FeedInv
      <4>3. stored[loader.focus] \in Nat /\ loader.list[loader.focus] \in Nat
        BY <1>c, <4>1
      <4>4. d.id = loader.focus /\ d.revision = stored[loader.focus]
        BY <3>2 DEF DetailOf
      <4> QED BY <4>2, <4>3, <4>4 DEF NotBehind
    <3> QED BY <3>1, <3>2
  <2>4. /\ loader' \in Loader /\ loader'.at = "publish" /\ loader'.list = loader.list /\ loader'.detail = d
        /\ loader'.focus = loader.focus
    BY <1>b, <2>1, <2>2 DEF Loader
  <2> QED BY <1>5, <2>3, <2>4 DEF LoadDetail, FeedInv, NotBehind
<1>6. CASE PublishFeed
  <2>1. loader' = [loader EXCEPT !.at = "check"]
    BY <1>6, <1>b DEF PublishFeed
  <2>2. loader' \in Loader /\ loader'.at = "check" /\ loader'.focus = loader.focus
    BY <2>1 DEF FeedInv, Loader
  <2>3. /\ feed' \in FeedRecord /\ feed'.list = loader.list /\ feed'.detail = loader.detail
        /\ feed'.focus = feed.focus /\ feed'.dirty = feed.dirty /\ feed'.stop = feed.stop
    BY <1>6 DEF PublishFeed, FeedInv, Loader, FeedRecord
  <2>4. loader.at = "publish" /\ UNCHANGED <<stored, changes, screen, ui, presses>>
    BY <1>6 DEF PublishFeed
  <2> QED BY <2>2, <2>3, <2>4 DEF FeedInv, NotBehind
<1>7. CASE CheckAsked
  <2>1. CASE feed.stop
    <3>1. loader' = [loader EXCEPT !.at = "ended"]
      BY <1>7, <1>b, <2>1 DEF CheckAsked
    <3>2. loader' \in Loader /\ loader'.at = "ended"
      BY <3>1 DEF FeedInv, Loader
    <3>3. UNCHANGED <<stored, changes, feed, screen, ui, presses>>
      BY <1>7, <2>1 DEF CheckAsked
    <3> QED BY <3>2, <3>3 DEF FeedInv, NotBehind
  <2>2. CASE ~feed.stop /\ feed.dirty
    <3>1. loader' = [loader EXCEPT !.at = "focus"]
      BY <1>7, <1>b, <2>2 DEF CheckAsked
    <3>2. loader' \in Loader /\ loader'.at = "focus"
      BY <3>1 DEF FeedInv, Loader
    <3>3. feed' \in FeedRecord /\ feed'.detail = feed.detail /\ feed'.list = feed.list
      BY <1>7, <2>2 DEF CheckAsked, FeedInv, FeedRecord
    <3>4. UNCHANGED <<stored, changes, screen, ui, presses>>
      BY <1>7 DEF CheckAsked
    <3> QED BY <3>2, <3>3, <3>4 DEF FeedInv, NotBehind
  <2>3. CASE ~feed.stop /\ ~feed.dirty
    <3>1. loader' = [loader EXCEPT !.at = "waiting"]
      BY <1>7, <1>b, <2>3 DEF CheckAsked
    <3>2. loader' \in Loader /\ loader'.at = "waiting" /\ loader'.focus = loader.focus
      BY <3>1 DEF FeedInv, Loader
    <3>3. loader.at = "check" /\ UNCHANGED <<stored, changes, feed, screen, ui, presses>>
      BY <1>7, <2>3 DEF CheckAsked
    <3> QED BY <2>3, <3>2, <3>3 DEF FeedInv, NotBehind
  <2> QED BY <2>1, <2>2, <2>3
<1>8. CASE WakeUp
  <2>1. \E at \in {"ended", "focus"} : loader' = [loader EXCEPT !.at = at]
    BY <1>8, <1>b DEF WakeUp
  <2>2. loader' \in Loader /\ loader'.at \in {"ended", "focus"}
    BY <2>1 DEF FeedInv, Loader
  <2>3. feed' \in FeedRecord /\ feed'.detail = feed.detail /\ feed'.list = feed.list
    BY <1>8 DEF WakeUp, FeedInv, FeedRecord
  <2>4. UNCHANGED <<stored, changes, screen, ui, presses>>
    BY <1>8 DEF WakeUp
  <2> QED BY <2>2, <2>3, <2>4 DEF FeedInv, NotBehind
<1>9. CASE RefreshDue
  <2>1. loader' = [loader EXCEPT !.at = "woken"]
    BY <1>9, <1>b DEF RefreshDue
  <2>2. loader' \in Loader /\ loader'.at = "woken"
    BY <2>1 DEF FeedInv, Loader
  <2>3. UNCHANGED <<stored, changes, feed, screen, ui, presses>>
    BY <1>9 DEF RefreshDue
  <2> QED BY <2>2, <2>3 DEF FeedInv, NotBehind
<1>10. CASE SyncRuns
  <2>1. screen' \in Screen /\ screen'.list = feed.list /\ screen'.detail = feed.detail
    BY <1>10 DEF SyncRuns, FeedInv, Screen, FeedRecord
  <2>2. /\ feed' \in FeedRecord /\ feed'.list = feed.list /\ feed'.detail = feed.detail
        /\ feed'.focus = feed.focus /\ feed'.dirty = feed.dirty /\ feed'.stop = feed.stop
    BY <1>10 DEF SyncRuns, FeedInv, FeedRecord
  <2>3. UNCHANGED <<stored, changes, loader, ui, presses>>
    BY <1>10 DEF SyncRuns
  <2> QED BY <2>1, <2>2, <2>3 DEF FeedInv, NotBehind
<1>11. CASE FocusRun
  <2>1. presses' \in 0 .. MaxPresses
    BY <1>a, <1>11 DEF FocusRun, Press, FeedInv
  <2>2. PICK r \in Shown : /\ feed' = [feed EXCEPT !.focus = r]
                          /\ screen' = [screen EXCEPT !.opened = r, !.clearing = TRUE]
    BY <1>11 DEF FocusRun
  <2>3. screen' \in Screen /\ screen'.list = screen.list /\ screen'.detail = screen.detail
    BY <2>2 DEF FeedInv, Screen
  <2>4. /\ feed' \in FeedRecord /\ feed'.list = feed.list /\ feed'.detail = feed.detail
        /\ feed'.dirty = feed.dirty /\ feed'.stop = feed.stop
    BY <2>2 DEF FeedInv, FeedRecord
  <2>5. ui = "keys" /\ ui' = "dirty" /\ UNCHANGED <<stored, changes, loader>>
    BY <1>11 DEF FocusRun
  <2> QED BY <2>1, <2>3, <2>4, <2>5 DEF FeedInv, NotBehind
<1>12. CASE RefreshKey
  <2>1. presses' \in 0 .. MaxPresses
    BY <1>a, <1>12 DEF RefreshKey, Press, FeedInv
  <2> QED BY <1>12, <2>1 DEF RefreshKey, FeedInv
<1>13. CASE SetDirty
  <2>1. /\ feed' \in FeedRecord /\ feed'.list = feed.list /\ feed'.detail = feed.detail
        /\ feed'.focus = feed.focus /\ feed'.dirty /\ feed'.stop = feed.stop
    BY <1>13 DEF SetDirty, FeedInv, FeedRecord
  <2>2. ui = "dirty" /\ ui' = "notify" /\ UNCHANGED <<stored, changes, loader, screen, presses>>
    BY <1>13 DEF SetDirty
  <2> QED BY <2>1, <2>2 DEF FeedInv, NotBehind
<1>14. CASE NotifyFeed
  <2>1. loader' = [loader EXCEPT !.at = IF loader.at = "waiting" THEN "woken" ELSE loader.at]
    BY <1>14, <1>b DEF NotifyFeed
  <2>2. /\ loader' \in Loader /\ loader'.list = loader.list /\ loader'.detail = loader.detail
        /\ loader'.focus = loader.focus
        /\ loader'.at = IF loader.at = "waiting" THEN "woken" ELSE loader.at
    BY <2>1 DEF FeedInv, Loader
  <2>3. /\ UNCHANGED <<stored, changes, feed, screen, presses>> /\ ui # "dirty"
        /\ ui' \in {"clear", "keys", "join"}
    BY <1>14 DEF NotifyFeed
  <2> QED BY <2>2, <2>3 DEF FeedInv, NotBehind
<1>15. CASE ClearDetail
  <2>1. NoDetail \in Details /\ NoDetail.id = NoId
    BY <1>a DEF NoDetail, Details
  <2> QED BY <1>15, <2>1 DEF ClearDetail, FeedInv, Screen, NotBehind
<1>16. CASE QuitKey
  BY <1>16 DEF QuitKey, FeedInv
<1>17. CASE SetStop
  BY <1>17 DEF SetStop, FeedInv, FeedRecord, NotBehind
<1>18. CASE JoinFeed
  BY <1>18 DEF JoinFeed, FeedInv
<1>19. CASE UNCHANGED feedVars
  BY <1>19 DEF feedVars, FeedInv
<1> QED BY <1>1, <1>2, <1>3, <1>4, <1>5, <1>6, <1>7, <1>8, <1>9, <1>10, <1>11, <1>12, <1>13, <1>14, <1>15,
           <1>16, <1>17, <1>18, <1>19 DEF FeedNext, LoadFeed, TurnLoop

\* Between any reads of the store and any keys, the popup of a run is no older than the list
\* it was opened from, and the thread never waits with a wake-up on its way to nobody
\* (run_feed, wake_feed, sync_runs).
THEOREM FeedAlwaysHolds == FeedSpec => [](FeedTypeOK /\ DetailNotBehind /\ NoWakeUpLost)
<1>1. FeedInv => FeedTypeOK /\ DetailNotBehind /\ NoWakeUpLost
  BY FeedAssumption DEF FeedInv, FeedTypeOK, DetailNotBehind, NoWakeUpLost, FeedRecord, Loader,
     Screen, NotBehind
<1> QED BY <1>1, FeedStart, FeedStep, PTL DEF FeedSpec

=============================================================================
