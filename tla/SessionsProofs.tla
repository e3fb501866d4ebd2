----------------------------- MODULE SessionsProofs -------------------------
(***************************************************************************)
(* Proofs about module Sessions, for any processes, collectors, retention  *)
(* and bound on the clock: the tables of the ownership store agree with    *)
(* each other and with the descent of the processes (TablesHold), and what *)
(* was recorded of a survivor and of an ended session stands               *)
(* (HistoryStands).                                                        *)
(*                                                                         *)
(* The functions of a scan and Ancestors are recursive along Parent. That  *)
(* they obey their equations, and so say something, is proved from an      *)
(* order in which parents come first (ParentsFirst), which the start times *)
(* of processes are.                                                       *)
(*                                                                         *)
(* Rows lead to rows and to ancestors because apply_ownership writes both  *)
(* ends from one scan. The other parts are there for gc: it decides by a   *)
(* scan that is older than the tables it deletes from, so that a process   *)
(* its scan missed has to be protected by the age of its session alone     *)
(* (UnseenIsFresh), which needs that nobody is recorded before it runs     *)
(* (BornFirst) and that no tick falls into a first pass (Tick).            *)
(***************************************************************************)
EXTENDS Sessions, FiniteSetTheorems, Recursion, TLAPS

-----------------------------------------------------------------------------
(* Descent, and what one scan says                                         *)

\* Processes can be ordered so that each comes after its parent.
Ordered(rank) ==
  rank \in [Proc -> Nat] /\ \A p \in Proc : Parent[p] # Nobody => rank[Parent[p]] < rank[p]

\* Ancestors obeys its equation.
LEMMA AncestorsUnfold ==
  ASSUME NEW rank, Ordered(rank)
  PROVE  /\ Ancestors \in [Proc -> SUBSET Proc]
         /\ \A p \in Proc :
              Ancestors[p] = IF Parent[p] = Nobody THEN {} ELSE {Parent[p]} \cup Ancestors[Parent[p]]
<1> USE SessionConstants
<1> DEFINE G(f) == f = [p \in Proc |-> IF Parent[p] = Nobody THEN {}
                                       ELSE {Parent[p]} \cup f[Parent[p]]]
           step == [p \in Proc |-> [X \in SUBSET Proc |->
                      IF Parent[p] = Nobody THEN {} ELSE {Parent[p]} \cup X]]
           base == [p \in Proc |-> {}]
<1>1. PICK f \in [Proc -> SUBSET Proc] :
        \A p \in Proc : f[p] = IF Parent[p] = Nobody THEN base[p] ELSE step[p][f[Parent[p]]]
  <2>1. step \in [Proc -> [SUBSET Proc -> SUBSET Proc]]
    OBVIOUS
  <2>2. base \in [Proc -> SUBSET Proc]
    OBVIOUS
  <2>3. /\ Nobody \notin Proc /\ rank \in [Proc -> Nat] /\ Parent \in [Proc -> Proc \cup {Nobody}]
        /\ \A p \in Proc : Parent[p] # Nobody => rank[Parent[p]] < rank[p]
    BY DEF Ordered
  <2> HIDE DEF step, base
  <2>4. Links(Proc, Nobody, rank, Parent, SUBSET Proc, base, step)
    BY <2>1, <2>2, <2>3 DEF Links
  <2>5. \E f : Follows(f, Proc, Nobody, Parent, SUBSET Proc, base, step)
    BY <2>4, TreeRecursion
  <2>6. QED
    BY <2>5 DEF Follows
<1>2. G(f)
  <2>1. \A p \in Proc : Parent[p] # Nobody => f[Parent[p]] \in SUBSET Proc
    OBVIOUS
  <2>2. \A p \in Proc : f[p] = IF Parent[p] = Nobody THEN {} ELSE {Parent[p]} \cup f[Parent[p]]
    BY <1>1, <2>1
  <2> HIDE DEF step, base
  <2>3. QED
    BY <2>2
<1> HIDE DEF step, base
<1> DEFINE F == CHOOSE g : G(g)
<1>3. Ancestors = F
  BY DEF Ancestors
<1> HIDE DEF G
<1>4. G(F)
  BY <1>2
<1> HIDE DEF F
<1>5. F = [p \in Proc |-> IF Parent[p] = Nobody THEN {} ELSE {Parent[p]} \cup F[Parent[p]]]
  BY <1>4 DEF G
<1>6. \A p \in Proc : F[p] = IF Parent[p] = Nobody THEN {} ELSE {Parent[p]} \cup F[Parent[p]]
  BY <1>5
<1>7. Proc \subseteq {p \in Proc : F[p] \subseteq Proc}
  <2> DEFINE T == {x \in Proc : F[x] \subseteq Proc}
  <2>1. \A p \in Proc : (\A q \in Proc : rank[q] < rank[p] => q \in T) => p \in T
    <3> SUFFICES ASSUME NEW p \in Proc, \A q \in Proc : rank[q] < rank[p] => q \in T
                 PROVE  F[p] \subseteq Proc
      OBVIOUS
    <3>1. CASE Parent[p] = Nobody
      BY <1>6, <3>1
    <3>2. CASE Parent[p] # Nobody
      <4>1. Parent[p] \in Proc /\ rank[Parent[p]] < rank[p]
        BY <3>2 DEF Ordered
      <4>2. F[Parent[p]] \subseteq Proc
        BY <4>1
      <4>3. QED
        BY <1>6, <3>2, <4>1, <4>2
    <3>3. QED
      BY <3>1, <3>2
  <2> HIDE DEF T
  <2>2. Proc \subseteq T
    BY <2>1, RankInduction DEF Ordered
  <2>3. QED
    BY <2>2 DEF T
<1>8. F \in [Proc -> SUBSET Proc]
  BY <1>5, <1>7
<1>9. QED
  BY <1>3, <1>6, <1>8

\* Ancestors of an ancestor are ancestors, and come earlier in the order.
LEMMA AncestorsClosed ==
  ASSUME NEW rank, Ordered(rank)
  PROVE  \A p \in Proc : \A q \in Ancestors[p] :
           q \in Proc /\ rank[q] < rank[p] /\ Ancestors[q] \subseteq Ancestors[p]
<1> USE SessionConstants, AncestorsUnfold
<1> DEFINE T == {p \in Proc : \A q \in Ancestors[p] :
                    q \in Proc /\ rank[q] < rank[p] /\ Ancestors[q] \subseteq Ancestors[p]}
<1>1. \A p \in Proc : (\A q \in Proc : rank[q] < rank[p] => q \in T) => p \in T
  <2> SUFFICES ASSUME NEW p \in Proc, \A q \in Proc : rank[q] < rank[p] => q \in T,
                      NEW q \in Ancestors[p]
               PROVE  q \in Proc /\ rank[q] < rank[p] /\ Ancestors[q] \subseteq Ancestors[p]
    OBVIOUS
  <2> DEFINE u == Parent[p]
  <2>1. /\ u \in Proc /\ rank[u] < rank[p] /\ rank[u] \in Nat /\ rank[p] \in Nat
        /\ Ancestors[p] = {u} \cup Ancestors[u]
    BY DEF Ordered
  <2>2. u \in T
    BY <2>1
  <2>3. CASE q = u
    BY <2>1, <2>3
  <2>4. CASE q \in Ancestors[u]
    <3>1. q \in Proc /\ rank[q] < rank[u] /\ Ancestors[q] \subseteq Ancestors[u] /\ rank[q] \in Nat
      BY <2>2, <2>4 DEF Ordered
    <3>2. QED
      BY <2>1, <3>1
  <2>5. QED
    BY <2>1, <2>3, <2>4
<1> HIDE DEF T
<1>2. Proc \subseteq T
  BY <1>1, RankInduction DEF Ordered
<1>3. QED
  BY <1>2 DEF T

\* What the walks of one scan yield: the item above, if any, is a seen item among the
\* ancestors.
LEMMA AboveIs ==
  ASSUME NEW rank, Ordered(rank), NEW seen \in SUBSET Proc
  PROVE  \A p \in Proc :
           \/ ItemAbove(seen)[p] = Nobody
           \/ ItemAbove(seen)[p] \in {q \in seen : IsItem(q)} \cap Ancestors[p]
<1> USE SessionConstants
<1> DEFINE G(f) == f = [p \in Proc |->
                          IF Parent[p] \notin seen THEN Nobody
                          ELSE IF IsItem(Parent[p]) THEN Parent[p] ELSE f[Parent[p]]]
           V == Proc \cup {Nobody}
           up == [p \in Proc |-> IF Parent[p] \in seen /\ ~IsItem(Parent[p]) THEN Parent[p] ELSE Nobody]
           step == [p \in Proc |-> [x \in V |-> x]]
           base == [p \in Proc |-> IF Parent[p] \in seen THEN Parent[p] ELSE Nobody]
<1>1. PICK f \in [Proc -> V] :
        \A p \in Proc : f[p] = IF up[p] = Nobody THEN base[p] ELSE step[p][f[up[p]]]
  <2>1. step \in [Proc -> [V -> V]]
    OBVIOUS
  <2>2. base \in [Proc -> V]
    OBVIOUS
  <2>3. up \in [Proc -> Proc \cup {Nobody}] /\ \A p \in Proc : up[p] # Nobody => rank[up[p]] < rank[p]
    BY DEF Ordered
  <2>4. Nobody \notin Proc /\ rank \in [Proc -> Nat]
    BY DEF Ordered
  <2> HIDE DEF step, base, up, V
  <2>5. Links(Proc, Nobody, rank, up, V, base, step)
    BY <2>1, <2>2, <2>3, <2>4 DEF Links
  <2>6. \E f : Follows(f, Proc, Nobody, up, V, base, step)
    BY <2>5, TreeRecursion
  <2>7. QED
    BY <2>6 DEF Follows
<1>2. \A p \in Proc : f[p] = IF Parent[p] \notin seen THEN Nobody
                             ELSE IF IsItem(Parent[p]) THEN Parent[p] ELSE f[Parent[p]]
  <2> TAKE p \in Proc
  <2>1. CASE up[p] = Nobody
    <3>1. f[p] = base[p]
      BY <1>1, <2>1
    <3>2. Parent[p] \notin seen \/ IsItem(Parent[p])
      BY <2>1
    <3>3. QED
      BY <3>1, <3>2
  <2>2. CASE up[p] # Nobody
    <3>1. Parent[p] \in seen /\ ~IsItem(Parent[p]) /\ up[p] = Parent[p]
      BY <2>2
    <3>2. f[up[p]] \in V /\ f[p] = step[p][f[up[p]]]
      BY <1>1, <2>2, <3>1
    <3>3. QED
      BY <3>1, <3>2
  <2>3. QED
    BY <2>1, <2>2
<1>3. G(f)
  <2> HIDE DEF V
  <2>1. QED
    BY <1>2
<1> HIDE DEF step, base, up, V
<1> DEFINE F == CHOOSE g : G(g)
<1>4. ItemAbove(seen) = F
  BY DEF ItemAbove
<1> HIDE DEF G
<1>5. G(F)
  BY <1>3
<1> HIDE DEF F
<1>6. \A p \in Proc : F[p] = IF Parent[p] \notin seen THEN Nobody
                             ELSE IF IsItem(Parent[p]) THEN Parent[p] ELSE F[Parent[p]]
  BY <1>5 DEF G
<1> DEFINE T == {p \in Proc : F[p] = Nobody \/ F[p] \in {q \in seen : IsItem(q)} \cap Ancestors[p]}
<1>7. \A p \in Proc : (\A q \in Proc : rank[q] < rank[p] => q \in T) => p \in T
  <2> SUFFICES ASSUME NEW p \in Proc, \A q \in Proc : rank[q] < rank[p] => q \in T PROVE p \in T
    OBVIOUS
  <2>1. CASE Parent[p] \notin seen
    BY <1>6, <2>1
  <2>2. CASE Parent[p] \in seen
    <3> DEFINE u == Parent[p]
    <3>1. u \in Proc /\ u # Nobody
      BY <2>2
    <3>2. rank[u] < rank[p]
      BY <3>1 DEF Ordered
    <3>3. Ancestors[p] = {u} \cup Ancestors[u]
      BY <3>1, AncestorsUnfold
    <3>4. F[p] = IF IsItem(u) THEN u ELSE F[u]
      BY <1>6, <2>2
    <3>5. u \in seen /\ u \in T
      BY <2>2, <3>1, <3>2
    <3> HIDE DEF u
    <3>6. QED
      BY <3>3, <3>4, <3>5
  <2>3. QED
    BY <2>1, <2>2
<1> HIDE DEF T
<1>8. Proc \subseteq T
  BY <1>7, RankInduction DEF Ordered
<1>9. QED
  BY <1>4, <1>8 DEF T

\* The root of a process is itself, or a seen item among its ancestors.
LEMMA RootIs ==
  ASSUME NEW rank, Ordered(rank), NEW seen \in SUBSET Proc
  PROVE  \A p \in Proc :
           \/ RootOf(seen)[p] = p
           \/ RootOf(seen)[p] \in {q \in seen : IsItem(q)} \cap Ancestors[p]
<1> USE SessionConstants
<1> DEFINE A == ItemAbove(seen)
           G(f) == f = [p \in Proc |-> IF p \in Helper /\ A[p] # Nobody THEN f[A[p]] ELSE p]
           up == [p \in Proc |-> IF p \in Helper THEN A[p] ELSE Nobody]
           step == [p \in Proc |-> [x \in Proc |-> x]]
           base == [p \in Proc |-> p]
<1>0. \A p \in Proc : A[p] = Nobody \/ A[p] \in {q \in seen : IsItem(q)} \cap Ancestors[p]
  BY AboveIs
<1>00. \A p \in Proc : A[p] # Nobody => A[p] \in Proc /\ rank[A[p]] < rank[p]
  BY <1>0, AncestorsClosed
<1> HIDE DEF A
<1>1. PICK f \in [Proc -> Proc] :
        \A p \in Proc : f[p] = IF up[p] = Nobody THEN base[p] ELSE step[p][f[up[p]]]
  <2>1. step \in [Proc -> [Proc -> Proc]]
    OBVIOUS
  <2>2. base \in [Proc -> Proc]
    OBVIOUS
  <2>3. up \in [Proc -> Proc \cup {Nobody}] /\ \A p \in Proc : up[p] # Nobody => rank[up[p]] < rank[p]
    BY <1>00
  <2>4. Nobody \notin Proc /\ rank \in [Proc -> Nat]
    BY DEF Ordered
  <2> HIDE DEF step, base, up
  <2>5. Links(Proc, Nobody, rank, up, Proc, base, step)
    BY <2>1, <2>2, <2>3, <2>4 DEF Links
  <2>6. \E f : Follows(f, Proc, Nobody, up, Proc, base, step)
    BY <2>5, TreeRecursion
  <2>7. QED
    BY <2>6 DEF Follows
<1>2. \A p \in Proc : f[p] = IF p \in Helper /\ A[p] # Nobody THEN f[A[p]] ELSE p
  <2> TAKE p \in Proc
  <2>1. CASE up[p] = Nobody
    <3>1. f[p] = base[p]
      BY <1>1, <2>1
    <3>2. ~(p \in Helper /\ A[p] # Nobody)
      BY <2>1
    <3>3. QED
      BY <3>1, <3>2
  <2>2. CASE up[p] # Nobody
    <3>1. p \in Helper /\ A[p] # Nobody /\ up[p] = A[p] /\ A[p] \in Proc
      BY <2>2, <1>00
    <3>2. f[up[p]] \in Proc /\ f[p] = step[p][f[up[p]]]
      BY <1>1, <2>2, <3>1
    <3>3. QED
      BY <3>1, <3>2
  <2>3. QED
    BY <2>1, <2>2
<1>3. G(f)
  BY <1>2
<1> HIDE DEF step, base, up
<1> DEFINE F == CHOOSE g : G(g)
<1>4. RootOf(seen) = F
  BY DEF RootOf, A
<1> HIDE DEF G
<1>5. G(F)
  BY <1>3
<1> HIDE DEF F
<1>6. \A p \in Proc : F[p] = IF p \in Helper /\ A[p] # Nobody THEN F[A[p]] ELSE p
  BY <1>5 DEF G
<1> DEFINE T == {p \in Proc : F[p] = p \/ F[p] \in {q \in seen : IsItem(q)} \cap Ancestors[p]}
<1>7. \A p \in Proc : (\A q \in Proc : rank[q] < rank[p] => q \in T) => p \in T
  <2> SUFFICES ASSUME NEW p \in Proc, \A q \in Proc : rank[q] < rank[p] => q \in T PROVE p \in T
    OBVIOUS
  <2>1. CASE ~(p \in Helper /\ A[p] # Nobody)
    BY <1>6, <2>1
  <2>2. CASE p \in Helper /\ A[p] # Nobody
    <3>1. A[p] \in T /\ A[p] \in {q \in seen : IsItem(q)} \cap Ancestors[p]
      BY <1>0, <1>00, <2>2
    <3>2. Ancestors[A[p]] \subseteq Ancestors[p]
      BY <3>1, AncestorsClosed
    <3>3. F[p] = F[A[p]]
      BY <1>6, <2>2
    <3>4. QED
      BY <3>1, <3>2, <3>3
  <2>3. QED
    BY <2>1, <2>2
<1> HIDE DEF T
<1>8. Proc \subseteq T
  BY <1>7, RankInduction DEF Ordered
<1>9. QED
  BY <1>4, <1>8 DEF T

\* The session of a process, if any, is one that the scan found, among its ancestors.
LEMMA SessionIs ==
  ASSUME NEW rank, Ordered(rank), NEW seen \in SUBSET Proc
  PROVE  \A p \in Proc :
           SessionOf(seen)[p] = Nobody \/ SessionOf(seen)[p] \in Sessions(seen) \cap Ancestors[p]
<1> USE SessionConstants
<1> DEFINE A == ItemAbove(seen)
           R == RootOf(seen)
           G(f) == f = [p \in Proc |-> IF A[R[p]] = Nobody THEN Nobody
                                       ELSE IF R[A[R[p]]] \in Agent THEN R[A[R[p]]]
                                       ELSE f[A[R[p]]]]
           V == Proc \cup {Nobody}
           up == [p \in Proc |-> IF A[R[p]] # Nobody /\ R[A[R[p]]] \notin Agent THEN A[R[p]] ELSE Nobody]
           step == [p \in Proc |-> [x \in V |-> x]]
           base == [p \in Proc |-> IF A[R[p]] = Nobody THEN Nobody ELSE R[A[R[p]]]]
<1>a. \A p \in Proc : A[p] = Nobody \/ A[p] \in {q \in seen : IsItem(q)} \cap Ancestors[p]
  BY AboveIs
<1>b. \A p \in Proc : R[p] = p \/ R[p] \in {q \in seen : IsItem(q)} \cap Ancestors[p]
  BY RootIs
<1>c. \A p \in Proc : A[R[p]] # Nobody =>
         /\ A[R[p]] \in {q \in seen : IsItem(q)} \cap Ancestors[p]
         /\ A[R[p]] \in Proc /\ rank[A[R[p]]] < rank[p]
         /\ R[A[R[p]]] \in {R[q] : q \in {x \in seen : IsItem(x)}} \cap Ancestors[p]
  <2> SUFFICES ASSUME NEW p \in Proc, A[R[p]] # Nobody
               PROVE  /\ A[R[p]] \in {q \in seen : IsItem(q)} \cap Ancestors[p]
                      /\ A[R[p]] \in Proc /\ rank[A[R[p]]] < rank[p]
                      /\ R[A[R[p]]] \in {R[q] : q \in {x \in seen : IsItem(x)}} \cap Ancestors[p]
    OBVIOUS
  <2> HIDE DEF A, R
  <2>1. R[p] \in Proc /\ (R[p] = p \/ R[p] \in Ancestors[p])
    BY <1>b
  <2>2. A[R[p]] \in {q \in seen : IsItem(q)} \cap Ancestors[R[p]]
    BY <1>a, <2>1
  <2>3. A[R[p]] \in Ancestors[p]
    BY <2>1, <2>2, AncestorsClosed
  <2>4. A[R[p]] \in Proc /\ rank[A[R[p]]] < rank[p]
    BY <2>3, AncestorsClosed
  <2>5. R[A[R[p]]] = A[R[p]] \/ R[A[R[p]]] \in Ancestors[A[R[p]]]
    BY <1>b, <2>4
  <2>6. R[A[R[p]]] \in Ancestors[p]
    BY <2>3, <2>5, AncestorsClosed
  <2>7. QED
    BY <2>2, <2>3, <2>4, <2>6
<1>d. Sessions(seen) = {R[q] : q \in {x \in seen : IsItem(x)}} \cap Agent
  BY DEF Sessions, Items
<1> HIDE DEF A, R
<1>1. PICK f \in [Proc -> V] :
        \A p \in Proc : f[p] = IF up[p] = Nobody THEN base[p] ELSE step[p][f[up[p]]]
  <2>1. step \in [Proc -> [V -> V]]
    OBVIOUS
  <2>2. base \in [Proc -> V]
    <3>1. \A p \in Proc : A[R[p]] # Nobody => R[A[R[p]]] \in Proc
      BY <1>c, AncestorsClosed
    <3>2. QED
      BY <3>1
  <2>3. up \in [Proc -> Proc \cup {Nobody}] /\ \A p \in Proc : up[p] # Nobody => rank[up[p]] < rank[p]
    BY <1>c
  <2>4. Nobody \notin Proc /\ rank \in [Proc -> Nat]
    BY DEF Ordered
  <2> HIDE DEF step, base, up, V
  <2>5. Links(Proc, Nobody, rank, up, V, base, step)
    BY <2>1, <2>2, <2>3, <2>4 DEF Links
  <2>6. \E f : Follows(f, Proc, Nobody, up, V, base, step)
    BY <2>5, TreeRecursion
  <2>7. QED
    BY <2>6 DEF Follows
<1>2. \A p \in Proc : f[p] = IF A[R[p]] = Nobody THEN Nobody
                             ELSE IF R[A[R[p]]] \in Agent THEN R[A[R[p]]] ELSE f[A[R[p]]]
  <2> TAKE p \in Proc
  <2>1. CASE up[p] = Nobody
    <3>1. f[p] = base[p]
      BY <1>1, <2>1
    <3>2. A[R[p]] = Nobody \/ R[A[R[p]]] \in Agent
      BY <2>1
    <3>3. QED
      BY <3>1, <3>2
  <2>2. CASE up[p] # Nobody
    <3>1. A[R[p]] # Nobody /\ R[A[R[p]]] \notin Agent /\ up[p] = A[R[p]] /\ A[R[p]] \in Proc
      BY <2>2, <1>c
    <3>2. f[up[p]] \in V /\ f[p] = step[p][f[up[p]]]
      BY <1>1, <2>2, <3>1
    <3>3. QED
      BY <3>1, <3>2
  <2>3. QED
    BY <2>1, <2>2
<1>3. G(f)
  <2> HIDE DEF V
  <2>1. QED
    BY <1>2
<1> HIDE DEF step, base, up, V
<1> DEFINE F == CHOOSE g : G(g)
<1>4. SessionOf(seen) = F
  BY DEF SessionOf, A, R
<1> HIDE DEF G
<1>5. G(F)
  BY <1>3
<1> HIDE DEF F
<1>6. \A p \in Proc : F[p] = IF A[R[p]] = Nobody THEN Nobody
                             ELSE IF R[A[R[p]]] \in Agent THEN R[A[R[p]]] ELSE F[A[R[p]]]
  BY <1>5 DEF G
<1> DEFINE T == {p \in Proc : F[p] = Nobody \/ F[p] \in Sessions(seen) \cap Ancestors[p]}
<1>7. \A p \in Proc : (\A q \in Proc : rank[q] < rank[p] => q \in T) => p \in T
  <2> SUFFICES ASSUME NEW p \in Proc, \A q \in Proc : rank[q] < rank[p] => q \in T PROVE p \in T
    OBVIOUS
  <2>1. CASE A[R[p]] = Nobody
    BY <1>6, <2>1
  <2>2. CASE A[R[p]] # Nobody /\ R[A[R[p]]] \in Agent
    BY <1>6, <1>c, <1>d, <2>2
  <2>3. CASE A[R[p]] # Nobody /\ R[A[R[p]]] \notin Agent
    <3>1. A[R[p]] \in T /\ F[p] = F[A[R[p]]]
      BY <1>6, <1>c, <2>3
    <3>2. Ancestors[A[R[p]]] \subseteq Ancestors[p]
      BY <1>c, <2>3, AncestorsClosed
    <3>3. QED
      BY <3>1, <3>2
  <2>4. QED
    BY <2>1, <2>2, <2>3
<1> HIDE DEF T
<1>8. Proc \subseteq T
  BY <1>7, RankInduction DEF Ordered
<1>9. QED
  BY <1>4, <1>8 DEF T

\* What one scan says of whom it saw.
LEMMA ScanFacts ==
  ASSUME NEW rank, Ordered(rank), NEW seen \in SUBSET Proc
  PROVE  /\ Sessions(seen) \subseteq seen \cap Agent
         /\ Owned(seen) \subseteq seen \ Agent
         /\ \A r \in Owned(seen) : SessionOf(seen)[r] \in Sessions(seen) \cap Ancestors[r]
         /\ \A r : \A p \in MembersOf(seen, r) : p \in seen /\ (r = p \/ r \in Ancestors[p])
<1>1. Items(seen) \subseteq seen
  BY RootIs DEF Items
<1>2. \A r : \A p \in MembersOf(seen, r) : p \in seen /\ (r = p \/ r \in Ancestors[p])
  BY RootIs DEF MembersOf
<1>3. \A r \in Owned(seen) : SessionOf(seen)[r] \in Sessions(seen) \cap Ancestors[r]
  BY <1>1, SessionIs DEF Owned
<1>4. QED
  BY <1>1, <1>2, <1>3 DEF Sessions, Owned

-----------------------------------------------------------------------------
(* The two transactions that write the ownership tables                    *)

\* Rows written over rows.
LEMMA Merged ==
  ASSUME NEW f, NEW g
  PROVE  /\ DOMAIN Upsert(f, g) = DOMAIN f \cup DOMAIN g
         /\ \A x \in DOMAIN Upsert(f, g) : Upsert(f, g)[x] = IF x \in DOMAIN f THEN f[x] ELSE g[x]
BY DEF Upsert

\* What apply_ownership leaves in the tables, row by row: the sessions of the
\* scan are open, and its resources have the owners and the members of the
\* scan.
ApplyEffect(seen) ==
  /\ DOMAIN session' = Sessions(seen) \cup DOMAIN session
  /\ \A s \in DOMAIN session' : session'[s] = IF s \in Sessions(seen) THEN Never ELSE session[s]
  /\ DOMAIN resource' = Owned(seen) \cup DOMAIN resource
  /\ DOMAIN owner' = Owned(seen) \cup DOMAIN owner
  /\ \A r \in DOMAIN owner' :
       owner'[r] = IF r \in Owned(seen) THEN SessionOf(seen)[r] ELSE owner[r]
  /\ \A m \in member' : \/ m \in member /\ m[1] \notin Owned(seen)
                        \/ /\ m[1] \in Owned(seen) /\ m[2] \in MembersOf(seen, m[1])
                           /\ m = <<m[1], m[2]>> /\ m[2] \in seen

\* apply_ownership does that.
LEMMA ApplyFacts ==
  ASSUME NEW seen, ApplyOwnership(seen)
  PROVE  ApplyEffect(seen)
<1> DEFINE opened == [s \in Sessions(seen) |-> Never]
           fresh == [r \in Owned(seen) |-> now]
           owns == [r \in Owned(seen) |-> SessionOf(seen)[r]]
<1>1. /\ session' = Upsert(opened, session) /\ resource' = Upsert(fresh, resource)
      /\ owner' = Upsert(owns, owner)
      /\ member' = {m \in member : m[1] \notin Owned(seen)}
                      \cup {m \in Owned(seen) \X seen : m[2] \in MembersOf(seen, m[1])}
  BY DEF ApplyOwnership
<1>2. /\ DOMAIN session' = Sessions(seen) \cup DOMAIN session
      /\ \A s \in DOMAIN session' : session'[s] = IF s \in Sessions(seen) THEN Never ELSE session[s]
  <2>1. DOMAIN opened = Sessions(seen) /\ \A s \in Sessions(seen) : opened[s] = Never
    OBVIOUS
  <2> HIDE DEF opened
  <2>2. /\ DOMAIN session' = DOMAIN opened \cup DOMAIN session
        /\ \A s \in DOMAIN session' :
             session'[s] = IF s \in DOMAIN opened THEN opened[s] ELSE session[s]
    <3> DEFINE m == Upsert(opened, session)
    <3>1. /\ DOMAIN m = DOMAIN opened \cup DOMAIN session
          /\ \A s \in DOMAIN m : m[s] = IF s \in DOMAIN opened THEN opened[s] ELSE session[s]
      BY DEF Upsert
    <3>2. session' = m
      BY <1>1
    <3> HIDE DEF m
    <3>3. QED
      BY <3>1, <3>2
  <2>3. QED
    BY <2>1, <2>2
<1>3. DOMAIN resource' = Owned(seen) \cup DOMAIN resource
  <2>1. DOMAIN fresh = Owned(seen)
    OBVIOUS
  <2> HIDE DEF fresh
  <2>2. QED
    BY <1>1, <2>1, Merged
<1>4. /\ DOMAIN owner' = Owned(seen) \cup DOMAIN owner
      /\ \A r \in DOMAIN owner' :
           owner'[r] = IF r \in Owned(seen) THEN SessionOf(seen)[r] ELSE owner[r]
  <2>1. DOMAIN owns = Owned(seen) /\ \A r \in Owned(seen) : owns[r] = SessionOf(seen)[r]
    OBVIOUS
  <2> HIDE DEF owns
  <2>2. /\ DOMAIN owner' = DOMAIN owns \cup DOMAIN owner
        /\ \A r \in DOMAIN owner' :
             owner'[r] = IF r \in DOMAIN owns THEN owns[r] ELSE owner[r]
    <3> DEFINE m == Upsert(owns, owner)
    <3>1. /\ DOMAIN m = DOMAIN owns \cup DOMAIN owner
          /\ \A r \in DOMAIN m : m[r] = IF r \in DOMAIN owns THEN owns[r] ELSE owner[r]
      BY DEF Upsert
    <3>2. owner' = m
      BY <1>1
    <3> HIDE DEF m
    <3>3. QED
      BY <3>1, <3>2
  <2>3. QED
    BY <2>1, <2>2
<1> HIDE DEF opened, fresh, owns
<1>5. \A m \in member' : \/ m \in member /\ m[1] \notin Owned(seen)
                         \/ /\ m[1] \in Owned(seen) /\ m[2] \in MembersOf(seen, m[1])
                            /\ m = <<m[1], m[2]>> /\ m[2] \in seen
  BY <1>1
<1>6. QED
  BY <1>2, <1>3, <1>4, <1>5 DEF ApplyEffect

\* What gc leaves: rows as they were, without the doomed sessions and their
\* ownership rows; no resource that is still owned goes, and no member of one
\* that stays.
GcEffect(seen) ==
  /\ DOMAIN session' = DOMAIN session \ GcDoomed(seen)
  /\ \A s \in DOMAIN session' : session'[s] = session[s]
  /\ DOMAIN owner' = {r \in DOMAIN owner : owner[r] \notin GcDoomed(seen)}
  /\ \A r \in DOMAIN owner' : owner'[r] = owner[r]
  /\ DOMAIN resource' \subseteq DOMAIN resource
  /\ DOMAIN resource \cap DOMAIN owner' \subseteq DOMAIN resource'
  /\ member' \subseteq member
  /\ \A m \in member' : m[1] \in DOMAIN resource => m[1] \in DOMAIN resource'
  /\ DOMAIN alias' \subseteq DOMAIN alias
  /\ \A v \in DOMAIN alias' : alias'[v] = alias[v]

\* gc does that.
LEMMA GcFacts ==
  ASSUME NEW seen, Gc(seen)
  PROVE  GcEffect(seen)
<1> DEFINE doomed == GcDoomed(seen)
           owner1 == Drop(owner, {r \in DOMAIN owner : owner[r] \in doomed})
           orphans == {r \in DOMAIN resource \ DOMAIN owner1 : resource[r] < Cutoff}
<1>1. /\ session' = Drop(session, doomed)
      /\ owner' = owner1
      /\ resource' = Drop(resource, orphans)
      /\ member' = {m \in member : m[1] \notin orphans}
      /\ alias' = Drop(alias, {v \in DOMAIN alias : alias[v] \notin DOMAIN session'})
  BY DEF Gc
<1>2. DOMAIN owner1 = {r \in DOMAIN owner : owner[r] \notin doomed}
  BY DEF Drop, Restrict
<1>3. DOMAIN resource' = DOMAIN resource \ orphans
  BY <1>1 DEF Drop, Restrict
<1>4. orphans \cap DOMAIN owner1 = {}
  OBVIOUS
<1>5. /\ DOMAIN session' = DOMAIN session \ doomed
      /\ \A s \in DOMAIN session' : session'[s] = session[s]
  BY <1>1 DEF Drop, Restrict
<1>6. /\ DOMAIN owner' = {r \in DOMAIN owner : owner[r] \notin doomed}
      /\ \A r \in DOMAIN owner' : owner'[r] = owner[r]
  BY <1>1, <1>2 DEF Drop, Restrict
<1>7. /\ DOMAIN alias' \subseteq DOMAIN alias
      /\ \A v \in DOMAIN alias' : alias'[v] = alias[v]
  BY <1>1 DEF Drop, Restrict
<1> HIDE DEF doomed, owner1, orphans
<1>8. QED
  BY <1>1, <1>3, <1>4, <1>5, <1>6, <1>7 DEF doomed, GcEffect

-----------------------------------------------------------------------------
(* The parts of the inductive invariant                                    *)

\* A collector between two store calls.
Pass == [pc : {"scan", "apply", "end", "attribute", "persist", "gc", "quit"},
         seen : SUBSET Proc, todo : SUBSET Proc, gc : BOOLEAN]

\* What the collectors hold.
PassesOK ==
  /\ col \in [Collector -> Pass]
  /\ \A c \in Collector : col[c].pc = "gc" => col[c].gc

\* Nobody is recorded or seen before it runs.
BornFirst ==
  /\ \A c \in Collector : \A p \in col[c].seen : life[p] # "unborn"
  /\ \A r \in DOMAIN owner : life[r] # "unborn"
  /\ \A m \in member : life[m[2]] # "unborn"

\* What is recorded follows the lines of descent.
AlongDescent ==
  /\ \A r \in DOMAIN owner : owner[r] \in Ancestors[r]
  /\ \A m \in member : m[1] = m[2] \/ m[1] \in Ancestors[m[2]]

\* The gc of a first pass, when it comes, spares the record of every process that its scan
\* did not see.
UnseenIsFresh ==
  \A c \in Collector : col[c].gc /\ col[c].pc # "scan" =>
    \A r \in DOMAIN owner : \A p \in Proc :
      r \in Recorded(p) /\ life[p] = "live" /\ p \notin col[c].seen => owner[r] \notin Expired

\* The collectors that found no decision on r and are about to add one.
Deciding(r) == {c \in Collector : col[c].pc = "persist" /\ r \in col[c].todo}

\* A decision more for every collector that found none.
DecisionsCounted ==
  /\ decisions \in [Proc -> Nat]
  /\ \A r \in Proc : decisions[r] + Cardinality(Deciding(r)) <= Cardinality(Collector)

\* The types of the tables and of the collectors.
TypeInv == SessTypeOK /\ PassesOK

-----------------------------------------------------------------------------
(* What a step changes                                                     *)

\* What is still to be decided has no decision.
LEMMA UndecidedType ==
  ASSUME NEW rank, Ordered(rank), NEW seen \in SUBSET Proc
  PROVE  Undecided(seen) \subseteq Proc /\ \A r \in Undecided(seen) : decisions[r] = 0
BY RootIs DEF Undecided, Items

\* A collector goes on with a pass that is not at the collection of garbage.
LEMMA PassGoes ==
  ASSUME PassesOK, NEW c \in Collector, NEW r \in Pass, r.pc # "gc",
         col' = [col EXCEPT ![c] = r]
  PROVE  PassesOK'
<1>1. col' \in [Collector -> Pass]
  BY DEF PassesOK
<1>2. \A d \in Collector : col'[d] = IF d = c THEN r ELSE col[d]
  BY DEF PassesOK
<1>3. QED
  BY <1>1, <1>2 DEF PassesOK

\* Every action keeps the types.
LEMMA PassStep ==
  ASSUME NEW rank, Ordered(rank), PassesOK, [Next]_vars
  PROVE  PassesOK'
<1> USE DEF PassesOK, Pass
<1>1. ASSUME NEW c \in Collector, Scan(c) PROVE PassesOK'
  <2>1. [col[c] EXCEPT !.pc = "apply", !.seen = Live] \in Pass
    BY DEF Live
  <2>2. col' = [col EXCEPT ![c] = [col[c] EXCEPT !.pc = "apply", !.seen = Live]]
    BY <1>1 DEF Scan
  <2>3. QED
    BY <2>1, <2>2, PassGoes
<1>2. ASSUME NEW c \in Collector, Apply(c) PROVE PassesOK'
  <2>1. [col[c] EXCEPT !.pc = "end"] \in Pass
    OBVIOUS
  <2>2. col' = [col EXCEPT ![c] = [col[c] EXCEPT !.pc = "end"]]
    BY <1>2 DEF Apply
  <2>3. QED
    BY <2>1, <2>2, PassGoes
<1>3. ASSUME NEW c \in Collector, End(c) PROVE PassesOK'
  <2>1. [col[c] EXCEPT !.pc = "attribute"] \in Pass
    OBVIOUS
  <2>2. col' = [col EXCEPT ![c] = [col[c] EXCEPT !.pc = "attribute"]]
    BY <1>3 DEF End
  <2>3. QED
    BY <2>1, <2>2, PassGoes
<1>4. ASSUME NEW c \in Collector, Attribute(c) PROVE PassesOK'
  <2> DEFINE todo == Undecided(col[c].seen)
  <2>1. todo \in SUBSET Proc
    BY UndecidedType
  <2>2. col' = [col EXCEPT ![c] = [col[c] EXCEPT !.pc = "persist", !.todo = todo]]
    BY <1>4 DEF Attribute
  <2> HIDE DEF todo
  <2>3. [col[c] EXCEPT !.pc = "persist", !.todo = todo] \in Pass
    BY <2>1
  <2>4. QED
    BY <2>2, <2>3, PassGoes
<1>5. ASSUME NEW c \in Collector, Persist(c) PROVE PassesOK'
  BY <1>5 DEF Persist, Idle
<1>6. ASSUME NEW c \in Collector, Collect(c) PROVE PassesOK'
  BY <1>6 DEF Collect, Idle
<1>7. ASSUME NEW c \in Collector, Kill(c) PROVE PassesOK'
  BY <1>7 DEF Kill, Idle
<1>8. CASE UNCHANGED col
  BY <1>8
<1>9. QED
  BY <1>1, <1>2, <1>3, <1>4, <1>5, <1>6, <1>7, <1>8
     DEF Next, Step, Spawn, Die, Tick, HookScan, HookEnsure, HookAlias, HookEnd, vars

\* Every action keeps the types of the tables.
LEMMA SessTypeStep ==
  ASSUME NEW rank, Ordered(rank), TypeInv, [Next]_vars
  PROVE  SessTypeOK'
<1>1. ASSUME NEW p \in Proc, Spawn(p) \/ Die(p) PROVE SessTypeOK'
  BY SessionConstants, <1>1 DEF Spawn, Die, SessTypeOK, TypeInv, tables, Never, Times
<1>2. CASE Tick
  BY SessionConstants, <1>2 DEF Tick, SessTypeOK, TypeInv, tables, Never, Times
<1>3. ASSUME NEW c \in Collector,
    Scan(c) \/ Attribute(c) \/ Persist(c) \/ Kill(c) PROVE SessTypeOK'
  BY SessionConstants, <1>3 DEF Scan, Attribute, Persist, Kill, SessTypeOK, TypeInv,
     tables, Never, Times
<1>4. ASSUME NEW c \in Collector, Apply(c), ApplyOwnership(col[c].seen) PROVE SessTypeOK'
  <2> DEFINE seen == col[c].seen
  <2>1. seen \in SUBSET Proc
    BY DEF PassesOK, Pass, TypeInv
  <2> HIDE DEF seen
  <2>2. ApplyOwnership(seen)
    BY <1>4 DEF seen
  <2>3. Sessions(seen) \subseteq Agent /\ Owned(seen) \subseteq Proc \ Agent
    BY <2>1, ScanFacts
  <2>4. UNCHANGED <<now, life, alias>>
    BY <1>4 DEF Apply
  <2>a. /\ DOMAIN session' = Sessions(seen) \cup DOMAIN session
        /\ \A s \in DOMAIN session' : session'[s] = IF s \in Sessions(seen) THEN Never ELSE session[s]
        /\ DOMAIN resource' = Owned(seen) \cup DOMAIN resource
    BY <2>2, ApplyFacts DEF ApplyEffect
  <2>5. \A m \in member' : m \in (Proc \ Agent) \X Proc
    <3>1. \A m \in member' : \/ m \in member /\ m[1] \notin Owned(seen)
                             \/ /\ m[1] \in Owned(seen) /\ m[2] \in MembersOf(seen, m[1])
                                /\ m = <<m[1], m[2]>> /\ m[2] \in seen
      BY <2>2, ApplyFacts DEF ApplyEffect
    <3>2. QED
      BY <2>1, <2>3, <3>1 DEF SessTypeOK, TypeInv
  <2>6. QED
    BY SessionConstants, <2>3, <2>4, <2>5, <2>a DEF SessTypeOK, TypeInv, tables, Never,
       Times
<1>5. ASSUME NEW c \in Collector, Apply(c), UNCHANGED <<session, resource, member,
    owner>> PROVE SessTypeOK'
  BY SessionConstants, <1>5 DEF Apply, SessTypeOK, TypeInv, tables, Never, Times
<1>6. ASSUME NEW c \in Collector, End(c) PROVE SessTypeOK'
  BY SessionConstants, <1>6 DEF End, EndAbsentSessions, SessTypeOK, TypeInv, tables, Never,
     Times
<1>7. ASSUME NEW c \in Collector, Collect(c) PROVE SessTypeOK'
  <2>1. Gc(col[c].seen) /\ UNCHANGED <<now, life>>
    BY <1>7 DEF Collect
  <2>2. /\ DOMAIN session' \subseteq DOMAIN session
        /\ \A s \in DOMAIN session' : session'[s] = session[s]
        /\ DOMAIN resource' \subseteq DOMAIN resource
        /\ member' \subseteq member
        /\ DOMAIN alias' \subseteq DOMAIN alias
        /\ \A v \in DOMAIN alias' : alias'[v] = alias[v]
    BY <2>1, GcFacts DEF GcEffect
  <2>3. QED
    BY SessionConstants, <2>1, <2>2 DEF SessTypeOK, TypeInv, tables, Never, Times
<1>8. ASSUME NEW v \in Vendor, HookScan(v) \/ HookEnd(v) PROVE SessTypeOK'
  BY SessionConstants, <1>8 DEF HookScan, HookEnd, SessTypeOK, TypeInv, tables, Never, Times
<1>9. ASSUME NEW v \in Vendor, HookEnsure(v) PROVE SessTypeOK'
  <2>1. /\ session' = Upsert(session, [s \in {v} |-> Never])
        /\ UNCHANGED <<now, life, resource, member, alias>>
    BY <1>9 DEF HookEnsure
  <2>2. /\ DOMAIN session' = DOMAIN session \cup {v}
        /\ \A s \in DOMAIN session : session'[s] = session[s]
        /\ v \notin DOMAIN session => session'[v] = Never
    BY <2>1 DEF Upsert
  <2>3. QED
    BY SessionConstants, <2>1, <2>2 DEF SessTypeOK, TypeInv, tables, Never, Times
<1>10. ASSUME NEW v \in Vendor, HookAlias(v) PROVE SessTypeOK'
  <2>1. /\ alias' = Upsert([x \in {v} |-> v], alias)
        /\ UNCHANGED <<now, life, session, resource, member>>
    BY <1>10 DEF HookAlias
  <2>2. /\ DOMAIN alias' = DOMAIN alias \cup {v}
        /\ alias'[v] = v
        /\ \A x \in DOMAIN alias \ {v} : alias'[x] = alias[x]
    BY <2>1 DEF Upsert
  <2>3. QED
    BY SessionConstants, <2>1, <2>2 DEF SessTypeOK, TypeInv, tables, Never, Times
<1>11. CASE UNCHANGED vars
  BY SessionConstants, <1>11 DEF vars, SessTypeOK, TypeInv, tables, Never, Times
<1>12. QED
  BY SessionConstants, <1>1, <1>2, <1>3, <1>4, <1>5, <1>6, <1>7, <1>8, <1>9, <1>10,
     <1>11 DEF Next, Step, Apply, SessTypeOK, TypeInv, tables, Never, Times

\* The steps that write the tables of sessions, owners and members.
LEMMA TablesChange ==
  ASSUME [Next]_vars
  PROVE  \/ UNCHANGED <<session, resource, member, owner>>
         \/ \E c \in Collector : \/ Apply(c) /\ ApplyOwnership(col[c].seen)
                                 \/ End(c) \/ Collect(c)
         \/ \E v \in Vendor : HookEnsure(v)
<1>1. CASE \E p \in Proc : Spawn(p) \/ Die(p)
  BY <1>1 DEF Spawn, Die, tables
<1>2. CASE Tick
  BY <1>2 DEF Tick, tables
<1>3. CASE \E c \in Collector : Step(c) \/ Kill(c)
  BY <1>3 DEF Step, Kill, Scan, Apply, Attribute, Persist, tables
<1>4. CASE \E v \in Vendor : HookScan(v) \/ HookEnsure(v) \/ HookAlias(v) \/ HookEnd(v)
  BY <1>4 DEF HookScan, HookAlias, HookEnd, tables
<1>5. CASE UNCHANGED vars
  BY <1>5 DEF vars, tables
<1>6. QED
  BY <1>1, <1>2, <1>3, <1>4, <1>5 DEF Next

\* A process that runs, or has, does not go back.
LEMMA BornStays ==
  ASSUME SessTypeOK, [Next]_vars
  PROVE  /\ \A p \in Proc : life[p] # "unborn" => life'[p] # "unborn"
         /\ \A p \in Proc : life'[p] = "live" => life[p] = "live" \/ life[p] = "unborn"
<1>1. CASE \E p \in Proc : Spawn(p) \/ Die(p)
  BY <1>1 DEF Spawn, Die, SessTypeOK
<1>2. CASE life' = life
  BY <1>2
<1>3. QED
  BY <1>1, <1>2 DEF Next, Tick, Step, Kill, Scan, Apply, End, Attribute, Persist, Collect,
       HookScan, HookEnsure, HookAlias, HookEnd, vars

\* What a step leaves of the records: new ones are of processes its scan saw.
RecordsKept ==
  /\ \A r \in DOMAIN owner' :
       \/ r \in DOMAIN owner /\ owner'[r] = owner[r]
       \/ \E c \in Collector : r \in col[c].seen /\ owner'[r] \in Ancestors[r]
  /\ \A m \in member' :
       \/ m \in member
       \/ \E c \in Collector : /\ m[2] \in col[c].seen
                               /\ m[1] = m[2] \/ m[1] \in Ancestors[m[2]]

\* Every action leaves the records so.
LEMMA RecordsChange ==
  ASSUME NEW rank, Ordered(rank), TypeInv, [Next]_vars
  PROVE  RecordsKept
<1>1. ASSUME NEW c \in Collector, ApplyOwnership(col[c].seen) PROVE RecordsKept
  <2> DEFINE seen == col[c].seen
  <2>1. seen \in SUBSET Proc
    BY DEF TypeInv, PassesOK, Pass
  <2>2. ApplyEffect(seen)
    BY <1>1, ApplyFacts
  <2>3. /\ Owned(seen) \subseteq seen
        /\ \A r \in Owned(seen) : SessionOf(seen)[r] \in Ancestors[r]
        /\ \A r : \A p \in MembersOf(seen, r) : p \in seen /\ (r = p \/ r \in Ancestors[p])
    BY <2>1, ScanFacts
  <2> HIDE DEF seen
  <2>4. \A r \in DOMAIN owner' :
           \/ r \in DOMAIN owner /\ owner'[r] = owner[r]
           \/ r \in seen /\ owner'[r] \in Ancestors[r]
    BY <2>2, <2>3 DEF ApplyEffect
  <2>5. \A m \in member' :
           \/ m \in member
           \/ m[2] \in seen /\ (m[1] = m[2] \/ m[1] \in Ancestors[m[2]])
    BY <2>2, <2>3 DEF ApplyEffect
  <2>6. QED
    BY <2>4, <2>5 DEF seen, RecordsKept
<1>2. ASSUME NEW c \in Collector, End(c) PROVE RecordsKept
  BY <1>2 DEF End, RecordsKept
<1>3. ASSUME NEW c \in Collector, Collect(c) PROVE RecordsKept
  <2>1. GcEffect(col[c].seen)
    BY <1>3, GcFacts DEF Collect
  <2>2. QED
    BY <2>1 DEF GcEffect, RecordsKept
<1>4. ASSUME NEW v \in Vendor, HookEnsure(v) PROVE RecordsKept
  BY <1>4 DEF HookEnsure, RecordsKept
<1>5. CASE UNCHANGED <<session, resource, member, owner>>
  BY <1>5 DEF RecordsKept
<1>6. QED
  BY <1>1, <1>2, <1>3, <1>4, <1>5, TablesChange

\* What the collectors see, they see running.
LEMMA SeenChange ==
  ASSUME PassesOK, [Next]_vars, NEW c \in Collector
  PROVE  col'[c].seen = col[c].seen \/ col'[c].seen = Live \/ col'[c].seen = {}
<1> DEFINE Kept == col'[c].seen = col[c].seen \/ col'[c].seen = Live \/ col'[c].seen = {}
<1>1. ASSUME NEW d \in Collector, Scan(d) PROVE Kept
  BY <1>1 DEF PassesOK, Pass, Scan
<1>2. ASSUME NEW d \in Collector, Apply(d) \/ End(d) \/ Attribute(d) PROVE Kept
  BY <1>2 DEF PassesOK, Pass, Apply, End, Attribute
<1>3. ASSUME NEW d \in Collector, Persist(d) PROVE Kept
  BY <1>3 DEF PassesOK, Pass, Persist, Idle
<1>4. ASSUME NEW d \in Collector, Collect(d) PROVE Kept
  BY <1>4 DEF PassesOK, Pass, Collect, Idle
<1>5. ASSUME NEW d \in Collector, Kill(d) PROVE Kept
  BY <1>5 DEF PassesOK, Pass, Kill, Idle
<1>6. CASE col' = col
  BY <1>6
<1>7. QED
  BY <1>1, <1>2, <1>3, <1>4, <1>5, <1>6
     DEF Next, Step, Spawn, Die, Tick, HookScan, HookEnsure, HookAlias, HookEnd, vars

\* Every action records or scans only who runs or has run.
LEMMA BornStep ==
  ASSUME NEW rank, Ordered(rank), TypeInv, EdgesHaveRows, BornFirst, [Next]_vars
  PROVE  BornFirst'
<1>1. /\ \A c \in Collector : col[c].seen \subseteq Proc
      /\ DOMAIN owner \subseteq Proc
      /\ \A m \in member : m[2] \in Proc
  BY SessionConstants DEF TypeInv, PassesOK, Pass, SessTypeOK, EdgesHaveRows
<1>2. \A p \in Proc : life[p] # "unborn" => life'[p] # "unborn"
  BY BornStays DEF TypeInv
<1>3. \A c \in Collector : \A p \in col[c].seen : p \in Proc /\ life[p] # "unborn"
  BY <1>1 DEF BornFirst
<1>4. \A c \in Collector : \A p \in col'[c].seen : life'[p] # "unborn"
  <2> SUFFICES ASSUME NEW c \in Collector, NEW p \in col'[c].seen PROVE life'[p] # "unborn"
    OBVIOUS
  <2>1. CASE col'[c].seen = col[c].seen
    BY <1>2, <1>3, <2>1
  <2>2. CASE col'[c].seen = Live
    BY <1>2, <2>2 DEF Live
  <2>3. CASE col'[c].seen = {}
    BY <2>3
  <2>4. QED
    BY <2>1, <2>2, <2>3, SeenChange DEF TypeInv
<1>5. \A r \in DOMAIN owner' : life'[r] # "unborn"
  <2> SUFFICES ASSUME NEW r \in DOMAIN owner' PROVE life'[r] # "unborn"
    OBVIOUS
  <2>1. r \in DOMAIN owner \/ \E c \in Collector : r \in col[c].seen
    BY RecordsChange DEF RecordsKept
  <2>2. QED
    BY <1>1, <1>2, <1>3, <2>1 DEF BornFirst
<1>6. \A m \in member' : life'[m[2]] # "unborn"
  <2> SUFFICES ASSUME NEW m \in member' PROVE life'[m[2]] # "unborn"
    OBVIOUS
  <2>1. m \in member \/ \E c \in Collector : m[2] \in col[c].seen
    BY RecordsChange DEF RecordsKept
  <2>2. QED
    BY <1>1, <1>2, <1>3, <2>1 DEF BornFirst
<1>7. QED
  BY <1>4, <1>5, <1>6 DEF BornFirst

\* Every action keeps a row at both ends of every ownership and member row.
LEMMA EdgesStep ==
  ASSUME NEW rank, Ordered(rank), TypeInv, EdgesHaveRows, [Next]_vars
  PROVE  EdgesHaveRows'
<1>1. ASSUME NEW c \in Collector, ApplyOwnership(col[c].seen) PROVE EdgesHaveRows'
  <2> DEFINE seen == col[c].seen
  <2>1. seen \in SUBSET Proc
    BY DEF TypeInv, PassesOK, Pass
  <2>2. ApplyEffect(seen)
    BY <1>1, ApplyFacts
  <2>3. \A r \in Owned(seen) : SessionOf(seen)[r] \in Sessions(seen)
    BY <2>1, ScanFacts
  <2> HIDE DEF seen
  <2>4. QED
    BY <2>2, <2>3 DEF ApplyEffect, EdgesHaveRows
<1>2. ASSUME NEW c \in Collector, End(c) PROVE EdgesHaveRows'
  BY <1>2 DEF End, EndAbsentSessions, EdgesHaveRows
<1>3. ASSUME NEW c \in Collector, Collect(c) PROVE EdgesHaveRows'
  <2>1. GcEffect(col[c].seen)
    BY <1>3, GcFacts DEF Collect
  <2>2. QED
    BY <2>1 DEF GcEffect, EdgesHaveRows
<1>4. ASSUME NEW v \in Vendor, HookEnsure(v) PROVE EdgesHaveRows'
  BY <1>4 DEF HookEnsure, Upsert, EdgesHaveRows
<1>5. CASE UNCHANGED <<session, resource, member, owner>>
  BY <1>5 DEF EdgesHaveRows
<1>6. QED
  BY <1>1, <1>2, <1>3, <1>4, <1>5, TablesChange

\* Every action keeps the records along the lines of descent.
LEMMA DescentStep ==
  ASSUME NEW rank, Ordered(rank), TypeInv, AlongDescent, [Next]_vars
  PROVE  AlongDescent'
<1>1. Ancestors' = Ancestors
  BY DEF Ancestors
<1>2. QED
  BY <1>1, RecordsChange DEF RecordsKept, AlongDescent

\* The end of a session is never moved: the action of EndTimeStands.
EndsKept ==
  \A s \in DOMAIN session \cap DOMAIN session' :
    session[s] # Never /\ session'[s] # Never => session'[s] = session[s]

\* No action moves it.
LEMMA EndsStep ==
  ASSUME [Next]_vars
  PROVE  EndsKept
<1>1. ASSUME NEW c \in Collector, ApplyOwnership(col[c].seen) PROVE EndsKept
  <2>1. ApplyEffect(col[c].seen)
    BY <1>1, ApplyFacts
  <2>2. QED
    BY <2>1 DEF ApplyEffect, EndsKept
<1>2. ASSUME NEW c \in Collector, End(c) PROVE EndsKept
  BY <1>2 DEF End, EndAbsentSessions, EndsKept
<1>3. ASSUME NEW c \in Collector, Collect(c) PROVE EndsKept
  <2>1. GcEffect(col[c].seen)
    BY <1>3, GcFacts DEF Collect
  <2>2. QED
    BY <2>1 DEF GcEffect, EndsKept
<1>4. ASSUME NEW v \in Vendor, HookEnsure(v) PROVE EndsKept
  BY <1>4 DEF HookEnsure, Upsert, EndsKept
<1>5. CASE UNCHANGED <<session, resource, member, owner>>
  BY <1>5 DEF EndsKept
<1>6. QED
  BY <1>1, <1>2, <1>3, <1>4, <1>5, TablesChange

\* The first passes that are under way: begun now, or before with the same scan and, as no
\* tick falls into one, at the same time.
FirstPass(c) == col[c].gc /\ col[c].pc # "scan"

\* How a step finds the first pass of c that is under way after it.
PassOn(c) ==
  FirstPass(c)' => \/ col'[c].seen = Live /\ life' = life
                   \/ FirstPass(c) /\ col'[c].seen = col[c].seen /\ now' = now

\* Every action leaves the first passes so.
LEMMA FirstPassChange ==
  ASSUME PassesOK, [Next]_vars, NEW c \in Collector
  PROVE  PassOn(c)
<1> USE DEF PassesOK, Pass, PassOn, FirstPass
<1>1. ASSUME NEW d \in Collector, Scan(d) PROVE PassOn(c)
  BY <1>1 DEF Scan
<1>2. ASSUME NEW d \in Collector, Apply(d) \/ End(d) \/ Attribute(d) PROVE PassOn(c)
  BY <1>2 DEF Apply, End, Attribute
<1>3. ASSUME NEW d \in Collector, Persist(d) PROVE PassOn(c)
  BY <1>3 DEF Persist, Idle
<1>4. ASSUME NEW d \in Collector, Collect(d) PROVE PassOn(c)
  BY <1>4 DEF Collect, Idle
<1>5. ASSUME NEW d \in Collector, Kill(d) PROVE PassOn(c)
  BY <1>5 DEF Kill, Idle
<1>6. CASE Tick
  BY <1>6 DEF Tick
<1>7. CASE UNCHANGED <<now, col>>
  BY <1>7
<1>8. QED
  BY <1>1, <1>2, <1>3, <1>4, <1>5, <1>6, <1>7
     DEF Next, Step, Spawn, Die, HookScan, HookEnsure, HookAlias, HookEnd, vars

\* An ownership row and its members are as they were, or the session they name was opened
\* with them; and no step but a tick makes a session expire.
OwnersFresh ==
  \A r \in DOMAIN owner' : \A p \in Proc : r \in Recorded(p)' =>
    \/ r \in DOMAIN owner /\ r \in Recorded(p) /\ owner'[r] = owner[r]
    \/ owner'[r] \in DOMAIN session' /\ session'[owner'[r]] = Never

\* A session that ends ends now.
EndsAreNow ==
  \A s \in DOMAIN session' :
    \/ session'[s] = Never
    \/ session'[s] = now
    \/ s \in DOMAIN session /\ session'[s] = session[s]

\* Every action leaves ownership rows and sessions so.
LEMMA FreshChange ==
  ASSUME NEW rank, Ordered(rank), TypeInv, [Next]_vars
  PROVE  OwnersFresh /\ EndsAreNow
<1>1. ASSUME NEW c \in Collector,
    ApplyOwnership(col[c].seen) PROVE OwnersFresh /\ EndsAreNow
  <2> DEFINE seen == col[c].seen
  <2>1. seen \in SUBSET Proc
    BY DEF TypeInv, PassesOK, Pass
  <2>2. ApplyEffect(seen)
    BY <1>1, ApplyFacts
  <2>3. \A r \in Owned(seen) : SessionOf(seen)[r] \in Sessions(seen)
    BY <2>1, ScanFacts
  <2> HIDE DEF seen
  <2>4. ASSUME NEW r \in DOMAIN owner', NEW p \in Proc, r \in Recorded(p)'
        PROVE  \/ r \in DOMAIN owner /\ r \in Recorded(p) /\ owner'[r] = owner[r]
               \/ owner'[r] \in DOMAIN session' /\ session'[owner'[r]] = Never
    <3>1. CASE r \in Owned(seen)
      BY <2>2, <2>3, <3>1 DEF ApplyEffect
    <3>2. CASE r \notin Owned(seen)
      <4>1. r \in DOMAIN owner /\ owner'[r] = owner[r]
        BY <2>2, <3>2 DEF ApplyEffect
      <4>2. r = p \/ <<r, p>> \in member'
        BY <2>4 DEF Recorded
      <4>3. r = p \/ <<r, p>> \in member
        BY <2>2, <3>2, <4>2 DEF ApplyEffect
      <4>4. QED
        BY <4>1, <4>3 DEF Recorded
    <3>3. QED
      BY <3>1, <3>2
  <2>5. EndsAreNow
    BY <2>2 DEF ApplyEffect, EndsAreNow
  <2>6. QED
    BY <2>4, <2>5 DEF OwnersFresh
<1>2. ASSUME NEW c \in Collector, End(c) PROVE OwnersFresh /\ EndsAreNow
  BY <1>2 DEF End, EndAbsentSessions, OwnersFresh, EndsAreNow, Recorded
<1>3. ASSUME NEW c \in Collector, Collect(c) PROVE OwnersFresh /\ EndsAreNow
  <2>1. GcEffect(col[c].seen)
    BY <1>3, GcFacts DEF Collect
  <2>2. QED
    BY <2>1 DEF GcEffect, OwnersFresh, EndsAreNow, Recorded
<1>4. ASSUME NEW v \in Vendor, HookEnsure(v) PROVE OwnersFresh /\ EndsAreNow
  <2>1. session' = Upsert(session, [s \in {v} |-> Never]) /\ UNCHANGED <<member, owner>>
    BY <1>4 DEF HookEnsure
  <2>2. EndsAreNow
    BY <2>1 DEF Upsert, EndsAreNow
  <2>3. OwnersFresh
    BY <2>1 DEF OwnersFresh, Recorded
  <2>4. QED
    BY <2>2, <2>3
<1>5. CASE UNCHANGED <<session, resource, member, owner>>
  BY <1>5 DEF OwnersFresh, EndsAreNow, Recorded
<1>6. QED
  BY <1>1, <1>2, <1>3, <1>4, <1>5, TablesChange

\* Every action keeps what a gc has to spare unexpired: a process the scan
\* missed was started after it, and whatever is recorded since then was opened
\* since then.
LEMMA UnseenStep ==
  ASSUME NEW rank, Ordered(rank), TypeInv, EdgesHaveRows, BornFirst, UnseenIsFresh,
     [Next]_vars
  PROVE  UnseenIsFresh'
<1> SUFFICES ASSUME NEW c \in Collector, FirstPass(c)', NEW r \in DOMAIN owner', NEW p \in Proc,
                    r \in Recorded(p)', life'[p] = "live", p \notin col'[c].seen
             PROVE  owner'[r] \notin Expired'
  BY DEF UnseenIsFresh, FirstPass
<1>1. PassOn(c)
  BY FirstPassChange DEF TypeInv
<1>2. FirstPass(c) /\ col'[c].seen = col[c].seen /\ now' = now
  BY <1>1 DEF PassOn, Live
<1>3. OwnersFresh /\ EndsAreNow
  BY FreshChange
<1>4. CASE owner'[r] \in DOMAIN session' /\ session'[owner'[r]] = Never
  BY <1>4 DEF Expired, Never
<1>5. CASE r \in DOMAIN owner /\ r \in Recorded(p) /\ owner'[r] = owner[r]
  <2>1. life[p] # "unborn"
    <3>1. r = p \/ <<r, p>> \in member
      BY <1>5 DEF Recorded
    <3>2. QED
      BY <1>5, <3>1 DEF BornFirst
  <2>2. life[p] = "live"
    BY <2>1, BornStays DEF TypeInv
  <2>3. owner[r] \notin Expired
    BY <1>2, <1>5, <2>2 DEF UnseenIsFresh, FirstPass
  <2>4. owner[r] \in DOMAIN session
    BY <1>5 DEF EdgesHaveRows
  <2>5. now \in Nat /\ Retention \in Nat
    BY SessionConstants DEF TypeInv, SessTypeOK
  <2>6. Cutoff' = Cutoff /\ ~(now < Cutoff)
    BY <1>2, <2>5 DEF Cutoff
  <2>7. ~(session[owner[r]] # Never /\ session[owner[r]] < Cutoff)
    BY <2>3, <2>4 DEF Expired
  <2> HIDE DEF Never
  <2>8. ASSUME owner[r] \in DOMAIN session', session'[owner[r]] # Never
        PROVE  ~(session'[owner[r]] < Cutoff)
    BY <1>3, <2>6, <2>7, <2>8 DEF EndsAreNow
  <2>9. QED
    BY <1>5, <2>6, <2>8 DEF Expired, Never
<1>6. QED
  BY <1>3, <1>4, <1>5 DEF OwnersFresh

\* What the next step deletes of the ownership rows is of no survivor.
SurvivorsKept ==
  \A r \in DOMAIN owner :
    (\E p \in Proc : life[p] = "live" /\ r \in Recorded(p)) => r \in DOMAIN owner'

\* No action deletes the ownership row of a survivor: gc spares the session for
\* a process its scan saw (GcDoomed) or, for one it missed, because the session
\* is fresh.
LEMMA SurvivorStep ==
  ASSUME NEW rank, Ordered(rank), TypeInv, EdgesHaveRows, UnseenIsFresh, [Next]_vars
  PROVE  SurvivorsKept
<1>1. ASSUME NEW c \in Collector, ApplyOwnership(col[c].seen) PROVE SurvivorsKept
  BY <1>1, ApplyFacts DEF ApplyEffect, SurvivorsKept
<1>2. ASSUME NEW c \in Collector, Collect(c) PROVE SurvivorsKept
  <2> SUFFICES ASSUME NEW r \in DOMAIN owner, NEW p \in Proc, life[p] = "live", r \in Recorded(p)
               PROVE  owner[r] \notin GcDoomed(col[c].seen)
    <3>1. GcEffect(col[c].seen)
      BY <1>2, GcFacts DEF Collect
    <3>2. QED
      BY <3>1 DEF GcEffect, SurvivorsKept
  <2>1. CASE p \in col[c].seen
    <3>1. r = p \/ <<r, p>> \in member
      BY DEF Recorded
    <3>2. r \in LiveResources(col[c].seen)
      BY <2>1, <3>1 DEF LiveResources, EdgesHaveRows
    <3>3. QED
      BY <3>2 DEF Protected, GcDoomed
  <2>2. CASE p \notin col[c].seen
    <3>1. col[c].gc /\ col[c].pc # "scan"
      BY <1>2 DEF Collect, TypeInv, PassesOK
    <3>2. owner[r] \notin Expired
      BY <2>2, <3>1 DEF UnseenIsFresh
    <3>3. QED
      BY <3>2 DEF GcDoomed
  <2>3. QED
    BY <2>1, <2>2
<1>3. CASE UNCHANGED owner
  BY <1>3 DEF SurvivorsKept
<1>4. QED
  BY <1>1, <1>2, <1>3, TablesChange DEF End, HookEnsure

\* What a step makes of the collectors that are deciding on r.
CountKept(r) ==
  \/ decisions'[r] = decisions[r] /\ Deciding(r)' \subseteq Deciding(r)
  \/ decisions'[r] = decisions[r] /\ decisions[r] = 0
  \/ \E c \in Deciding(r) : decisions'[r] = decisions[r] + 1 /\ Deciding(r)' = Deciding(r) \ {c}

\* Every action counts so.
LEMMA CountChange ==
  ASSUME NEW rank, Ordered(rank), PassesOK, decisions \in [Proc -> Nat], [Next]_vars,
     NEW r \in Proc
  PROVE  CountKept(r) /\ decisions' \in [Proc -> Nat]
<1> USE DEF PassesOK, Pass
<1>1. ASSUME NEW c \in Collector, Scan(c) \/ Apply(c) \/ End(c) PROVE CountKept(r)
  BY <1>1 DEF Scan, Apply, End, Deciding, CountKept, tables
<1>2. ASSUME NEW c \in Collector, Attribute(c) PROVE CountKept(r)
  <2>1. decisions' = decisions
    BY <1>2 DEF Attribute, tables
  <2>2. col' = [col EXCEPT ![c].pc = "persist", ![c].todo = Undecided(col[c].seen)]
    BY <1>2 DEF Attribute
  <2>3. CASE r \in Undecided(col[c].seen)
    BY <2>1, <2>3, UndecidedType DEF CountKept
  <2>4. CASE r \notin Undecided(col[c].seen)
    <3>1. Deciding(r)' \subseteq Deciding(r)
      BY <2>2, <2>4 DEF Deciding
    <3>2. QED
      BY <2>1, <3>1 DEF CountKept
  <2>5. QED
    BY <2>3, <2>4
<1>3. ASSUME NEW c \in Collector, Persist(c)
      PROVE  CountKept(r) /\ decisions' \in [Proc -> Nat]
  <2>1. decisions' = [x \in Proc |-> decisions[x] + IF x \in col[c].todo THEN 1 ELSE 0]
    BY <1>3 DEF Persist
  <2>2. /\ col[c].pc = "persist" /\ col'[c].pc # "persist"
        /\ \A d \in Collector \ {c} : col'[d] = col[d]
    BY <1>3 DEF Persist, Idle
  <2>3. Deciding(r)' = Deciding(r) \ {c}
    BY <2>2 DEF Deciding
  <2>4. CASE r \in col[c].todo
    <3>1. c \in Deciding(r)
      BY <2>2, <2>4 DEF Deciding
    <3>2. decisions'[r] = decisions[r] + 1
      BY <2>1, <2>4
    <3>3. QED
      BY <2>1, <2>3, <3>1, <3>2 DEF CountKept
  <2>5. CASE r \notin col[c].todo
    BY <2>1, <2>3, <2>5 DEF CountKept
  <2>6. QED
    BY <2>4, <2>5
<1>4. ASSUME NEW c \in Collector, Collect(c) PROVE CountKept(r)
  BY <1>4 DEF Collect, Idle, Deciding, CountKept
<1>5. ASSUME NEW c \in Collector, Kill(c) PROVE CountKept(r)
  BY <1>5 DEF Kill, Idle, Deciding, CountKept, tables
<1>6. CASE UNCHANGED <<col, decisions>>
  BY <1>6 DEF Deciding, CountKept
<1>7. decisions' = decisions \/ \E c \in Collector : Persist(c)
  BY DEF Next, Step, Spawn, Die, Tick, HookScan, HookEnsure, HookAlias, HookEnd, vars,
     tables,
         Scan, Apply, End, Attribute, Collect, Kill
<1>8. QED
  BY <1>1, <1>2, <1>3, <1>4, <1>5, <1>6, <1>7
     DEF Next, Step, Spawn, Die, Tick, HookScan, HookEnsure, HookAlias, HookEnd, vars, tables

\* The row a collector adds was in the count since it looked.
LEMMA CountStep ==
  ASSUME NEW rank, Ordered(rank), IsFiniteSet(Collector), PassesOK, DecisionsCounted,
     [Next]_vars
  PROVE  DecisionsCounted'
<1>0. decisions \in [Proc -> Nat]
  BY DEF DecisionsCounted
<1> SUFFICES ASSUME NEW r \in Proc
             PROVE  decisions'[r] + Cardinality(Deciding(r)') <= Cardinality(Collector)
  <2>1. Proc # {} => decisions' \in [Proc -> Nat]
    BY <1>0, CountChange
  <2>2. Proc = {} => decisions' \in [Proc -> Nat]
    BY <1>0 DEF Next, Step, Spawn, Die, Tick, HookScan, HookEnsure, HookAlias, HookEnd,
       vars, tables,
         Scan, Apply, End, Attribute, Collect, Kill, Persist
  <2>3. QED
    BY <2>1, <2>2 DEF DecisionsCounted
<1>1. CountKept(r) /\ decisions' \in [Proc -> Nat]
  BY <1>0, CountChange
<1>2. /\ Deciding(r) \subseteq Collector /\ Deciding(r)' \subseteq Collector
  BY DEF Deciding
<1>3. /\ IsFiniteSet(Deciding(r)) /\ IsFiniteSet(Deciding(r)')
      /\ Cardinality(Deciding(r)') <= Cardinality(Collector)
  BY <1>2, FS_Subset
<1>4. /\ Cardinality(Deciding(r)) \in Nat /\ Cardinality(Deciding(r)') \in Nat
      /\ Cardinality(Collector) \in Nat
  BY <1>3, FS_CardinalityType
<1>5. decisions[r] + Cardinality(Deciding(r)) <= Cardinality(Collector)
  BY DEF DecisionsCounted
<1>6. CASE decisions'[r] = decisions[r] /\ Deciding(r)' \subseteq Deciding(r)
  <2>1. Cardinality(Deciding(r)') <= Cardinality(Deciding(r))
    BY <1>3, <1>6, FS_Subset
  <2>2. QED
    BY <1>0, <1>4, <1>5, <1>6, <2>1
<1>7. CASE decisions'[r] = decisions[r] /\ decisions[r] = 0
  BY <1>3, <1>4, <1>7
<1>8. ASSUME NEW c \in Deciding(r), decisions'[r] = decisions[r] + 1,
    Deciding(r)' = Deciding(r) \ {c}
      PROVE  decisions'[r] + Cardinality(Deciding(r)') <= Cardinality(Collector)
  <2>1. Cardinality(Deciding(r)') = Cardinality(Deciding(r)) - 1
    BY <1>3, <1>8, FS_RemoveElement
  <2>2. QED
    BY <1>0, <1>4, <1>5, <1>8, <2>1
<1>9. QED
  BY <1>1, <1>6, <1>7, <1>8 DEF CountKept

-----------------------------------------------------------------------------
(* The theorems                                                            *)

\* The inductive invariant: the types, the rows, and what makes the rows last.
SessInv ==
  /\ TypeInv
  /\ EdgesHaveRows
  /\ BornFirst
  /\ AlongDescent
  /\ UnseenIsFresh
  /\ DecisionsCounted

\* Nobody descends from itself: processes can be ordered so that parents come first.
ParentsFirst == \E rank \in [Proc -> Nat] : Ordered(rank)

\* The empty store satisfies the invariant.
LEMMA SessInit ==
  ASSUME IsFiniteSet(Collector), Init
  PROVE  SessInv
<1>1. SessTypeOK
  BY SessionConstants DEF Init, NoRows, SessTypeOK, Never, Times
<1>2. PassesOK /\ \A c \in Collector : col[c].pc = "scan" /\ col[c].seen = {}
  BY DEF Init, Idle, PassesOK, Pass
<1>3. EdgesHaveRows /\ BornFirst /\ AlongDescent
  BY <1>2 DEF Init, NoRows, EdgesHaveRows, BornFirst, AlongDescent
<1>4. UnseenIsFresh
  BY <1>2 DEF UnseenIsFresh
<1>5. DecisionsCounted
  <2>1. decisions \in [Proc -> Nat] /\ \A r \in Proc : decisions[r] = 0
    BY DEF Init
  <2>2. \A r \in Proc : Cardinality(Deciding(r)) = 0
    <3>1. \A r \in Proc : Deciding(r) = {}
      BY <1>2 DEF Deciding
    <3>2. QED
      BY <3>1, FS_EmptySet
  <2>3. Cardinality(Collector) \in Nat
    BY FS_CardinalityType
  <2>4. QED
    BY <2>1, <2>2, <2>3 DEF DecisionsCounted
<1>6. QED
  BY <1>1, <1>2, <1>3, <1>4, <1>5 DEF SessInv, TypeInv

\* Every action keeps it.
LEMMA SessStep ==
  ASSUME NEW rank, Ordered(rank), IsFiniteSet(Collector), SessInv, [Next]_vars
  PROVE  SessInv'
BY PassStep, SessTypeStep, EdgesStep, BornStep, DescentStep, UnseenStep, CountStep
   DEF SessInv, TypeInv

\* It implies what the run checks: the owner of a record is an ancestor of the
\* root of the item, and the root an ancestor of its members.
LEMMA SessHolds ==
  ASSUME NEW rank, Ordered(rank), IsFiniteSet(Collector), SessInv
  PROVE  TablesHold
<1>1. OriginIsAncestor
  <2> SUFFICES ASSUME NEW p \in Proc, NEW r \in Recorded(p) PROVE owner[r] \in Ancestors[p]
    BY DEF OriginIsAncestor, Origins
  <2>1. r \in DOMAIN owner /\ owner[r] \in Ancestors[r]
    BY DEF Recorded, SessInv, AlongDescent
  <2>2. r = p \/ r \in Ancestors[p]
    BY DEF Recorded, SessInv, AlongDescent
  <2>3. QED
    BY <2>1, <2>2, AncestorsClosed
<1>2. DecisionsBounded
  <2> SUFFICES ASSUME NEW r \in Proc PROVE decisions[r] <= Cardinality(Collector)
    BY DEF DecisionsBounded
  <2>1. /\ decisions[r] \in Nat
        /\ decisions[r] + Cardinality(Deciding(r)) <= Cardinality(Collector)
    BY DEF SessInv, DecisionsCounted
  <2>2. Deciding(r) \subseteq Collector
    BY DEF Deciding
  <2>3. Cardinality(Deciding(r)) \in Nat /\ Cardinality(Collector) \in Nat
    BY <2>2, FS_Subset, FS_CardinalityType
  <2>4. QED
    BY <2>1, <2>3
<1>3. QED
  BY <1>1, <1>2 DEF SessInv, TypeInv, TablesHold

\* Whatever the processes, the collectors and the order their passes come in,
\* every ownership row leads to a resource and a session, no later agent adopts
\* a survivor, and the decisions on an item are no more than the collectors
\* (apply_ownership, gc, attribution_for).
THEOREM TablesAlwaysHold ==
  ASSUME ParentsFirst, IsFiniteSet(Collector)
  PROVE  Spec => []TablesHold
<1>0. PICK rank \in [Proc -> Nat] : Ordered(rank)
  BY DEF ParentsFirst
<1>1. Init => SessInv
  BY SessInit
<1>2. SessInv /\ [Next]_vars => SessInv'
  BY <1>0, SessStep
<1>3. SessInv => TablesHold
  BY <1>0, SessHolds
<1>4. QED
  BY <1>1, <1>2, <1>3, PTL DEF Spec

\* gc never deletes the ownership of a process that still runs, not even of one
\* that its scan did not see, and no pass moves the time a session ended (gc,
\* end_absent_sessions).
THEOREM HistoryAlwaysStands ==
  ASSUME ParentsFirst, IsFiniteSet(Collector)
  PROVE  Spec => HistoryStands
<1>0. PICK rank \in [Proc -> Nat] : Ordered(rank)
  BY DEF ParentsFirst
<1>1. Init => SessInv
  BY SessInit
<1>2. SessInv /\ [Next]_vars => SessInv'
  BY <1>0, SessStep
<1>3. SessInv /\ [Next]_vars => SurvivorsKept
  BY <1>0, SurvivorStep DEF SessInv
<1>4. SessInv /\ [Next]_vars => EndsKept
  BY EndsStep
<1>5. SurvivorsKept => [\A r \in DOMAIN owner :
          (\E p \in Proc : life[p] = "live" /\ r \in Recorded(p)) => r \in DOMAIN owner']_vars
  BY DEF SurvivorsKept
<1>6. EndsKept => [\A s \in DOMAIN session \cap DOMAIN session' :
          session[s] # Never /\ session'[s] # Never => session'[s] = session[s]]_vars
  BY DEF EndsKept
<1>7. QED
  BY <1>1, <1>2, <1>3, <1>4, <1>5, <1>6, PTL
     DEF Spec, HistoryStands, SurvivorKeepsOrigin, EndTimeStands
=============================================================================
