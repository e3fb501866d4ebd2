----------------------------- MODULE Recursion ------------------------------
(***************************************************************************)
(* Functions that are defined by recursion along a rank: that an equation  *)
(* whose right side looks only at elements of lower rank has a solution,   *)
(* in particular one along links to a parent, and induction along a rank.  *)
(* Used for process forests (Sessions, Barman) and directories (CgroupRoot).*)
(*                                                                         *)
(* A function f[x \in S] == ... is CHOOSE f : f = [x \in S |-> ...], of     *)
(* which nothing is known until such an f is shown to exist.               *)
(***************************************************************************)
EXTENDS Naturals, WellFoundedInduction, TLAPS

\* A set of naturals that is not empty has a least element.
LEMMA LeastElement ==
  ASSUME NEW T, T \subseteq Nat, T # {}
  PROVE  \E x \in T : \A y \in T : x <= y
<1>1. PICK x \in T : \A y \in T : ~ (<<y, x>> \in OpToRel(<, Nat))
  BY WFMin, NatLessThanWellFounded, Zenon
<1>2. \A y \in T : ~ (y < x)
  BY <1>1 DEF OpToRel
<1> QED BY <1>2

\* Induction along a rank: what holds of an element when it holds of all below it.
LEMMA RankInduction ==
  ASSUME NEW S, NEW rank \in [S -> Nat], NEW T,
         \A p \in S : (\A q \in S : rank[q] < rank[p] => q \in T) => p \in T
  PROVE  S \subseteq T
<1> DEFINE Ranks == {rank[p] : p \in S \ T}
<1> SUFFICES ASSUME S \ T # {} PROVE FALSE
  OBVIOUS
<1>1. Ranks # {} /\ Ranks \subseteq Nat
  OBVIOUS
<1>2. PICK n \in Ranks : \A m \in Ranks : ~ (<<m, n>> \in OpToRel(<, Nat))
  BY <1>1, WFMin, NatLessThanWellFounded, Zenon
<1>3. n \in Nat /\ \A m \in Ranks : ~ (m < n)
  BY <1>1, <1>2 DEF OpToRel
<1>4. PICK p \in S \ T : rank[p] = n
  BY <1>2
<1>5. \A q \in S : rank[q] < rank[p] => q \in T
  BY <1>3, <1>4
<1>6. QED
  BY <1>4, <1>5

\* An equation f = Def[f] whose right side at an element looks at f below it only.
Recursive(S, rank, V, Def) ==
  /\ rank \in [S -> Nat] /\ Def \in [[S -> V] -> [S -> V]] /\ [S -> V] # {}
  /\ \A f, g \in [S -> V] : \A p \in S :
       (\A q \in S : rank[q] < rank[p] => f[q] = g[q]) => Def[f][p] = Def[g][p]

\* Such an equation has a solution.
LEMMA RankRecursion ==
  ASSUME NEW S, NEW rank, NEW V, NEW Def, Recursive(S, rank, V, Def)
  PROVE  \E f \in [S -> V] : f = Def[f]
<1> DEFINE Obeys(f, q) == f[q] = Def[f][q]
           Good(f, p) == f \in [S -> V] /\ \A q \in S : rank[q] <= rank[p] => Obeys(f, q)
           Has == {p \in S : \E f : Good(f, p)}
<1>0. /\ rank \in [S -> Nat] /\ [S -> V] # {}
      /\ \A f \in [S -> V] : Def[f] \in [S -> V]
  BY DEF Recursive
<1>l. \A f, g \in [S -> V] : \A p \in S :
        (\A q \in S : rank[q] < rank[p] => f[q] = g[q]) => Def[f][p] = Def[g][p]
  BY DEF Recursive
<1>b. PICK base : base \in [S -> V]
  BY <1>0
<1>1. ASSUME NEW f, NEW g, NEW n \in Nat,
             f \in [S -> V], \A q \in S : rank[q] <= n => Obeys(f, q),
             g \in [S -> V], \A q \in S : rank[q] <= n => Obeys(g, q)
      PROVE  \A q \in S : rank[q] <= n => f[q] = g[q]
  <2> DEFINE T == {q \in S : rank[q] <= n => f[q] = g[q]}
  <2>1. \A p \in S : (\A q \in S : rank[q] < rank[p] => q \in T) => p \in T
    <3> SUFFICES ASSUME NEW p \in S, \A q \in S : rank[q] < rank[p] => q \in T, rank[p] <= n
                 PROVE  f[p] = g[p]
      OBVIOUS
    <3>1. \A q \in S : rank[q] < rank[p] => f[q] = g[q]
      BY <1>0
    <3>2. Def[f][p] = Def[g][p]
      BY <1>1, <1>l, <3>1
    <3>3. QED
      BY <1>1, <3>2
  <2> HIDE DEF T
  <2>2. S \subseteq T
    BY <1>0, <2>1, RankInduction
  <2>3. QED
    BY <2>2 DEF T
<1>2. \A p \in S : (\A q \in S : rank[q] < rank[p] => q \in Has) => p \in Has
  <2> SUFFICES ASSUME NEW p \in S, \A q \in S : rank[q] < rank[p] => q \in Has
               PROVE  \E f : Good(f, p)
    OBVIOUS
  <2> DEFINE F(q) == CHOOSE f : Good(f, q)
             h == [q \in S |-> IF rank[q] < rank[p] THEN F(q)[q] ELSE base[q]]
             g == [q \in S |-> IF rank[q] < rank[p] THEN h[q] ELSE Def[h][q]]
  <2>1. \A q \in S : rank[q] < rank[p] => Good(F(q), q)
    <3> HIDE DEF Good
    <3>1. QED
      OBVIOUS
  <2> HIDE DEF F
  <2>2. h \in [S -> V]
    BY <1>0, <1>b, <2>1
  <2>3. g \in [S -> V]
    BY <1>0, <2>2
  <2>4. ASSUME NEW q \in S, rank[q] < rank[p] PROVE h[q] = Def[h][q]
    <3>1. ASSUME NEW x \in S, rank[x] < rank[q] PROVE h[x] = F(q)[x]
      <4>1. rank[x] \in Nat /\ rank[q] \in Nat /\ rank[p] \in Nat
        BY <1>0
      <4>2. rank[x] < rank[p] /\ \A y \in S : rank[y] <= rank[x] => rank[y] <= rank[q]
        BY <1>0, <2>4, <3>1, <4>1
      <4>3. F(x) \in [S -> V] /\ \A y \in S : rank[y] <= rank[x] => Obeys(F(x), y)
        BY <2>1, <4>2
      <4>4. F(q) \in [S -> V] /\ \A y \in S : rank[y] <= rank[x] => Obeys(F(q), y)
        BY <2>1, <2>4, <4>2
      <4> HIDE DEF Obeys, Good
      <4>5. \A y \in S : rank[y] <= rank[x] => F(x)[y] = F(q)[y]
        BY <1>1, <4>1, <4>3, <4>4
      <4>6. QED
        BY <4>1, <4>2, <4>5
    <3>2. F(q) \in [S -> V] /\ h[q] = F(q)[q] /\ F(q)[q] = Def[F(q)][q]
      BY <1>0, <2>1, <2>4
    <3> HIDE DEF h
    <3>3. Def[h][q] = Def[F(q)][q]
      BY <1>l, <2>2, <3>1, <3>2
    <3>4. QED
      BY <3>2, <3>3
  <2>5. ASSUME NEW q \in S, rank[q] <= rank[p] PROVE Obeys(g, q)
    <3>1. \A x \in S : rank[x] < rank[q] => g[x] = h[x]
      BY <1>0, <2>5
    <3>2. g[q] = Def[h][q]
      BY <2>4
    <3> HIDE DEF h, g
    <3>3. Def[g][q] = Def[h][q]
      BY <1>l, <2>2, <2>3, <3>1
    <3>4. QED
      BY <3>2, <3>3
  <2> HIDE DEF g, Obeys
  <2>6. QED
    BY <2>3, <2>5
<1> HIDE DEF Has
<1>3. S \subseteq Has
  BY <1>0, <1>2, RankInduction
<1> DEFINE F(p) == CHOOSE f : Good(f, p)
           w == [p \in S |-> F(p)[p]]
<1>4. \A p \in S : Good(F(p), p)
  <2> HIDE DEF Good
  <2>1. QED
    BY <1>3 DEF Has
<1> HIDE DEF F
<1>5. w \in [S -> V]
  BY <1>4
<1>6. ASSUME NEW p \in S PROVE w[p] = Def[w][p]
  <2>1. ASSUME NEW x \in S, rank[x] < rank[p] PROVE w[x] = F(p)[x]
    <3>1. rank[x] \in Nat /\ rank[p] \in Nat
      BY <1>0
    <3>2. \A y \in S : rank[y] <= rank[x] => rank[y] <= rank[p]
      BY <1>0, <2>1, <3>1
    <3>3. F(x) \in [S -> V] /\ \A y \in S : rank[y] <= rank[x] => Obeys(F(x), y)
      BY <1>4
    <3>4. F(p) \in [S -> V] /\ \A y \in S : rank[y] <= rank[x] => Obeys(F(p), y)
      BY <1>4, <3>2
    <3> HIDE DEF Obeys, Good
    <3>5. \A y \in S : rank[y] <= rank[x] => F(x)[y] = F(p)[y]
      BY <1>1, <3>1, <3>3, <3>4
    <3>6. QED
      BY <3>1, <3>5
  <2>2. F(p) \in [S -> V] /\ w[p] = F(p)[p] /\ F(p)[p] = Def[F(p)][p]
    BY <1>0, <1>4
  <2> HIDE DEF w
  <2>3. Def[w][p] = Def[F(p)][p]
    BY <1>l, <1>5, <2>1, <2>2
  <2>4. QED
    BY <2>2, <2>3
<1> HIDE DEF w
<1>7. w = Def[w]
  <2>1. w \in [S -> V] /\ Def[w] \in [S -> V]
    BY <1>0, <1>5
  <2>2. QED
    BY <1>6, <2>1
<1>8. QED
  BY <1>5, <1>7

\* Links up from every element of S to an earlier one, or to none, with what a function
\* is at the top (base) and how it follows from its value one link up (step).
Links(S, none, rank, up, V, base, step) ==
  /\ none \notin S /\ rank \in [S -> Nat] /\ up \in [S -> S \cup {none}]
  /\ \A p \in S : up[p] # none => rank[up[p]] < rank[p]
  /\ base \in [S -> V] /\ step \in [S -> [V -> V]]

\* A function that obeys those equations.
Follows(f, S, none, up, V, base, step) ==
  /\ f \in [S -> V]
  /\ \A p \in S : f[p] = IF up[p] = none THEN base[p] ELSE step[p][f[up[p]]]

\* A function defined along the links exists.
LEMMA TreeRecursion ==
  ASSUME NEW S, NEW none, NEW rank, NEW up, NEW V, NEW base, NEW step,
         Links(S, none, rank, up, V, base, step)
  PROVE  \E f : Follows(f, S, none, up, V, base, step)
<1> USE DEF Links
<1> DEFINE At(f, p) == IF up[p] = none THEN base[p] ELSE step[p][f[up[p]]]
           Def == [f \in [S -> V] |-> [p \in S |-> At(f, p)]]
<1>1. ASSUME NEW f \in [S -> V], NEW p \in S PROVE At(f, p) \in V
  <2>1. up[p] # none => f[up[p]] \in V
    OBVIOUS
  <2>2. QED
    BY <2>1
<1>2. ASSUME NEW f \in [S -> V], NEW g \in [S -> V], NEW p \in S,
             \A q \in S : rank[q] < rank[p] => f[q] = g[q]
      PROVE  At(f, p) = At(g, p)
  BY <1>2
<1> HIDE DEF At
<1>3. Recursive(S, rank, V, Def)
  <2>1. Def \in [[S -> V] -> [S -> V]]
    BY <1>1
  <2>2. \A f, g \in [S -> V] : \A p \in S :
          (\A q \in S : rank[q] < rank[p] => f[q] = g[q]) => Def[f][p] = Def[g][p]
    BY <1>2
  <2> HIDE DEF Def
  <2>3. QED
    BY <2>1, <2>2 DEF Recursive
<1>4. PICK f \in [S -> V] : f = Def[f]
  <2> HIDE DEF Def
  <2>1. QED
    BY <1>3, RankRecursion
<1>5. \A p \in S : f[p] = At(f, p)
  BY <1>4
<1>6. QED
  BY <1>5 DEF At, Follows
=============================================================================
