--------------------------- MODULE SchedulerProofs ---------------------------
(***************************************************************************)
(* Theorems about Scheduler, for every set of runs and projects, all       *)
(* limits and every bound on time.                                         *)
(*                                                                         *)
(* The two loops of the code are recursive functions: `retain` is Without, *)
(* `while let Some(next) = pick_next()` is PickAll.  The first lemmas say  *)
(* what each computes; nothing after them looks inside the recursion.      *)
(***************************************************************************)
EXTENDS Scheduler, FiniteSetTheorems, WellFoundedInduction, TLAPS

\* Induction over the naturals, as closure of a set under successor.
LEMMA NatInduction_Set ==
  ASSUME NEW S, 0 \in S, \A n \in Nat : n \in S => n + 1 \in S
  PROVE  Nat \subseteq S
<1> DEFINE T == {n \in Nat : n \notin S}
<1>1. CASE T # {}
  <2>1. PICK x \in T : \A y \in T : ~ (<<y, x>> \in OpToRel(<, Nat))
    BY <1>1, WFMin, NatLessThanWellFounded, Zenon
  <2>2. \A y \in T : ~ (y < x)
    BY <2>1 DEF OpToRel
  <2>3. x # 0 /\ x - 1 \in Nat
    OBVIOUS
  <2>4. x - 1 \in S
    BY <2>2, <2>3
  <2> QED
    BY <2>3, <2>4
<1> QED
  BY <1>1

LEMMA UpTo ==
  \A n \in Nat : IsFiniteSet(1 .. n) /\ Cardinality(1 .. n) = n
<1> TAKE n \in Nat
<1>1. /\ IsFiniteSet(1 .. n)
      /\ Cardinality(1 .. n) = IF 1 > n THEN 0 ELSE n - 1 + 1
  BY FS_Interval
<1> QED BY <1>1

-----------------------------------------------------------------------------
(* Without: the kept elements, in their order.                             *)

\* One turn of `retain`: element i of q, after what was kept so far.
Keep(q, gone, i, kept) ==
  IF q[i].id \in gone THEN kept ELSE Append(kept, q[i])

\* The turns of the loop: f[i] is what is kept of the first i elements.
KeepTurns(f, T, q, gone) ==
  /\ f \in [0 .. Len(q) -> Seq(T)]
  /\ f[0] = << >>
  /\ \A i \in 1 .. Len(q) : f[i] = Keep(q, gone, i, f[i - 1])

\* The recursive function inside Without exists and obeys its equations.
LEMMA WithoutUnfolds ==
  ASSUME NEW T, NEW q \in Seq(T), NEW gone
  PROVE  \E f : KeepTurns(f, T, q, gone) /\ Without(q, gone) = f[Len(q)]
<1> DEFINE N == Len(q)
           H(n, f) == /\ f[0] = << >>
                      /\ \A i \in 1 .. n : f[i] = Keep(q, gone, i, f[i - 1])
           G(f) == f = [i \in 0 .. Len(q) |->
                          IF i = 0 THEN << >>
                          ELSE IF q[i].id \in gone THEN f[i - 1]
                          ELSE Append(f[i - 1], q[i])]
           K == {n \in Nat : n <= N => \E f \in [0 .. n -> Seq(T)] : H(n, f)}
<1>0. N \in Nat
  OBVIOUS
<1>1. 0 \in K
  <2>1. /\ [i \in 0 .. 0 |-> << >>] \in [0 .. 0 -> Seq(T)]
        /\ H(0, [i \in 0 .. 0 |-> << >>])
    OBVIOUS
  <2> QED
    BY <2>1
<1>2. \A n \in Nat : n \in K => n + 1 \in K
  <2> SUFFICES ASSUME NEW n \in Nat, n + 1 <= N,
                      NEW f \in [0 .. n -> Seq(T)], H(n, f)
               PROVE  \E g \in [0 .. (n + 1) -> Seq(T)] : H(n + 1, g)
    <3> HIDE DEF H
    <3> QED OBVIOUS
  <2> DEFINE g == [i \in 0 .. (n + 1) |->
                     IF i = n + 1 THEN Keep(q, gone, i, f[n]) ELSE f[i]]
  <2>1. q[n + 1] \in T /\ f[n] \in Seq(T)
    OBVIOUS
  <2>2. Keep(q, gone, n + 1, f[n]) \in Seq(T)
    BY <2>1 DEF Keep
  <2>3. g \in [0 .. (n + 1) -> Seq(T)]
    BY <2>2
  <2>4. g[0] = << >>
    OBVIOUS
  <2>5. ASSUME NEW i \in 1 .. (n + 1)
        PROVE  g[i] = Keep(q, gone, i, g[i - 1])
    <3>1. CASE i = n + 1
      BY <3>1
    <3>2. CASE i \in 1 .. n
      BY <3>2
    <3> QED BY <3>1, <3>2
  <2> HIDE DEF g
  <2> QED BY <2>3, <2>4, <2>5
<1> HIDE DEF H
<1>3. N \in K
  BY <1>0, <1>1, <1>2, NatInduction_Set, Zenon
<1>4. PICK f0 \in [0 .. N -> Seq(T)] : H(N, f0)
  BY <1>3, <1>0
<1>5. G(f0)
  <2>1. f0 = [i \in 0 .. N |-> f0[i]]
    BY <1>4
  <2>2. ASSUME NEW i \in 0 .. N
        PROVE  f0[i] = IF i = 0 THEN << >>
                       ELSE IF q[i].id \in gone THEN f0[i - 1]
                       ELSE Append(f0[i - 1], q[i])
    <3>1. CASE i = 0
      BY <1>4, <3>1 DEF H
    <3>2. CASE i \in 1 .. N
      BY <1>4, <3>2 DEF H, Keep
    <3> QED BY <3>1, <3>2
  <2> QED BY <2>1, <2>2
<1> DEFINE F == CHOOSE f : G(f)
<1>6. Without(q, gone) = F[N]
  BY DEF Without
<1> HIDE DEF G
<1>7. G(F)
  BY <1>5
<1> HIDE DEF F
<1>8. F = [i \in 0 .. N |->
             IF i = 0 THEN << >>
             ELSE IF q[i].id \in gone THEN F[i - 1]
             ELSE Append(F[i - 1], q[i])]
  BY <1>7 DEF G
<1>9. F[0] = << >> /\ \A i \in 1 .. N : F[i] = Keep(q, gone, i, F[i - 1])
  <2>1. F[0] = << >>
    BY <1>8, <1>0
  <2>2. ASSUME NEW i \in 1 .. N PROVE F[i] = Keep(q, gone, i, F[i - 1])
    <3>1. i \in 0 .. N /\ i # 0
      BY <1>0
    <3> QED BY <1>8, <3>1 DEF Keep
  <2> QED BY <2>1, <2>2
<1>10. F \in [0 .. N -> Seq(T)]
  <2> DEFINE J == {n \in Nat : n <= N => F[n] \in Seq(T)}
  <2>1. 0 \in J
    <3>1. F[0] \in Seq(T)
      BY <1>9
    <3> QED BY <3>1
  <2>2. ASSUME NEW n \in Nat, n \in J PROVE n + 1 \in J
    <3> SUFFICES ASSUME n + 1 <= N PROVE F[n + 1] \in Seq(T)
      OBVIOUS
    <3>1. n + 1 \in 1 .. N /\ (n + 1) - 1 = n
      BY <1>0
    <3>2. F[n] \in Seq(T) /\ q[n + 1] \in T
      BY <2>2, <1>0
    <3>3. F[n + 1] = Keep(q, gone, n + 1, F[n])
      BY <1>9, <3>1
    <3> QED BY <3>2, <3>3 DEF Keep
  <2>3. Nat \subseteq J
    BY <2>1, <2>2, NatInduction_Set, Zenon
  <2>4. \A i \in 0 .. N : F[i] \in Seq(T)
    BY <2>3, <1>0
  <2> QED BY <1>8, <2>4
<1> QED BY <1>6, <1>9, <1>10 DEF KeepTurns

(***************************************************************************)
(* `f` embeds w into the first n elements of q: it is increasing, hits     *)
(* exactly the elements that are not gone, and w is q read through it.     *)
(***************************************************************************)
Embeds(f, w, q, n, gone) ==
  /\ f \in [1 .. Len(w) -> 1 .. n]
  /\ \A i, j \in 1 .. Len(w) : i < j => f[i] < f[j]
  /\ \A i \in 1 .. Len(w) : w[i] = q[f[i]] /\ q[f[i]].id \notin gone
  /\ \A k \in 1 .. n : q[k].id \notin gone => \E i \in 1 .. Len(w) : f[i] = k

LEMMA KeepEmbeds ==
  ASSUME NEW T, NEW q \in Seq(T), NEW gone, NEW n \in Nat, n + 1 <= Len(q),
         NEW w \in Seq(T), NEW f, Embeds(f, w, q, n, gone)
  PROVE  \E g : Embeds(g, Keep(q, gone, n + 1, w), q, n + 1, gone)
<1>0. Len(w) \in Nat /\ q[n + 1] \in T
  OBVIOUS
<1>1. CASE q[n + 1].id \in gone
  <2>1. Keep(q, gone, n + 1, w) = w
    BY <1>1 DEF Keep
  <2>2. Embeds(f, w, q, n + 1, gone)
    BY <1>0, <1>1 DEF Embeds
  <2> QED BY <2>1, <2>2
<1>2. CASE q[n + 1].id \notin gone
  <2> DEFINE v == Append(w, q[n + 1])
             g == [i \in 1 .. Len(v) |-> IF i = Len(w) + 1 THEN n + 1 ELSE f[i]]
  <2>1. Keep(q, gone, n + 1, w) = v
    BY <1>2 DEF Keep
  <2>2. /\ Len(v) = Len(w) + 1
        /\ v[Len(w) + 1] = q[n + 1]
        /\ \A i \in 1 .. Len(w) : v[i] = w[i]
    BY <1>0
  <2> HIDE DEF v
  <2>3. \A i \in 1 .. Len(w) : f[i] \in 1 .. n
    BY DEF Embeds
  <2>4. \A i \in 1 .. Len(w) : g[i] = f[i]
    BY <2>2, <1>0
  <2>5. g[Len(w) + 1] = n + 1
    BY <2>2, <1>0
  <2>6. \A i \in 1 .. Len(v) : i \in 1 .. Len(w) \/ i = Len(w) + 1
    BY <2>2, <1>0
  <2>7. g \in [1 .. Len(v) -> 1 .. (n + 1)]
    BY <2>2, <2>3, <1>0
  <2> HIDE DEF g
  <2>8. ASSUME NEW i \in 1 .. Len(v), NEW j \in 1 .. Len(v), i < j
        PROVE  g[i] < g[j]
    <3>1. i \in 1 .. Len(w)
      BY <2>8, <2>2, <1>0
    <3>2. CASE j \in 1 .. Len(w)
      BY <3>1, <3>2, <2>4, <2>8 DEF Embeds
    <3>3. CASE j = Len(w) + 1
      BY <3>1, <3>3, <2>3, <2>4, <2>5
    <3> QED BY <3>2, <3>3, <2>6
  <2>9. ASSUME NEW i \in 1 .. Len(v)
        PROVE  v[i] = q[g[i]] /\ q[g[i]].id \notin gone
    <3>1. CASE i \in 1 .. Len(w)
      BY <3>1, <2>2, <2>4 DEF Embeds
    <3>2. CASE i = Len(w) + 1
      BY <3>2, <2>2, <2>5, <1>2
    <3> QED BY <3>1, <3>2, <2>6
  <2>10. ASSUME NEW k \in 1 .. (n + 1), q[k].id \notin gone
         PROVE  \E i \in 1 .. Len(v) : g[i] = k
    <3>1. CASE k = n + 1
      BY <3>1, <2>2, <2>5, <1>0
    <3>2. CASE k \in 1 .. n
      <4>1. PICK i \in 1 .. Len(w) : f[i] = k
        BY <3>2, <2>10 DEF Embeds
      <4> QED BY <4>1, <2>4, <2>2, <1>0
    <3> QED BY <3>1, <3>2
  <2>11. Embeds(g, v, q, n + 1, gone)
    BY <2>7, <2>8, <2>9, <2>10 DEF Embeds
  <2> QED BY <2>1, <2>11
<1> QED BY <1>1, <1>2

\* What Without returns, as one fact: a sequence that is q without the gone.
LEMMA WithoutEmbeds ==
  ASSUME NEW T, NEW q \in Seq(T), NEW gone
  PROVE  /\ Without(q, gone) \in Seq(T)
         /\ \E f : Embeds(f, Without(q, gone), q, Len(q), gone)
<1>0. PICK F : KeepTurns(F, T, q, gone) /\ Without(q, gone) = F[Len(q)]
  BY WithoutUnfolds
<1>1. /\ F \in [0 .. Len(q) -> Seq(T)]
      /\ F[0] = << >>
      /\ \A i \in 1 .. Len(q) : F[i] = Keep(q, gone, i, F[i - 1])
  BY <1>0 DEF KeepTurns
<1> DEFINE J == {n \in Nat : n <= Len(q) => \E f : Embeds(f, F[n], q, n, gone)}
<1>2. 0 \in J
  <2>1. Embeds([i \in {} |-> 0], << >>, q, 0, gone)
    BY DEF Embeds
  <2> QED BY <2>1, <1>1
<1>3. ASSUME NEW n \in Nat, n \in J PROVE n + 1 \in J
  <2> SUFFICES ASSUME n + 1 <= Len(q) PROVE \E f : Embeds(f, F[n + 1], q, n + 1, gone)
    OBVIOUS
  <2>1. PICK f : Embeds(f, F[n], q, n, gone)
    BY <1>3
  <2>2. F[n] \in Seq(T)
    BY <1>1
  <2>3. F[n + 1] = Keep(q, gone, n + 1, F[n])
    BY <1>1
  <2> QED BY <2>1, <2>2, <2>3, KeepEmbeds
<1>4. Nat \subseteq J
  BY <1>2, <1>3, NatInduction_Set, Zenon
<1>5. Len(q) \in Nat
  OBVIOUS
<1> QED BY <1>0, <1>1, <1>4, <1>5

\* What the rest of the proofs uses of Without.
LEMMA WithoutElements ==
  ASSUME NEW T, NEW q \in Seq(T), NEW gone
  PROVE  LET w == Without(q, gone)
         IN  /\ w \in Seq(T)
             /\ Len(w) <= Len(q)
             /\ \A i \in DOMAIN w : w[i].id \notin gone
             /\ \A i \in DOMAIN w : \E k \in DOMAIN q : w[i] = q[k]
             /\ \A k \in DOMAIN q :
                   q[k].id \notin gone => \E i \in DOMAIN w : w[i] = q[k]
<1> DEFINE w == Without(q, gone)
<1>1. PICK f : Embeds(f, w, q, Len(q), gone)
  BY WithoutEmbeds
<1>2. w \in Seq(T) /\ Len(w) \in Nat /\ DOMAIN w = 1 .. Len(w)
  BY WithoutEmbeds
<1>3. Len(q) \in Nat /\ DOMAIN q = 1 .. Len(q)
  OBVIOUS
<1> HIDE DEF w
<1>4. Len(w) <= Len(q)
  <2>1. f \in Injection(1 .. Len(w), 1 .. Len(q))
    <3>1. /\ f \in [1 .. Len(w) -> 1 .. Len(q)]
          /\ \A i, j \in 1 .. Len(w) : i < j => f[i] < f[j]
      BY <1>1 DEF Embeds
    <3>2. ASSUME NEW i \in 1 .. Len(w), NEW j \in 1 .. Len(w), f[i] = f[j] PROVE i = j
      <4>1. i \in Int /\ j \in Int /\ f[i] \in Int
        BY <1>2, <1>3, <3>1
      <4>2. ~ (f[i] < f[j]) /\ ~ (f[j] < f[i])
        BY <3>2, <4>1
      <4>3. ~ (i < j) /\ ~ (j < i)
        BY <3>1, <4>2
      <4> QED BY <4>1, <4>3
    <3> QED BY <3>1, <3>2 DEF Injection, IsInjective
  <2>2. /\ IsFiniteSet(1 .. Len(q))
        /\ Cardinality(1 .. Len(q)) = Len(q)
        /\ Cardinality(1 .. Len(w)) = Len(w)
    BY <1>2, <1>3, UpTo
  <2>3. Cardinality(1 .. Len(w)) <= Cardinality(1 .. Len(q))
    BY <2>1, <2>2, FS_Injection
  <2> QED BY <2>2, <2>3
<1>5. \A i \in DOMAIN w : w[i].id \notin gone /\ \E k \in DOMAIN q : w[i] = q[k]
  BY <1>1, <1>2, <1>3 DEF Embeds
<1>6. ASSUME NEW k \in DOMAIN q, q[k].id \notin gone
      PROVE  \E i \in DOMAIN w : w[i] = q[k]
  <2>1. PICK i \in 1 .. Len(w) : f[i] = k
    BY <1>1, <1>3, <1>6 DEF Embeds
  <2>2. w[i] = q[f[i]]
    BY <1>1 DEF Embeds
  <2> QED BY <2>1, <2>2, <1>2
<1> QED BY <1>2, <1>4, <1>5, <1>6 DEF w

LEMMA WithoutKeepsDistinct ==
  ASSUME NEW T, NEW q \in Seq(T), NEW gone,
         \A i, j \in DOMAIN q : q[i].id = q[j].id => i = j
  PROVE  LET w == Without(q, gone)
         IN  \A i, j \in DOMAIN w : w[i].id = w[j].id => i = j
<1> DEFINE w == Without(q, gone)
<1>1. PICK f : Embeds(f, w, q, Len(q), gone)
  BY WithoutEmbeds
<1>2. w \in Seq(T) /\ Len(w) \in Nat /\ DOMAIN w = 1 .. Len(w)
  BY WithoutEmbeds
<1>3. Len(q) \in Nat /\ DOMAIN q = 1 .. Len(q)
  OBVIOUS
<1> HIDE DEF w
<1>4. ASSUME NEW i \in DOMAIN w, NEW j \in DOMAIN w, w[i].id = w[j].id
      PROVE  i = j
  <2>1. f[i] \in DOMAIN q /\ f[j] \in DOMAIN q /\ q[f[i]].id = q[f[j]].id
    BY <1>1, <1>2, <1>3, <1>4 DEF Embeds
  <2>2. f[i] = f[j]
    BY <2>1
  <2>3. ~ (i < j) /\ ~ (j < i)
    BY <1>1, <1>2, <1>3, <2>1, <2>2 DEF Embeds
  <2> QED BY <1>2, <2>3
<1> QED BY <1>4 DEF w

-----------------------------------------------------------------------------
(* PickAll: the state after the loop, one turn at a time.                  *)

State == [limits : Limits, running : SUBSET Running,
          queue : Seq(Queued), held : SUBSET Running]

\* f[n] is the state after n turns.
PickTurns(f, s, t) ==
  /\ f[0] = s
  /\ \A n \in 1 .. Len(s.queue) : f[n] = PickNext(f[n - 1], t)

LEMMA PickAllUnfolds ==
  ASSUME NEW s, NEW t, Len(s.queue) \in Nat
  PROVE  \E f : PickTurns(f, s, t) /\ PickAll(s, t) = f[Len(s.queue)]
<1> DEFINE N == Len(s.queue)
           H(n, f) == /\ f = [i \in 0 .. n |-> f[i]]
                      /\ f[0] = s
                      /\ \A i \in 1 .. n : f[i] = PickNext(f[i - 1], t)
           G(f) == f = [n \in 0 .. Len(s.queue) |->
                          IF n = 0 THEN s ELSE PickNext(f[n - 1], t)]
           K == {n \in Nat : \E f : H(n, f)}
<1>1. 0 \in K
  <2>1. H(0, [i \in 0 .. 0 |-> s])
    OBVIOUS
  <2> QED BY <2>1
<1>2. ASSUME NEW n \in Nat, n \in K PROVE n + 1 \in K
  <2>1. PICK f : H(n, f)
    BY <1>2
  <2> DEFINE g == [i \in 0 .. (n + 1) |->
                     IF i = n + 1 THEN PickNext(f[n], t) ELSE f[i]]
  <2>2. g = [i \in 0 .. (n + 1) |-> g[i]] /\ g[0] = s
    BY <2>1
  <2>3. ASSUME NEW i \in 1 .. (n + 1) PROVE g[i] = PickNext(g[i - 1], t)
    <3>1. CASE i = n + 1
      BY <3>1
    <3>2. CASE i \in 1 .. n
      <4>1. g[i] = f[i] /\ g[i - 1] = f[i - 1]
        BY <3>2
      <4> QED BY <4>1, <3>2, <2>1
    <3> QED BY <3>1, <3>2
  <2> HIDE DEF g
  <2>4. H(n + 1, g)
    BY <2>2, <2>3
  <2> HIDE DEF H
  <2> QED BY <2>4
<1> HIDE DEF H
<1>3. N \in K
  BY <1>1, <1>2, NatInduction_Set, Zenon
<1>4. PICK f0 : H(N, f0)
  BY <1>3
<1>5. G(f0)
  <2>1. ASSUME NEW i \in 0 .. N
        PROVE  f0[i] = IF i = 0 THEN s ELSE PickNext(f0[i - 1], t)
    <3>1. CASE i = 0
      BY <3>1, <1>4 DEF H
    <3>2. CASE i # 0
      <4>1. i \in 1 .. N
        BY <3>2
      <4> QED BY <3>2, <4>1, <1>4 DEF H
    <3> QED BY <3>1, <3>2
  <2>2. f0 = [i \in 0 .. N |-> f0[i]]
    BY <1>4 DEF H
  <2> QED BY <2>1, <2>2
<1> DEFINE F == CHOOSE f : G(f)
<1>6. PickAll(s, t) = F[N]
  BY DEF PickAll
<1> HIDE DEF G
<1>7. G(F)
  BY <1>5
<1> HIDE DEF F
<1>8. F = [n \in 0 .. N |-> IF n = 0 THEN s ELSE PickNext(F[n - 1], t)]
  BY <1>7 DEF G
<1>9. PickTurns(F, s, t)
  BY <1>8 DEF PickTurns
<1> QED BY <1>6, <1>9

\* What every turn preserves, the whole loop preserves.
LEMMA PickAllPreserves ==
  ASSUME NEW X, NEW s \in X, NEW t, Len(s.queue) \in Nat,
         \A x \in X : PickNext(x, t) \in X
  PROVE  PickAll(s, t) \in X
<1>1. PICK f : PickTurns(f, s, t) /\ PickAll(s, t) = f[Len(s.queue)]
  BY PickAllUnfolds
<1> DEFINE J == {n \in Nat : n <= Len(s.queue) => f[n] \in X}
<1>2. 0 \in J
  BY <1>1 DEF PickTurns
<1>3. ASSUME NEW n \in Nat, n \in J PROVE n + 1 \in J
  <2> SUFFICES ASSUME n + 1 <= Len(s.queue) PROVE f[n + 1] \in X
    OBVIOUS
  <2>1. f[n + 1] = PickNext(f[n], t)
    BY <1>1 DEF PickTurns
  <2> QED BY <2>1, <1>3
<1>4. Nat \subseteq J
  BY <1>2, <1>3, NatInduction_Set, Zenon
<1> QED BY <1>1, <1>4

-----------------------------------------------------------------------------
(* One turn.                                                               *)

LEMMA CandidateFits ==
  ASSUME NEW s, NEW t, NEW i \in CandidateIndex(s, t)
  PROVE  SlotFree(s) /\ i \in DOMAIN s.queue /\ Fits(s, s.queue[i])
BY DEF CandidateIndex, First, Oldest, Starved, Idle, Fitting

LEMMA QueuedAsRunning ==
  \A q \in Queued : AsRunning(q) \in Running /\ AsRunning(q).id = q.id
BY DEF Queued, Running, AsRunning

LEMMA TakeFields ==
  ASSUME NEW s \in State, NEW i \in DOMAIN s.queue
  PROVE  /\ Take(s, i) \in State
         /\ Take(s, i).limits = s.limits
         /\ Take(s, i).held = s.held
         /\ Take(s, i).running = s.running \cup {AsRunning(s.queue[i])}
         /\ Take(s, i).queue = Without(s.queue, {s.queue[i].id})
<1>1. s.queue \in Seq(Queued) /\ s.queue[i] \in Queued
  BY DEF State
<1>2. Without(s.queue, {s.queue[i].id}) \in Seq(Queued)
  BY <1>1, WithoutElements
<1>3. AsRunning(s.queue[i]) \in Running
  BY <1>1, QueuedAsRunning
<1> QED BY <1>2, <1>3 DEF Take, Started, State

LEMMA PickNextCases ==
  ASSUME NEW s, NEW t
  PROVE  \/ PickNext(s, t) = s /\ CandidateIndex(s, t) = {}
         \/ \E i \in CandidateIndex(s, t) : PickNext(s, t) = Take(s, i)
BY DEF PickNext

LEMMA PickAllType ==
  ASSUME NEW s \in State, NEW t
  PROVE  PickAll(s, t) \in State
<1>1. Len(s.queue) \in Nat
  BY DEF State
<1>2. ASSUME NEW x \in State PROVE PickNext(x, t) \in State
  <2>1. CASE PickNext(x, t) = x
    BY <2>1
  <2>2. ASSUME NEW i \in CandidateIndex(x, t), PickNext(x, t) = Take(x, i)
        PROVE  PickNext(x, t) \in State
    BY <2>2, CandidateFits, TakeFields
  <2> QED BY <2>1, <2>2, PickNextCases
<1> QED BY <1>1, <1>2, PickAllPreserves

LEMMA FreedFields ==
  ASSUME NEW s \in State, NEW id, NEW hold \in BOOLEAN
  PROVE  LET mine == {r \in s.running : r.id = id}
             f == Freed(s, id, hold)
         IN  /\ f \in State
             /\ f.limits = s.limits
             /\ f.queue = s.queue
             /\ f.running = s.running \ mine
             /\ f.held = IF hold THEN s.held \cup mine ELSE s.held
BY DEF Freed, State

-----------------------------------------------------------------------------
(* Type correctness.                                                       *)

\* One operation keeps the shape of the struct.
LEMMA TypeStep ==
  TypeOK /\ [Next]_schedVars => TypeOK'
<1> USE SchedulerAssumption
<1> SUFFICES ASSUME TypeOK, [Next]_schedVars PROVE TypeOK'
  OBVIOUS
<1>0. /\ sched \in State
      /\ sched.queue \in Seq(Queued)
      /\ mono \in 0 .. MaxTime
      /\ now \in mono .. MaxTime
      /\ now \in Nat
  BY DEF TypeOK, State
<1>1. ASSUME NEW id \in RunId, NEW p \in Project, NEW m \in Memory,
             NEW timeout \in QueueTimeout, Submit(id, p, m, timeout)
      PROVE  TypeOK'
  <2> DEFINE r == Request(id, p, m, timeout)
  <2>1. r \in Queued
    BY <1>0 DEF Request, Queued
  <2>2. CASE SubmitImpossible(r) \/ SubmitQueueFull(r)
    BY <2>2 DEF SubmitImpossible, SubmitQueueFull, schedVars, TypeOK
  <2>3. CASE SubmitStart(r)
    <3>1. AsRunning(r) \in Running
      BY <2>1, QueuedAsRunning
    <3>2. Started(sched, r) \in State
      BY <1>0, <3>1 DEF Started, State
    <3> QED BY <1>0, <2>3, <3>2 DEF SubmitStart, TypeOK, State
  <2>4. CASE SubmitQueued(r)
    <3>1. Append(sched.queue, r) \in Seq(Queued)
      BY <1>0, <2>1
    <3> QED BY <1>0, <2>4, <3>1 DEF SubmitQueued, TypeOK
  <2> QED BY <1>1, <2>2, <2>3, <2>4 DEF Submit
<1>2. ASSUME NEW id \in RunId, NEW hold \in BOOLEAN, Release(id, hold)
      PROVE  TypeOK'
  <2>1. PickAll(Freed(sched, id, hold), now) \in State
    BY <1>0, FreedFields, PickAllType
  <2> QED BY <1>0, <1>2, <2>1 DEF Release, TypeOK, State
<1>3. ASSUME NEW id \in RunId, CancelQueued(id)
      PROVE  TypeOK'
  <2>1. Without(sched.queue, {id}) \in Seq(Queued)
    BY <1>0, WithoutElements
  <2> QED BY <1>0, <1>3, <2>1 DEF CancelQueued, TypeOK
<1>4. CASE Expire
  <2>1. Without(sched.queue, Ids(Overdue(sched, now))) \in Seq(Queued)
    BY <1>0, WithoutElements
  <2> QED BY <1>0, <1>4, <2>1 DEF Expire, TypeOK
<1>5. ASSUME NEW l \in LimitChoices, SetLimits(l)
      PROVE  TypeOK'
  BY <1>0, <1>5 DEF SetLimits, TypeOK
<1>6. CASE Tick
  BY <1>0, <1>6 DEF Tick, TypeOK
<1>7. CASE WallStep
  BY <1>0, <1>7 DEF WallStep, TypeOK
<1>8. CASE UNCHANGED schedVars
  BY <1>8 DEF schedVars, TypeOK
<1> QED BY <1>1, <1>2, <1>3, <1>4, <1>5, <1>6, <1>7, <1>8 DEF Next

(***************************************************************************)
(* The struct keeps its shape through every operation, the multi-admission *)
(* release included, and logical time never falls behind the monotonic     *)
(* clock.                                                                  *)
(***************************************************************************)
THEOREM TypeCorrect == Spec => []TypeOK
<1> USE SchedulerAssumption
<1>1. Init => TypeOK
  BY DEF Init, TypeOK, Limits
<1>2. TypeOK /\ [Next]_schedVars => TypeOK'
  BY TypeStep
<1> QED BY <1>1, <1>2, PTL DEF Spec

-----------------------------------------------------------------------------
(* One place for every run.                                                *)

LEMMA SeparateMeans ==
  ASSUME NEW s
  PROVE  Separate(s) <=>
          /\ \A q, r \in s.running \cup s.held : q.id = r.id => q = r
          /\ \A r \in s.running : r \notin s.held
          /\ \A i, j \in DOMAIN s.queue : s.queue[i].id = s.queue[j].id => i = j
          /\ \A i \in DOMAIN s.queue, r \in s.running \cup s.held :
                s.queue[i].id # r.id
BY DEF Separate, Ids, Waiting

\* Taking requests out of the queue keeps the rest in one place.
LEMMA WithoutSeparate ==
  ASSUME NEW s \in State, Separate(s), NEW gone, NEW u \in State,
         u.running = s.running, u.held = s.held, u.queue = Without(s.queue, gone)
  PROVE  Separate(u)
<1>1. s.queue \in Seq(Queued)
  BY DEF State
<1>2. \A i, j \in DOMAIN u.queue : u.queue[i].id = u.queue[j].id => i = j
  BY <1>1, WithoutKeepsDistinct, SeparateMeans
<1>3. \A i \in DOMAIN u.queue : \E k \in DOMAIN s.queue : u.queue[i] = s.queue[k]
  BY <1>1, WithoutElements
<1> QED BY <1>2, <1>3, SeparateMeans

LEMMA TakeSeparate ==
  ASSUME NEW s \in State, Separate(s), NEW i \in DOMAIN s.queue
  PROVE  Separate(Take(s, i))
<1> DEFINE q == s.queue[i]
           u == Take(s, i)
<1>1. s.queue \in Seq(Queued) /\ q \in Queued
  BY DEF State
<1>2. /\ u.held = s.held
      /\ u.running = s.running \cup {AsRunning(q)}
      /\ u.queue = Without(s.queue, {q.id})
      /\ AsRunning(q).id = q.id
  BY <1>1, TakeFields, QueuedAsRunning
<1> HIDE DEF u
<1>3. \A k, l \in DOMAIN u.queue : u.queue[k].id = u.queue[l].id => k = l
  BY <1>1, <1>2, WithoutKeepsDistinct, SeparateMeans
<1>4. \A k \in DOMAIN u.queue :
        /\ u.queue[k].id # q.id
        /\ \E l \in DOMAIN s.queue : u.queue[k] = s.queue[l]
  <2> DEFINE w == Without(s.queue, {q.id})
  <2>1. ASSUME NEW gone
        PROVE  LET v == Without(s.queue, gone)
               IN  /\ \A k \in DOMAIN v : v[k].id \notin gone
                   /\ \A k \in DOMAIN v : \E l \in DOMAIN s.queue : v[k] = s.queue[l]
    BY <1>1, WithoutElements
  <2>2. /\ \A k \in DOMAIN w : w[k].id \notin {q.id}
        /\ \A k \in DOMAIN w : \E l \in DOMAIN s.queue : w[k] = s.queue[l]
    BY <2>1
  <2> HIDE DEF w
  <2> QED BY <2>2, <1>2 DEF w
<1>5. \A r \in s.running \cup s.held : r.id # q.id
  BY SeparateMeans
<1>6. /\ \A r, v \in u.running \cup u.held : r.id = v.id => r = v
      /\ \A r \in u.running : r \notin u.held
  BY <1>2, <1>5, SeparateMeans
<1>7. ASSUME NEW k \in DOMAIN u.queue, NEW r \in u.running \cup u.held
      PROVE  u.queue[k].id # r.id
  <2>1. CASE r = AsRunning(q)
    BY <2>1, <1>2, <1>4
  <2>2. CASE r \in s.running \cup s.held
    BY <2>2, <1>4, SeparateMeans
  <2> QED BY <2>1, <2>2, <1>2
<1> QED BY <1>3, <1>6, <1>7, SeparateMeans DEF u

LEMMA PickAllSeparate ==
  ASSUME NEW s \in State, Separate(s), NEW t
  PROVE  Separate(PickAll(s, t))
<1> DEFINE X == {x \in State : Separate(x)}
<1>1. Len(s.queue) \in Nat
  BY DEF State
<1>2. ASSUME NEW x \in X PROVE PickNext(x, t) \in X
  <2>1. CASE PickNext(x, t) = x
    BY <2>1
  <2>2. ASSUME NEW i \in CandidateIndex(x, t), PickNext(x, t) = Take(x, i)
        PROVE  PickNext(x, t) \in X
    BY <2>2, CandidateFits, TakeFields, TakeSeparate
  <2> QED BY <2>1, <2>2, PickNextCases
<1>3. s \in X
  OBVIOUS
<1> HIDE DEF X
<1>4. PickAll(s, t) \in X
  BY <1>1, <1>2, <1>3, PickAllPreserves
<1> QED BY <1>4 DEF X

LEMMA FreedSeparate ==
  ASSUME NEW s \in State, Separate(s), NEW id, NEW hold \in BOOLEAN
  PROVE  Separate(Freed(s, id, hold))
<1> DEFINE f == Freed(s, id, hold)
<1>1. /\ f.queue = s.queue
      /\ f.running = s.running \ {r \in s.running : r.id = id}
      /\ f.held = IF hold THEN s.held \cup {r \in s.running : r.id = id}
                          ELSE s.held
  BY DEF Freed, State
<1> HIDE DEF f
<1>2. f.running \cup f.held \subseteq s.running \cup s.held
  BY <1>1
<1>3. \A r \in f.running : r \notin f.held
  BY <1>1, SeparateMeans
<1> QED BY <1>1, <1>2, <1>3, SeparateMeans DEF f

\* One operation puts no run in two places.
LEMMA OnePlaceStep ==
  TypeOK /\ OnePlace /\ [Next]_schedVars => OnePlace'
<1> USE SchedulerAssumption
<1> SUFFICES ASSUME TypeOK, OnePlace, [Next]_schedVars PROVE Separate(sched')
  BY DEF OnePlace
<1>0. /\ sched \in State
      /\ sched.queue \in Seq(Queued)
      /\ now \in Nat
      /\ Separate(sched)
  BY DEF TypeOK, OnePlace, State
<1>1. ASSUME NEW id \in RunId, NEW p \in Project, NEW m \in Memory,
             NEW timeout \in QueueTimeout, Submit(id, p, m, timeout)
      PROVE  Separate(sched')
  <2> DEFINE r == Request(id, p, m, timeout)
  <2>1. r \in Queued /\ r.id = id
    BY <1>0 DEF Request, Queued
  <2>2. /\ \A x \in sched.running \cup sched.held : x.id # id
        /\ \A i \in DOMAIN sched.queue : sched.queue[i].id # id
    BY <1>1 DEF Submit, Ids, Waiting
  <2>3. CASE SubmitImpossible(r) \/ SubmitQueueFull(r)
    BY <1>0, <2>3 DEF SubmitImpossible, SubmitQueueFull, schedVars
  <2>4. CASE SubmitStart(r)
    <3>1. AsRunning(r).id = id
      BY <2>1, QueuedAsRunning
    <3>2. /\ sched'.running = sched.running \cup {AsRunning(r)}
          /\ sched'.held = sched.held
          /\ sched'.queue = sched.queue
      BY <1>0, <2>4 DEF SubmitStart, Started, State
    <3> HIDE DEF r
    <3> QED BY <1>0, <2>2, <3>1, <3>2, SeparateMeans
  <2>5. CASE SubmitQueued(r)
    <3>1. /\ sched'.running = sched.running
          /\ sched'.held = sched.held
          /\ sched'.queue = Append(sched.queue, r)
      BY <1>0, <2>5 DEF SubmitQueued, State
    <3> DEFINE n == Len(sched.queue)
    <3>2. /\ n \in Nat
          /\ DOMAIN sched.queue = 1 .. n
          /\ DOMAIN sched'.queue = 1 .. (n + 1)
          /\ sched'.queue[n + 1] = r
          /\ \A i \in 1 .. n : sched'.queue[i] = sched.queue[i]
      BY <1>0, <2>1, <3>1
    <3> HIDE DEF r, n
    <3>3. \A i \in 1 .. (n + 1) : i \in 1 .. n \/ i = n + 1
      BY <3>2
    <3>4. \A i, j \in 1 .. (n + 1) :
            sched'.queue[i].id = sched'.queue[j].id => i = j
      BY <1>0, <2>1, <2>2, <3>2, <3>3, SeparateMeans
    <3>5. \A i \in 1 .. (n + 1), x \in sched'.running \cup sched'.held :
            sched'.queue[i].id # x.id
      BY <1>0, <2>1, <2>2, <3>1, <3>2, <3>3, SeparateMeans
    <3> QED BY <1>0, <3>1, <3>2, <3>4, <3>5, SeparateMeans
  <2> QED BY <1>1, <2>3, <2>4, <2>5 DEF Submit
<1>2. ASSUME NEW id \in RunId, NEW hold \in BOOLEAN, Release(id, hold)
      PROVE  Separate(sched')
  <2>1. Separate(PickAll(Freed(sched, id, hold), now))
    BY <1>0, FreedFields, FreedSeparate, PickAllSeparate
  <2> QED BY <1>0, <1>2, <2>1 DEF Release
<1>3. ASSUME NEW gone, sched' = [sched EXCEPT !.queue = Without(@, gone)]
      PROVE  Separate(sched')
  <2>1. Without(sched.queue, gone) \in Seq(Queued)
    BY <1>0, WithoutElements
  <2>2. /\ sched' \in State
        /\ sched'.running = sched.running
        /\ sched'.held = sched.held
        /\ sched'.queue = Without(sched.queue, gone)
    BY <1>0, <1>3, <2>1 DEF State
  <2> QED BY <1>0, <2>2, WithoutSeparate
<1>4. ASSUME NEW id \in RunId, CancelQueued(id)
      PROVE  Separate(sched')
  BY <1>3, <1>4 DEF CancelQueued
<1>5. CASE Expire
  BY <1>3, <1>5 DEF Expire
<1>6. ASSUME NEW l \in LimitChoices, SetLimits(l)
      PROVE  Separate(sched')
  <2>1. /\ sched'.running = sched.running
        /\ sched'.held = sched.held
        /\ sched'.queue = sched.queue
    BY <1>0, <1>6 DEF SetLimits, State
  <2> QED BY <1>0, <2>1, SeparateMeans
<1>7. CASE Tick \/ WallStep \/ UNCHANGED schedVars
  BY <1>0, <1>7 DEF Tick, WallStep, schedVars
<1> QED BY <1>1, <1>2, <1>4, <1>5, <1>6, <1>7 DEF Next

(***************************************************************************)
(* No operation puts a run in two places: a release that starts several    *)
(* waiting requests takes each out of the queue exactly once, and a held   *)
(* reservation is never also a running one.                                *)
(***************************************************************************)
THEOREM OnePlaceAlways == Spec => []OnePlace
<1> USE SchedulerAssumption
<1>1. Init => OnePlace
  BY DEF Init, OnePlace, Separate, Ids, Waiting
<1>2. TypeOK /\ OnePlace /\ [Next]_schedVars => OnePlace'
  BY OnePlaceStep
<1> QED BY <1>1, <1>2, TypeCorrect, PTL DEF Spec

-----------------------------------------------------------------------------
(* Admission and the limits.                                               *)

FiniteRuns(s) == IsFiniteSet(s.running) /\ IsFiniteSet(s.held)

LEMMA UnitsCounted ==
  ASSUME NEW r \in Running
  PROVE  IsFiniteSet(Units(r)) /\ Cardinality(Units(r)) = r.memory
<1>1. r.memory \in Nat
  BY DEF Running
<1>2. IsFiniteSet({r.id}) /\ Cardinality({r.id}) = 1
  BY FS_Singleton
<1>3. IsFiniteSet(1 .. r.memory) /\ Cardinality(1 .. r.memory) = r.memory
  BY <1>1, UpTo
<1>4. /\ IsFiniteSet({r.id} \X (1 .. r.memory))
      /\ Cardinality({r.id} \X (1 .. r.memory)) = 1 * r.memory
  <2> DEFINE One == {r.id}
             Megabytes == 1 .. r.memory
  <2>1. IsFiniteSet(One) /\ Cardinality(One) = 1
    BY <1>2
  <2>2. IsFiniteSet(Megabytes) /\ Cardinality(Megabytes) = r.memory
    BY <1>3
  <2> HIDE DEF One, Megabytes
  <2>3. /\ IsFiniteSet(One \X Megabytes)
        /\ Cardinality(One \X Megabytes) = Cardinality(One) * Cardinality(Megabytes)
    BY <2>1, <2>2, FS_Product
  <2> QED BY <2>1, <2>2, <2>3 DEF One, Megabytes
<1> QED BY <1>1, <1>4 DEF Units

AllUnits(runs) == UNION {Units(r) : r \in runs}

LEMMA AllUnitsFinite ==
  ASSUME NEW runs \in SUBSET Running, IsFiniteSet(runs)
  PROVE  IsFiniteSet(AllUnits(runs))
<1> DEFINE T == {Units(r) : r \in runs}
           f == [r \in runs |-> Units(r)]
<1>1. f \in Surjection(runs, T)
  BY DEF Surjection
<1>2. IsFiniteSet(T)
  BY <1>1, FS_Surjection
<1>3. \A U \in T : IsFiniteSet(U)
  BY UnitsCounted
<1> QED BY <1>2, <1>3, FS_UNION DEF AllUnits

\* One more run costs at most its own reservation.
LEMMA ReservedGrows ==
  ASSUME NEW s \in State, FiniteRuns(s), NEW a \in Running, NEW u,
         u.running = s.running \cup {a}, u.held = s.held
  PROVE  /\ Reserved(s) \in Nat
         /\ Reserved(u) \in Nat
         /\ Reserved(u) <= Reserved(s) + a.memory
<1> DEFINE A == AllUnits(s.running \cup s.held)
           B == Units(a)
<1>1. s.running \cup s.held \in SUBSET Running
  BY DEF State
<1>2. IsFiniteSet(s.running \cup s.held)
  BY FS_Union DEF FiniteRuns
<1>3. IsFiniteSet(A) /\ IsFiniteSet(B) /\ Cardinality(B) = a.memory
  BY <1>1, <1>2, AllUnitsFinite, UnitsCounted
<1>4. UNION {Units(r) : r \in u.running \cup u.held} = A \cup B
  BY DEF AllUnits
<1>5. Reserved(s) = Cardinality(A) /\ Reserved(u) = Cardinality(A \cup B)
  BY <1>4 DEF Reserved, AllUnits
<1> HIDE DEF A, B
<1>6. /\ Cardinality(A) \in Nat
      /\ Cardinality(A \cap B) \in Nat
      /\ IsFiniteSet(A \cup B)
      /\ Cardinality(A \cup B) = Cardinality(A) + a.memory - Cardinality(A \cap B)
  BY <1>3, FS_Union, FS_Intersection, FS_CardinalityType
<1>7. Cardinality(A \cup B) \in Nat
  BY <1>6, FS_CardinalityType
<1> QED BY <1>5, <1>6, <1>7 DEF Running

LEMMA AddOne ==
  ASSUME NEW S, IsFiniteSet(S), NEW x
  PROVE  /\ IsFiniteSet(S \cup {x})
         /\ Cardinality(S) \in Nat
         /\ Cardinality(S \cup {x}) \in Nat
         /\ Cardinality(S \cup {x}) <= Cardinality(S) + 1
<1>1. /\ IsFiniteSet(S \cup {x})
      /\ Cardinality(S \cup {x}) = IF x \in S THEN Cardinality(S) ELSE Cardinality(S) + 1
  BY FS_AddElement
<1>2. Cardinality(S) \in Nat /\ Cardinality(S \cup {x}) \in Nat
  BY <1>1, FS_CardinalityType
<1> QED BY <1>1, <1>2

(***************************************************************************)
(* One admission: the run that is added respects the limits, and the runs  *)
(* that did so before still do.                                            *)
(***************************************************************************)
LEMMA AdmitRespectsLimits ==
  ASSUME NEW s \in State, FiniteRuns(s), NEW q, CanAdmit(s, q),
         NEW a \in Running, a.project = q.project, a.memory = q.memory,
         NEW u, u.running = s.running \cup {a}, u.held = s.held,
         u.limits = s.limits
  PROVE  /\ RespectsLimits(u, a)
         /\ \A r \in s.running : RespectsLimits(s, r) => RespectsLimits(u, r)
<1>0. /\ s.limits.max_parallel \in Nat
      /\ s.limits.max_parallel_per_project \in Nat
      /\ s.limits.memory_budget \in Nat
      /\ a.memory \in Nat
  BY DEF State, Limits, Running
<1>1. Cardinality(u.running) <= u.limits.max_parallel
  <2>1. /\ Cardinality(s.running) \in Nat
        /\ Cardinality(s.running \cup {a}) \in Nat
        /\ Cardinality(s.running \cup {a}) <= Cardinality(s.running) + 1
    BY AddOne DEF FiniteRuns
  <2> QED BY <2>1, <1>0 DEF CanAdmit, SlotFree
<1>2. Cardinality(ProjectRuns(u, a.project)) <= u.limits.max_parallel_per_project
  <2> DEFINE P == ProjectRuns(s, a.project)
  <2>1. ProjectRuns(u, a.project) = P \cup {a}
    BY DEF ProjectRuns
  <2>2. IsFiniteSet(P)
    BY FS_Subset DEF ProjectRuns, FiniteRuns
  <2> HIDE DEF P
  <2>3. /\ Cardinality(P) \in Nat
        /\ Cardinality(P \cup {a}) \in Nat
        /\ Cardinality(P \cup {a}) <= Cardinality(P) + 1
    BY <2>2, AddOne
  <2>4. Cardinality(P) < s.limits.max_parallel_per_project
    BY DEF P, CanAdmit, Fits, ProjectSlotFree
  <2> QED BY <2>1, <2>3, <2>4, <1>0
<1>3. Reserved(u) <= u.limits.memory_budget
  <2>1. Reserved(s) + a.memory <= s.limits.memory_budget
    BY DEF CanAdmit, Fits
  <2> QED BY <2>1, <1>0, ReservedGrows
<1>4. ASSUME NEW r \in s.running, RespectsLimits(s, r)
      PROVE  Cardinality(ProjectRuns(u, r.project)) <= u.limits.max_parallel_per_project
  <2>1. CASE r.project = a.project
    BY <2>1, <1>2
  <2>2. CASE r.project # a.project
    <3>1. ProjectRuns(u, r.project) = ProjectRuns(s, r.project)
      BY <2>2 DEF ProjectRuns
    <3> QED BY <3>1, <1>4 DEF RespectsLimits
  <2> QED BY <2>1, <2>2
<1> QED BY <1>1, <1>2, <1>3, <1>4 DEF RespectsLimits

LEMMA TakeFits ==
  ASSUME NEW s \in State, FiniteRuns(s), NEW t, NEW i \in CandidateIndex(s, t)
  PROVE  LET a == AsRunning(s.queue[i])
             u == Take(s, i)
         IN  /\ u \in State
             /\ FiniteRuns(u)
             /\ u.running = s.running \cup {a}
             /\ RespectsLimits(u, a)
             /\ \A r \in s.running : RespectsLimits(s, r) => RespectsLimits(u, r)
<1> DEFINE q == s.queue[i]
           a == AsRunning(q)
           u == Take(s, i)
<1>1. i \in DOMAIN s.queue /\ CanAdmit(s, q)
  BY CandidateFits DEF CanAdmit
<1>2. q \in Queued
  BY <1>1 DEF State
<1>3. /\ a \in Running
      /\ a.project = q.project
      /\ a.memory = q.memory
  BY <1>2, QueuedAsRunning DEF AsRunning
<1>4. /\ u \in State
      /\ u.running = s.running \cup {a}
      /\ u.held = s.held
      /\ u.limits = s.limits
  BY <1>1, TakeFields
<1> HIDE DEF q, a, u
<1>5. FiniteRuns(u)
  BY <1>4, FS_AddElement DEF FiniteRuns
<1>6. /\ RespectsLimits(u, a)
      /\ \A r \in s.running : RespectsLimits(s, r) => RespectsLimits(u, r)
  BY <1>1, <1>3, <1>4, AdmitRespectsLimits
<1> QED BY <1>4, <1>5, <1>6 DEF q, a, u

LEMMA PickAllRespectsLimits ==
  ASSUME NEW s \in State, FiniteRuns(s), NEW t
  PROVE  LET u == PickAll(s, t)
         IN  /\ FiniteRuns(u)
             /\ \A r \in u.running \ s.running : RespectsLimits(u, r)
<1> DEFINE X == {x \in State :
                  /\ FiniteRuns(x)
                  /\ \A r \in x.running \ s.running : RespectsLimits(x, r)}
<1>1. Len(s.queue) \in Nat
  BY DEF State
<1>2. ASSUME NEW x \in X PROVE PickNext(x, t) \in X
  <2>1. CASE PickNext(x, t) = x
    BY <2>1
  <2>2. ASSUME NEW i \in CandidateIndex(x, t), PickNext(x, t) = Take(x, i)
        PROVE  PickNext(x, t) \in X
    <3> DEFINE u == Take(x, i)
    <3>1. /\ u \in State
          /\ FiniteRuns(u)
          /\ \A r \in u.running : r \in x.running \/ RespectsLimits(u, r)
          /\ \A r \in x.running : RespectsLimits(x, r) => RespectsLimits(u, r)
      BY TakeFits
    <3> HIDE DEF u
    <3>2. u \in X
      BY <3>1
    <3> QED BY <3>2, <2>2 DEF u
  <2> QED BY <2>1, <2>2, PickNextCases
<1>3. s \in X
  OBVIOUS
<1> HIDE DEF X
<1>4. PickAll(s, t) \in X
  BY <1>1, <1>2, <1>3, PickAllPreserves
<1> QED BY <1>4 DEF X

LEMMA FreedFinite ==
  ASSUME NEW s \in State, FiniteRuns(s), NEW id, NEW hold \in BOOLEAN
  PROVE  /\ FiniteRuns(Freed(s, id, hold))
         /\ Freed(s, id, hold).running \subseteq s.running
<1> DEFINE mine == {r \in s.running : r.id = id}
<1>1. IsFiniteSet(mine) /\ IsFiniteSet(s.running \ mine)
  BY FS_Subset DEF FiniteRuns
<1>2. IsFiniteSet(s.held \cup mine)
  BY <1>1, FS_Union DEF FiniteRuns
<1>3. /\ Freed(s, id, hold).running = s.running \ mine
      /\ Freed(s, id, hold).held = IF hold THEN s.held \cup mine ELSE s.held
  BY DEF Freed, State
<1> QED BY <1>1, <1>2, <1>3 DEF FiniteRuns

FiniteInv == FiniteRuns(sched)

LEMMA FiniteAlways == Spec => []FiniteInv
<1> USE SchedulerAssumption
<1>1. Init => FiniteInv
  BY FS_EmptySet DEF Init, FiniteInv, FiniteRuns
<1>2. TypeOK /\ FiniteInv /\ [Next]_schedVars => FiniteInv'
  <2> SUFFICES ASSUME TypeOK, FiniteRuns(sched), [Next]_schedVars
               PROVE  FiniteRuns(sched')
    BY DEF FiniteInv
  <2>0. sched \in State
    BY DEF TypeOK, State
  <2>1. ASSUME NEW r, SubmitStart(r)
        PROVE  FiniteRuns(sched')
    BY <2>0, <2>1, AddOne DEF SubmitStart, Started, State, FiniteRuns
  <2>2. ASSUME NEW id, NEW hold \in BOOLEAN, Release(id, hold)
        PROVE  FiniteRuns(sched')
    BY <2>0, <2>2, FreedFields, FreedFinite, PickAllRespectsLimits DEF Release
  <2>3. ASSUME sched'.running = sched.running, sched'.held = sched.held
        PROVE  FiniteRuns(sched')
    BY <2>3 DEF FiniteRuns
  <2>4. CASE \/ Expire \/ Tick \/ WallStep \/ UNCHANGED schedVars
             \/ \E id \in RunId : CancelQueued(id)
             \/ \E l \in LimitChoices : SetLimits(l)
    BY <2>0, <2>3, <2>4
       DEF Expire, Tick, WallStep, schedVars, CancelQueued, SetLimits, State
  <2>5. ASSUME NEW r, SubmitImpossible(r) \/ SubmitQueueFull(r) \/ SubmitQueued(r)
        PROVE  FiniteRuns(sched')
    BY <2>0, <2>3, <2>5
       DEF SubmitImpossible, SubmitQueueFull, SubmitQueued, schedVars, State
  <2> QED BY <2>1, <2>2, <2>4, <2>5 DEF Next, Submit
<1> QED BY <1>1, <1>2, TypeCorrect, PTL DEF Spec

(***************************************************************************)
(* No admission exceeds the limits in force: slots, the project's slots    *)
(* and the memory budget, reservations of failed cleanups included, for    *)
(* `submit` and for every run a release starts, whatever `set_limits` did  *)
(* before.                                                                 *)
(***************************************************************************)
THEOREM AdmissionSafe == Spec => AdmissionWithinLimits
<1> USE SchedulerAssumption
<1> DEFINE A == \A r \in sched'.running \ sched.running : RespectsLimits(sched', r)
<1>1. TypeOK /\ FiniteInv /\ [Next]_schedVars => [A]_schedVars
  <2> SUFFICES ASSUME TypeOK, FiniteRuns(sched), Next PROVE A
    BY DEF FiniteInv
  <2>0. sched \in State /\ now \in Nat
    BY DEF TypeOK, State
  <2>1. ASSUME NEW id \in RunId, NEW p \in Project, NEW m \in Memory,
               NEW timeout \in QueueTimeout,
               SubmitStart(Request(id, p, m, timeout))
        PROVE  A
    <3> DEFINE r == Request(id, p, m, timeout)
               a == AsRunning(r)
    <3>1. r \in Queued
      BY <2>0 DEF Request, Queued
    <3>2. /\ a \in Running
          /\ a.project = r.project
          /\ a.memory = r.memory
      BY <3>1, QueuedAsRunning DEF AsRunning
    <3>3. /\ sched'.running = sched.running \cup {a}
          /\ sched'.held = sched.held
          /\ sched'.limits = sched.limits
          /\ CanAdmit(sched, r)
      BY <2>0, <2>1 DEF SubmitStart, Started, State
    <3> HIDE DEF r, a
    <3>4. RespectsLimits(sched', a)
      BY <2>0, <3>2, <3>3, AdmitRespectsLimits
    <3> QED BY <3>3, <3>4
  <2>2. ASSUME NEW id \in RunId, NEW hold \in BOOLEAN, Release(id, hold)
        PROVE  A
    <3> DEFINE f == Freed(sched, id, hold)
    <3>1. f \in State /\ FiniteRuns(f) /\ f.running \subseteq sched.running
      BY <2>0, FreedFields, FreedFinite
    <3> HIDE DEF f
    <3>2. \A r \in PickAll(f, now).running \ f.running :
            RespectsLimits(PickAll(f, now), r)
      BY <3>1, PickAllRespectsLimits
    <3>3. sched' = PickAll(f, now) \/ sched' = sched
      BY <2>2 DEF Release, f
    <3> QED BY <3>1, <3>2, <3>3
  <2>3. ASSUME sched'.running = sched.running
        PROVE  A
    BY <2>3
  <2>4. CASE \/ Expire \/ Tick \/ WallStep
             \/ \E id \in RunId : CancelQueued(id)
             \/ \E l \in LimitChoices : SetLimits(l)
    BY <2>0, <2>3, <2>4 DEF Expire, Tick, WallStep, CancelQueued, SetLimits, State
  <2>5. ASSUME NEW r, SubmitImpossible(r) \/ SubmitQueueFull(r) \/ SubmitQueued(r)
        PROVE  A
    BY <2>0, <2>3, <2>5
       DEF SubmitImpossible, SubmitQueueFull, SubmitQueued, schedVars, State
  <2> QED BY <2>1, <2>2, <2>4, <2>5 DEF Next, Submit
<1> QED BY <1>1, TypeCorrect, FiniteAlways, PTL DEF Spec, AdmissionWithinLimits

-----------------------------------------------------------------------------
(* Limits that stay.                                                       *)

Within(s) ==
  /\ Cardinality(s.running) <= s.limits.max_parallel
  /\ \A p \in Project : Cardinality(ProjectRuns(s, p)) <= s.limits.max_parallel_per_project
  /\ Reserved(s) <= s.limits.memory_budget
  /\ Len(s.queue) <= s.limits.max_queued

\* A state with less in it is within the limits, too.
LEMMA LessIsWithin ==
  ASSUME NEW s \in State, FiniteRuns(s), Within(s), NEW u \in State,
         u.limits = s.limits, u.running \subseteq s.running,
         u.running \cup u.held \subseteq s.running \cup s.held,
         Len(u.queue) <= Len(s.queue)
  PROVE  Within(u)
<1>0. /\ s.limits.max_parallel \in Nat /\ s.limits.max_parallel_per_project \in Nat
      /\ s.limits.memory_budget \in Nat /\ s.limits.max_queued \in Nat
      /\ Len(s.queue) \in Nat /\ Len(u.queue) \in Nat
  BY DEF State, Limits
<1>1. Cardinality(u.running) <= s.limits.max_parallel
  <2>1. /\ Cardinality(u.running) \in Nat /\ Cardinality(s.running) \in Nat
        /\ Cardinality(u.running) <= Cardinality(s.running)
    BY FS_Subset, FS_CardinalityType DEF FiniteRuns
  <2> QED BY <1>0, <2>1 DEF Within
<1>2. ASSUME NEW p \in Project
      PROVE  Cardinality(ProjectRuns(u, p)) <= s.limits.max_parallel_per_project
  <2>1. ProjectRuns(u, p) \subseteq ProjectRuns(s, p) /\ IsFiniteSet(ProjectRuns(s, p))
    BY FS_Subset DEF ProjectRuns, FiniteRuns
  <2>2. /\ Cardinality(ProjectRuns(u, p)) \in Nat /\ Cardinality(ProjectRuns(s, p)) \in Nat
        /\ Cardinality(ProjectRuns(u, p)) <= Cardinality(ProjectRuns(s, p))
    BY <2>1, FS_Subset, FS_CardinalityType
  <2> QED BY <1>0, <2>2 DEF Within
<1>3. Reserved(u) <= s.limits.memory_budget
  <2> DEFINE A == AllUnits(s.running \cup s.held)
             B == AllUnits(u.running \cup u.held)
  <2>1. B \subseteq A
    BY DEF AllUnits
  <2>2. IsFiniteSet(A)
    BY FS_Union, AllUnitsFinite DEF State, FiniteRuns
  <2>3. Reserved(s) = Cardinality(A) /\ Reserved(u) = Cardinality(B)
    BY DEF Reserved, AllUnits
  <2> HIDE DEF A, B
  <2>4. Cardinality(A) \in Nat /\ Cardinality(B) \in Nat /\ Cardinality(B) <= Cardinality(A)
    BY <2>1, <2>2, FS_Subset, FS_CardinalityType
  <2> QED BY <1>0, <2>3, <2>4 DEF Within
<1> QED BY <1>0, <1>1, <1>2, <1>3 DEF Within

\* One more run that can be admitted leaves the limits respected.
LEMMA AdmitStaysWithin ==
  ASSUME NEW s \in State, FiniteRuns(s), Within(s), NEW q, CanAdmit(s, q),
         NEW a \in Running, a.project = q.project, a.memory = q.memory,
         NEW u, u.running = s.running \cup {a}, u.held = s.held,
         u.limits = s.limits, Len(u.queue) \in Nat, Len(u.queue) <= Len(s.queue)
  PROVE  Within(u)
<1>0. s.limits.max_queued \in Nat /\ Len(s.queue) \in Nat
  BY DEF State, Limits
<1>1. RespectsLimits(u, a)
  BY AdmitRespectsLimits
<1>2. ASSUME NEW p \in Project
      PROVE  Cardinality(ProjectRuns(u, p)) <= u.limits.max_parallel_per_project
  <2>1. CASE p = a.project
    BY <1>1, <2>1 DEF RespectsLimits
  <2>2. CASE p # a.project
    <3>1. ProjectRuns(u, p) = ProjectRuns(s, p)
      BY <2>2 DEF ProjectRuns
    <3> QED BY <3>1 DEF Within
  <2> QED BY <2>1, <2>2
<1>3. Len(u.queue) <= u.limits.max_queued
  BY <1>0 DEF Within
<1> QED BY <1>1, <1>2, <1>3 DEF Within, RespectsLimits

\* So does a whole release, and it changes no limit.
LEMMA PickAllStaysWithin ==
  ASSUME NEW s \in State, FiniteRuns(s), Within(s), NEW t
  PROVE  Within(PickAll(s, t)) /\ PickAll(s, t).limits = s.limits
<1> DEFINE X == {x \in State : FiniteRuns(x) /\ Within(x) /\ x.limits = s.limits}
<1>1. Len(s.queue) \in Nat
  BY DEF State
<1>2. ASSUME NEW x \in X PROVE PickNext(x, t) \in X
  <2>1. CASE PickNext(x, t) = x
    BY <2>1
  <2>2. ASSUME NEW i \in CandidateIndex(x, t), PickNext(x, t) = Take(x, i)
        PROVE  PickNext(x, t) \in X
    <3> DEFINE q == x.queue[i]
               a == AsRunning(q)
               u == Take(x, i)
    <3>1. i \in DOMAIN x.queue /\ CanAdmit(x, q)
      BY CandidateFits DEF CanAdmit
    <3>2. q \in Queued /\ x.queue \in Seq(Queued)
      BY <3>1 DEF State
    <3>3. a \in Running /\ a.project = q.project /\ a.memory = q.memory
      BY <3>2, QueuedAsRunning DEF AsRunning
    <3>4. /\ u \in State /\ u.running = x.running \cup {a} /\ u.held = x.held
          /\ u.limits = x.limits /\ u.queue = Without(x.queue, {q.id})
      BY <3>1, TakeFields
    <3>5. Len(u.queue) \in Nat /\ Len(u.queue) <= Len(x.queue)
      BY <3>2, <3>4, WithoutElements
    <3>6. FiniteRuns(u)
      BY TakeFits
    <3> HIDE DEF q, a, u
    <3>7. Within(u)
      BY <3>1, <3>3, <3>4, <3>5, AdmitStaysWithin
    <3> QED BY <2>2, <3>4, <3>6, <3>7 DEF u
  <2> QED BY <2>1, <2>2, PickNextCases
<1>3. s \in X
  OBVIOUS
<1> HIDE DEF X
<1>4. PickAll(s, t) \in X
  BY <1>1, <1>2, <1>3, PickAllPreserves
<1> QED BY <1>4 DEF X

(***************************************************************************)
(* With one configuration for the life of the process, what is running,    *)
(* reserved and queued is within it in every state, whatever was           *)
(* submitted, released, held after a failed cleanup, cancelled or expired  *)
(* (submit, release, pick_locked).                                         *)
(***************************************************************************)
THEOREM WithinLimitsAlways ==
  ASSUME \A k, l \in LimitChoices : k = l
  PROVE  Spec => []WithinLimits
<1> USE SchedulerAssumption
<1> DEFINE Inv == Within(sched) /\ sched.limits \in LimitChoices
<1>1. Init => Inv
  <2> SUFFICES ASSUME Init PROVE Inv
    OBVIOUS
  <2>1. /\ sched.running = {} /\ sched.held = {} /\ sched.queue = << >>
        /\ sched.limits \in LimitChoices /\ sched.limits \in Limits
    BY DEF Init
  <2>2. Cardinality({}) = 0
    BY FS_EmptySet
  <2>3. \A p \in Project : ProjectRuns(sched, p) = {}
    BY <2>1 DEF ProjectRuns
  <2>4. UNION {Units(r) : r \in sched.running \cup sched.held} = {}
    BY <2>1
  <2>5. /\ sched.limits.max_parallel \in Nat /\ sched.limits.max_parallel_per_project \in Nat
        /\ sched.limits.memory_budget \in Nat /\ sched.limits.max_queued \in Nat
    BY <2>1 DEF Limits
  <2>6. Len(sched.queue) = 0 /\ Reserved(sched) = 0
    BY <2>1, <2>2, <2>4 DEF Reserved
  <2>7. Cardinality(sched.running) = 0 /\ \A p \in Project : Cardinality(ProjectRuns(sched, p)) = 0
    BY <2>1, <2>2, <2>3
  <2>8. Within(sched)
    BY <2>5, <2>6, <2>7 DEF Within
  <2> QED BY <2>1, <2>8
<1>2. TypeOK /\ FiniteInv /\ Inv /\ [Next]_schedVars => Inv'
  <2> SUFFICES ASSUME TypeOK, FiniteRuns(sched), Inv, [Next]_schedVars PROVE Inv'
    BY DEF FiniteInv
  <2>0. sched \in State /\ sched.queue \in Seq(Queued) /\ now \in Nat
        /\ Len(sched.queue) \in Nat
    BY DEF TypeOK, State
  <2>1. ASSUME NEW id \in RunId, NEW p \in Project, NEW m \in Memory,
               NEW timeout \in QueueTimeout, Submit(id, p, m, timeout)
        PROVE  Inv'
    <3> DEFINE r == Request(id, p, m, timeout)
    <3>1. r \in Queued
      BY <2>0 DEF Request, Queued
    <3>2. CASE SubmitImpossible(r) \/ SubmitQueueFull(r)
      BY <3>2 DEF SubmitImpossible, SubmitQueueFull, schedVars
    <3>3. CASE SubmitStart(r)
      <4> DEFINE a == AsRunning(r)
      <4>1. a \in Running /\ a.project = r.project /\ a.memory = r.memory
        BY <3>1, QueuedAsRunning DEF AsRunning
      <4>2. /\ sched'.running = sched.running \cup {a} /\ sched'.held = sched.held
            /\ sched'.limits = sched.limits /\ sched'.queue = sched.queue
            /\ CanAdmit(sched, r)
        BY <2>0, <3>3 DEF SubmitStart, Started, State
      <4> HIDE DEF r, a
      <4>3. Within(sched')
        BY <2>0, <4>1, <4>2, AdmitStaysWithin
      <4> QED BY <4>2, <4>3
    <3>4. CASE SubmitQueued(r)
      <4>1. /\ sched'.running = sched.running /\ sched'.held = sched.held
            /\ sched'.limits = sched.limits /\ sched'.queue = Append(sched.queue, r)
            /\ Len(sched.queue) < sched.limits.max_queued
        BY <2>0, <3>4 DEF SubmitQueued, State
      <4>2. Len(sched'.queue) = Len(sched.queue) + 1 /\ sched.limits.max_queued \in Nat
        BY <2>0, <3>1, <4>1 DEF State, Limits
      <4> HIDE DEF r
      <4>3. \A x : ProjectRuns(sched', x) = ProjectRuns(sched, x)
        BY <4>1 DEF ProjectRuns
      <4>4. Reserved(sched') = Reserved(sched)
        BY <4>1 DEF Reserved
      <4> QED BY <2>0, <4>1, <4>2, <4>3, <4>4 DEF Within
    <3> QED BY <2>1, <3>2, <3>3, <3>4 DEF Submit
  <2>2. ASSUME NEW id \in RunId, NEW hold \in BOOLEAN, Release(id, hold)
        PROVE  Inv'
    <3> DEFINE f == Freed(sched, id, hold)
    <3>1. /\ f \in State /\ FiniteRuns(f) /\ f.running \subseteq sched.running
          /\ f.limits = sched.limits /\ f.queue = sched.queue
          /\ f.running \cup f.held \subseteq sched.running \cup sched.held
      <4>0. f \in State
        BY <2>0, FreedFields
      <4>1. f.limits = sched.limits /\ f.queue = sched.queue
        BY <2>0 DEF Freed, State
      <4>2. f.held \subseteq sched.running \cup sched.held
        BY <2>0 DEF Freed, State
      <4>3. FiniteRuns(f) /\ f.running \subseteq sched.running
        BY <2>0, FreedFinite, Zenon
      <4> HIDE DEF f
      <4> QED BY <4>0, <4>1, <4>2, <4>3
    <3> HIDE DEF f
    <3>2. Within(f)
      BY <2>0, <3>1, LessIsWithin
    <3>3. Within(PickAll(f, now)) /\ PickAll(f, now).limits = f.limits
      BY <3>1, <3>2, PickAllStaysWithin
    <3>4. sched' = PickAll(f, now) \/ sched' = sched
      BY <2>2 DEF Release, f
    <3> QED BY <3>1, <3>3, <3>4
  <2>3. ASSUME NEW gone, sched' = [sched EXCEPT !.queue = Without(@, gone)]
        PROVE  Inv'
    <3>1. Without(sched.queue, gone) \in Seq(Queued)
          /\ Len(Without(sched.queue, gone)) <= Len(sched.queue)
      BY <2>0, WithoutElements
    <3>2. /\ sched' \in State /\ sched'.limits = sched.limits
          /\ sched'.running = sched.running /\ sched'.held = sched.held
          /\ sched'.queue = Without(sched.queue, gone)
      BY <2>0, <2>3, <3>1 DEF State
    <3>3. Within(sched')
      BY <2>0, <3>1, <3>2, LessIsWithin
    <3> QED BY <3>2, <3>3
  <2>4. ASSUME NEW id \in RunId, CancelQueued(id)
        PROVE  Inv'
    BY <2>3, <2>4 DEF CancelQueued
  <2>5. CASE Expire
    BY <2>3, <2>5 DEF Expire
  <2>6. ASSUME NEW l \in LimitChoices, SetLimits(l)
        PROVE  Inv'
    <3>1. sched' = sched
      BY <2>0, <2>6 DEF SetLimits, State
    <3> QED BY <3>1
  <2>7. CASE Tick \/ WallStep \/ UNCHANGED schedVars
    BY <2>7 DEF Tick, WallStep, schedVars
  <2> QED BY <2>1, <2>2, <2>4, <2>5, <2>6, <2>7 DEF Next
<1>3. Inv => WithinLimits
  BY DEF Within, WithinLimits
<1> QED BY <1>1, <1>2, <1>3, TypeCorrect, FiniteAlways, PTL DEF Spec

-----------------------------------------------------------------------------
(* Where the operations put the runs, by their ids.                        *)

InQueue(s) == Ids(Waiting(s))

InSlot(s) == Ids(s.running)

\* `retain` on the queue takes the ids it is given out of it, and no other.
LEMMA WithoutIds ==
  ASSUME NEW s \in State, NEW gone, NEW u, u.queue = Without(s.queue, gone)
  PROVE  InQueue(u) = InQueue(s) \ gone
<1>1. s.queue \in Seq(Queued)
  BY DEF State
<1> DEFINE w == Without(s.queue, gone)
<1>2. /\ \A i \in DOMAIN w : w[i].id \notin gone
      /\ \A i \in DOMAIN w : \E k \in DOMAIN s.queue : w[i] = s.queue[k]
      /\ \A k \in DOMAIN s.queue :
            s.queue[k].id \notin gone => \E i \in DOMAIN w : w[i] = s.queue[k]
  BY <1>1, WithoutElements
<1> HIDE DEF w
<1>3. InQueue(u) = {w[i].id : i \in DOMAIN w}
  BY DEF InQueue, Ids, Waiting, w
<1>4. InQueue(s) = {s.queue[i].id : i \in DOMAIN s.queue}
  BY DEF InQueue, Ids, Waiting
<1> QED BY <1>2, <1>3, <1>4

LEMMA TakeIds ==
  ASSUME NEW s \in State, NEW i \in DOMAIN s.queue
  PROVE  LET u == Take(s, i)  id == s.queue[i].id
         IN  /\ id \in InQueue(s)
             /\ InQueue(u) = InQueue(s) \ {id}
             /\ InSlot(u) = InSlot(s) \cup {id}
<1> DEFINE u == Take(s, i)
           q == s.queue[i]
<1>1. s.queue \in Seq(Queued) /\ q \in Queued
  BY DEF State
<1>2. /\ u.running = s.running \cup {AsRunning(q)}
      /\ u.queue = Without(s.queue, {q.id})
      /\ AsRunning(q).id = q.id
  BY <1>1, TakeFields, QueuedAsRunning
<1>3. q.id \in InQueue(s)
  BY DEF InQueue, Ids, Waiting
<1> HIDE DEF u, q
<1>4. InQueue(u) = InQueue(s) \ {q.id}
  BY <1>2, WithoutIds
<1>5. InSlot(u) = InSlot(s) \cup {q.id}
  BY <1>2 DEF InSlot, Ids
<1> QED BY <1>3, <1>4, <1>5 DEF u, q

(***************************************************************************)
(* The loop of `release` moves ids from the queue to the slots: none is    *)
(* lost, none appears, and who had a slot keeps it.                        *)
(***************************************************************************)
LEMMA PickAllIds ==
  ASSUME NEW s \in State, NEW t
  PROVE  LET u == PickAll(s, t)
         IN  /\ u.held = s.held
             /\ InSlot(s) \subseteq InSlot(u)
             /\ InQueue(u) \cup InSlot(u) = InQueue(s) \cup InSlot(s)
<1> DEFINE X == {x \in State :
                   /\ x.held = s.held
                   /\ InSlot(s) \subseteq InSlot(x)
                   /\ InQueue(x) \cup InSlot(x) = InQueue(s) \cup InSlot(s)}
<1>1. Len(s.queue) \in Nat
  BY DEF State
<1>2. ASSUME NEW x \in X PROVE PickNext(x, t) \in X
  <2>1. CASE PickNext(x, t) = x
    BY <2>1
  <2>2. ASSUME NEW i \in CandidateIndex(x, t), PickNext(x, t) = Take(x, i)
        PROVE  PickNext(x, t) \in X
    <3> DEFINE u == Take(x, i)
    <3>1. i \in DOMAIN x.queue
      BY CandidateFits
    <3>2. u \in State /\ u.held = x.held
      BY <3>1, TakeFields
    <3>3. /\ x.queue[i].id \in InQueue(x)
          /\ InQueue(u) = InQueue(x) \ {x.queue[i].id}
          /\ InSlot(u) = InSlot(x) \cup {x.queue[i].id}
      BY <3>1, TakeIds
    <3> HIDE DEF u
    <3>4. /\ InSlot(s) \subseteq InSlot(u)
          /\ InQueue(u) \cup InSlot(u) = InQueue(x) \cup InSlot(x)
      BY <3>3
    <3>5. u \in X
      BY <3>2, <3>4
    <3> QED BY <3>5, <2>2 DEF u
  <2> QED BY <2>1, <2>2, PickNextCases
<1>3. s \in X
  OBVIOUS
<1> HIDE DEF X
<1>4. PickAll(s, t) \in X
  BY <1>1, <1>2, <1>3, PickAllPreserves
<1> QED BY <1>4 DEF X

LEMMA FreedIds ==
  ASSUME NEW s \in State, NEW id, NEW hold \in BOOLEAN
  PROVE  LET f == Freed(s, id, hold)
         IN  /\ InQueue(f) = InQueue(s)
             /\ InSlot(f) = InSlot(s) \ {id}
             /\ Ids(f.held) = Ids(s.held) \cup (IF hold THEN InSlot(s) \cap {id} ELSE {})
<1> DEFINE f == Freed(s, id, hold)
           mine == {r \in s.running : r.id = id}
<1>1. /\ f.queue = s.queue
      /\ f.running = s.running \ mine
      /\ f.held = IF hold THEN s.held \cup mine ELSE s.held
  BY DEF Freed, State
<1> HIDE DEF f
<1>2. InQueue(f) = InQueue(s)
  BY <1>1 DEF InQueue, Waiting
<1>3. InSlot(f) = InSlot(s) \ {id}
  BY <1>1 DEF InSlot, Ids
<1>4. Ids(f.held) = Ids(s.held) \cup (IF hold THEN InSlot(s) \cap {id} ELSE {})
  BY <1>1 DEF InSlot, Ids
<1> QED BY <1>2, <1>3, <1>4 DEF f

(***************************************************************************)
(* What every operation does to the ids in the queue, in a slot and held.  *)
(***************************************************************************)
LEMMA SubmitIds ==
  ASSUME TypeOK, NEW id, NEW p \in Project, NEW m \in Memory,
         NEW timeout \in QueueTimeout, id \in RunId, Submit(id, p, m, timeout)
  PROVE  /\ id \notin InSlot(sched) \cup InQueue(sched) \cup Ids(sched.held)
         /\ Ids(sched'.held) = Ids(sched.held)
         /\ \/ InSlot(sched') = InSlot(sched) /\ InQueue(sched') = InQueue(sched)
            \/ /\ InSlot(sched') = InSlot(sched) \cup {id}
               /\ InQueue(sched') = InQueue(sched)
            \/ /\ InSlot(sched') = InSlot(sched)
               /\ InQueue(sched') = InQueue(sched) \cup {id}
<1> DEFINE r == Request(id, p, m, timeout)
<1>0. sched \in State /\ sched.queue \in Seq(Queued) /\ now \in Nat
  BY SchedulerAssumption DEF TypeOK, State
<1>1. r \in Queued /\ r.id = id
  BY <1>0, SchedulerAssumption DEF Request, Queued
<1>2. id \notin InSlot(sched) \cup InQueue(sched) \cup Ids(sched.held)
  BY DEF Submit, InSlot, InQueue, Ids
<1>3. CASE SubmitImpossible(r) \/ SubmitQueueFull(r)
  BY <1>2, <1>3 DEF SubmitImpossible, SubmitQueueFull, schedVars
<1>4. CASE SubmitStart(r)
  <2>1. /\ sched'.running = sched.running \cup {AsRunning(r)}
        /\ sched'.held = sched.held
        /\ sched'.queue = sched.queue
        /\ AsRunning(r).id = id
    BY <1>0, <1>1, <1>4, QueuedAsRunning DEF SubmitStart, Started, State
  <2> HIDE DEF r
  <2>2. InSlot(sched') = InSlot(sched) \cup {id}
    BY <2>1 DEF InSlot, Ids
  <2>3. InQueue(sched') = InQueue(sched)
    BY <2>1 DEF InQueue, Waiting
  <2> QED BY <1>2, <2>1, <2>2, <2>3
<1>5. CASE SubmitQueued(r)
  <2>1. /\ sched'.running = sched.running
        /\ sched'.held = sched.held
        /\ sched'.queue = Append(sched.queue, r)
    BY <1>0, <1>5 DEF SubmitQueued, State
  <2> DEFINE n == Len(sched.queue)
  <2>2. /\ n \in Nat
        /\ DOMAIN sched.queue = 1 .. n
        /\ DOMAIN sched'.queue = 1 .. (n + 1)
        /\ sched'.queue[n + 1] = r
        /\ \A i \in 1 .. n : sched'.queue[i] = sched.queue[i]
    BY <1>0, <1>1, <2>1
  <2> HIDE DEF r, n
  <2>3. InQueue(sched') = {sched'.queue[i].id : i \in 1 .. (n + 1)}
    BY <2>2 DEF InQueue, Ids, Waiting
  <2>4. InQueue(sched) = {sched.queue[i].id : i \in 1 .. n}
    BY <2>2 DEF InQueue, Ids, Waiting
  <2>5. \A i \in 1 .. (n + 1) : i \in 1 .. n \/ i = n + 1
    BY <2>2
  <2>6. n + 1 \in 1 .. (n + 1) /\ \A i \in 1 .. n : i \in 1 .. (n + 1)
    BY <2>2
  <2>7. InQueue(sched') = InQueue(sched) \cup {id}
    BY <1>1, <2>2, <2>3, <2>4, <2>5, <2>6
  <2>8. InSlot(sched') = InSlot(sched)
    BY <2>1 DEF InSlot
  <2> QED BY <1>2, <2>1, <2>7, <2>8
<1> QED BY <1>3, <1>4, <1>5 DEF Submit

LEMMA ReleaseIds ==
  ASSUME TypeOK, OnePlace, NEW id, NEW hold \in BOOLEAN, Release(id, hold)
  PROVE  /\ id \notin InSlot(sched) => sched' = sched
         /\ InSlot(sched) \ {id} \subseteq InSlot(sched')
         /\ id \in InSlot(sched) => id \notin InSlot(sched') \cup InQueue(sched')
         /\ InSlot(sched') \cup InQueue(sched')
              = (InSlot(sched) \ {id}) \cup InQueue(sched)
         /\ Ids(sched.held) \subseteq Ids(sched'.held)
         /\ hold /\ id \in InSlot(sched) => id \in Ids(sched'.held)
<1>0. sched \in State /\ Separate(sched)
  BY DEF TypeOK, State, OnePlace
<1>1. CASE id \notin InSlot(sched)
  BY <1>1 DEF Release, InSlot
<1>2. CASE id \in InSlot(sched)
  <2> DEFINE f == Freed(sched, id, hold)
  <2>1. f \in State
    BY <1>0, FreedFields
  <2>2. /\ InQueue(f) = InQueue(sched)
        /\ InSlot(f) = InSlot(sched) \ {id}
        /\ Ids(f.held) = Ids(sched.held) \cup
                           (IF hold THEN InSlot(sched) \cap {id} ELSE {})
    BY <1>0, FreedIds
  <2>3. sched' = PickAll(f, now)
    BY <1>2 DEF Release, InSlot
  <2> HIDE DEF f
  <2>4. /\ sched'.held = f.held
        /\ InSlot(f) \subseteq InSlot(sched')
        /\ InQueue(sched') \cup InSlot(sched') = InQueue(f) \cup InSlot(f)
    BY <2>1, <2>3, PickAllIds
  <2>5. id \notin InQueue(sched)
    BY <1>0, <1>2 DEF Separate, InQueue, InSlot, Ids
  <2> QED BY <1>2, <2>2, <2>4, <2>5
<1> QED BY <1>1, <1>2

LEMMA RemovalIds ==
  ASSUME TypeOK, NEW gone, sched' = [sched EXCEPT !.queue = Without(@, gone)]
  PROVE  /\ sched'.held = sched.held
         /\ InSlot(sched') = InSlot(sched)
         /\ InQueue(sched') = InQueue(sched) \ gone
<1>0. sched \in State
  BY DEF TypeOK, State
<1>1. /\ sched'.held = sched.held
      /\ sched'.running = sched.running
      /\ sched'.queue = Without(sched.queue, gone)
  BY <1>0 DEF State
<1> QED BY <1>0, <1>1, WithoutIds DEF InSlot

-----------------------------------------------------------------------------
(* The loop of `release` ends when nothing fits.                           *)

LEMMA LeastExists ==
  ASSUME NEW S \in SUBSET Nat, S # {}
  PROVE  \E m \in S : \A n \in S : m <= n
<1>1. PICK m \in S : \A n \in S : ~ (<<n, m>> \in OpToRel(<, Nat))
  BY WFMin, NatLessThanWellFounded, Zenon
<1>2. \A n \in S : ~ (n < m)
  BY <1>1 DEF OpToRel
<1> QED BY <1>2

\* `find` and `min_by_key` find something where there is something.
LEMMA CandidateFound ==
  ASSUME NEW s \in State, NEW t
  PROVE  /\ Starved(s, t) # {} => First(Starved(s, t)) # {}
         /\ Idle(s) # {} => Oldest(s, Idle(s)) # {}
         /\ Fitting(s) # {} => Oldest(s, Fitting(s)) # {}
<1>1. /\ s.queue \in Seq(Queued)
      /\ DOMAIN s.queue \subseteq Nat
      /\ \A i \in DOMAIN s.queue : s.queue[i].enqueued_at \in Nat
  <2>1. s.queue \in Seq(Queued)
    BY DEF State
  <2>2. \A i \in DOMAIN s.queue : s.queue[i] \in Queued
    BY <2>1
  <2> QED BY <2>1, <2>2 DEF Queued
<1>2. /\ Fitting(s) \subseteq DOMAIN s.queue
      /\ Starved(s, t) \subseteq DOMAIN s.queue
      /\ Idle(s) \subseteq DOMAIN s.queue
  BY DEF Starved, Idle, Fitting
<1>3. ASSUME NEW S \in SUBSET DOMAIN s.queue, S # {}
      PROVE  First(S) # {}
  <2>1. PICK m \in S : \A n \in S : m <= n
    BY <1>1, <1>3, LeastExists
  <2> QED BY <2>1 DEF First
<1>4. ASSUME NEW S \in SUBSET DOMAIN s.queue, S # {}
      PROVE  Oldest(s, S) # {}
  <2> DEFINE times == {s.queue[i].enqueued_at : i \in S}
  <2>1. PICK least \in times : \A time \in times : least <= time
    <3>1. times \in SUBSET Nat /\ times # {}
      BY <1>1, <1>4
    <3> QED BY <3>1, LeastExists
  <2> DEFINE early == {i \in S : s.queue[i].enqueued_at = least}
  <2>2. early \in SUBSET Nat /\ early # {}
    BY <1>1, <2>1
  <2>3. PICK m \in early : \A n \in early : m <= n
    BY <2>2, LeastExists
  <2>4. \A j \in S : \/ s.queue[m].enqueued_at < s.queue[j].enqueued_at
                     \/ s.queue[m].enqueued_at = s.queue[j].enqueued_at /\ m <= j
    <3> TAKE j \in S
    <3>1. /\ s.queue[j].enqueued_at \in Nat /\ least \in Nat
          /\ least <= s.queue[j].enqueued_at
          /\ s.queue[m].enqueued_at = least
      BY <1>1, <2>1, <2>3
    <3>2. s.queue[j].enqueued_at = least => m <= j
      BY <2>3
    <3> QED BY <3>1, <3>2
  <2> QED BY <2>3, <2>4 DEF Oldest
<1> QED BY <1>2, <1>3, <1>4

\* No candidate: no waiting request fits.
LEMMA NoCandidate ==
  ASSUME NEW s \in State, NEW t, CandidateIndex(s, t) = {}
  PROVE  ~IdleCapacity(s)
<1>1. CASE ~SlotFree(s)
  BY <1>1 DEF IdleCapacity, CanAdmit
<1>2. CASE SlotFree(s)
  <2>1. Fitting(s) = {}
    BY <1>2, CandidateFound DEF CandidateIndex
  <2> QED BY <2>1 DEF IdleCapacity, CanAdmit, Fitting, Waiting
<1> QED BY <1>1, <1>2

\* Whoever is taken out leaves a shorter queue.
LEMMA WithoutShortens ==
  ASSUME NEW T, NEW q \in Seq(T), NEW gone, NEW k \in DOMAIN q, q[k].id \in gone
  PROVE  Len(Without(q, gone)) < Len(q)
<1> DEFINE w == Without(q, gone)
           N == Len(q)
<1>1. PICK f : Embeds(f, w, q, N, gone)
  BY WithoutEmbeds
<1>2. w \in Seq(T) /\ Len(w) \in Nat
  BY WithoutEmbeds
<1>3. N \in Nat /\ k \in 1 .. N
  OBVIOUS
<1> HIDE DEF w, N
<1>4. f \in Injection(1 .. Len(w), (1 .. N) \ {k})
  <2>1. f \in [1 .. Len(w) -> (1 .. N) \ {k}]
    BY <1>1 DEF Embeds
  <2>2. \A i, j \in 1 .. Len(w) : f[i] = f[j] => i = j
    BY <1>1, <1>2, <1>3, <2>1 DEF Embeds
  <2> QED BY <2>1, <2>2 DEF Injection, IsInjective
<1>5. /\ IsFiniteSet((1 .. N) \ {k})
      /\ Cardinality((1 .. N) \ {k}) = N - 1
      /\ Cardinality(1 .. Len(w)) = Len(w)
  BY <1>2, <1>3, UpTo, FS_RemoveElement
<1>6. Cardinality(1 .. Len(w)) <= Cardinality((1 .. N) \ {k})
  BY <1>4, <1>5, FS_Injection
<1> QED BY <1>2, <1>3, <1>5, <1>6 DEF w, N

LEMMA TakeShortens ==
  ASSUME NEW s \in State, NEW t, NEW i \in CandidateIndex(s, t)
  PROVE  /\ Take(s, i) \in State
         /\ Len(Take(s, i).queue) < Len(s.queue)
<1>1. i \in DOMAIN s.queue /\ s.queue \in Seq(Queued)
  BY CandidateFits DEF State
<1>2. Take(s, i).queue = Without(s.queue, {s.queue[i].id}) /\ Take(s, i) \in State
  BY <1>1, TakeFields
<1>3. \A gone : s.queue[i].id \in gone => Len(Without(s.queue, gone)) < Len(s.queue)
  BY <1>1, WithoutShortens
<1> QED BY <1>2, <1>3

(***************************************************************************)
(* As many turns as the queue has requests are enough: each takes one out, *)
(* until none fits.                                                        *)
(***************************************************************************)
LEMMA PickAllExhausts ==
  ASSUME NEW s \in State, NEW t
  PROVE  ~IdleCapacity(PickAll(s, t))
<1> DEFINE N == Len(s.queue)
<1>0. N \in Nat
  BY DEF State
<1>1. PICK f : PickTurns(f, s, t) /\ PickAll(s, t) = f[N]
  BY <1>0, PickAllUnfolds
<1> DEFINE Spent(x, n) == /\ x \in State
                          /\ \/ CandidateIndex(x, t) = {}
                             \/ Len(x.queue) + n <= N
           J == {n \in Nat : n <= N => Spent(f[n], n)}
<1>2. 0 \in J
  <2>1. f[0] = s
    BY <1>1 DEF PickTurns
  <2>2. Spent(f[0], 0)
    BY <1>0, <2>1
  <2> HIDE DEF Spent
  <2> QED BY <2>2
<1>3. ASSUME NEW n \in Nat, n \in J PROVE n + 1 \in J
  <2> HIDE DEF Spent
  <2> SUFFICES ASSUME n + 1 <= N PROVE Spent(f[n + 1], n + 1)
    OBVIOUS
  <2>1. f[n + 1] = PickNext(f[n], t) /\ Spent(f[n], n)
    BY <1>0, <1>1, <1>3 DEF PickTurns
  <2> DEFINE x == f[n]
             y == f[n + 1]
  <2> HIDE DEF x, y
  <2>2. CASE y = x /\ CandidateIndex(x, t) = {}
    BY <2>1, <2>2 DEF x, y, Spent
  <2>3. ASSUME NEW i \in CandidateIndex(x, t), y = Take(x, i)
        PROVE  Spent(y, n + 1)
    <3>1. x \in State /\ Len(x.queue) + n <= N
      BY <2>1, <2>3 DEF x, Spent
    <3>2. y \in State /\ Len(y.queue) < Len(x.queue)
      BY <3>1, <2>3, TakeShortens
    <3>3. Len(y.queue) \in Nat /\ Len(x.queue) \in Nat
      BY <3>1, <3>2 DEF State
    <3>4. \A a, b, c, d \in Nat : a < b /\ b + c <= d => a + (c + 1) <= d
      OBVIOUS
    <3> HIDE DEF N
    <3>5. Len(y.queue) + (n + 1) <= N
      BY <1>0, <3>1, <3>2, <3>3, <3>4
    <3> QED BY <3>2, <3>5 DEF Spent
  <2> QED BY <2>1, <2>2, <2>3, PickNextCases DEF x, y
<1> HIDE DEF J, Spent
<1>4. Nat \subseteq J
  BY <1>2, <1>3, NatInduction_Set, Zenon
<1> HIDE DEF N
<1>5. Spent(f[N], N)
  BY <1>0, <1>4 DEF J
<1> USE DEF Spent
<1>6. CASE CandidateIndex(f[N], t) = {}
  BY <1>1, <1>5, <1>6, NoCandidate
<1>7. CASE Len(f[N].queue) + N <= N
  <2>1. f[N].queue \in Seq(Queued) /\ Len(f[N].queue) \in Nat
    BY <1>5 DEF State
  <2>2. Len(f[N].queue) = 0
    BY <1>0, <1>7, <2>1
  <2>3. DOMAIN f[N].queue = {}
    BY <2>1, <2>2
  <2> QED BY <1>1, <2>3 DEF IdleCapacity, Waiting
<1> QED BY <1>5, <1>6, <1>7

\* What fits beside more runs fits beside fewer.
LEMMA CapacityShrinks ==
  ASSUME NEW s \in State, NEW u \in State, FiniteRuns(u),
         s.running \subseteq u.running, s.held \subseteq u.held, s.limits = u.limits,
         NEW q, q.memory \in Nat, CanAdmit(u, q)
  PROVE  CanAdmit(s, q)
<1>0. s.limits \in Limits
  BY DEF State
<1>1. ASSUME NEW S, NEW T, IsFiniteSet(T), S \subseteq T
      PROVE  /\ Cardinality(S) \in Nat /\ Cardinality(T) \in Nat
             /\ Cardinality(S) <= Cardinality(T)
  BY <1>1, FS_Subset, FS_CardinalityType
<1>2. SlotFree(s)
  BY <1>0, <1>1 DEF CanAdmit, SlotFree, FiniteRuns, Limits
<1>3. ProjectSlotFree(s, q.project)
  <2>1. /\ ProjectRuns(s, q.project) \subseteq ProjectRuns(u, q.project)
        /\ ProjectRuns(u, q.project) \subseteq u.running
    BY DEF ProjectRuns
  <2>2. IsFiniteSet(ProjectRuns(u, q.project))
    BY <2>1, FS_Subset DEF FiniteRuns
  <2>3. Cardinality(ProjectRuns(u, q.project)) < u.limits.max_parallel_per_project
    BY DEF CanAdmit, Fits, ProjectSlotFree
  <2> QED BY <1>0, <1>1, <2>1, <2>2, <2>3 DEF ProjectSlotFree, Limits
<1>4. Reserved(s) + q.memory <= s.limits.memory_budget
  <2>1. /\ AllUnits(s.running \cup s.held) \subseteq AllUnits(u.running \cup u.held)
        /\ Reserved(s) = Cardinality(AllUnits(s.running \cup s.held))
        /\ Reserved(u) = Cardinality(AllUnits(u.running \cup u.held))
    BY DEF AllUnits, Reserved
  <2>2. /\ IsFiniteSet(u.running \cup u.held)
        /\ u.running \cup u.held \in SUBSET Running
    BY FS_Union DEF FiniteRuns, State
  <2>3. IsFiniteSet(AllUnits(u.running \cup u.held))
    BY <2>2, AllUnitsFinite
  <2>4. Reserved(u) + q.memory <= u.limits.memory_budget
    BY DEF CanAdmit, Fits
  <2>5. Reserved(s) \in Nat /\ Reserved(u) \in Nat /\ Reserved(s) <= Reserved(u)
    BY <1>1, <2>1, <2>3
  <2> QED BY <1>0, <2>4, <2>5 DEF Limits
<1> QED BY <1>2, <1>3, <1>4 DEF CanAdmit, Fits

(***************************************************************************)
(* NoIdleCapacity for all runs, limits and times: no operation but         *)
(* `set_limits` leaves a request waiting for capacity that is there.  Any  *)
(* number of requests may fit beside each other when a slot is released,   *)
(* and the loop of `release` admits until none does.                       *)
(***************************************************************************)
THEOREM NothingIdles == Spec => NoIdleCapacity
<1> USE SchedulerAssumption
<1> DEFINE Heeded == sched'.limits = sched.limits /\ IdleCapacity(sched')
                       => IdleCapacity(sched) /\ sched.running \subseteq sched'.running
<1>1. TypeOK /\ FiniteInv /\ TypeOK' /\ FiniteInv' /\ [Next]_schedVars => [Heeded]_schedVars
  <2> SUFFICES ASSUME TypeOK, FiniteRuns(sched), TypeOK', FiniteRuns(sched'), Next,
                      sched'.limits = sched.limits, IdleCapacity(sched')
               PROVE  IdleCapacity(sched) /\ sched.running \subseteq sched'.running
    BY DEF FiniteInv
  <2>0. sched \in State /\ sched' \in State /\ now \in Nat
    BY DEF TypeOK, State
  <2>1. PICK q \in Waiting(sched') : CanAdmit(sched', q)
    BY DEF IdleCapacity
  <2>2. q \in Queued /\ q.memory \in Nat
    <3>1. sched'.queue \in Seq(Queued)
      BY <2>0 DEF State
    <3>2. q \in Queued
      BY <2>1, <3>1 DEF Waiting
    <3> QED BY <3>2 DEF Queued
  <2>3. ASSUME sched.running \subseteq sched'.running, sched.held \subseteq sched'.held
        PROVE  CanAdmit(sched, q)
    BY <2>0, <2>1, <2>2, <2>3, CapacityShrinks
  <2>4. ASSUME NEW id \in RunId, NEW p \in Project, NEW m \in Memory,
               NEW timeout \in QueueTimeout, Submit(id, p, m, timeout)
        PROVE  IdleCapacity(sched) /\ sched.running \subseteq sched'.running
    <3> DEFINE r == Request(id, p, m, timeout)
    <3>1. CASE SubmitImpossible(r) \/ SubmitQueueFull(r)
      BY <3>1 DEF SubmitImpossible, SubmitQueueFull, schedVars
    <3>2. CASE SubmitStart(r)
      <4>1. /\ sched.running \subseteq sched'.running
            /\ sched'.held = sched.held
            /\ sched'.queue = sched.queue
        BY <2>0, <3>2 DEF SubmitStart, Started, State
      <4> QED BY <2>1, <2>3, <4>1 DEF IdleCapacity, Waiting
    <3>3. CASE SubmitQueued(r)
      <4>1. /\ sched'.running = sched.running
            /\ sched'.held = sched.held
            /\ sched'.queue = Append(sched.queue, r)
        BY <2>0, <3>3 DEF SubmitQueued, State
      <4>2. CanAdmit(sched, q)
        BY <2>3, <4>1
      <4>3. q # r
        BY <3>3, <4>2 DEF SubmitQueued
      <4>4. sched.queue \in Seq(Queued) /\ r \in Queued
        BY <2>0 DEF State, Request, Queued
      <4> HIDE DEF r
      <4>5. q \in Waiting(sched)
        BY <2>1, <4>1, <4>3, <4>4 DEF Waiting
      <4> QED BY <4>1, <4>2, <4>5 DEF IdleCapacity
    <3> QED BY <2>4, <3>1, <3>2, <3>3 DEF Submit
  <2>5. ASSUME NEW id \in RunId, NEW hold \in BOOLEAN, Release(id, hold)
        PROVE  IdleCapacity(sched) /\ sched.running \subseteq sched'.running
    <3>1. CASE id \in Ids(sched.running)
      <4>1. sched' = PickAll(Freed(sched, id, hold), now)
        BY <2>5, <3>1 DEF Release
      <4> QED BY <2>0, <4>1, FreedFields, PickAllExhausts
    <3>2. CASE id \notin Ids(sched.running)
      BY <2>5, <3>2 DEF Release
    <3> QED BY <3>1, <3>2
  <2>6. ASSUME NEW gone, sched' = [sched EXCEPT !.queue = Without(@, gone)]
        PROVE  IdleCapacity(sched) /\ sched.running \subseteq sched'.running
    <3>1. /\ sched'.running = sched.running
          /\ sched'.held = sched.held
          /\ sched'.queue = Without(sched.queue, gone)
          /\ sched.queue \in Seq(Queued)
      BY <2>0, <2>6 DEF State
    <3>2. \A i \in DOMAIN sched'.queue : \E k \in DOMAIN sched.queue :
            sched'.queue[i] = sched.queue[k]
      BY <3>1, WithoutElements
    <3>3. q \in Waiting(sched)
      BY <2>1, <3>2 DEF Waiting
    <3> QED BY <2>3, <3>1, <3>3 DEF IdleCapacity
  <2>7. CASE Expire \/ \E id \in RunId : CancelQueued(id)
    BY <2>6, <2>7 DEF Expire, CancelQueued
  <2>8. ASSUME NEW l \in LimitChoices, SetLimits(l)
        PROVE  IdleCapacity(sched) /\ sched.running \subseteq sched'.running
    <3>1. /\ sched'.running = sched.running
          /\ sched'.held = sched.held
          /\ sched'.queue = sched.queue
      BY <2>0, <2>8 DEF SetLimits, State
    <3> QED BY <2>1, <2>3, <3>1 DEF IdleCapacity, Waiting
  <2>9. CASE Tick \/ WallStep
    BY <2>9 DEF Tick, WallStep
  <2> QED BY <2>4, <2>5, <2>7, <2>8, <2>9 DEF Next
<1> QED BY <1>1, TypeCorrect, FiniteAlways, PTL DEF Spec, NoIdleCapacity

-----------------------------------------------------------------------------
(* The order of admission.                                                 *)

\* Request q waits in front of request r.
InFront(s, q, r) ==
  \E i, j \in DOMAIN s.queue : i < j /\ s.queue[i] = q /\ s.queue[j] = r

\* Of one project, no larger and no younger.
Peers(q, r) ==
  q.project = r.project /\ q.memory <= r.memory /\ q.enqueued_at <= r.enqueued_at

LEMMA ReservedIsNat ==
  ASSUME NEW s \in State, FiniteRuns(s)
  PROVE  Reserved(s) \in Nat
<1>1. IsFiniteSet(AllUnits(s.running \cup s.held))
  <2>1. IsFiniteSet(s.running \cup s.held) /\ s.running \cup s.held \in SUBSET Running
    BY FS_Union DEF FiniteRuns, State
  <2> QED BY <2>1, AllUnitsFinite
<1> QED BY <1>1, FS_CardinalityType DEF Reserved, AllUnits

(***************************************************************************)
(* `pick_next` takes no request behind a peer of it: what fits for one     *)
(* fits for the other, starves it or finds its project idle, and each of   *)
(* the three searches takes the one in front.                              *)
(***************************************************************************)
LEMMA FrontFirst ==
  ASSUME NEW s \in State, FiniteRuns(s), NEW t \in Nat,
         NEW i \in DOMAIN s.queue, NEW j \in DOMAIN s.queue, i < j,
         Peers(s.queue[i], s.queue[j])
  PROVE  j \notin CandidateIndex(s, t)
<1> DEFINE q == s.queue[i]
           r == s.queue[j]
<1>0. q \in Queued /\ r \in Queued /\ i \in Nat /\ j \in Nat /\ s.limits \in Limits
  BY DEF State
<1>1. /\ q.project = r.project /\ q.memory <= r.memory /\ q.enqueued_at <= r.enqueued_at
      /\ q.memory \in Nat /\ r.memory \in Nat
      /\ q.enqueued_at \in Nat /\ r.enqueued_at \in Nat
  BY <1>0 DEF Peers, Queued
<1> HIDE DEF q, r
<1>2. Fits(s, r) => Fits(s, q)
  BY <1>0, <1>1, ReservedIsNat DEF Fits, Limits
<1>3. j \in Fitting(s) => i \in Fitting(s)
  BY <1>2 DEF Fitting, q, r
<1>4. Waited(r, t) >= s.limits.starvation_after => Waited(q, t) >= s.limits.starvation_after
  <2>1. s.limits.starvation_after \in Nat
    BY <1>0 DEF Limits
  <2> QED BY <1>1, <2>1 DEF Waited
<1>5. j \in Starved(s, t) => i \in Starved(s, t)
  BY <1>3, <1>4 DEF Starved, q, r
<1>6. j \in Idle(s) => i \in Idle(s)
  BY <1>1, <1>3 DEF Idle, q, r
<1>7. j \notin First(Starved(s, t))
  BY <1>0, <1>5 DEF First
<1>8. ASSUME NEW S, j \in S => i \in S
      PROVE  j \notin Oldest(s, S)
  <2> SUFFICES ASSUME j \in Oldest(s, S) PROVE FALSE
    OBVIOUS
  <2>1. i \in S
    BY <1>8 DEF Oldest
  <2>2. \/ r.enqueued_at < q.enqueued_at
        \/ r.enqueued_at = q.enqueued_at /\ j <= i
    BY <2>1 DEF Oldest, q, r
  <2> QED BY <1>0, <1>1, <2>2
<1> QED BY <1>3, <1>6, <1>7, <1>8 DEF CandidateIndex

\* Requests that stay in the queue stay in their order.
LEMMA WithoutKeepsOrder ==
  ASSUME NEW s \in State, Separate(s), NEW gone, NEW u, u.queue = Without(s.queue, gone),
         NEW q, NEW r, InFront(s, q, r), q.id \notin gone, r.id \notin gone
  PROVE  InFront(u, q, r)
<1>1. s.queue \in Seq(Queued)
  BY DEF State
<1> DEFINE w == Without(s.queue, gone)
           N == Len(s.queue)
<1>2. PICK f : Embeds(f, w, s.queue, N, gone)
  BY <1>1, WithoutEmbeds
<1>3. w \in Seq(Queued) /\ Len(w) \in Nat /\ DOMAIN w = 1 .. Len(w)
  BY <1>1, WithoutEmbeds
<1>4. N \in Nat /\ DOMAIN s.queue = 1 .. N
  BY <1>1
<1> HIDE DEF w, N
<1>5. PICK i \in 1 .. N, j \in 1 .. N : i < j /\ s.queue[i] = q /\ s.queue[j] = r
  BY <1>4 DEF InFront
<1>6. PICK k \in 1 .. Len(w) : f[k] = i
  BY <1>2, <1>5 DEF Embeds
<1>7. PICK l \in 1 .. Len(w) : f[l] = j
  BY <1>2, <1>5 DEF Embeds
<1>8. k < l
  <2>1. ~ (l < k)
    BY <1>2, <1>5, <1>6, <1>7 DEF Embeds
  <2>2. k # l
    BY <1>5, <1>6, <1>7
  <2> QED BY <1>3, <2>1, <2>2
<1>9. w[k] = q /\ w[l] = r
  BY <1>2, <1>5, <1>6, <1>7 DEF Embeds
<1> QED BY <1>3, <1>8, <1>9 DEF InFront, w

\* A whole release keeps a request in front of its peers or admits it.
LEMMA PickAllKeepsOrder ==
  ASSUME NEW s \in State, FiniteRuns(s), Separate(s), NEW t \in Nat,
         NEW q, NEW r, InFront(s, q, r), Peers(q, r)
  PROVE  LET u == PickAll(s, t) IN InFront(u, q, r) \/ q \notin Waiting(u)
<1> DEFINE X == {x \in State : /\ FiniteRuns(x) /\ Separate(x)
                               /\ InFront(x, q, r) \/ q \notin Waiting(x)}
<1>1. Len(s.queue) \in Nat
  BY DEF State
<1>2. ASSUME NEW x \in X PROVE PickNext(x, t) \in X
  <2>1. CASE PickNext(x, t) = x
    BY <2>1
  <2>2. ASSUME NEW k \in CandidateIndex(x, t), PickNext(x, t) = Take(x, k)
        PROVE  PickNext(x, t) \in X
    <3> DEFINE u == Take(x, k)
    <3>0. x \in State /\ FiniteRuns(x) /\ Separate(x) /\ k \in DOMAIN x.queue
      BY CandidateFits
    <3>1. /\ u \in State /\ FiniteRuns(u) /\ Separate(u)
          /\ u.queue = Without(x.queue, {x.queue[k].id})
      BY <3>0, TakeFits, TakeFields, TakeSeparate
    <3> HIDE DEF u
    <3>2. x.queue \in Seq(Queued)
      BY <3>0 DEF State
    <3>3. /\ \A i \in DOMAIN u.queue : u.queue[i].id \notin {x.queue[k].id}
          /\ \A i \in DOMAIN u.queue : \E l \in DOMAIN x.queue : u.queue[i] = x.queue[l]
      <4>1. ASSUME NEW gone
            PROVE  LET w == Without(x.queue, gone)
                   IN  /\ \A i \in DOMAIN w : w[i].id \notin gone
                       /\ \A i \in DOMAIN w : \E l \in DOMAIN x.queue : w[i] = x.queue[l]
        BY <3>2, WithoutElements
      <4> DEFINE w == Without(x.queue, {x.queue[k].id})
      <4>2. /\ \A i \in DOMAIN w : w[i].id \notin {x.queue[k].id}
            /\ \A i \in DOMAIN w : \E l \in DOMAIN x.queue : w[i] = x.queue[l]
        BY <4>1
      <4>3. u.queue = w
        BY <3>1
      <4> HIDE DEF w
      <4> QED BY <4>2, <4>3
    <3>4. CASE q \notin Waiting(x)
      <4>1. q \notin Waiting(u)
        BY <3>3, <3>4 DEF Waiting
      <4> QED BY <2>2, <3>1, <4>1 DEF u
    <3>5. CASE InFront(x, q, r)
      <4>1. PICK i, j \in DOMAIN x.queue : i < j /\ x.queue[i] = q /\ x.queue[j] = r
        BY <3>5 DEF InFront
      <4>2. k # j
        BY <3>0, <4>1, FrontFirst
      <4>3. CASE k = i
        <5>1. q \notin Waiting(u)
          BY <3>3, <4>1, <4>3 DEF Waiting
        <5> QED BY <2>2, <3>1, <5>1 DEF u
      <4>4. CASE k # i
        <5>1. q.id \notin {x.queue[k].id} /\ r.id \notin {x.queue[k].id}
          BY <3>0, <4>1, <4>2, <4>4, SeparateMeans
        <5>2. InFront(u, q, r)
          BY <3>0, <3>1, <3>5, <5>1, WithoutKeepsOrder
        <5> QED BY <2>2, <3>1, <5>2 DEF u
      <4> QED BY <4>3, <4>4
    <3> QED BY <3>4, <3>5
  <2> QED BY <2>1, <2>2, PickNextCases
<1>3. s \in X
  OBVIOUS
<1> HIDE DEF X
<1>4. PickAll(s, t) \in X
  BY <1>1, <1>2, <1>3, PickAllPreserves
<1> QED BY <1>4 DEF X

\* Only what waited is started by a release, and only while it starts.
LEMMA PickAllStarts ==
  ASSUME NEW s \in State, NEW t
  PROVE  LET u == PickAll(s, t)
         IN  /\ u.held = s.held /\ u.limits = s.limits
             /\ s.running \subseteq u.running
             /\ \A a \in u.running \ s.running : \E q \in Waiting(s) : a = AsRunning(q)
             /\ Waiting(u) \subseteq Waiting(s)
             /\ \/ u = s
                \/ \E i \in CandidateIndex(s, t) : AsRunning(s.queue[i]) \in u.running
<1> DEFINE Kept(x) ==
             /\ x.held = s.held /\ x.limits = s.limits
             /\ s.running \subseteq x.running
             /\ \A a \in x.running \ s.running : \E q \in Waiting(s) : a = AsRunning(q)
             /\ Waiting(x) \subseteq Waiting(s)
           Begun(x) == \E i \in CandidateIndex(s, t) : AsRunning(s.queue[i]) \in x.running
           X == {x \in State : Kept(x) /\ (x = s \/ Begun(x))}
<1>1. Len(s.queue) \in Nat
  BY DEF State
<1>2. ASSUME NEW x \in X PROVE PickNext(x, t) \in X
  <2>1. CASE PickNext(x, t) = x
    BY <2>1
  <2>2. ASSUME NEW k \in CandidateIndex(x, t), PickNext(x, t) = Take(x, k)
        PROVE  PickNext(x, t) \in X
    <3> DEFINE u == Take(x, k)
    <3>0. x \in State /\ Kept(x) /\ (x = s \/ Begun(x)) /\ k \in DOMAIN x.queue
      BY CandidateFits
    <3>1. /\ u \in State /\ u.limits = x.limits /\ u.held = x.held
          /\ u.running = x.running \cup {AsRunning(x.queue[k])}
          /\ u.queue = Without(x.queue, {x.queue[k].id})
      BY <3>0, TakeFields
    <3>2. \A gone : LET w == Without(x.queue, gone)
                    IN  \A i \in DOMAIN w : \E l \in DOMAIN x.queue : w[i] = x.queue[l]
      <4>1. x.queue \in Seq(Queued)
        BY <3>0 DEF State
      <4> QED BY <4>1, WithoutElements
    <3> HIDE DEF u
    <3>3. Waiting(u) \subseteq Waiting(x) /\ x.queue[k] \in Waiting(x)
      BY <3>0, <3>1, <3>2 DEF Waiting
    <3>4. Kept(u)
      BY <3>0, <3>1, <3>3
    <3>5. Begun(u)
      BY <2>2, <3>0, <3>1
    <3> HIDE DEF Kept, Begun
    <3>6. u \in X
      BY <3>1, <3>4, <3>5
    <3> QED BY <2>2, <3>6 DEF u
  <2> QED BY <2>1, <2>2, PickNextCases
<1>3. s \in X
  OBVIOUS
<1> HIDE DEF X
<1>4. PickAll(s, t) \in X
  BY <1>1, <1>2, <1>3, PickAllPreserves
<1> QED BY <1>4 DEF X

\* What a step starts out of the queue, a release starts.
LEMMA OnlyReleaseStarts ==
  ASSUME TypeOK, OnePlace, Next, NEW j \in DOMAIN sched.queue, sched.queue[j].id \in Newly
  PROVE  \E id \in RunId, hold \in BOOLEAN :
           /\ id \in Ids(sched.running)
           /\ sched' = PickAll(Freed(sched, id, hold), now)
<1>1. sched.queue[j].id \in InQueue(sched)
  BY DEF InQueue, Ids, Waiting
<1>2. sched.queue[j].id \in InSlot(sched') /\ sched.queue[j].id \notin InSlot(sched)
  BY DEF Newly, InSlot
<1>3. ASSUME NEW id \in RunId, NEW p \in Project, NEW m \in Memory,
             NEW timeout \in QueueTimeout, Submit(id, p, m, timeout)
      PROVE  FALSE
  BY <1>1, <1>2, <1>3, SubmitIds
<1>4. ASSUME NEW gone, sched' = [sched EXCEPT !.queue = Without(@, gone)]
      PROVE  FALSE
  BY <1>2, <1>4, RemovalIds
<1>5. ASSUME NEW l, SetLimits(l) \/ Tick \/ WallStep
      PROVE  FALSE
  <2>1. sched'.running = sched.running
    BY <1>5 DEF SetLimits, Tick, WallStep, TypeOK
  <2> QED BY <1>2, <2>1 DEF InSlot
<1>6. ASSUME NEW id \in RunId, NEW hold \in BOOLEAN, Release(id, hold)
      PROVE  /\ id \in Ids(sched.running)
             /\ sched' = PickAll(Freed(sched, id, hold), now)
  BY <1>2, <1>6 DEF Release, InSlot
<1> QED BY <1>3, <1>4, <1>5, <1>6 DEF Next, Expire, CancelQueued

(***************************************************************************)
(* A release admits a request of a project that runs something only where  *)
(* no request of an idle project could have had its place.                 *)
(***************************************************************************)
LEMMA ReleaseTurns ==
  ASSUME TypeOK, OnePlace, NEW id \in RunId, NEW hold \in BOOLEAN,
         id \in Ids(sched.running), sched' = PickAll(Freed(sched, id, hold), now),
         NEW r \in Waiting(sched), Newly = {r.id},
         NEW before, before = [sched' EXCEPT !.running = @ \ {AsRunning(r)}],
         ProjectRuns(before, r.project) # {},
         Waited(r, now) < sched.limits.starvation_after,
         NEW q \in Waiting(sched'), ProjectRuns(before, q.project) = {},
         CanAdmit(before, q)
  PROVE  FALSE
<1> DEFINE f == Freed(sched, id, hold)
<1>0. sched \in State /\ Separate(sched)
  BY DEF TypeOK, OnePlace, State
<1>1. /\ f \in State /\ f.queue = sched.queue /\ f.limits = sched.limits
      /\ f.running \subseteq sched.running
      /\ Separate(f)
  <2>1. Separate(f)
    BY <1>0, FreedSeparate
  <2>2. f \in State
    BY <1>0, FreedFields
  <2>3. /\ f.queue = sched.queue /\ f.limits = sched.limits
        /\ f.running = sched.running \ {a \in sched.running : a.id = id}
    BY <1>0 DEF Freed, State
  <2> HIDE DEF f
  <2> QED BY <2>1, <2>2, <2>3
<1> HIDE DEF f
<1>2. /\ sched' \in State
      /\ sched'.held = f.held /\ sched'.limits = f.limits
      /\ f.running \subseteq sched'.running
      /\ \A a \in sched'.running \ f.running : \E x \in Waiting(f) : a = AsRunning(x)
      /\ Waiting(sched') \subseteq Waiting(f)
      /\ \/ sched' = f
         \/ \E i \in CandidateIndex(f, now) : AsRunning(f.queue[i]) \in sched'.running
  BY <1>1, PickAllStarts, PickAllType DEF f
<1>3. Waiting(f) = Waiting(sched) /\ \A x \in Waiting(f) : x \in Queued
  <2>1. sched.queue \in Seq(Queued)
    BY <1>0 DEF State
  <2> QED BY <1>1, <2>1 DEF Waiting
<1>4. /\ \A x, y \in Waiting(f) : x.id = y.id => x = y
      /\ \A x \in Waiting(f), a \in sched.running : x.id # a.id
  <2>1. /\ \A i, j \in DOMAIN sched.queue : sched.queue[i].id = sched.queue[j].id => i = j
        /\ \A i \in DOMAIN sched.queue, a \in sched.running : sched.queue[i].id # a.id
    BY <1>0, SeparateMeans
  <2>2. \A x \in Waiting(f) : \E i \in DOMAIN sched.queue : x = sched.queue[i]
    BY <1>3 DEF Waiting
  <2>3. ASSUME NEW x \in Waiting(f), NEW y \in Waiting(f), x.id = y.id PROVE x = y
    BY <2>1, <2>2, <2>3
  <2>4. ASSUME NEW x \in Waiting(f), NEW a \in sched.running PROVE x.id # a.id
    BY <2>1, <2>2
  <2> QED BY <2>3, <2>4
<1>5. \A x \in Waiting(f) : AsRunning(x) \in sched'.running => x = r
  <2> SUFFICES ASSUME NEW x \in Waiting(f), AsRunning(x) \in sched'.running
               PROVE  x.id = r.id
    BY <1>3, <1>4
  <2>1. x.id \in Ids(sched'.running)
    BY <1>3, QueuedAsRunning DEF Ids
  <2>2. x.id \notin Ids(sched.running)
    BY <1>4 DEF Ids
  <2> QED BY <2>1, <2>2 DEF Newly
<1>6. PICK i \in CandidateIndex(f, now) : f.queue[i] = r
  <2>1. sched' # f
    BY <1>1 DEF Newly, Ids
  <2>2. PICK i \in CandidateIndex(f, now) : AsRunning(f.queue[i]) \in sched'.running
    BY <1>2, <2>1
  <2>3. f.queue[i] \in Waiting(f)
    BY CandidateFits DEF Waiting
  <2> QED BY <1>5, <2>2, <2>3
<1>7. /\ before.running = f.running
      /\ before.held = f.held /\ before.limits = f.limits
  <2>1. /\ before.running = sched'.running \ {AsRunning(r)}
        /\ before.held = sched'.held /\ before.limits = sched'.limits
    BY <1>2 DEF State
  <2>2. AsRunning(r) \notin f.running
    BY <1>1, <1>3, <1>4, QueuedAsRunning
  <2>3. \A a \in sched'.running : a \in f.running \/ a = AsRunning(r)
    BY <1>2, <1>5
  <2> QED BY <1>2, <2>1, <2>2, <2>3
<1>8. \A p : ProjectRuns(before, p) = ProjectRuns(f, p)
  BY <1>7 DEF ProjectRuns
<1>9. CanAdmit(f, q)
  BY <1>7, <1>8 DEF CanAdmit, SlotFree, Fits, ProjectSlotFree, Reserved
<1>10. PICK k \in DOMAIN f.queue : f.queue[k] = q
  BY <1>2 DEF Waiting
<1>11. k \in Idle(f)
  BY <1>8, <1>9, <1>10 DEF Idle, Fitting, CanAdmit
<1>12. i \notin Starved(f, now)
  <2>1. f.limits.starvation_after \in Nat
    BY <1>1 DEF State, Limits
  <2>2. now \in Nat /\ r.enqueued_at \in Nat
    BY <1>3, SchedulerAssumption DEF TypeOK, Queued
  <2>3. Waited(r, now) \in Nat
    BY <2>2 DEF Waited
  <2> QED BY <1>1, <1>6, <2>1, <2>3 DEF Starved
<1>13. i \in Idle(f)
  BY <1>6, <1>9, <1>11, <1>12, CandidateFound, <1>1
     DEF CandidateIndex, First, Oldest, CanAdmit
<1> QED BY <1>6, <1>8, <1>13 DEF Idle

(***************************************************************************)
(* AdmissionOrder for all runs, projects and limits: over a whole release, *)
(* which may admit several, no request passes a peer in front of it, and   *)
(* projects that run nothing come first until someone is starved.          *)
(***************************************************************************)
THEOREM OrderKept == Spec => AdmissionOrder
<1> USE SchedulerAssumption
<1> DEFINE Fifo ==
             \A i, j \in DOMAIN sched.queue :
               LET q == sched.queue[i]  r == sched.queue[j]
               IN  /\ i < j
                   /\ q.project = r.project
                   /\ q.memory <= r.memory
                   /\ q.enqueued_at <= r.enqueued_at
                   /\ r.id \in Newly
                   => q \notin Waiting(sched')
           IdleFirst ==
             \A r \in Waiting(sched) :
               LET before == [sched' EXCEPT !.running = @ \ {AsRunning(r)}]
               IN  /\ Newly = {r.id}
                   /\ ProjectRuns(before, r.project) # {}
                   /\ Waited(r, now) < sched.limits.starvation_after
                   => ~ \E q \in Waiting(sched') :
                           /\ ProjectRuns(before, q.project) = {}
                           /\ CanAdmit(before, q)
<1>1. TypeOK /\ OnePlace /\ FiniteInv /\ [Next]_schedVars => [Fifo]_schedVars
  <2> SUFFICES ASSUME TypeOK, OnePlace, FiniteInv, Next,
                      NEW i \in DOMAIN sched.queue, NEW j \in DOMAIN sched.queue, i < j,
                      sched.queue[i].project = sched.queue[j].project,
                      sched.queue[i].memory <= sched.queue[j].memory,
                      sched.queue[i].enqueued_at <= sched.queue[j].enqueued_at,
                      sched.queue[j].id \in Newly
               PROVE  sched.queue[i] \notin Waiting(sched')
    OBVIOUS
  <2>0. sched \in State /\ Separate(sched) /\ FiniteRuns(sched) /\ now \in Nat
    BY DEF TypeOK, OnePlace, State, FiniteInv
  <2>1. PICK id \in RunId, hold \in BOOLEAN :
          /\ id \in Ids(sched.running)
          /\ sched' = PickAll(Freed(sched, id, hold), now)
    BY OnlyReleaseStarts
  <2> DEFINE f == Freed(sched, id, hold)
             q == sched.queue[i]
             r == sched.queue[j]
  <2>2. f \in State /\ Separate(f) /\ FiniteRuns(f) /\ f.queue = sched.queue
    <3>1. f \in State
      BY <2>0, FreedFields
    <3>2. f.queue = sched.queue
      BY <2>0 DEF Freed, State
    <3> QED BY <2>0, <3>1, <3>2, FreedSeparate, FreedFinite
  <2>3. InFront(f, q, r) /\ Peers(q, r)
    BY <2>2 DEF InFront, Peers
  <2> HIDE DEF f, q, r
  <2>4. InFront(sched', q, r) \/ q \notin Waiting(sched')
    BY <2>0, <2>1, <2>2, <2>3, PickAllKeepsOrder DEF f
  <2>5. Separate(sched')
    BY <2>1, <2>2, PickAllSeparate DEF f
  <2>6. ~InFront(sched', q, r)
    <3>1. r.id \in Ids(sched'.running)
      BY DEF Newly, r
    <3> QED BY <2>5, <3>1 DEF InFront, Separate, Ids, Waiting
  <2> QED BY <2>4, <2>6 DEF q
<1>2. TypeOK /\ OnePlace /\ [Next]_schedVars => [IdleFirst]_schedVars
  <2> SUFFICES ASSUME TypeOK, OnePlace, Next, NEW r \in Waiting(sched), Newly = {r.id}
               PROVE  LET before == [sched' EXCEPT !.running = @ \ {AsRunning(r)}]
                      IN  /\ ProjectRuns(before, r.project) # {}
                          /\ Waited(r, now) < sched.limits.starvation_after
                          => ~ \E q \in Waiting(sched') :
                                  /\ ProjectRuns(before, q.project) = {}
                                  /\ CanAdmit(before, q)
    OBVIOUS
  <2>1. PICK j \in DOMAIN sched.queue : sched.queue[j] = r
    BY DEF Waiting
  <2>2. PICK id \in RunId, hold \in BOOLEAN :
          /\ id \in Ids(sched.running)
          /\ sched' = PickAll(Freed(sched, id, hold), now)
    BY <2>1, OnlyReleaseStarts
  <2> QED BY <2>2, ReleaseTurns
<1> QED BY <1>1, <1>2, TypeCorrect, OnePlaceAlways, FiniteAlways, PTL
        DEF Spec, AdmissionOrder, FifoAmongPeers, IdleProjectFirst
=============================================================================
