---------------------------- MODULE ControlProofs ----------------------------
(***************************************************************************)
(* That the actions of Barman and Web reach what the user saw and say what *)
(* they did, for every host, every number of clients and requests and      *)
(* every order of their steps.                                             *)
(*                                                                         *)
(* First the operators: the items above a process (Chain), the lists of    *)
(* identities in post-order, and what of them still holds (Holding).  Then *)
(* one client: WorkOK says what its record must satisfy between any two of *)
(* its steps, and one lemma for each step shows that the step keeps it.    *)
(* Then the host, the plans and the requests, and the theorems.            *)
(*                                                                         *)
(* WorkOK is needed because the properties speak of what was signalled and *)
(* reported, while what makes them true is in the lists still in hand: an  *)
(* identity comes from an item that was asked for, and the refresh of send *)
(* saw it.                                                                 *)
(***************************************************************************)
EXTENDS Web, FiniteSetTheorems, SequenceTheorems, Recursion, TLAPS

\* Items nest in each other to a finite depth, and none in itself.
Nesting(depth, rank) ==
  /\ depth \in Nat /\ rank \in [Pids -> 0 .. depth]
  /\ \A p \in Pids : Above[p] # NoPid => rank[Above[p]] < rank[p]

\* The items above a process: itself, and those above what it is nested in.
LEMMA ChainUnfold ==
  ASSUME NEW depth, NEW rank, Nesting(depth, rank), NEW s
  PROVE  \A p \in Pids :
           /\ Chain(s, p) \subseteq Pids
           /\ Chain(s, p) = {p} \cup IF Above[p] \in LiveIn(s) THEN Chain(s, Above[p]) ELSE {}
<1> USE BarmanConstants
<1> DEFINE E(f, q) == {q} \cup IF Above[q] \in LiveIn(s) THEN f[Above[q]] ELSE {}
           G(f) == f = [q \in Pids |-> E(f, q)]
           over == [q \in Pids |-> IF Above[q] \in LiveIn(s) THEN Above[q] ELSE NoPid]
           step == [q \in Pids |-> [X \in SUBSET Pids |-> {q} \cup X]]
           base == [q \in Pids |-> {q}]
<1>0. LiveIn(s) \subseteq Pids
  BY DEF LiveIn
<1>1. PICK f \in [Pids -> SUBSET Pids] :
        \A q \in Pids : f[q] = IF over[q] = NoPid THEN base[q] ELSE step[q][f[over[q]]]
  <2>1. step \in [Pids -> [SUBSET Pids -> SUBSET Pids]] /\ base \in [Pids -> SUBSET Pids]
    OBVIOUS
  <2>2. /\ NoPid \notin Pids /\ rank \in [Pids -> Nat] /\ over \in [Pids -> Pids \cup {NoPid}]
        /\ \A p \in Pids : over[p] # NoPid => rank[over[p]] < rank[p]
    BY <1>0 DEF Nesting
  <2> HIDE DEF step, base, over
  <2>3. Links(Pids, NoPid, rank, over, SUBSET Pids, base, step)
    BY <2>1, <2>2 DEF Links
  <2>4. \E f : Follows(f, Pids, NoPid, over, SUBSET Pids, base, step)
    BY <2>3, TreeRecursion
  <2>5. QED
    BY <2>4 DEF Follows
<1>2. G(f)
  <2>1. \A q \in Pids : over[q] # NoPid => f[over[q]] \in SUBSET Pids
    BY <1>0
  <2>2. ASSUME NEW q \in Pids PROVE f[q] = E(f, q)
    <3>1. CASE Above[q] \in LiveIn(s)
      <4>1. over[q] = Above[q] /\ over[q] # NoPid
        BY <1>0, <3>1
      <4>2. step[q][f[over[q]]] = {q} \cup f[over[q]]
        BY <2>1, <4>1
      <4> HIDE DEF over, step, base
      <4>3. QED
        BY <1>1, <3>1, <4>1, <4>2
    <3>2. CASE Above[q] \notin LiveIn(s)
      <4>1. over[q] = NoPid /\ base[q] = {q}
        BY <3>2
      <4> HIDE DEF over, step, base
      <4>2. QED
        BY <1>1, <3>2, <4>1
    <3>3. QED
      BY <3>1, <3>2
  <2> HIDE DEF E, over, step, base
  <2>3. QED
    BY <1>1, <2>2
<1> HIDE DEF E, over, step, base
<1> DEFINE F == CHOOSE z : G(z)
<1>3. \A p \in Pids : Chain(s, p) = F[p]
  BY DEF Chain, E
<1> HIDE DEF G
<1>4. G(F)
  BY <1>2
<1> HIDE DEF F
<1>5. F = [q \in Pids |-> E(F, q)]
  BY <1>4 DEF G
<1>6. \A p \in Pids : F[p] = E(F, p)
  BY <1>5
<1>7. Pids \subseteq {p \in Pids : F[p] \subseteq Pids}
  <2> DEFINE T == {x \in Pids : F[x] \subseteq Pids}
  <2>1. \A p \in Pids : (\A q \in Pids : rank[q] < rank[p] => q \in T) => p \in T
    <3> SUFFICES ASSUME NEW p \in Pids, \A q \in Pids : rank[q] < rank[p] => q \in T
                 PROVE  F[p] \subseteq Pids
      OBVIOUS
    <3>1. CASE Above[p] \in LiveIn(s)
      <4>1. Above[p] \in Pids /\ rank[Above[p]] < rank[p]
        BY <1>0, <3>1 DEF Nesting
      <4>2. F[Above[p]] \subseteq Pids
        BY <4>1
      <4>3. QED
        BY <1>6, <3>1, <4>2 DEF E
    <3>2. CASE Above[p] \notin LiveIn(s)
      BY <1>6, <3>2 DEF E
    <3>3. QED
      BY <3>1, <3>2
  <2>2. rank \in [Pids -> Nat]
    BY DEF Nesting
  <2> HIDE DEF T
  <2>3. Pids \subseteq T
    BY <2>1, <2>2, RankInduction
  <2>4. QED
    BY <2>3 DEF T
<1>8. \A p \in Pids : Above[p] \in LiveIn(s) => Chain(s, Above[p]) = F[Above[p]]
  BY <1>0, <1>3
<1>9. QED
  BY <1>3, <1>6, <1>7, <1>8 DEF E

\* What is above something above p is above p.
LEMMA ChainCloses ==
  ASSUME NEW depth, NEW rank, Nesting(depth, rank), NEW s
  PROVE  \A p \in Pids :
           p \in Chain(s, p) /\ \A q \in Chain(s, p) : Chain(s, q) \subseteq Chain(s, p)
<1> USE BarmanConstants
<1>0. LiveIn(s) \subseteq Pids /\ rank \in [Pids -> Nat]
  BY DEF LiveIn, Nesting
<1>1. \A p \in Pids : Chain(s, p) \subseteq Pids
  BY ChainUnfold
<1>2. \A p \in Pids :
        Chain(s, p) = {p} \cup IF Above[p] \in LiveIn(s) THEN Chain(s, Above[p]) ELSE {}
  BY ChainUnfold
<1> DEFINE T == {p \in Pids : \A q \in Chain(s, p) : Chain(s, q) \subseteq Chain(s, p)}
<1>3. \A p \in Pids : (\A q \in Pids : rank[q] < rank[p] => q \in T) => p \in T
  <2> SUFFICES ASSUME NEW p \in Pids, \A q \in Pids : rank[q] < rank[p] => q \in T,
                      NEW q \in Chain(s, p)
               PROVE  Chain(s, q) \subseteq Chain(s, p)
    OBVIOUS
  <2>1. CASE q = p
    BY <2>1
  <2>2. CASE Above[p] \in LiveIn(s) /\ q \in Chain(s, Above[p])
    <3>1. Above[p] \in Pids /\ rank[Above[p]] < rank[p]
      BY <1>0, <2>2 DEF Nesting
    <3>2. Above[p] \in T
      BY <3>1
    <3>3. Chain(s, q) \subseteq Chain(s, Above[p])
      BY <2>2, <3>2
    <3>4. QED
      BY <1>2, <2>2, <3>3
  <2>3. QED
    BY <1>2, <2>1, <2>2
<1> HIDE DEF T
<1>4. Pids \subseteq T
  BY <1>0, <1>3, RankInduction
<1>5. QED
  BY <1>2, <1>4 DEF T

\* The elements of two sequences one after the other are those of the two.
LEMMA ConcatElements ==
  ASSUME NEW V, NEW a \in Seq(V), NEW b \in Seq(V)
  PROVE  /\ a \o b \in Seq(V)
         /\ \A x : x \in ToSet(a \o b) <=> x \in ToSet(a) \/ x \in ToSet(b)
<1>1. /\ Len(a) \in Nat /\ DOMAIN a = 1 .. Len(a)
      /\ Len(b) \in Nat /\ DOMAIN b = 1 .. Len(b)
  BY LenProperties
<1>2. a \o b \in Seq(V) /\ Len(a \o b) = Len(a) + Len(b)
  BY ConcatProperties
<1>3. ASSUME NEW x \in ToSet(a \o b) PROVE x \in ToSet(a) \/ x \in ToSet(b)
  <2>1. PICK k \in 1 .. Len(a) + Len(b) : x = (a \o b)[k]
    BY <1>2, LenProperties DEF ToSet
  <2>2. (a \o b)[k] = IF k <= Len(a) THEN a[k] ELSE b[k - Len(a)]
    BY ConcatProperties
  <2>3. CASE k <= Len(a)
    <3>1. k \in DOMAIN a /\ x = a[k]
      BY <1>1, <2>1, <2>2, <2>3
    <3>2. QED
      BY <3>1 DEF ToSet
  <2>4. CASE ~ (k <= Len(a))
    <3>1. k - Len(a) \in DOMAIN b /\ x = b[k - Len(a)]
      BY <1>1, <2>1, <2>2, <2>4
    <3>2. QED
      BY <3>1 DEF ToSet
  <2>5. QED
    BY <2>3, <2>4
<1>4. ASSUME NEW x \in ToSet(a) PROVE x \in ToSet(a \o b)
  <2>1. PICK k \in 1 .. Len(a) : x = a[k]
    BY <1>1 DEF ToSet
  <2>2. k \in 1 .. Len(a) + Len(b) /\ (a \o b)[k] = a[k]
    BY <1>1, ConcatProperties
  <2>3. QED
    BY <1>2, <2>1, <2>2, LenProperties DEF ToSet
<1>5. ASSUME NEW x \in ToSet(b) PROVE x \in ToSet(a \o b)
  <2>1. PICK k \in 1 .. Len(b) : x = b[k]
    BY <1>1 DEF ToSet
  <2> DEFINE m == k + Len(a)
  <2>2. m \in 1 .. Len(a) + Len(b) /\ ~ (m <= Len(a)) /\ m - Len(a) = k
    BY <1>1
  <2>3. (a \o b)[m] = b[k]
    BY <2>2, ConcatProperties
  <2> HIDE DEF m
  <2>4. QED
    BY <1>2, <2>1, <2>2, <2>3, LenProperties DEF ToSet
<1>6. QED
  BY <1>2, <1>3, <1>4, <1>5

\* The elements of a flattened sequence are those of the sequences in it.
LEMMA FlattenElements ==
  ASSUME NEW V, NEW seqs \in Seq(Seq(V))
  PROVE  /\ FlattenSeq(seqs) \in Seq(V)
         /\ \A x : x \in ToSet(FlattenSeq(seqs))
                  <=> \E i \in 1 .. Len(seqs) : x \in ToSet(seqs[i])
<1> DEFINE n == Len(seqs)
           E(f, i) == IF i = 1 THEN seqs[i] ELSE f[i - 1] \o seqs[i]
           G(f) == f = [i \in 1 .. n |-> E(f, i)]
           over == [i \in 1 .. n |-> i - 1]
           rank == [i \in 1 .. n |-> i]
           base == [i \in 1 .. n |-> seqs[i]]
           step == [i \in 1 .. n |-> [X \in Seq(V) |-> X \o seqs[i]]]
<1>0. n \in Nat /\ \A i \in 1 .. n : seqs[i] \in Seq(V)
  BY LenProperties
<1> HIDE DEF n
<1>1. PICK f \in [1 .. n -> Seq(V)] :
        \A i \in 1 .. n : f[i] = IF over[i] = 0 THEN base[i] ELSE step[i][f[over[i]]]
  <2>1. \A i \in 1 .. n : \A X \in Seq(V) : X \o seqs[i] \in Seq(V)
    BY <1>0, ConcatProperties
  <2>2. step \in [1 .. n -> [Seq(V) -> Seq(V)]] /\ base \in [1 .. n -> Seq(V)]
    BY <1>0, <2>1
  <2>3. /\ 0 \notin 1 .. n /\ rank \in [1 .. n -> Nat] /\ over \in [1 .. n -> (1 .. n) \cup {0}]
        /\ \A i \in 1 .. n : over[i] # 0 => rank[over[i]] < rank[i]
    BY <1>0
  <2> HIDE DEF step, base, over, rank
  <2>4. Links(1 .. n, 0, rank, over, Seq(V), base, step)
    BY <2>2, <2>3 DEF Links
  <2>5. \E f : Follows(f, 1 .. n, 0, over, Seq(V), base, step)
    BY <2>4, TreeRecursion
  <2>6. QED
    BY <2>5 DEF Follows
<1>2. G(f)
  <2>1. ASSUME NEW i \in 1 .. n PROVE f[i] = E(f, i)
    <3>1. CASE i = 1
      <4>1. over[i] = 0 /\ base[i] = seqs[i]
        BY <3>1
      <4> HIDE DEF over, base, step
      <4>2. QED
        BY <1>1, <3>1, <4>1
    <3>2. CASE i # 1
      <4>1. over[i] = i - 1 /\ over[i] # 0 /\ i - 1 \in 1 .. n
        BY <1>0, <3>2
      <4>2. step[i][f[i - 1]] = f[i - 1] \o seqs[i]
        BY <4>1
      <4> HIDE DEF over, base, step
      <4>3. QED
        BY <1>1, <3>2, <4>1, <4>2
    <3>3. QED
      BY <3>1, <3>2
  <2> HIDE DEF E, over, step, base
  <2>2. QED
    BY <1>1, <2>1
<1> HIDE DEF E, over, step, base
<1> DEFINE F == CHOOSE z : G(z)
<1>3. FlattenSeq(seqs) = IF n = 0 THEN seqs ELSE F[n]
  BY DEF FlattenSeq, E, n
<1> HIDE DEF G
<1>4. G(F)
  BY <1>2
<1> HIDE DEF F
<1>5. \A i \in 1 .. n : F[i] = E(F, i)
  BY <1>4 DEF G
<1> DEFINE OK(i) == /\ F[i] \in Seq(V)
                    /\ \A x : x \in ToSet(F[i]) <=> \E j \in 1 .. i : x \in ToSet(seqs[j])
           T == {i \in 1 .. n : OK(i)}
<1>6. ASSUME NEW i \in 1 .. n, \A j \in 1 .. n : rank[j] < rank[i] => j \in T
      PROVE  OK(i)
  <2>1. CASE i = 1
    <3>1. F[i] = seqs[i]
      BY <1>5, <2>1 DEF E
    <3>2. \A j \in 1 .. i : j = i
      BY <2>1
    <3>3. i \in 1 .. i /\ seqs[i] \in Seq(V)
      BY <1>0, <2>1
    <3>4. QED
      BY <3>1, <3>2, <3>3
  <2>2. CASE i # 1
    <3>0. i - 1 \in 1 .. n /\ rank[i - 1] < rank[i]
      BY <1>0, <2>2
    <3>1. i - 1 \in T
      BY <1>6, <3>0
    <3>2. F[i] = F[i - 1] \o seqs[i]
      BY <1>5, <2>2 DEF E
    <3>3. F[i - 1] \in Seq(V) /\ seqs[i] \in Seq(V)
      BY <1>0, <3>0, <3>1
    <3>4. F[i] \in Seq(V)
      BY <3>2, <3>3, ConcatElements
    <3>5. \A x : x \in ToSet(F[i]) <=> x \in ToSet(F[i - 1]) \/ x \in ToSet(seqs[i])
      BY <3>2, <3>3, ConcatElements
    <3>6. \A x : x \in ToSet(F[i - 1]) <=> \E j \in 1 .. (i - 1) : x \in ToSet(seqs[j])
      BY <3>1
    <3>7. \A j : j \in 1 .. i <=> j \in 1 .. (i - 1) \/ j = i
      BY <1>0, <2>2
    <3>8. QED
      BY <3>4, <3>5, <3>6, <3>7
  <2>3. QED
    BY <2>1, <2>2
<1>7. rank \in [1 .. n -> Nat]
  BY <1>0
<1> HIDE DEF rank, OK
<1>8. \A i \in 1 .. n : (\A j \in 1 .. n : rank[j] < rank[i] => j \in T) => i \in T
  BY <1>6
<1> HIDE DEF T
<1> DEFINE S == 1 .. n
<1> HIDE DEF S
<1>9. S \subseteq T
  <2>1. rank \in [S -> Nat]
    BY <1>7 DEF S
  <2>2. \A i \in S : (\A j \in S : rank[j] < rank[i] => j \in T) => i \in T
    BY <1>8 DEF S
  <2>3. QED
    BY <2>1, <2>2, RankInduction
<1>10. CASE n = 0
  <2>1. seqs = <<>>
    BY <1>10, EmptySeq DEF n
  <2>2. FlattenSeq(seqs) = <<>>
    BY <1>3, <1>10, <2>1
  <2>3. ToSet(<<>>) = {} /\ <<>> \in Seq(V)
    BY EmptySeq DEF ToSet
  <2>4. 1 .. n = {}
    BY <1>10
  <2>5. QED
    BY <2>2, <2>3, <2>4 DEF n
<1>11. CASE n # 0
  <2>1. n \in T
    BY <1>0, <1>9, <1>11 DEF S
  <2>2. FlattenSeq(seqs) = F[n]
    BY <1>3, <1>11
  <2>3. QED
    BY <2>1, <2>2 DEF T, OK, n
<1>12. QED
  BY <1>10, <1>11

\* What is left of the identities that were to be signalled holds.
LEMMA HoldingElements ==
  ASSUME NEW V, NEW ids \in Seq(V)
  PROVE  /\ Holding(ids) \in Seq(V)
         /\ \A x : x \in ToSet(Holding(ids)) <=> x \in ToSet(ids) /\ IdentityHolds(x)
<1> DEFINE parts == [i \in 1 .. Len(ids) |-> IF IdentityHolds(ids[i]) THEN <<ids[i]>> ELSE <<>>]
<1>0. Len(ids) \in Nat /\ DOMAIN ids = 1 .. Len(ids) /\ \A i \in 1 .. Len(ids) : ids[i] \in V
  BY LenProperties
<1>1. parts \in Seq(Seq(V)) /\ Len(parts) = Len(ids)
  <2>1. \A i \in 1 .. Len(ids) : parts[i] \in Seq(V)
    BY <1>0
  <2>2. parts \in [1 .. Len(ids) -> Seq(V)]
    BY <2>1
  <2> HIDE DEF parts
  <2>3. QED
    BY <1>0, <2>2
<1>2. ASSUME NEW i \in 1 .. Len(ids), NEW x
      PROVE  x \in ToSet(parts[i]) <=> x = ids[i] /\ IdentityHolds(x)
  <2>1. CASE IdentityHolds(ids[i])
    <3>1. parts[i] = <<ids[i]>>
      BY <2>1
    <3>2. QED
      BY <2>1, <3>1 DEF ToSet
  <2>2. CASE ~ IdentityHolds(ids[i])
    <3>1. parts[i] = <<>>
      BY <2>2
    <3>2. QED
      BY <3>1 DEF ToSet
  <2>3. QED
    BY <2>1, <2>2
<1>3. Holding(ids) = FlattenSeq(parts)
  BY DEF Holding
<1> HIDE DEF parts
<1>4. ASSUME NEW x
      PROVE  x \in ToSet(FlattenSeq(parts)) <=> x \in ToSet(ids) /\ IdentityHolds(x)
  <2>1. x \in ToSet(FlattenSeq(parts)) <=> \E i \in 1 .. Len(ids) : x \in ToSet(parts[i])
    BY <1>1, FlattenElements
  <2>2. x \in ToSet(ids) <=> \E i \in 1 .. Len(ids) : x = ids[i]
    BY <1>0 DEF ToSet
  <2>3. QED
    BY <1>2, <2>1, <2>2
<1>5. FlattenSeq(parts) \in Seq(V)
  BY <1>1, FlattenElements
<1>6. QED
  BY <1>3, <1>4, <1>5

\* A finite set can be put in some order.
LEMMA SetAsSeq ==
  ASSUME NEW K, IsFiniteSet(K)
  PROVE  Cardinality(K) \in Nat /\ SetToSeq(K) \in [1 .. Cardinality(K) -> K]
<1>1. PICK n \in Nat : ExistsBijection(1 .. n, K)
  BY FS_NatBijection
<1>2. Cardinality(K) = n
  BY <1>1, FS_CountingElements
<1>3. \E f \in [1 .. Cardinality(K) -> K] : IsInjective(f)
  BY <1>1, <1>2 DEF ExistsBijection, Bijection, Injection, Surjection
<1>4. QED
  BY <1>2, <1>3 DEF SetToSeq

\* An identity list of an item holds processes of the snapshot that have the item above
\* them.
LEMMA PostOrderElements ==
  ASSUME NEW depth, NEW rank, Nesting(depth, rank), IsFiniteSet(Pids),
         NEW s, NEW r \in LiveIn(s)
  PROVE  /\ PostOrder(s, r) \in Seq(Pids)
         /\ \A q \in ToSet(PostOrder(s, r)) : q \in LiveIn(s) /\ r \in Chain(s, q)
<1> DEFINE K(q) == {k \in LiveIn(s) : Above[k] = q}
           Below(f, q) == [i \in 1 .. Cardinality(K(q)) |-> f[SetToSeq(K(q))[i]]]
           E(f, q) == FlattenSeq(Below(f, q)) \o <<q>>
           G(f) == f = [q \in Pids |-> E(f, q)]
           Def == [f \in [Pids -> Seq(Pids)] |-> [q \in Pids |-> E(f, q)]]
           height == [q \in Pids |-> depth - rank[q]]
           F == CHOOSE z : G(z)
<1>0. LiveIn(s) \subseteq Pids /\ height \in [Pids -> Nat]
  BY DEF LiveIn, Nesting
<1>a. \A p \in Pids : PostOrder(s, p) = F[p]
  BY DEF PostOrder
<1>b. ASSUME NEW q \in Pids, NEW k \in K(q)
      PROVE  k \in Pids /\ k \in LiveIn(s) /\ Above[k] = q /\ height[k] < height[q]
  BY <1>0, BarmanConstants DEF Nesting
<1>c. ASSUME NEW q \in Pids PROVE /\ Cardinality(K(q)) \in Nat
                                  /\ \A i \in 1 .. Cardinality(K(q)) :
                                       SetToSeq(K(q))[i] \in K(q)
  <2>1. IsFiniteSet(K(q))
    BY <1>0, FS_Subset
  <2> HIDE DEF K
  <2>2. QED
    BY <2>1, SetAsSeq
<1> HIDE DEF K, height
<1>d. ASSUME NEW f \in [Pids -> Seq(Pids)], NEW q \in Pids
      PROVE  /\ Below(f, q) \in Seq(Seq(Pids)) /\ Len(Below(f, q)) = Cardinality(K(q))
             /\ E(f, q) \in Seq(Pids)
             /\ \A x \in ToSet(E(f, q)) :
                  x = q \/ \E k \in K(q) : x \in ToSet(f[k])
  <2>1. \A i \in 1 .. Cardinality(K(q)) :
          SetToSeq(K(q))[i] \in K(q) /\ f[SetToSeq(K(q))[i]] \in Seq(Pids)
    BY <1>b, <1>c
  <2>2. Below(f, q) \in Seq(Seq(Pids)) /\ Len(Below(f, q)) = Cardinality(K(q))
    <3>1. Below(f, q) \in [1 .. Cardinality(K(q)) -> Seq(Pids)]
      BY <2>1
    <3> HIDE DEF Below
    <3>2. QED
      BY <1>c, <3>1
  <2>3. \A i \in 1 .. Cardinality(K(q)) : Below(f, q)[i] = f[SetToSeq(K(q))[i]]
    OBVIOUS
  <2> HIDE DEF Below
  <2> DEFINE a == FlattenSeq(Below(f, q))
             b == <<q>>
  <2>4. /\ a \in Seq(Pids)
        /\ \A x \in ToSet(a) : \E i \in 1 .. Len(Below(f, q)) : x \in ToSet(Below(f, q)[i])
    BY <2>2, FlattenElements
  <2>5. \A x \in ToSet(a) : \E k \in K(q) : x \in ToSet(f[k])
    <3> SUFFICES ASSUME NEW x \in ToSet(a) PROVE \E k \in K(q) : x \in ToSet(f[k])
      OBVIOUS
    <3>1. PICK i \in 1 .. Len(Below(f, q)) : x \in ToSet(Below(f, q)[i])
      BY <2>4
    <3>2. i \in 1 .. Cardinality(K(q))
      BY <2>2
    <3>3. x \in ToSet(f[SetToSeq(K(q))[i]]) /\ SetToSeq(K(q))[i] \in K(q)
      BY <2>1, <2>3, <3>1, <3>2
    <3>4. QED
      BY <3>3
  <2>6. b \in Seq(Pids) /\ \A x \in ToSet(b) : x = q
    BY DEF ToSet
  <2> HIDE DEF a, b
  <2>7. a \o b \in Seq(Pids) /\ \A x \in ToSet(a \o b) : x \in ToSet(a) \/ x = q
    BY <2>4, <2>6, ConcatElements
  <2>9. E(f, q) = a \o b
    BY DEF a, b
  <2> HIDE DEF E
  <2>10. QED
    BY <2>2, <2>5, <2>7, <2>9
<1>e. ASSUME NEW f, NEW g, NEW q \in Pids,
             \A k \in Pids : height[k] < height[q] => f[k] = g[k]
      PROVE  E(f, q) = E(g, q)
  <2>1. \A i \in 1 .. Cardinality(K(q)) : f[SetToSeq(K(q))[i]] = g[SetToSeq(K(q))[i]]
    BY <1>b, <1>c, <1>e
  <2>2. Below(f, q) = Below(g, q)
    BY <2>1
  <2> HIDE DEF Below
  <2>3. QED
    BY <2>2
<1> HIDE DEF E
<1>1. Recursive(Pids, height, Seq(Pids), Def)
  <2>1. Def \in [[Pids -> Seq(Pids)] -> [Pids -> Seq(Pids)]]
    BY <1>d
  <2>2. ASSUME NEW f \in [Pids -> Seq(Pids)], NEW g \in [Pids -> Seq(Pids)], NEW p \in Pids,
               \A q \in Pids : height[q] < height[p] => f[q] = g[q]
        PROVE  Def[f][p] = Def[g][p]
    <3>1. E(f, p) = E(g, p)
      BY <1>e, <2>2
    <3>2. QED
      BY <3>1
  <2>3. [q \in Pids |-> <<>>] \in [Pids -> Seq(Pids)]
    OBVIOUS
  <2> HIDE DEF Def
  <2>4. QED
    BY <1>0, <2>1, <2>2, <2>3 DEF Recursive
<1>2. PICK f \in [Pids -> Seq(Pids)] : f = Def[f]
  <2> HIDE DEF Def
  <2>1. QED
    BY <1>1, RankRecursion
<1>3. G(f)
  BY <1>2
<1>4. G(F)
  <2> HIDE DEF G
  <2>1. QED
    BY <1>3
<1> HIDE DEF F, Def
<1>5. F = [q \in Pids |-> E(F, q)]
  BY <1>4
<1>6. \A q \in Pids : F[q] = E(F, q)
  BY <1>5
<1> HIDE DEF G
<1>7. \A q \in Pids : f[q] = E(f, q)
  BY <1>2 DEF Def
<1> DEFINE T == {q \in Pids : F[q] = f[q]}
<1>8. \A q \in Pids : (\A k \in Pids : height[k] < height[q] => k \in T) => q \in T
  <2> SUFFICES ASSUME NEW q \in Pids, \A k \in Pids : height[k] < height[q] => k \in T
               PROVE  F[q] = f[q]
    OBVIOUS
  <2>1. \A k \in Pids : height[k] < height[q] => F[k] = f[k]
    OBVIOUS
  <2>2. E(F, q) = E(f, q)
    BY <1>e, <2>1
  <2>3. QED
    BY <1>6, <1>7, <2>2
<1> HIDE DEF T
<1>9. Pids \subseteq T
  BY <1>0, <1>8, RankInduction
<1> DEFINE U == {q \in Pids : q \in LiveIn(s) =>
                   \A x \in ToSet(f[q]) : x \in LiveIn(s) /\ q \in Chain(s, x)}
<1>10. \A q \in Pids : (\A k \in Pids : height[k] < height[q] => k \in U) => q \in U
  <2> SUFFICES ASSUME NEW q \in Pids, \A k \in Pids : height[k] < height[q] => k \in U,
                      q \in LiveIn(s), NEW x \in ToSet(f[q])
               PROVE  x \in LiveIn(s) /\ q \in Chain(s, x)
    OBVIOUS
  <2>1. x = q \/ \E k \in K(q) : x \in ToSet(f[k])
    BY <1>2, <1>7, <1>d
  <2>2. CASE x = q
    BY <2>2, ChainCloses
  <2>3. ASSUME NEW k \in K(q), x \in ToSet(f[k])
        PROVE  x \in LiveIn(s) /\ q \in Chain(s, x)
    <3>1. k \in Pids /\ k \in LiveIn(s) /\ Above[k] = q /\ k \in U
      BY <1>b
    <3>2. x \in LiveIn(s) /\ k \in Chain(s, x)
      BY <2>3, <3>1
    <3>3. x \in Pids
      BY <1>0, <3>2
    <3>4. Chain(s, k) \subseteq Chain(s, x)
      BY <3>2, <3>3, ChainCloses
    <3>5. Chain(s, k) = {k} \cup Chain(s, q)
      BY <3>1, ChainUnfold
    <3>6. q \in Chain(s, q)
      BY ChainCloses
    <3>7. QED
      BY <3>2, <3>4, <3>5, <3>6
  <2>4. QED
    BY <2>1, <2>2, <2>3
<1> HIDE DEF U
<1>11. Pids \subseteq U
  BY <1>0, <1>10, RankInduction
<1>12. r \in Pids /\ PostOrder(s, r) = f[r]
  BY <1>0, <1>9, <1>a DEF T
<1>13. QED
  BY <1>2, <1>11, <1>12 DEF U

\* The processes that are signalled for an item: each ran at the snapshot under its pid and
\* start time, as the item or nested in it.
LEMMA IdentitiesAre ==
  ASSUME NEW depth, NEW rank, Nesting(depth, rank), IsFiniteSet(Pids),
         NEW s, NEW r \in LiveIn(s)
  PROVE  /\ IdentitiesFor(s, r) \in Seq([pid : Pids, start : {StartOf(s, p) : p \in Pids}])
         /\ \A i \in ToSet(IdentitiesFor(s, r)) :
              /\ i.pid \in LiveIn(s) /\ i.start = StartOf(s, i.pid)
              /\ r \in Chain(s, i.pid)
         /\ \A q \in ToSet(PostOrder(s, r)) : \E i \in ToSet(IdentitiesFor(s, r)) : i.pid = q
<1> DEFINE order == PostOrder(s, r)
           V == [pid : Pids, start : {StartOf(s, p) : p \in Pids}]
           ids == IdentitiesFor(s, r)
<1>1. order \in Seq(Pids) /\ \A q \in ToSet(order) : q \in LiveIn(s) /\ r \in Chain(s, q)
  BY PostOrderElements
<1>2. ids = [i \in 1 .. Len(order) |-> [pid |-> order[i], start |-> StartOf(s, order[i])]]
  BY DEF IdentitiesFor
<1> HIDE DEF order, ids
<1>3. Len(order) \in Nat /\ DOMAIN order = 1 .. Len(order)
  BY <1>1, LenProperties
<1>4. \A i \in 1 .. Len(order) : order[i] \in Pids /\ order[i] \in ToSet(order)
  BY <1>1, <1>3, LenProperties DEF ToSet
<1>5. DOMAIN ids = 1 .. Len(order)
      /\ \A i \in 1 .. Len(order) :
            /\ ids[i] = [pid |-> order[i], start |-> StartOf(s, order[i])]
            /\ ids[i] \in V /\ ids[i] \in ToSet(ids)
  <2>1. DOMAIN ids = 1 .. Len(order)
    BY <1>2
  <2>2. ASSUME NEW i \in 1 .. Len(order)
        PROVE  /\ ids[i] = [pid |-> order[i], start |-> StartOf(s, order[i])]
               /\ ids[i] \in V /\ ids[i] \in ToSet(ids)
    BY <1>2, <1>4, <2>1 DEF ToSet
  <2>3. QED
    BY <2>1, <2>2
<1>6. ASSUME NEW i \in ToSet(ids)
      PROVE  /\ i.pid \in LiveIn(s) /\ i.start = StartOf(s, i.pid)
             /\ r \in Chain(s, i.pid)
  <2>1. PICK k \in 1 .. Len(order) : i = [pid |-> order[k], start |-> StartOf(s, order[k])]
    BY <1>5 DEF ToSet
  <2>2. QED
    BY <1>1, <1>4, <2>1
<1>7. ids \in Seq(V)
  <2>1. ids \in [1 .. Len(order) -> V]
    BY <1>2, <1>5
  <2> HIDE DEF V
  <2>2. QED
    BY <1>3, <2>1
<1>8. ASSUME NEW q \in ToSet(order) PROVE \E i \in ToSet(ids) : i.pid = q
  <2>1. PICK k \in 1 .. Len(order) : q = order[k]
    BY <1>3 DEF ToSet
  <2>2. QED
    BY <1>5, <2>1
<1>9. QED
  BY <1>6, <1>7, <1>8 DEF ids, order

\* What the theorems ask of the items: the families of a scan are trees (Classify), so they
\* nest to some finite depth.
ItemsNest == \E depth, rank : Nesting(depth, rank)

\* The fields of the record of a client that works.
Fields == {"pc", "op", "asked", "left", "signal", "issued", "snap", "since", "cur",
           "todo", "sent", "held", "stopped", "killed", "failed", "hit", "removed"}

\* What can be selected at a time: resources that had started, and no volume.
Selectable(ids, time) ==
  /\ \A id \in ids : id[1] = "resource" => id[3] \in Nat /\ id[3] <= time
  /\ \A id \in ids : \A d \in DockerIds : ContainerId(d) = id => DKind[d] # "Volume"

\* The identities a list made from the snapshot s can hold.
Identities(s) == [pid : Pids, start : {StartOf(s, p) : p \in Pids}]

\* An identity of the item in hand.
Mine(r, i) ==
  /\ i.pid \in LiveIn(r.snap) /\ i.start = StartOf(r.snap, i.pid)
  /\ \E q \in Chain(r.snap, i.pid) : ResourceId(r.snap, q) = r.cur

\* The refresh saw a process that passes for that of the snapshot under its pid.
Seen(r, i) == \E t : <<i.pid, t>> \in r.held /\ PassesFor(i.pid, t, r.snap.started[i.pid])

\* What the client reports as done.
Reported(r) == r.stopped \cup r.killed

\* A process of the item id was signalled.
Reached(r, id) ==
  \E h \in r.hit : h.pid \in Pids /\ \E q \in Chain(r.snap, h.pid) : ResourceId(r.snap, q) = id

\* One part of the invariant of a client that works: what it was asked for ...
AskedOK(r) ==
  /\ DOMAIN r = Fields
  /\ r.left \subseteq r.asked /\ r.failed \subseteq r.asked
  /\ r.op = "execute" => Selectable(r.asked, r.issued)
  /\ r.op = "group" => \A id \in r.asked : id[1] = "resource" /\ FindItem(r.snap, id) # {}

\* ... the item in hand ...
HandOK(r) ==
  /\ r.pc \in {"refresh", "signal"} =>
       /\ r.cur \in r.asked /\ r.cur \notin r.left
       /\ r.todo \in Seq(Identities(r.snap)) /\ \A i \in ToSet(r.todo) : Mine(r, i)
  /\ r.pc = "signal" =>
       /\ \A i \in ToSet(r.todo) : Seen(r, i)
       /\ \A p, t, u : <<p, t>> \in r.held /\ <<p, u>> \in r.held => t = u

\* ... the processes it has signalled ...
HitsOK(r) ==
  \A h \in r.hit : h.reused \/
      /\ h.pid \in LiveIn(r.snap) /\ PassesFor(h.pid, h.start, r.snap.started[h.pid])
      /\ \E q \in Chain(r.snap, h.pid) : ResourceId(r.snap, q) \in r.asked

\* ... its report ...
ReportIs(r) ==
  /\ r.failed \cap Reported(r) = {} /\ r.left \cap (r.failed \cup Reported(r)) = {}
  /\ r.pc \in {"refresh", "signal"} => r.cur \notin r.failed \cup Reported(r)
  /\ r.op # "group" =>
       /\ \A id \in Reported(r) : id[1] = "resource" => Reached(r, id)
       /\ r.pc # "signal" => r.sent = {}
       /\ r.pc = "signal" /\ "signaled" \in r.sent => Reached(r, r.cur)
  /\ r.op = "group" =>
       /\ r.pc # "summed" => r.failed = {} /\ Reported(r) = {}
       /\ "signaled" \in r.sent \/ Reported(r) # {} => r.hit # {}
  /\ r.pc = "docker" => \A id \in r.left : id[1] = "container"

\* ... what it removed, no volume of a plan ...
RemovedOK(r) == r.op = "execute" => \A d \in r.removed : DKind[d] # "Volume"

\* ... when its snapshot was made ...
Dated(r, time) ==
  r.snap.started \in [Pids -> Nat] /\ r.since \in Nat /\ r.since <= time

\* (the process q of its snapshot is dealt with, st being when the processes were started)
Through(r, q, st) ==
  r.snap.started[q] < r.since /\ st[q] = r.snap.started[q] =>
    \E h \in r.hit : h.pid = q /\ h.start = r.snap.started[q]
Done(r, id, st) ==
  \E p \in FindItem(r.snap, id) : \A q \in ToSet(PostOrder(r.snap, p)) : Through(r, q, st)

\* ... and what that leaves: nothing of what is reported as done, of a member of a group
\* that has been dealt with only what failed, and of the item in hand what is to do yet.
DoneOK(r, st) ==
  /\ \A id \in Reported(r) : id[1] = "resource" => Done(r, id, st)
  /\ r.op = "group" =>
       \A id \in r.asked \ r.left :
         \/ r.pc \in {"refresh", "signal"} /\ id = r.cur
         \/ r.pc = "summed" \/ "failed" \in r.sent \/ Done(r, id, st)
  /\ r.pc \in {"refresh", "signal"} =>
       \/ "failed" \in r.sent
       \/ \E p \in FindItem(r.snap, r.cur) : \A q \in ToSet(PostOrder(r.snap, p)) :
            Through(r, q, st) \/ \E i \in ToSet(r.todo) : i.pid = q

\* All of it.  Two actors break it if anything does: the host between two of the client's
\* steps, and the client that reports before it acts.
WorkOK(r, st, time) ==
  /\ AskedOK(r) /\ HandOK(r) /\ HitsOK(r) /\ ReportIs(r) /\ RemovedOK(r)
  /\ Dated(r, time) /\ DoneOK(r, st)

\* A client stays at its signals only as long as some are left.
Ready(r) == r.pc = "signal" => r.todo # <<>>

\* A client that begins to work, on the ids it was asked about.
Begun(r, op, ids) ==
  /\ DOMAIN r = Fields /\ r.op = op /\ r.asked = ids /\ r.left = ids
  /\ r.sent = {} /\ r.stopped = {} /\ r.killed = {} /\ r.failed = {} /\ r.hit = {}
  /\ r.removed = {} /\ r.snap = Snap /\ r.since = now

\* What the snapshot of a client reads of the processes holds for those of the host.
LEMMA DoneGrows ==
  ASSUME NEW r, NEW t, NEW st, t.snap = r.snap, t.since = r.since, r.hit \subseteq t.hit
  PROVE  /\ \A q : Through(r, q, st) => Through(t, q, st)
         /\ \A id : Done(r, id, st) => Done(t, id, st)
<1>1. ASSUME NEW q, Through(r, q, st) PROVE Through(t, q, st)
  BY <1>1 DEF Through
<1>2. QED
  BY <1>1 DEF Done

\* A client begins within its invariant (Work, barman.rs execute, action).
LEMMA BegunWorks ==
  ASSUME NEW r, NEW op, NEW ids, Begun(r, op, ids), r.pc \in {"next", "docker"},
         now \in Nat, started \in [Pids -> Nat],
         op = "execute" => Selectable(ids, r.issued),
         op = "group" => \A id \in ids : id[1] = "resource" /\ FindItem(Snap, id) # {},
         r.pc = "docker" => \A id \in ids : id[1] = "container"
  PROVE  WorkOK(r, started, now) /\ Ready(r)
<1>1. AskedOK(r) /\ HandOK(r) /\ HitsOK(r) /\ RemovedOK(r)
  BY DEF Begun, AskedOK, HandOK, HitsOK, RemovedOK
<1>2. ReportIs(r)
  BY DEF Begun, ReportIs, Reported
<1>3. Dated(r, now)
  BY DEF Begun, Dated, Snap
<1>4. DoneOK(r, started)
  BY DEF Begun, DoneOK, Reported
<1>5. QED
  BY <1>1, <1>2, <1>3, <1>4 DEF WorkOK, Ready

\* What was dealt with stays so: a process of the snapshot that has ended does not come
\* back, because whatever has its pid later was started since.
LEMMA DoneStays ==
  ASSUME ItemsNest, IsFiniteSet(Pids), NEW r, NEW time \in Nat, Dated(r, time),
         NEW st \in [Pids -> Nat], NEW su \in [Pids -> Nat], DoneOK(r, st),
         \A p \in Pids : su[p] = st[p] \/ su[p] = 0 \/ time <= su[p]
  PROVE  DoneOK(r, su)
<1>0. PICK depth, rank : Nesting(depth, rank)
  BY DEF ItemsNest
<1>1. ASSUME NEW q \in LiveIn(r.snap), Through(r, q, st) PROVE Through(r, q, su)
  <2> SUFFICES ASSUME r.snap.started[q] < r.since, su[q] = r.snap.started[q]
               PROVE  \E h \in r.hit : h.pid = q /\ h.start = r.snap.started[q]
    BY DEF Through
  <2>1. q \in Pids /\ r.snap.started[q] \in Nat /\ r.snap.started[q] # 0
    BY DEF LiveIn, Dated
  <2>2. ~ (time <= su[q]) /\ su[q] # 0
    BY <2>1 DEF Dated
  <2>3. st[q] = r.snap.started[q]
    BY <2>1, <2>2
  <2>4. QED
    BY <1>1, <2>3 DEF Through
<1>2. ASSUME NEW id, NEW p \in FindItem(r.snap, id)
      PROVE  ToSet(PostOrder(r.snap, p)) \subseteq LiveIn(r.snap)
  <2>1. p \in LiveIn(r.snap)
    BY DEF FindItem
  <2>2. QED
    BY <1>0, <2>1, PostOrderElements
<1>3. ASSUME NEW id, Done(r, id, st) PROVE Done(r, id, su)
  <2>1. PICK p \in FindItem(r.snap, id) :
          \A q \in ToSet(PostOrder(r.snap, p)) : Through(r, q, st)
    BY <1>3 DEF Done
  <2>2. \A q \in ToSet(PostOrder(r.snap, p)) : Through(r, q, su)
    BY <1>1, <1>2, <2>1
  <2>3. QED
    BY <2>2 DEF Done
<1>4. ASSUME NEW p \in FindItem(r.snap, r.cur),
             \A q \in ToSet(PostOrder(r.snap, p)) :
               Through(r, q, st) \/ \E i \in ToSet(r.todo) : i.pid = q
      PROVE  \A q \in ToSet(PostOrder(r.snap, p)) :
               Through(r, q, su) \/ \E i \in ToSet(r.todo) : i.pid = q
  BY <1>1, <1>2, <1>4
<1>5. /\ \A id \in Reported(r) : id[1] = "resource" => Done(r, id, su)
      /\ r.op = "group" =>
           \A id \in r.asked \ r.left :
             \/ r.pc \in {"refresh", "signal"} /\ id = r.cur
             \/ r.pc = "summed" \/ "failed" \in r.sent \/ Done(r, id, su)
  BY <1>3 DEF DoneOK
<1>6. QED
  BY <1>4, <1>5 DEF DoneOK

\* What a record and one made of its report have in common.
Kept(r, t) ==
  /\ DOMAIN t = Fields
  /\ t.op = r.op /\ t.asked = r.asked /\ t.left = r.left /\ t.issued = r.issued
  /\ t.snap = r.snap /\ t.since = r.since
  /\ t.cur = r.cur /\ t.todo = r.todo /\ t.held = r.held /\ t.hit = r.hit
  /\ t.removed = r.removed

\* What signal_report makes of the reports for ids, and then of the stage (Answer).
Answers(r, ids, t) ==
  /\ Kept(r, t) /\ t.sent = {}
  /\ \/ /\ "signaled" \in r.sent /\ "failed" \notin r.sent
        /\ t.failed = r.failed /\ Reported(t) \subseteq Reported(r) \cup ids
     \/ t.failed = r.failed \cup ids /\ Reported(t) = Reported(r)

LEMMA AnswerIs ==
  ASSUME NEW r, DOMAIN r = Fields, NEW ids, NEW pc
  PROVE  LET t == [Answer(r, ids) EXCEPT !.pc = pc] IN Answers(r, ids, t) /\ t.pc = pc
<1>1. CASE ReportOk(r.sent)
  <2> DEFINE u == [r EXCEPT !.sent = {},
                  !.stopped = @ \cup (IF r.signal = "Term" THEN ids ELSE {}),
                  !.killed = @ \cup (IF r.signal = "Kill" THEN ids ELSE {})]
             t == [u EXCEPT !.pc = pc]
  <2>1. Answer(r, ids) = u /\ "signaled" \in r.sent /\ "failed" \notin r.sent
    BY <1>1 DEF Answer, ReportOk
  <2>2. /\ Kept(r, t) /\ t.pc = pc /\ t.sent = {} /\ t.failed = r.failed
    BY DEF Fields, Kept
  <2>3. /\ t.stopped = r.stopped \cup (IF r.signal = "Term" THEN ids ELSE {})
        /\ t.killed = r.killed \cup (IF r.signal = "Kill" THEN ids ELSE {})
    BY DEF Fields
  <2> HIDE DEF u, t
  <2>4. Reported(t) \subseteq Reported(r) \cup ids
    BY <2>3 DEF Reported
  <2>5. Answers(r, ids, t) /\ t.pc = pc
    BY <2>1, <2>2, <2>4 DEF Answers
  <2>6. QED
    BY <2>1, <2>5 DEF t
<1>2. CASE ~ ReportOk(r.sent)
  <2> DEFINE u == [r EXCEPT !.sent = {}, !.failed = @ \cup ids]
             t == [u EXCEPT !.pc = pc]
  <2>1. Answer(r, ids) = u
    BY <1>2 DEF Answer
  <2>2. /\ Kept(r, t) /\ t.pc = pc /\ t.sent = {} /\ t.failed = r.failed \cup ids
        /\ t.stopped = r.stopped /\ t.killed = r.killed
    BY DEF Fields, Kept
  <2> HIDE DEF u, t
  <2>3. Answers(r, ids, t) /\ t.pc = pc
    BY <2>2 DEF Answers, Reported
  <2>4. QED
    BY <2>1, <2>3 DEF t
<1>3. QED
  BY <1>1, <1>2

\* What a record and its Settled form have in common, and how they differ.
SettledFrom(r, t) ==
  \/ r.todo # <<>> /\ t = r
  \/ /\ r.todo = <<>> /\ r.op = "group" /\ Kept(r, t) /\ t.pc = "next"
     /\ t.sent = r.sent /\ t.failed = r.failed /\ Reported(t) = Reported(r)
  \/ r.todo = <<>> /\ r.op # "group" /\ Answers(r, {r.cur}, t) /\ t.pc = "next"

\* What the end of a send does to the record (Settled).
LEMMA SettledIs ==
  ASSUME NEW r, DOMAIN r = Fields
  PROVE  SettledFrom(r, Settled(r))
<1>1. CASE r.todo # <<>>
  BY <1>1 DEF Settled, SettledFrom
<1>2. CASE r.todo = <<>> /\ r.op = "group"
  <2> DEFINE t == [r EXCEPT !.pc = "next"]
  <2>1. Settled(r) = t
    BY <1>2 DEF Settled
  <2>2. /\ Kept(r, t) /\ t.pc = "next" /\ t.sent = r.sent /\ t.failed = r.failed
        /\ Reported(t) = Reported(r)
    BY DEF Fields, Kept, Reported
  <2> HIDE DEF t
  <2>3. QED
    BY <1>2, <2>1, <2>2 DEF SettledFrom
<1>3. CASE r.todo = <<>> /\ r.op # "group"
  <2>1. Settled(r) = [Answer(r, {r.cur}) EXCEPT !.pc = "next"]
    BY <1>3 DEF Settled
  <2>2. QED
    BY <1>3, <2>1, AnswerIs DEF SettledFrom
<1>4. QED
  BY <1>1, <1>2, <1>3

\* What does not depend on the report is kept.
LEMMA KeptWorks ==
  ASSUME NEW r, NEW t, WorkOK(r, started, now), Kept(r, t), t.failed \subseteq r.asked,
         t.pc \notin {"refresh", "signal"}
  PROVE  /\ AskedOK(t) /\ HandOK(t) /\ HitsOK(t) /\ RemovedOK(t) /\ Dated(t, now)
         /\ \A id : Reached(t, id) <=> Reached(r, id)
         /\ \A id : Done(r, id, started) => Done(t, id, started)
<1>1. AskedOK(t) /\ HandOK(t)
  BY DEF Kept, WorkOK, AskedOK, HandOK
<1>2. HitsOK(t) /\ RemovedOK(t) /\ Dated(t, now)
  BY DEF Kept, WorkOK, HitsOK, RemovedOK, Dated
<1>3. \A id : Reached(t, id) <=> Reached(r, id)
  BY DEF Kept, Reached
<1>4. \A id : Done(r, id, started) => Done(t, id, started)
  BY DoneGrows DEF Kept
<1>5. QED
  BY <1>1, <1>2, <1>3, <1>4

\* The end of a send leaves the client so.
LEMMA SettledWorks ==
  ASSUME NEW r, WorkOK(r, started, now), r.pc = "signal"
  PROVE  /\ WorkOK(Settled(r), started, now) /\ Ready(Settled(r))
         /\ Settled(r).pc \in {"next", "signal"}
<1> DEFINE t == Settled(r)
<1>1. SettledFrom(r, t)
  BY SettledIs DEF WorkOK, AskedOK
<1>2. /\ r.failed \cap Reported(r) = {} /\ r.left \cap (r.failed \cup Reported(r)) = {}
      /\ r.cur \notin r.failed \cup Reported(r) /\ r.cur \notin r.left /\ r.cur \in r.asked
      /\ r.failed \subseteq r.asked
  BY DEF WorkOK, ReportIs, HandOK, AskedOK
<1>3. /\ r.op # "group" =>
           /\ \A id \in Reported(r) : id[1] = "resource" => Reached(r, id)
           /\ "signaled" \in r.sent => Reached(r, r.cur)
      /\ r.op = "group" =>
           /\ r.failed = {} /\ Reported(r) = {}
           /\ "signaled" \in r.sent => r.hit # {}
  BY DEF WorkOK, ReportIs
<1>4. r.todo = <<>> => "failed" \in r.sent \/ Done(r, r.cur, started)
  <2>1. ToSet(<<>>) = {}
    BY DEF ToSet
  <2>2. QED
    BY <2>1 DEF WorkOK, DoneOK, Done
<1>5. \A id \in Reported(r) : id[1] = "resource" => Done(r, id, started)
  BY DEF WorkOK, DoneOK
<1>6. r.op = "group" =>
        \A id \in r.asked \ r.left : id = r.cur \/ "failed" \in r.sent \/ Done(r, id, started)
  BY DEF WorkOK, DoneOK
<1> HIDE DEF t
<1>7. CASE r.todo # <<>> /\ t = r
  BY <1>7 DEF Ready, t
<1>8. CASE /\ r.todo = <<>> /\ r.op = "group" /\ Kept(r, t) /\ t.pc = "next"
           /\ t.sent = r.sent /\ t.failed = r.failed /\ Reported(t) = Reported(r)
  <2>1. /\ AskedOK(t) /\ HandOK(t) /\ HitsOK(t) /\ RemovedOK(t) /\ Dated(t, now)
        /\ \A id : Done(r, id, started) => Done(t, id, started)
    BY <1>2, <1>8, KeptWorks
  <2>2. ReportIs(t)
    BY <1>2, <1>3, <1>8 DEF ReportIs, Kept
  <2>3. DoneOK(t, started)
    BY <1>3, <1>4, <1>6, <1>8, <2>1 DEF DoneOK, Kept
  <2>4. QED
    BY <1>8, <2>1, <2>2, <2>3 DEF WorkOK, Ready, t
<1>9. CASE r.todo = <<>> /\ r.op # "group" /\ Answers(r, {r.cur}, t) /\ t.pc = "next"
  <2>0. Kept(r, t) /\ t.sent = {} /\ t.failed \subseteq r.asked
    BY <1>2, <1>9 DEF Answers
  <2>1. /\ AskedOK(t) /\ HandOK(t) /\ HitsOK(t) /\ RemovedOK(t) /\ Dated(t, now)
        /\ \A id : Reached(t, id) <=> Reached(r, id)
        /\ \A id : Done(r, id, started) => Done(t, id, started)
    BY <1>9, <2>0, KeptWorks
  <2>2. t.failed \cap Reported(t) = {} /\ t.left \cap (t.failed \cup Reported(t)) = {}
    BY <1>2, <1>9, <2>0 DEF Answers, Kept
  <2>3. \A id \in Reported(t) : id[1] = "resource" => Reached(t, id) /\ Done(t, id, started)
    BY <1>3, <1>4, <1>5, <1>9, <2>1 DEF Answers
  <2>4. ReportIs(t)
    BY <1>9, <2>0, <2>2, <2>3 DEF ReportIs, Kept
  <2>5. DoneOK(t, started)
    BY <1>9, <2>0, <2>3 DEF DoneOK, Kept
  <2>6. QED
    BY <1>9, <2>1, <2>4, <2>5 DEF WorkOK, Ready, t
<1>10. QED
  BY <1>1, <1>7, <1>8, <1>9 DEF SettledFrom

\* One report for a whole group: it is a success only when no member failed, and then
\* every member was dealt with (act_group).
LEMMA SumUpWorks ==
  ASSUME NEW r, WorkOK(r, started, now), r.pc = "next", r.left = {}, r.op = "group"
  PROVE  LET t == [Answer(r, r.asked) EXCEPT !.pc = "summed"]
         IN  WorkOK(t, started, now) /\ Ready(t) /\ t.pc = "summed"
<1> DEFINE t == [Answer(r, r.asked) EXCEPT !.pc = "summed"]
<1>1. Answers(r, r.asked, t) /\ t.pc = "summed"
  BY AnswerIs DEF WorkOK, AskedOK
<1>2. r.failed = {} /\ Reported(r) = {} /\ ("signaled" \in r.sent => r.hit # {})
  BY DEF WorkOK, ReportIs
<1>3. \A id \in r.asked : "failed" \in r.sent \/ Done(r, id, started)
  BY DEF WorkOK, DoneOK
<1> HIDE DEF t
<1>4. Kept(r, t) /\ t.sent = {} /\ t.failed \subseteq r.asked
  BY <1>1, <1>2 DEF Answers
<1>5. /\ AskedOK(t) /\ HandOK(t) /\ HitsOK(t) /\ RemovedOK(t) /\ Dated(t, now)
      /\ \A id : Done(r, id, started) => Done(t, id, started)
  BY <1>1, <1>4, KeptWorks
<1>6. CASE /\ "signaled" \in r.sent /\ "failed" \notin r.sent
           /\ t.failed = {} /\ Reported(t) \subseteq r.asked
  <2>1. r.hit # {} /\ \A id \in Reported(t) : Done(t, id, started)
    BY <1>2, <1>3, <1>5, <1>6
  <2>2. ReportIs(t)
    BY <1>1, <1>4, <1>6, <2>1 DEF ReportIs, Kept
  <2>3. DoneOK(t, started)
    BY <1>1, <2>1 DEF DoneOK
  <2>4. QED
    BY <1>1, <1>5, <2>2, <2>3 DEF WorkOK, Ready, t
<1>7. CASE t.failed = r.asked /\ Reported(t) = {}
  <2>1. ReportIs(t)
    BY <1>1, <1>4, <1>7 DEF ReportIs, Kept
  <2>2. DoneOK(t, started)
    BY <1>1, <1>7 DEF DoneOK
  <2>3. QED
    BY <1>1, <1>5, <2>1, <2>2 DEF WorkOK, Ready, t
<1>8. QED
  BY <1>1, <1>2, <1>6, <1>7 DEF Answers

\* What a working client's invariant gives to the properties.
LEMMA WorkGives ==
  ASSUME ItemsNest, NEW r, WorkOK(r, started, now)
  PROVE  /\ \A h \in r.hit : h.reused \/
              /\ h.pid \in LiveIn(r.snap)
              /\ PassesFor(h.pid, h.start, r.snap.started[h.pid])
              /\ \E q \in Chain(r.snap, h.pid) : ResourceId(r.snap, q) \in r.asked
         /\ r.op = "execute" =>
              \A h \in r.hit : h.reused \/
                \E q \in Chain(r.snap, h.pid) : StartOf(r.snap, q) <= r.issued
         /\ r.failed \cap (r.stopped \cup r.killed) = {}
         /\ \A id \in r.stopped \cup r.killed : id[1] = "resource" =>
              /\ Reaches(r, id) /\ r.hit # {}
              /\ r.op # "group" => \E h \in r.hit, q \in Pids :
                   q \in Chain(r.snap, h.pid) /\ ResourceId(r.snap, q) = id
         /\ r.op = "execute" => \A d \in r.removed : DKind[d] # "Volume"
<1>0. PICK depth, rank : Nesting(depth, rank)
  BY DEF ItemsNest
<1>1. \A h \in r.hit : h.reused \/
        /\ h.pid \in LiveIn(r.snap)
        /\ PassesFor(h.pid, h.start, r.snap.started[h.pid])
        /\ \E q \in Chain(r.snap, h.pid) : ResourceId(r.snap, q) \in r.asked
  BY DEF WorkOK, HitsOK
<1>2. ASSUME r.op = "execute", NEW h \in r.hit, ~ h.reused
      PROVE  \E q \in Chain(r.snap, h.pid) : StartOf(r.snap, q) <= r.issued
  <2>1. PICK q \in Chain(r.snap, h.pid) : ResourceId(r.snap, q) \in r.asked
    BY <1>1, <1>2
  <2>2. ResourceId(r.snap, q)[1] = "resource" /\ ResourceId(r.snap, q)[3] = StartOf(r.snap, q)
    BY DEF ResourceId
  <2>3. Selectable(r.asked, r.issued)
    BY <1>2 DEF WorkOK, AskedOK
  <2>4. ResourceId(r.snap, q)[3] <= r.issued
    BY <2>1, <2>2, <2>3 DEF Selectable
  <2>5. QED
    BY <2>2, <2>4
<1>3. ASSUME NEW id \in r.stopped \cup r.killed, id[1] = "resource", r.op # "group"
      PROVE  r.hit # {} /\ \E h \in r.hit, q \in Pids :
               q \in Chain(r.snap, h.pid) /\ ResourceId(r.snap, q) = id
  <2>1. PICK h \in r.hit :
          h.pid \in Pids /\ \E q \in Chain(r.snap, h.pid) : ResourceId(r.snap, q) = id
    BY <1>3 DEF WorkOK, ReportIs, Reported, Reached
  <2>2. Chain(r.snap, h.pid) \subseteq Pids
    BY <1>0, <2>1, ChainUnfold
  <2>3. QED
    BY <2>1, <2>2
<1>4. ASSUME NEW id \in r.stopped \cup r.killed, r.op = "group" PROVE r.hit # {}
  BY <1>4 DEF WorkOK, ReportIs, Reported
<1>5. ASSUME NEW id \in r.stopped \cup r.killed, id[1] = "resource" PROVE Reaches(r, id)
  <2>1. Done(r, id, started)
    BY <1>5 DEF WorkOK, DoneOK, Reported
  <2>2. QED
    BY <2>1 DEF Done, Through, Reaches
<1>6. r.failed \cap (r.stopped \cup r.killed) = {}
  BY DEF WorkOK, ReportIs, Reported
<1>7. r.op = "execute" => \A d \in r.removed : DKind[d] # "Volume"
  BY DEF WorkOK, RemovedOK
<1>8. QED
  BY <1>1, <1>2, <1>3, <1>4, <1>5, <1>6, <1>7

\* An id that is not there: of the snapshot, or of the list of the engine.
LEMMA StaleWorks ==
  ASSUME NEW r, WorkOK(r, started, now), r.pc \in {"next", "docker"}, NEW id \in r.left,
         id[1] = "container" \/ FindItem(r.snap, id) = {}
  PROVE  r.op # "group" /\ WorkOK(Stale(r, id), started, now) /\ Ready(Stale(r, id))
         /\ Stale(r, id).pc = "next"
<1> DEFINE t == Stale(r, id)
<1>0. DOMAIN r = Fields /\ r.op # "group"
  BY DEF WorkOK, AskedOK
<1>1. /\ DOMAIN t = Fields /\ t.pc = "next" /\ t.op = r.op /\ t.asked = r.asked
      /\ t.issued = r.issued /\ t.snap = r.snap /\ t.since = r.since /\ t.sent = r.sent
      /\ t.stopped = r.stopped /\ t.killed = r.killed /\ t.hit = r.hit
      /\ t.removed = r.removed /\ t.left = r.left \ {id} /\ t.failed = r.failed \cup {id}
  BY <1>0 DEF Stale, Fields
<1> HIDE DEF t
<1>2. AskedOK(t) /\ HandOK(t) /\ HitsOK(t) /\ RemovedOK(t) /\ Dated(t, now)
  BY <1>0, <1>1 DEF WorkOK, AskedOK, HandOK, HitsOK, RemovedOK, Dated
<1>3. ReportIs(t)
  BY <1>0, <1>1 DEF WorkOK, ReportIs, Reported, Reached
<1>4. DoneOK(t, started)
  <2>1. \A x : Done(r, x, started) => Done(t, x, started)
    BY <1>1, DoneGrows
  <2>2. QED
    BY <1>0, <1>1, <2>1 DEF WorkOK, DoneOK, Reported
<1>5. QED
  BY <1>0, <1>1, <1>2, <1>3, <1>4 DEF WorkOK, Ready, t

\* An item of the snapshot is taken up.
LEMMA TakesItem ==
  ASSUME ItemsNest, IsFiniteSet(Pids),
         NEW r, WorkOK(r, started, now), r.pc = "next", NEW id \in r.left,
         NEW p \in FindItem(r.snap, id)
  PROVE  LET t == [r EXCEPT !.pc = "refresh", !.left = @ \ {id}, !.cur = id,
                            !.todo = IdentitiesFor(r.snap, p)]
         IN  WorkOK(t, started, now) /\ Ready(t) /\ t.pc = "refresh"
<1>0. PICK depth, rank : Nesting(depth, rank)
  BY DEF ItemsNest
<1> DEFINE ids == IdentitiesFor(r.snap, p)
           t == [r EXCEPT !.pc = "refresh", !.left = @ \ {id}, !.cur = id, !.todo = ids]
<1>1. DOMAIN r = Fields
  BY DEF WorkOK, AskedOK
<1>2. /\ DOMAIN t = Fields /\ t.pc = "refresh" /\ t.op = r.op /\ t.asked = r.asked
      /\ t.issued = r.issued /\ t.snap = r.snap /\ t.since = r.since /\ t.sent = r.sent
      /\ t.stopped = r.stopped /\ t.killed = r.killed /\ t.hit = r.hit
      /\ t.removed = r.removed /\ t.failed = r.failed
      /\ t.left = r.left \ {id} /\ t.cur = id /\ t.todo = ids
  BY <1>1 DEF Fields
<1>3. p \in LiveIn(r.snap) /\ ResourceId(r.snap, p) = id
  BY DEF FindItem
<1>4. /\ ids \in Seq([pid : Pids, start : {StartOf(r.snap, q) : q \in Pids}])
      /\ \A i \in ToSet(ids) :
            /\ i.pid \in LiveIn(r.snap) /\ i.start = StartOf(r.snap, i.pid)
            /\ p \in Chain(r.snap, i.pid)
      /\ \A q \in ToSet(PostOrder(r.snap, p)) : \E i \in ToSet(ids) : i.pid = q
  BY <1>0, <1>3, IdentitiesAre
<1> HIDE DEF t, ids
<1>6. \A i \in ToSet(t.todo) : Mine(t, i)
  BY <1>2, <1>3, <1>4 DEF Mine
<1>7. t.todo \in Seq(Identities(t.snap))
  BY <1>2, <1>4 DEF Identities
<1>8. HandOK(t)
  BY <1>2, <1>6, <1>7 DEF HandOK, WorkOK, AskedOK
<1>9. AskedOK(t) /\ HitsOK(t) /\ RemovedOK(t) /\ Dated(t, now)
  BY <1>2 DEF WorkOK, AskedOK, HitsOK, RemovedOK, Dated
<1>10. ReportIs(t)
  BY <1>2 DEF WorkOK, ReportIs, Reported, Reached
<1>11. DoneOK(t, started)
  <2>1. \A x : Done(r, x, started) => Done(t, x, started)
    BY <1>2, DoneGrows
  <2>2. \A x \in Reported(t) : x[1] = "resource" => Done(t, x, started)
    BY <1>2, <2>1 DEF WorkOK, DoneOK, Reported
  <2>3. t.op = "group" =>
          \A x \in t.asked \ t.left :
            x = t.cur \/ "failed" \in t.sent \/ Done(t, x, started)
    BY <1>2, <2>1 DEF WorkOK, DoneOK
  <2>4. p \in FindItem(t.snap, t.cur) /\ \A q \in ToSet(PostOrder(t.snap, p)) :
          \E i \in ToSet(t.todo) : i.pid = q
    BY <1>2, <1>4
  <2>5. QED
    BY <1>2, <2>2, <2>3, <2>4 DEF DoneOK
<1>12. QED
  BY <1>2, <1>8, <1>9, <1>10, <1>11 DEF WorkOK, Ready, t, ids

\* A start time that is known is the one the process was started at.
LEMMA ReadingIs ==
  ASSUME NEW p, NEW t, NEW u
  PROVE  /\ Reading(p, t) \in {0, t} /\ (Reading(p, t) = Reading(p, u) => PassesFor(p, t, u))
  BY DEF Reading, PassesFor

\* send begins: the identities that still hold stay.
LEMMA RefreshWorks ==
  ASSUME NEW r, WorkOK(r, started, now), r.pc = "refresh"
  PROVE  LET t == [r EXCEPT !.pc = "signal", !.todo = Holding(@),
                            !.held = {<<p, started[p]>> : p \in Pids}]
         IN  WorkOK(t, started, now) /\ t.pc = "signal"
<1> DEFINE held == {<<p, started[p]>> : p \in Pids}
           t == [r EXCEPT !.pc = "signal", !.todo = Holding(@), !.held = held]
<1>1. DOMAIN r = Fields
  BY DEF WorkOK, AskedOK
<1>2. /\ DOMAIN t = Fields /\ t.pc = "signal" /\ t.op = r.op /\ t.asked = r.asked
      /\ t.issued = r.issued /\ t.snap = r.snap /\ t.since = r.since /\ t.sent = r.sent
      /\ t.stopped = r.stopped /\ t.killed = r.killed /\ t.hit = r.hit
      /\ t.removed = r.removed /\ t.failed = r.failed
      /\ t.left = r.left /\ t.cur = r.cur /\ t.todo = Holding(r.todo) /\ t.held = held
  BY <1>1 DEF Fields
<1>3. /\ r.todo \in Seq(Identities(r.snap)) /\ \A i \in ToSet(r.todo) : Mine(r, i)
      /\ r.cur \in r.asked /\ r.cur \notin r.left
  BY DEF WorkOK, HandOK
<1>4. /\ Holding(r.todo) \in Seq(Identities(r.snap))
      /\ \A i : i \in ToSet(Holding(r.todo)) <=> i \in ToSet(r.todo) /\ IdentityHolds(i)
  BY <1>3, HoldingElements
<1>a. \A i \in ToSet(r.todo) :
        i.pid \in Pids /\ i.start = Reading(i.pid, r.snap.started[i.pid])
  BY <1>3 DEF Mine, LiveIn, StartOf
<1>5. ASSUME NEW i \in ToSet(r.todo), IdentityHolds(i)
      PROVE  /\ <<i.pid, started[i.pid]>> \in held
             /\ PassesFor(i.pid, started[i.pid], r.snap.started[i.pid])
  <2>1. <<i.pid, started[i.pid]>> \in held
    BY <1>a
  <2>2. CASE 0 \in {i.start, Reading(i.pid, started[i.pid])}
    BY <1>a, <2>1, <2>2 DEF PassesFor
  <2>3. CASE i.start = Reading(i.pid, started[i.pid])
    BY <1>a, <2>1, <2>3, ReadingIs
  <2>4. QED
    BY <1>5, <2>2, <2>3 DEF IdentityHolds
<1>b. ASSUME NEW i \in ToSet(r.todo), ~ IdentityHolds(i)
      PROVE  Through(r, i.pid, started)
  <2>1. started[i.pid] = 0 \/ started[i.pid] # r.snap.started[i.pid]
    BY <1>a, <1>b DEF IdentityHolds
  <2>2. r.snap.started[i.pid] # 0
    BY <1>3 DEF Mine, LiveIn
  <2>3. QED
    BY <2>1, <2>2 DEF Through
<1>6. \A p, a, b : <<p, a>> \in held /\ <<p, b>> \in held => a = b
  OBVIOUS
<1> HIDE DEF t, held
<1>7. \A i \in ToSet(t.todo) : Mine(t, i) /\ Seen(t, i)
  BY <1>2, <1>3, <1>4, <1>5 DEF Mine, Seen
<1>8. HandOK(t)
  BY <1>2, <1>3, <1>4, <1>6, <1>7 DEF HandOK
<1>9. AskedOK(t) /\ HitsOK(t) /\ RemovedOK(t) /\ Dated(t, now)
  BY <1>2 DEF WorkOK, AskedOK, HitsOK, RemovedOK, Dated
<1>10. ReportIs(t)
  BY <1>2, <1>3 DEF WorkOK, ReportIs, Reported, Reached
<1>11. DoneOK(t, started)
  <2>1. /\ \A q : Through(r, q, started) => Through(t, q, started)
        /\ \A x : Done(r, x, started) => Done(t, x, started)
    BY <1>2, DoneGrows
  <2>2. \A x \in Reported(t) : x[1] = "resource" => Done(t, x, started)
    BY <1>2, <2>1 DEF WorkOK, DoneOK, Reported
  <2>3. t.op = "group" =>
          \A x \in t.asked \ t.left :
            x = t.cur \/ "failed" \in t.sent \/ Done(t, x, started)
    BY <1>2, <2>1 DEF WorkOK, DoneOK
  <2>4. ASSUME "failed" \notin r.sent
        PROVE  \E p \in FindItem(t.snap, t.cur) : \A q \in ToSet(PostOrder(t.snap, p)) :
                 Through(t, q, started) \/ \E i \in ToSet(t.todo) : i.pid = q
    <3>1. PICK p \in FindItem(r.snap, r.cur) : \A q \in ToSet(PostOrder(r.snap, p)) :
            Through(r, q, started) \/ \E i \in ToSet(r.todo) : i.pid = q
      BY <2>4 DEF WorkOK, DoneOK
    <3>2. ASSUME NEW q \in ToSet(PostOrder(r.snap, p))
          PROVE  Through(t, q, started) \/ \E i \in ToSet(t.todo) : i.pid = q
      <4>1. CASE Through(r, q, started)
        BY <2>1, <4>1
      <4>2. ASSUME NEW i \in ToSet(r.todo), i.pid = q
            PROVE  Through(t, q, started) \/ \E j \in ToSet(t.todo) : j.pid = q
        BY <1>2, <1>4, <1>b, <2>1, <4>2
      <4>3. QED
        BY <3>1, <4>1, <4>2
    <3>3. QED
      BY <1>2, <3>2
  <2>5. QED
    BY <1>2, <2>2, <2>3, <2>4 DEF DoneOK
<1>12. QED
  BY <1>2, <1>8, <1>9, <1>10, <1>11 DEF WorkOK, t, held

\* Where an identity in hand comes from stays when the rest of the list shrinks.
LEMMA TailElements ==
  ASSUME NEW V, NEW s \in Seq(V), s # <<>>
  PROVE  /\ Head(s) \in ToSet(s) /\ Head(s) \in V /\ Tail(s) \in Seq(V)
         /\ \A x : x \in ToSet(s) <=> x = Head(s) \/ x \in ToSet(Tail(s))
<1>1. /\ Len(s) \in Nat \ {0} /\ DOMAIN s = 1 .. Len(s) /\ Tail(s) \in Seq(V)
      /\ Head(s) \in V /\ Head(s) = s[1]
      /\ Len(Tail(s)) = Len(s) - 1 /\ \A i \in 1 .. Len(Tail(s)) : Tail(s)[i] = s[i + 1]
  BY HeadTailProperties, LenProperties, EmptySeq
<1>2. Head(s) \in ToSet(s)
  BY <1>1 DEF ToSet
<1>3. ASSUME NEW x \in ToSet(Tail(s)) PROVE x \in ToSet(s)
  <2>1. PICK i \in 1 .. Len(Tail(s)) : x = Tail(s)[i]
    BY <1>1, LenProperties DEF ToSet
  <2>2. x = s[i + 1] /\ i + 1 \in 1 .. Len(s)
    BY <1>1, <2>1
  <2>3. QED
    BY <1>1, <2>2 DEF ToSet
<1>4. ASSUME NEW x \in ToSet(s), x # Head(s) PROVE x \in ToSet(Tail(s))
  <2>1. PICK i \in 1 .. Len(s) : x = s[i]
    BY <1>1 DEF ToSet
  <2> DEFINE j == i - 1
  <2>2. j \in 1 .. Len(Tail(s)) /\ i = j + 1
    BY <1>1, <1>4, <2>1
  <2> HIDE DEF j
  <2>3. x = Tail(s)[j] /\ j \in DOMAIN Tail(s)
    BY <1>1, <2>1, <2>2, LenProperties
  <2>4. QED
    BY <2>3 DEF ToSet
<1>5. QED
  BY <1>1, <1>2, <1>3, <1>4

\* One signal to the first identity in hand, st being when the processes were started:
\* reach is what was hit, which is nothing or the process that has the pid now, and said
\* what is reported of it.
Signalled(r, said, reach, st) ==
  LET p == Head(r.todo).pid IN
  \/ said = {} /\ reach = {} /\ st[p] = 0
  \/ said = {"failed"} /\ reach = {}
  \/ /\ said = {"signaled"}
     /\ reach = {[pid |-> p, start |-> st[p], reused |-> <<p, st[p]>> \notin r.held]}

\* The client after one signal.
After(r, said, reach) == [r EXCEPT !.todo = Tail(@), !.sent = @ \cup said, !.hit = @ \cup reach]

\* A signal leaves the client so.  A process that is hit is the one the snapshot had or
\* passes for it, as the refresh saw, or its pid passed on since.
LEMMA SignalWorks ==
  ASSUME NEW r, WorkOK(r, started, now), Ready(r), r.pc = "signal", NEW said, NEW reach,
         Signalled(r, said, reach, started)
  PROVE  WorkOK(After(r, said, reach), started, now) /\ After(r, said, reach).pc = "signal"
<1> DEFINE i == Head(r.todo)
           t == After(r, said, reach)
<1>1. DOMAIN r = Fields
  BY DEF WorkOK, AskedOK
<1>2. /\ DOMAIN t = Fields /\ t.pc = "signal" /\ t.op = r.op /\ t.asked = r.asked
      /\ t.issued = r.issued /\ t.snap = r.snap /\ t.since = r.since
      /\ t.sent = r.sent \cup said
      /\ t.stopped = r.stopped /\ t.killed = r.killed /\ t.hit = r.hit \cup reach
      /\ t.removed = r.removed /\ t.failed = r.failed /\ t.left = r.left /\ t.cur = r.cur
      /\ t.todo = Tail(r.todo) /\ t.held = r.held
  BY <1>1 DEF Fields, After
<1>3. /\ r.todo \in Seq(Identities(r.snap)) /\ \A j \in ToSet(r.todo) : Mine(r, j)
      /\ r.cur \in r.asked /\ r.cur \notin r.left
      /\ \A j \in ToSet(r.todo) : Seen(r, j)
      /\ \A p, a, b : <<p, a>> \in r.held /\ <<p, b>> \in r.held => a = b
  BY DEF WorkOK, HandOK
<1>4. /\ i \in ToSet(r.todo) /\ Tail(r.todo) \in Seq(Identities(r.snap))
      /\ \A j : j \in ToSet(r.todo) <=> j = i \/ j \in ToSet(Tail(r.todo))
  BY <1>3, TailElements DEF Ready
<1>5. Mine(r, i) /\ Seen(r, i)
  BY <1>3, <1>4
<1>a. i.pid \in Pids /\ i.pid \in LiveIn(r.snap) /\ r.snap.started[i.pid] # 0
  BY <1>5 DEF Mine, LiveIn
<1> DEFINE h0 == [pid |-> i.pid, start |-> started[i.pid],
                  reused |-> <<i.pid, started[i.pid]>> \notin r.held]
<1>b. /\ h0.pid = i.pid /\ h0.start = started[i.pid]
      /\ h0.reused \/ <<i.pid, h0.start>> \in r.held
  OBVIOUS
<1>c. \/ said = {} /\ reach = {} /\ started[i.pid] = 0
      \/ said = {"failed"} /\ reach = {}
      \/ said = {"signaled"} /\ reach = {h0}
  BY DEF Signalled
<1> HIDE DEF t, i, h0
<1>6. HandOK(t)
  <2>1. \A j \in ToSet(t.todo) : Mine(t, j) /\ Seen(t, j)
    BY <1>2, <1>3, <1>4 DEF Mine, Seen
  <2>2. QED
    BY <1>2, <1>3, <1>4, <2>1 DEF HandOK
<1>7. /\ \A h \in t.hit : h \in r.hit \/
           /\ h.pid = i.pid
           /\ h.reused \/ <<i.pid, h.start>> \in r.held
      /\ said = {"signaled"} => h0 \in t.hit
      /\ r.hit \subseteq t.hit
  BY <1>2, <1>b, <1>c
<1>8. HitsOK(t)
  <2> SUFFICES ASSUME NEW h \in t.hit, ~ h.reused
               PROVE  /\ h.pid \in LiveIn(t.snap)
                      /\ PassesFor(h.pid, h.start, t.snap.started[h.pid])
                      /\ \E q \in Chain(t.snap, h.pid) : ResourceId(t.snap, q) \in t.asked
    BY DEF HitsOK
  <2>1. CASE h \in r.hit
    BY <1>2, <2>1 DEF WorkOK, HitsOK
  <2>2. CASE h.pid = i.pid /\ <<i.pid, h.start>> \in r.held
    <3>1. PICK u : <<i.pid, u>> \in r.held /\ PassesFor(i.pid, u, r.snap.started[i.pid])
      BY <1>5 DEF Seen
    <3>2. u = h.start
      BY <1>3, <2>2, <3>1
    <3>3. QED
      BY <1>2, <1>3, <1>5, <1>a, <2>2, <3>1, <3>2 DEF Mine
  <2>3. QED
    BY <1>7, <2>1, <2>2
<1>9. ReportIs(t)
  <2>1. \A id : Reached(r, id) => Reached(t, id)
    BY <1>2, <1>7 DEF Reached
  <2>2. said = {"signaled"} => Reached(t, r.cur)
    BY <1>2, <1>5, <1>7, <1>a, <1>b DEF Reached, Mine
  <2>3. r.op # "group" /\ "signaled" \in r.sent => Reached(t, r.cur)
    BY <2>1 DEF WorkOK, ReportIs
  <2>4. t.op # "group" /\ "signaled" \in t.sent => Reached(t, t.cur)
    BY <1>2, <1>c, <2>2, <2>3
  <2>5. Reported(t) = Reported(r)
    BY <1>2 DEF Reported
  <2>6. t.op # "group" => \A id \in Reported(t) : id[1] = "resource" => Reached(t, id)
    BY <1>2, <2>1, <2>5 DEF WorkOK, ReportIs
  <2>7. t.op = "group" => Reported(t) = {} /\ t.failed = {}
    BY <1>2, <2>5 DEF WorkOK, ReportIs
  <2>8. t.op = "group" /\ "signaled" \in t.sent => t.hit # {}
    BY <1>2, <1>7, <1>c DEF WorkOK, ReportIs
  <2>9. /\ t.failed \cap Reported(t) = {} /\ t.left \cap (t.failed \cup Reported(t)) = {}
        /\ t.cur \notin t.failed \cup Reported(t)
    BY <1>2, <2>5 DEF WorkOK, ReportIs
  <2>10. QED
    BY <1>2, <2>4, <2>6, <2>7, <2>8, <2>9 DEF ReportIs
<1>10. AskedOK(t) /\ RemovedOK(t) /\ Dated(t, now)
  BY <1>2 DEF WorkOK, AskedOK, RemovedOK, Dated
<1>11. DoneOK(t, started)
  <2>1. /\ \A q : Through(r, q, started) => Through(t, q, started)
        /\ \A x : Done(r, x, started) => Done(t, x, started)
    BY <1>2, <1>7, DoneGrows
  <2>2. \A x \in Reported(t) : x[1] = "resource" => Done(t, x, started)
    BY <1>2, <2>1 DEF WorkOK, DoneOK, Reported
  <2>3. t.op = "group" =>
          \A x \in t.asked \ t.left :
            x = t.cur \/ "failed" \in t.sent \/ Done(t, x, started)
    BY <1>2, <2>1 DEF WorkOK, DoneOK
  <2>4. ASSUME "failed" \notin t.sent
        PROVE  \E p \in FindItem(t.snap, t.cur) : \A q \in ToSet(PostOrder(t.snap, p)) :
                 Through(t, q, started) \/ \E j \in ToSet(t.todo) : j.pid = q
    <3>0. "failed" \notin r.sent /\ "failed" \notin said
      BY <1>2, <2>4
    <3>1. PICK p \in FindItem(r.snap, r.cur) : \A q \in ToSet(PostOrder(r.snap, p)) :
            Through(r, q, started) \/ \E j \in ToSet(r.todo) : j.pid = q
      BY <3>0 DEF WorkOK, DoneOK
    <3>2. Through(t, i.pid, started)
      <4>1. CASE started[i.pid] = 0
        BY <1>2, <1>a, <4>1 DEF Through
      <4>2. CASE h0 \in t.hit
        BY <1>2, <1>b, <4>2 DEF Through
      <4>3. QED
        BY <1>7, <1>c, <3>0, <4>1, <4>2
    <3>3. ASSUME NEW q \in ToSet(PostOrder(r.snap, p))
          PROVE  Through(t, q, started) \/ \E j \in ToSet(t.todo) : j.pid = q
      BY <1>2, <1>4, <2>1, <3>1, <3>2
    <3>4. QED
      BY <1>2, <3>3
  <2>5. QED
    BY <1>2, <2>2, <2>3, <2>4 DEF DoneOK
<1>12. QED
  BY <1>2, <1>6, <1>8, <1>9, <1>10, <1>11 DEF WorkOK, t

\* One call of the engine for the container or image id: away is what it removed, and the
\* id joins one list of the report.
Called(r, id, away, t) ==
  LET done == [r EXCEPT !.pc = "next", !.left = @ \ {id}, !.removed = @ \cup away]
  IN  \/ t = [done EXCEPT !.failed = @ \cup {id}]
      \/ t = [done EXCEPT !.killed = @ \cup {id}]
      \/ t = [done EXCEPT !.stopped = @ \cup {id}]

\* A call of the engine leaves the client so.
LEMMA DockerWorks ==
  ASSUME NEW r, WorkOK(r, started, now), r.pc \in {"next", "docker"}, NEW id \in r.left,
         id[1] = "container", NEW away, NEW t,
         r.op = "execute" => \A e \in away : DKind[e] # "Volume",
         Called(r, id, away, t)
  PROVE  WorkOK(t, started, now) /\ Ready(t) /\ t.pc = "next"
<1> DEFINE done == [r EXCEPT !.pc = "next", !.left = @ \ {id}, !.removed = @ \cup away]
<1>0. DOMAIN r = Fields /\ r.op # "group"
  BY DEF WorkOK, AskedOK
<1>1. /\ DOMAIN done = Fields /\ done.pc = "next" /\ done.op = r.op /\ done.asked = r.asked
      /\ done.issued = r.issued /\ done.snap = r.snap /\ done.since = r.since
      /\ done.sent = r.sent
      /\ done.stopped = r.stopped /\ done.killed = r.killed /\ done.hit = r.hit
      /\ done.removed = r.removed \cup away /\ done.left = r.left \ {id}
      /\ done.failed = r.failed
  BY <1>0 DEF Fields
<1>2. \/ t = [done EXCEPT !.failed = @ \cup {id}]
      \/ t = [done EXCEPT !.killed = @ \cup {id}]
      \/ t = [done EXCEPT !.stopped = @ \cup {id}]
  BY DEF Called
<1> HIDE DEF done
<1>3. /\ DOMAIN t = Fields /\ t.pc = "next" /\ t.op = r.op /\ t.asked = r.asked
      /\ t.issued = r.issued /\ t.snap = r.snap /\ t.since = r.since
      /\ t.sent = r.sent /\ t.hit = r.hit
      /\ t.removed = r.removed \cup away /\ t.left = r.left \ {id}
      /\ \/ t.failed = r.failed \cup {id} /\ t.killed = r.killed /\ t.stopped = r.stopped
         \/ t.failed = r.failed /\ t.killed = r.killed \cup {id} /\ t.stopped = r.stopped
         \/ t.failed = r.failed /\ t.killed = r.killed /\ t.stopped = r.stopped \cup {id}
  <2>1. CASE t = [done EXCEPT !.failed = @ \cup {id}]
    BY <1>1, <2>1 DEF Fields
  <2>2. CASE t = [done EXCEPT !.killed = @ \cup {id}]
    BY <1>1, <2>2 DEF Fields
  <2>3. CASE t = [done EXCEPT !.stopped = @ \cup {id}]
    BY <1>1, <2>3 DEF Fields
  <2>4. QED
    BY <1>2, <2>1, <2>2, <2>3
<1>4. \/ t.failed = r.failed \cup {id} /\ Reported(t) = Reported(r)
      \/ t.failed = r.failed /\ Reported(t) = Reported(r) \cup {id}
  BY <1>3 DEF Reported
<1>5. AskedOK(t) /\ HandOK(t) /\ HitsOK(t) /\ RemovedOK(t) /\ Dated(t, now)
  BY <1>0, <1>3 DEF WorkOK, AskedOK, HandOK, HitsOK, RemovedOK, Dated
<1>6. ReportIs(t)
  <2>1. t.failed \cap Reported(t) = {} /\ t.left \cap (t.failed \cup Reported(t)) = {}
    BY <1>3, <1>4 DEF WorkOK, ReportIs
  <2>2. \A x : Reached(t, x) <=> Reached(r, x)
    BY <1>3 DEF Reached
  <2>3. \A x \in Reported(t) : x[1] = "resource" => Reached(t, x)
    BY <1>0, <1>4, <2>2 DEF WorkOK, ReportIs
  <2>4. QED
    BY <1>0, <1>3, <2>1, <2>3 DEF WorkOK, ReportIs
<1>7. DoneOK(t, started)
  <2>1. \A x : Done(r, x, started) => Done(t, x, started)
    BY <1>3, DoneGrows
  <2>2. QED
    BY <1>0, <1>3, <1>4, <2>1 DEF WorkOK, DoneOK
<1>8. QED
  BY <1>3, <1>5, <1>6, <1>7 DEF WorkOK, Ready

\* What the engine says of a container, image or volume.
EngineStates == {"running", "stopped", "there", "gone"}

\* What a call about the container d can make go away: d itself.
LEMMA EngineTouchesOne ==
  ASSUME engine \in [DockerIds -> EngineStates], NEW d \in DockerIds, NEW action
  PROVE  /\ DockerCall(d, action).after \in [DockerIds -> EngineStates]
         /\ \A e \in DockerIds : e # d => DockerCall(d, action).after[e] = engine[e]
<1> DEFINE Only(f) == /\ f \in [DockerIds -> EngineStates]
                      /\ \A e \in DockerIds : e # d => f[e] = engine[e]
<1>1. Only(engine) /\ \A x \in EngineStates : Only([engine EXCEPT ![d] = x])
  OBVIOUS
<1>2. /\ Only(EngineRemove(d).after) /\ Only(EngineStop(d).after) /\ Only(EngineStart(d).after)
  <2> HIDE DEF Only
  <2>1. {"running", "stopped", "gone"} \subseteq EngineStates
    BY DEF EngineStates
  <2>2. Only([engine EXCEPT ![d] = "gone"]) /\ Only([engine EXCEPT ![d] = "stopped"])
        /\ Only([engine EXCEPT ![d] = "running"])
    BY <1>1, <2>1
  <2>3. QED
    BY <1>1, <2>2 DEF EngineRemove, EngineStop, EngineStart
<1>3. DockerCall(d, action) \in {EngineRemove(d), EngineStop(d), EngineStart(d),
                                 [ok |-> FALSE, after |-> engine]}
  BY DEF DockerCall
<1>4. [ok |-> FALSE, after |-> engine].after = engine
  OBVIOUS
<1>5. Only(DockerCall(d, action).after)
  <2> HIDE DEF Only
  <2>1. QED
    BY <1>1, <1>2, <1>3, <1>4
<1>6. QED
  BY <1>5

\* The host as every step finds it.
HostOK ==
  /\ now \in Nat /\ started \in [Pids -> Nat] /\ \A p \in Pids : started[p] <= now
  /\ now \in 1 .. MaxNow /\ events \in Nat /\ verdict \in [Pids -> States]
  /\ engine \in [DockerIds -> EngineStates]
  /\ DOMAIN client = Clients /\ DOMAIN plans = PlanIds

\* Where every behaviour begins.
ControlInit == \E h \in Scenes : Set(h) /\ SetWeb(h)

\* The host is so at first.
LEMMA HostBegins == ControlInit => HostOK
<1> SUFFICES ASSUME NEW h \in Scenes, Set(h) PROVE HostOK
  BY DEF ControlInit
<1>1. h.started \in [Pids -> {0, 1}] /\ h.engine \in [DockerIds -> EngineStates]
      /\ h.verdict \in [Pids -> States] /\ h.events \in Nat /\ 1 \in 1 .. MaxNow
  BY BarmanConstants DEF EngineStates, States
<1>2. started = h.started /\ engine = h.engine /\ now = 1
      /\ verdict = h.verdict /\ events = h.events
      /\ DOMAIN client = Clients /\ DOMAIN plans = PlanIds
  BY DEF Set
<1>3. QED
  BY <1>1, <1>2 DEF HostOK

\* act_docker leaves the engine an engine.
LEMMA EngineCalls ==
  ASSUME HostOK, NEW c, NEW id, NEW action, Docker(c, id, action)
  PROVE  engine' \in [DockerIds -> EngineStates] /\ DOMAIN client' = Clients
<1>1. DOMAIN client' = Clients
  BY DEF Docker, Move, HostOK
<1>2. CASE UNCHANGED engine
  BY <1>1, <1>2 DEF HostOK
<1>3. CASE \E d \in DockerIds : engine' = DockerCall(d, action).after
  BY <1>1, <1>3, EngineTouchesOne DEF HostOK
<1>4. CASE \E d \in FindDocker(client[c].snap, id) :
             LET answer == IF action = "Term" /\ ~ Running(client[c].snap, d)
                           THEN [ok |-> FALSE, after |-> engine] ELSE DockerCall(d, action)
             IN  engine' = answer.after
  <2>1. PICK d \in FindDocker(client[c].snap, id) :
             LET answer == IF action = "Term" /\ ~ Running(client[c].snap, d)
                           THEN [ok |-> FALSE, after |-> engine] ELSE DockerCall(d, action)
             IN  engine' = answer.after
    BY <1>4
  <2>2. d \in DockerIds
    BY DEF FindDocker, Listed
  <2>3. CASE action = "Term" /\ ~ Running(client[c].snap, d)
    BY <1>2, <2>1, <2>3
  <2>4. CASE ~ (action = "Term" /\ ~ Running(client[c].snap, d))
    BY <1>3, <2>1, <2>2, <2>4
  <2>5. QED
    BY <2>3, <2>4
<1>5. QED
  BY <1>2, <1>4 DEF Docker

\* The clock and the start times go on together, whatever is done: a process is given the
\* time it was started at, so none is younger than now.
LEMMA HostAlways ==
  ASSUME HostOK, [ControlNext]_controlVars
  PROVE  HostOK'
<1> USE DEF HostOK
<1>1. CASE UNCHANGED controlVars
  BY <1>1 DEF controlVars, barmanVars
<1>2. CASE Tick
  BY <1>2, BarmanConstants DEF Tick
<1>3. CASE \E p \in Pids : Spawn(p) \/ Exit(p) \/ Reclassify(p)
  <2>1. events' \in Nat
    BY <1>3 DEF Spawn, Exit, Reclassify, Happens
  <2>2. verdict' \in [Pids -> States]
    BY <1>3 DEF Spawn, Exit, Reclassify
  <2>3. /\ now' = now /\ engine' = engine /\ client' = client /\ plans' = plans
        /\ started' \in [Pids -> Nat] /\ \A p \in Pids : started'[p] <= now
    BY <1>3 DEF Spawn, Exit, Reclassify
  <2> QED BY <2>1, <2>2, <2>3
<1>4. CASE \E d \in DockerIds : ContainerMoves(d)
  <2>1. events' \in Nat
    BY <1>4 DEF ContainerMoves, Happens
  <2>2. engine' \in [DockerIds -> EngineStates]
    BY <1>4 DEF ContainerMoves, EngineStates
  <2> QED BY <1>4, <2>1, <2>2 DEF ContainerMoves
<1>5. ASSUME NEW c \in Clients, PlanStep(c) PROVE HostOK'
  BY <1>5 DEF PlanStep, BeginPlan, GcPlans, CreatePlan, FillPlan, ReadPlan, TakePlan, Resolve,
     host, Move
<1>6. ASSUME NEW c \in Clients, ActionBegins(c) PROVE HostOK'
  BY <1>6 DEF ActionBegins, BeginResource, BeginGroup, BeginDocker, BeginPrune, host, Move
<1>7. ASSUME NEW c \in Clients, WorkStep(c) PROVE HostOK'
  <2>1. CASE \E id \in client[c].left : NextItem(c, id)
    BY <2>1 DEF NextItem, host, Move
  <2>2. CASE \E id \in client[c].left : NextDocker(c, id)
    <3>1. PICK id \in client[c].left : NextDocker(c, id)
      BY <2>2
    <3>2. \E action \in {"Term", "Kill"} : Docker(c, id, action)
      BY <3>1 DEF NextDocker
    <3>3. engine' \in [DockerIds -> EngineStates] /\ DOMAIN client' = Clients
      BY <3>2, EngineCalls
    <3>4. QED
      BY <3>1, <3>3 DEF NextDocker
  <2>3. CASE Refresh(c) \/ SumUp(c) \/ Finish(c) \/ EndPrune(c)
    BY <2>3 DEF Refresh, SumUp, Finish, EndPrune, host, Move
  <2>4. CASE SignalOne(c)
    <3>1. started' = started \/ \E p : started' = [started EXCEPT ![p] = 0]
      BY <2>4 DEF SignalOne
    <3>2. /\ now' = now /\ engine' = engine /\ plans' = plans /\ DOMAIN client' = Clients
          /\ verdict' = verdict /\ events' = events
      BY <2>4 DEF SignalOne, Move
    <3>3. QED
      BY <3>1, <3>2
  <2>5. CASE ActDocker(c)
    <3>1. PICK id \in client[c].left : Docker(c, id, client[c].signal)
      BY <2>5 DEF ActDocker
    <3>3. engine' \in [DockerIds -> EngineStates] /\ DOMAIN client' = Clients
      BY <3>1, EngineCalls
    <3>4. QED
      BY <2>5, <3>3 DEF ActDocker
  <2>6. CASE PruneOne(c)
    <3>1. PICK d \in client[c].left : engine' = EngineRemove(d).after
      BY <2>6 DEF PruneOne
    <3>2. engine' = engine \/ engine' = [engine EXCEPT ![d] = "gone"]
      BY <3>1 DEF EngineRemove
    <3>3. engine' \in [DockerIds -> EngineStates]
      BY <3>2 DEF EngineStates
    <3>4. QED
      BY <2>6, <3>3 DEF PruneOne, Move
  <2>7. QED
    BY <1>7, <2>1, <2>2, <2>3, <2>4, <2>5, <2>6 DEF WorkStep
<1>8. CASE Publish \/ RunsMove
  <2>1. UNCHANGED <<now, started, verdict, engine, plans, client>>
    BY <1>8 DEF Publish, RunsMove, RunMoves, SupervisorStops, SupervisorStarts, McpStart,
       McpCancel, barmanVars
  <2>2. events' = events \/ Happens
    BY <1>8 DEF Publish, RunsMove, RunMoves, SupervisorStops, SupervisorStarts, McpStart,
       McpCancel, barmanVars
  <2>3. events' \in Nat
    BY <2>2 DEF Happens
  <2> QED BY <2>1, <2>3
<1>9. ASSUME NEW q \in Requests, RunRequest(q) \/ CleanupRequest(q) \/ Refused(q) PROVE HostOK'
  BY <1>9 DEF RunRequest, ProposeCancel, ConfirmCancel, InsertCancel, Recheck, RemoveProposal,
     SendCancel, CleanupRequest, ProposeCleanup, ConfirmCleanup, Refused, barmanVars
<1>10. ASSUME NEW q \in Requests, HostRequest(q) PROVE HostOK'
  <2>1. CASE \E p \in Pids, signal \in {"Term", "Kill"} : KillRequest(q, p, signal)
    BY <2>1 DEF KillRequest, barmanVars
  <2>2. CASE KillRefresh(q)
    BY <2>2 DEF KillRefresh, barmanVars
  <2>3. CASE KillSignal(q)
    <3>1. started' = started \/ \E p : started' = [started EXCEPT ![p] = 0]
      BY <2>3 DEF KillSignal
    <3>2. /\ now' = now /\ engine' = engine /\ plans' = plans /\ client' = client
          /\ verdict' = verdict /\ events' = events
      BY <2>3 DEF KillSignal
    <3>3. QED
      BY <3>1, <3>2
  <2>4. CASE \E d \in DockerIds, action \in {"stop", "remove"} : DockerRequest(q, d, action)
    <3>1. PICK d \in DockerIds, action \in {"stop", "remove"} : DockerRequest(q, d, action)
      BY <2>4
    <3>2. engine' \in {engine, EngineRemove(d).after, EngineStop(d).after}
      BY <3>1 DEF DockerRequest
    <3>3. engine' \in {engine, [engine EXCEPT ![d] = "gone"], [engine EXCEPT ![d] = "stopped"]}
      BY <3>2 DEF EngineRemove, EngineStop
    <3>4. engine' \in [DockerIds -> EngineStates]
      BY <3>3 DEF EngineStates
    <3>5. QED
      BY <3>1, <3>4 DEF DockerRequest
  <2>5. CASE PruneRequest(q)
    BY <2>5 DEF PruneRequest, EngineStates
  <2>6. QED
    BY <1>10, <2>1, <2>2, <2>3, <2>4, <2>5 DEF HostRequest
<1>11. QED
  BY <1>1, <1>2, <1>3, <1>4, <1>5, <1>6, <1>7, <1>8, <1>9, <1>10
     DEF ControlNext, WebNext, BarmanNext, BarmanHost

\* A step is one of the clients', or leaves them and the plans alone.
LEMMA StepsAre ==
  ASSUME HostOK, [ControlNext]_controlVars
  PROVE  \/ \E c \in Clients : PlanStep(c) \/ ActionBegins(c) \/ WorkStep(c)
         \/ client' = client /\ plans' = plans /\ now' \in Nat /\ now <= now'
<1> USE DEF HostOK
<1>1. CASE UNCHANGED controlVars
  BY <1>1 DEF controlVars, barmanVars
<1>2. CASE BarmanHost
  BY <1>2 DEF BarmanHost, Tick, Spawn, Exit, Reclassify, ContainerMoves
<1>3. CASE client' = client /\ plans' = plans /\ now' = now
  BY <1>3
<1>4. CASE Publish \/ RunsMove
  <2>1. CASE Publish
    BY <1>3, <2>1 DEF Publish, barmanVars
  <2>2. CASE \E i \in Runs : RunMoves(i)
    BY <1>3, <2>2 DEF RunMoves, barmanVars
  <2>3. CASE SupervisorStops \/ SupervisorStarts
    BY <1>3, <2>3 DEF SupervisorStops, SupervisorStarts
  <2>4. CASE \E m \in Mcps, i \in Runs : McpStart(m, i) \/ McpCancel(m, i)
    BY <1>3, <2>4 DEF McpStart, McpCancel
  <2>5. QED
    BY <1>4, <2>1, <2>2, <2>3, <2>4 DEF RunsMove
<1>5. ASSUME NEW q \in Requests,
        RunRequest(q) \/ CleanupRequest(q) \/ HostRequest(q) \/ Refused(q)
      PROVE  client' = client /\ plans' = plans /\ now' = now
  <2>1. CASE RunRequest(q)
    BY <2>1 DEF RunRequest, ProposeCancel, ConfirmCancel, InsertCancel, Recheck, RemoveProposal,
       SendCancel, barmanVars
  <2>2. CASE CleanupRequest(q)
    BY <2>2 DEF CleanupRequest, ProposeCleanup, ConfirmCleanup, barmanVars
  <2>3. CASE HostRequest(q)
    BY <2>3 DEF HostRequest, KillRequest, KillRefresh, KillSignal, DockerRequest, PruneRequest,
       barmanVars
  <2>4. CASE Refused(q)
    BY <2>4 DEF Refused, barmanVars
  <2>5. QED
    BY <1>5, <2>1, <2>2, <2>3, <2>4
<1>6. QED
  BY <1>1, <1>2, <1>3, <1>4, <1>5 DEF ControlNext, WebNext, BarmanNext

\* One client moves.
LEMMA MovesOne ==
  ASSUME HostOK, NEW c \in Clients, NEW r, Move(c, r)
  PROVE  /\ client'[c] = r
         /\ \A x \in Clients : x # c => client'[x] = client[x]
  BY DEF HostOK, Move

\* The stages of a client that works.
WorkStages == {"next", "refresh", "signal", "docker", "summed"}

\* A prune lists and removes volumes Docker named itself.
PruneOK(r) ==
  r.pc = "prune" =>
    /\ DOMAIN r = {"pc", "left", "removed"}
    /\ r.left \subseteq Anonymous /\ r.removed \subseteq Anonymous

\* A client that acts.
Acts(r, st, time) == (r.pc \in WorkStages => WorkOK(r, st, time) /\ Ready(r)) /\ PruneOK(r)

\* Whatever is done, a process stays, ends, or is started now.
LEMMA StartsAge ==
  ASSUME HostOK, [ControlNext]_controlVars
  PROVE  /\ now \in Nat /\ started \in [Pids -> Nat] /\ started' \in [Pids -> Nat]
         /\ now' \in Nat /\ now <= now'
         /\ \A p \in Pids : started'[p] = started[p] \/ started'[p] = 0 \/ now <= started'[p]
<1> DEFINE Only(f) == \A p \in Pids : f[p] = started[p] \/ f[p] = 0 \/ now <= f[p]
<1>0. now \in Nat /\ started \in [Pids -> Nat] /\ now' \in Nat /\ started' \in [Pids -> Nat]
  BY HostAlways DEF HostOK
<1>1. CASE started' = started /\ (now' = now \/ now' = now + 1)
  BY <1>0, <1>1
<1>2. ASSUME NEW q, started' = [started EXCEPT ![q] = 0], now' = now
      PROVE  now <= now' /\ Only(started')
  BY <1>0, <1>2
<1>3. CASE UNCHANGED controlVars
  BY <1>1, <1>3 DEF controlVars, barmanVars
<1>4. CASE BarmanHost
  <2>1. CASE Tick
    BY <1>1, <2>1 DEF Tick
  <2>2. ASSUME NEW q \in Pids, Spawn(q) PROVE now <= now' /\ Only(started')
    <3>1. now' = now /\ started' = [started EXCEPT ![q] = now]
      BY <2>2 DEF Spawn
    <3>2. QED
      BY <1>0, <3>1
  <2>3. ASSUME NEW q \in Pids, Exit(q) PROVE now <= now' /\ Only(started')
    BY <1>2, <2>3 DEF Exit
  <2>4. CASE \/ \E q \in Pids : Reclassify(q)
             \/ \E d \in DockerIds : ContainerMoves(d)
    BY <1>1, <2>4 DEF Reclassify, ContainerMoves
  <2>5. QED
    BY <1>0, <1>4, <2>1, <2>2, <2>3, <2>4 DEF BarmanHost
<1>5. ASSUME NEW c \in Clients, PlanStep(c) \/ ActionBegins(c)
      PROVE  now <= now' /\ Only(started')
  <2>1. started' = started /\ now' = now
    BY <1>5 DEF PlanStep, BeginPlan, GcPlans, CreatePlan, FillPlan, ReadPlan, TakePlan, Resolve,
       ActionBegins, BeginResource, BeginGroup, BeginDocker, BeginPrune, host
  <2>2. QED
    BY <1>1, <2>1
<1>6. ASSUME NEW c \in Clients, WorkStep(c) PROVE now <= now' /\ Only(started')
  <2>1. CASE SignalOne(c)
    <3>1. now' = now
          /\ (started' = started \/ started' = [started EXCEPT ![Head(client[c].todo).pid] = 0])
      BY <2>1 DEF SignalOne
    <3>2. QED
      BY <1>1, <1>2, <3>1
  <2>2. CASE ~ SignalOne(c)
    <3>1. started' = started /\ now' = now
      BY <1>6, <2>2 DEF WorkStep, NextItem, NextDocker, Refresh, ActDocker, SumUp, Finish,
         PruneOne, EndPrune, host
    <3>2. QED
      BY <1>1, <3>1
  <2>3. QED
    BY <2>1, <2>2
<1>7. CASE Publish \/ RunsMove
  <2>1. started' = started /\ now' = now
    BY <1>7 DEF Publish, RunsMove, RunMoves, SupervisorStops, SupervisorStarts, McpStart,
       McpCancel, barmanVars
  <2>2. QED
    BY <1>1, <2>1
<1>8. ASSUME NEW q \in Requests,
             RunRequest(q) \/ CleanupRequest(q) \/ HostRequest(q) \/ Refused(q)
      PROVE  now <= now' /\ Only(started')
  <2>1. CASE KillSignal(q)
    <3>1. now' = now
          /\ (started' = started \/ started' = [started EXCEPT ![request[q].id.pid] = 0])
      BY <2>1 DEF KillSignal
    <3>2. QED
      BY <1>1, <1>2, <3>1
  <2>2. CASE RunRequest(q) \/ CleanupRequest(q) \/ Refused(q)
    <3>1. started' = started /\ now' = now
      BY <2>2 DEF RunRequest, ProposeCancel, ConfirmCancel, InsertCancel, Recheck,
         RemoveProposal, SendCancel, CleanupRequest, ProposeCleanup, ConfirmCleanup, Refused,
         barmanVars
    <3>2. QED
      BY <1>1, <3>1
  <2>3. CASE HostRequest(q) /\ ~ KillSignal(q)
    <3>1. started' = started /\ now' = now
      BY <2>3 DEF HostRequest, KillRequest, KillRefresh, DockerRequest, PruneRequest, barmanVars
    <3>2. QED
      BY <1>1, <3>1
  <2>4. QED
    BY <1>8, <2>1, <2>2, <2>3
<1>9. now <= now' /\ Only(started')
  <2> HIDE DEF Only
  <2>1. CASE started' = started /\ (now' = now \/ now' = now + 1)
    BY <1>0, <2>1 DEF Only
  <2>2. QED
    BY <1>0, <1>3, <1>4, <1>5, <1>6, <1>7, <1>8, <2>1
       DEF ControlNext, WebNext, BarmanNext, Only, controlVars, barmanVars
<1>10. QED
  BY <1>0, <1>9

\* What a client has done stays done as the host goes on.
LEMMA ActsStays ==
  ASSUME ItemsNest, IsFiniteSet(Pids), NEW r, NEW st \in [Pids -> Nat],
         NEW su \in [Pids -> Nat], NEW time \in Nat, NEW later \in Nat, time <= later,
         \A p \in Pids : su[p] = st[p] \/ su[p] = 0 \/ time <= su[p]
  PROVE  /\ WorkOK(r, st, time) => WorkOK(r, su, later)
         /\ Acts(r, st, time) => Acts(r, su, later)
<1>1. ASSUME WorkOK(r, st, time) PROVE WorkOK(r, su, later)
  <2>1. Dated(r, time) /\ DoneOK(r, st)
    BY <1>1 DEF WorkOK
  <2>2. Dated(r, later)
    BY <2>1 DEF Dated
  <2>3. DoneOK(r, su)
    BY <2>1, DoneStays
  <2>4. QED
    BY <1>1, <2>2, <2>3 DEF WorkOK
<1>2. QED
  BY <1>1 DEF Acts

\* What a step of an acting client does to the clients.
ActsAfter(c) ==
  /\ client'[c].pc \in WorkStages \cup {"prune", "exited"}
  /\ Acts(client'[c], started', now')
  /\ \A x \in Clients : x # c => client'[x] = client[x]
  /\ plans' = plans /\ now' = now

\* A client that goes on acting.
LEMMA MoveActs ==
  ASSUME HostOK, NEW c \in Clients, NEW r, Move(c, r), plans' = plans, now' = now,
         r.pc \in WorkStages /\ WorkOK(r, started', now') /\ Ready(r)
  PROVE  ActsAfter(c)
<1>1. client'[c] = r /\ \A x \in Clients : x # c => client'[x] = client[x]
  BY MovesOne
<1>2. Acts(r, started', now')
  BY DEF Acts, PruneOK, WorkStages
<1>3. QED
  BY <1>1, <1>2 DEF ActsAfter

\* A client that is done.
LEMMA MoveExits ==
  ASSUME HostOK, NEW c \in Clients, Move(c, Exited), plans' = plans, now' = now
  PROVE  ActsAfter(c)
<1>1. client'[c] = Exited /\ \A x \in Clients : x # c => client'[x] = client[x]
  BY MovesOne
<1>2. Exited.pc = "exited"
  BY DEF Exited
<1>3. Acts(Exited, started', now')
  BY <1>2 DEF Acts, PruneOK, WorkStages
<1>4. QED
  BY <1>1, <1>2, <1>3 DEF ActsAfter

\* A client that prunes.
LEMMA MovePrunes ==
  ASSUME HostOK, NEW c \in Clients, NEW r, Move(c, r), plans' = plans, now' = now,
         r.pc = "prune" /\ PruneOK(r)
  PROVE  ActsAfter(c)
<1>1. client'[c] = r /\ \A x \in Clients : x # c => client'[x] = client[x]
  BY MovesOne
<1>2. Acts(r, started', now')
  BY DEF Acts, WorkStages
<1>3. QED
  BY <1>1, <1>2 DEF ActsAfter

\* Clients begin to act within their invariant (action, group_action, prune).
LEMMA BeginsActing ==
  ASSUME HostOK, NEW c \in Clients, ActionBegins(c)
  PROVE  ActsAfter(c)
<1>0. now \in Nat /\ started \in [Pids -> Nat]
  BY DEF HostOK
<1>1. CASE \E signal \in {"Term", "Kill"}, id \in KnownIds : BeginResource(c, id, signal)
  <2>1. PICK signal \in {"Term", "Kill"}, id \in KnownIds : BeginResource(c, id, signal)
    BY <1>1
  <2> DEFINE r == Work("action", {id}, signal, Snap)
  <2>2. Begun(r, "action", {id}) /\ r.pc = "next"
    BY DEF Work, Begun, Fields
  <2>3. Move(c, r) /\ UNCHANGED <<plans, now, started>>
    BY <2>1 DEF BeginResource, host
  <2> HIDE DEF r
  <2>4. WorkOK(r, started, now) /\ Ready(r)
    BY <1>0, <2>2, BegunWorks
  <2>5. QED
    BY <2>2, <2>3, <2>4, MoveActs DEF WorkStages
<1>2. CASE \E signal \in {"Term", "Kill"}, target \in Groups : BeginGroup(c, target, signal)
  <2>1. PICK signal \in {"Term", "Kill"}, target \in Groups : BeginGroup(c, target, signal)
    BY <1>2
  <2> DEFINE ids == Members(Snap, target)
             r == Work("group", ids, signal, Snap)
  <2>2. Begun(r, "group", ids) /\ r.pc = "next"
    BY DEF Work, Begun, Fields
  <2>3. (Move(c, Exited) \/ Move(c, r)) /\ UNCHANGED <<plans, now, started>>
    BY <2>1 DEF BeginGroup, host
  <2>4. \A id \in ids : id[1] = "resource" /\ FindItem(Snap, id) # {}
    BY DEF Members, FindItem, ResourceId
  <2> HIDE DEF r, ids
  <2>5. WorkOK(r, started, now) /\ Ready(r)
    BY <1>0, <2>2, <2>4, BegunWorks
  <2>6. QED
    BY <2>2, <2>3, <2>5, MoveActs, MoveExits DEF WorkStages
<1>3. CASE \E d \in DockerIds, action \in {"Term", "Kill", "Start", "Restart"} :
              BeginDocker(c, ContainerId(d), action)
  <2>1. PICK d \in DockerIds, action \in {"Term", "Kill", "Start", "Restart"} :
              BeginDocker(c, ContainerId(d), action)
    BY <1>3
  <2> DEFINE ids == {ContainerId(d)}
             r == [Work("action", ids, action, Snap) EXCEPT !.pc = "docker"]
  <2>2. Begun(r, "action", ids) /\ r.pc = "docker"
    BY DEF Work, Begun, Fields
  <2>3. Move(c, r) /\ UNCHANGED <<plans, now, started>>
    BY <2>1 DEF BeginDocker, host
  <2>4. \A id \in ids : id[1] = "container"
    BY DEF ContainerId
  <2> HIDE DEF r, ids
  <2>5. WorkOK(r, started, now) /\ Ready(r)
    BY <1>0, <2>2, <2>4, BegunWorks
  <2>6. QED
    BY <2>2, <2>3, <2>5, MoveActs DEF WorkStages
<1>4. CASE BeginPrune(c)
  <2>1. PICK listed \in BOOLEAN :
          Move(c, [pc |-> "prune", left |-> {d \in Listed(Snap) : Prunable(Snap, listed, d)},
                   removed |-> {}])
    BY <1>4 DEF BeginPrune
  <2> DEFINE ids == {d \in Listed(Snap) : Prunable(Snap, listed, d)}
             r == [pc |-> "prune", left |-> ids, removed |-> {}]
  <2>2. ids \subseteq Anonymous
    BY DEF Prunable
  <2>3. r.pc = "prune" /\ PruneOK(r)
    <3> HIDE DEF ids
    <3>1. QED
      BY <2>2 DEF PruneOK
  <2>4. plans' = plans /\ now' = now
    BY <1>4 DEF BeginPrune, host
  <2>5. Move(c, r)
    BY <2>1
  <2> HIDE DEF r
  <2>6. QED
    BY <2>3, <2>4, <2>5, MovePrunes
<1>5. QED
  BY <1>1, <1>2, <1>3, <1>4 DEF ActionBegins

\* A call of the engine.
LEMMA DockerActs ==
  ASSUME HostOK, NEW c \in Clients, WorkOK(client[c], started, now),
         client[c].pc \in {"next", "docker"}, NEW id \in client[c].left, id[1] = "container",
         NEW action, Docker(c, id, action), UNCHANGED <<plans, now, started>>
  PROVE  ActsAfter(c)
<1> DEFINE r == client[c]
<1>1. CASE Move(c, Stale(r, id))
  BY <1>1, StaleWorks, MoveActs DEF WorkStages
<1>2. ASSUME NEW d \in FindDocker(r.snap, id), NEW answer,
             answer.after = engine \/ answer.after = DockerCall(d, action).after,
             LET done == [r EXCEPT !.pc = "next", !.left = @ \ {id},
                              !.removed = @ \cup {e \in DockerIds :
                                            engine[e] # "gone" /\ answer.after[e] = "gone"}]
             IN  \/ Move(c, [done EXCEPT !.failed = @ \cup {id}])
                 \/ Move(c, [done EXCEPT !.killed = @ \cup {id}])
                 \/ Move(c, [done EXCEPT !.stopped = @ \cup {id}])
      PROVE  ActsAfter(c)
  <2> DEFINE away == {e \in DockerIds : engine[e] # "gone" /\ answer.after[e] = "gone"}
             done == [r EXCEPT !.pc = "next", !.left = @ \ {id}, !.removed = @ \cup away]
  <2>1. d \in DockerIds /\ ContainerId(d) = id
    BY DEF FindDocker, Listed
  <2>2. away \subseteq {d}
    BY <1>2, <2>1, EngineTouchesOne DEF HostOK
  <2>3. r.op = "execute" => DKind[d] # "Volume"
    BY <2>1 DEF WorkOK, AskedOK, Selectable
  <2>4. r.op = "execute" => \A e \in away : DKind[e] # "Volume"
    BY <2>2, <2>3
  <2>5. PICK t : Move(c, t) /\ Called(r, id, away, t)
    BY <1>2 DEF Called
  <2> HIDE DEF away
  <2>6. WorkOK(t, started, now) /\ Ready(t) /\ t.pc = "next"
    BY <2>4, <2>5, DockerWorks
  <2>7. QED
    BY <2>5, <2>6, MoveActs DEF WorkStages
<1>3. QED
  <2>1. CASE \E d \in FindDocker(r.snap, id) :
        LET answer == IF action = "Term" /\ ~ Running(r.snap, d)
          THEN [ok |-> FALSE, after |-> engine]
                      ELSE DockerCall(d, action)
            done == [r EXCEPT !.pc = "next", !.left = @ \ {id},
                              !.removed = @ \cup {e \in DockerIds :
                                            engine[e] # "gone" /\ answer.after[e] = "gone"}]
        IN  /\ engine' = answer.after
            /\ Move(c, IF ~answer.ok THEN [done EXCEPT !.failed = @ \cup {id}]
                       ELSE IF action = "Kill" THEN [done EXCEPT !.killed = @ \cup {id}]
                       ELSE [done EXCEPT !.stopped = @ \cup {id}])
    <3>1. PICK d \in FindDocker(r.snap, id) :
        LET answer == IF action = "Term" /\ ~ Running(r.snap, d)
          THEN [ok |-> FALSE, after |-> engine]
                      ELSE DockerCall(d, action)
            done == [r EXCEPT !.pc = "next", !.left = @ \ {id},
                              !.removed = @ \cup {e \in DockerIds :
                                            engine[e] # "gone" /\ answer.after[e] = "gone"}]
        IN  /\ engine' = answer.after
            /\ Move(c, IF ~answer.ok THEN [done EXCEPT !.failed = @ \cup {id}]
                       ELSE IF action = "Kill" THEN [done EXCEPT !.killed = @ \cup {id}]
                       ELSE [done EXCEPT !.stopped = @ \cup {id}])
      BY <2>1
    <3> DEFINE answer == IF action = "Term" /\ ~ Running(r.snap, d)
                         THEN [ok |-> FALSE, after |-> engine] ELSE DockerCall(d, action)
    <3>2. answer.after = engine \/ answer.after = DockerCall(d, action).after
      OBVIOUS
    <3> DEFINE done == [r EXCEPT !.pc = "next", !.left = @ \ {id},
                              !.removed = @ \cup {e \in DockerIds :
                                            engine[e] # "gone" /\ answer.after[e] = "gone"}]
    <3>3. Move(c, IF ~answer.ok THEN [done EXCEPT !.failed = @ \cup {id}]
                       ELSE IF action = "Kill" THEN [done EXCEPT !.killed = @ \cup {id}]
                       ELSE [done EXCEPT !.stopped = @ \cup {id}])
      BY <3>1
    <3> HIDE DEF answer
    <3>4. \/ Move(c, [done EXCEPT !.failed = @ \cup {id}])
          \/ Move(c, [done EXCEPT !.killed = @ \cup {id}])
          \/ Move(c, [done EXCEPT !.stopped = @ \cup {id}])
      <4> HIDE DEF done
      <4>1. QED
        BY <3>3
    <3>5. QED
      BY <1>2, <3>2, <3>4
  <2>2. QED
    BY <1>1, <2>1 DEF Docker

\* Every step of a client that acts keeps its invariant (find_item_by_id, identities_for,
\* send, signal_report, act_docker, prune).
LEMMA KeepsActing ==
  ASSUME ItemsNest, IsFiniteSet(Pids), HostOK, NEW c \in Clients,
         Acts(client[c], started, now), WorkStep(c)
  PROVE  ActsAfter(c)
<1> DEFINE r == client[c]
<1>0. r.pc \in WorkStages => WorkOK(r, started, now) /\ Ready(r)
  BY DEF Acts
<1>1. ASSUME NEW id \in r.left, NextItem(c, id) PROVE ActsAfter(c)
  <2>1. r.pc = "next" /\ WorkOK(r, started, now) /\ UNCHANGED <<plans, now, started>>
    BY <1>0, <1>1 DEF NextItem, Is, host, WorkStages
  <2>2. CASE /\ FindItem(r.snap, id) = {}
             /\ Move(c, IF r.op = "group" THEN [r EXCEPT !.left = @ \ {id}] ELSE Stale(r, id))
    <3>1. /\ r.op # "group" /\ WorkOK(Stale(r, id), started, now) /\ Ready(Stale(r, id))
          /\ Stale(r, id).pc = "next"
      BY <1>1, <2>1, <2>2, StaleWorks
    <3>2. Move(c, Stale(r, id))
      BY <2>2, <3>1
    <3>3. QED
      BY <2>1, <3>1, <3>2, MoveActs DEF WorkStages
  <2>3. CASE \E p \in FindItem(r.snap, id) :
            Move(c, [r EXCEPT !.pc = "refresh", !.left = @ \ {id}, !.cur = id,
                              !.todo = IdentitiesFor(r.snap, p)])
    <3>1. PICK p \in FindItem(r.snap, id) :
            Move(c, [r EXCEPT !.pc = "refresh", !.left = @ \ {id}, !.cur = id,
                              !.todo = IdentitiesFor(r.snap, p)])
      BY <2>3
    <3> DEFINE t == [r EXCEPT !.pc = "refresh", !.left = @ \ {id}, !.cur = id,
                              !.todo = IdentitiesFor(r.snap, p)]
    <3>2. WorkOK(t, started, now) /\ Ready(t) /\ t.pc = "refresh"
      BY <1>1, <2>1, TakesItem
    <3>3. Move(c, t)
      BY <3>1
    <3> HIDE DEF t
    <3>4. QED
      BY <2>1, <3>2, <3>3, MoveActs DEF WorkStages
  <2>4. QED
    BY <1>1, <2>2, <2>3 DEF NextItem
<1>2. ASSUME NEW id \in r.left, NextDocker(c, id) PROVE ActsAfter(c)
  <2>1. /\ r.pc = "next" /\ WorkOK(r, started, now) /\ UNCHANGED <<plans, now, started>>
        /\ id[1] = "container"
        /\ \E action \in {"Term", "Kill"} : Docker(c, id, action)
    BY <1>0, <1>2 DEF NextDocker, Is, WorkStages
  <2>2. QED
    BY <1>2, <2>1, DockerActs
<1>3. CASE Refresh(c)
  <2> DEFINE t == [r EXCEPT !.pc = "signal", !.todo = Holding(@),
                            !.held = {<<p, started[p]>> : p \in Pids}]
  <2>1. /\ r.pc = "refresh" /\ WorkOK(r, started, now) /\ UNCHANGED <<plans, now, started>>
        /\ Move(c, Settled(t))
    BY <1>0, <1>3 DEF Refresh, Is, host, WorkStages
  <2>2. WorkOK(t, started, now) /\ t.pc = "signal"
    BY <2>1, RefreshWorks
  <2> HIDE DEF t
  <2>3. /\ WorkOK(Settled(t), started, now) /\ Ready(Settled(t))
        /\ Settled(t).pc \in {"next", "signal"}
    BY <2>2, SettledWorks
  <2>4. QED
    BY <2>1, <2>3, MoveActs DEF WorkStages
<1>4. CASE SignalOne(c)
  <2> DEFINE p == Head(r.todo).pid
             gone == started[p] = 0
             denied == p \in Foreign
             said == IF gone THEN {} ELSE IF denied THEN {"failed"} ELSE {"signaled"}
             reach == IF gone \/ denied THEN {}
                      ELSE {[pid |-> p, start |-> started[p],
                             reused |-> <<p, started[p]>> \notin r.held]}
             t == After(r, said, reach)
  <2>1. r.pc = "signal" /\ WorkOK(r, started, now) /\ Ready(r)
    BY <1>0, <1>4 DEF SignalOne, Is, WorkStages
  <2>2. /\ plans' = plans /\ now' = now
        /\ started' = started \/ started' = [started EXCEPT ![p] = 0]
    BY <1>4 DEF SignalOne
  <2>3. Move(c, Settled(t))
    BY <1>4 DEF SignalOne, After
  <2>4. Signalled(r, said, reach, started)
    BY DEF Signalled
  <2> HIDE DEF said, reach
  <2>5. WorkOK(t, started, now) /\ t.pc = "signal"
    BY <2>1, <2>4, SignalWorks
  <2> HIDE DEF t
  <2>6. /\ WorkOK(Settled(t), started, now) /\ Ready(Settled(t))
        /\ Settled(t).pc \in {"next", "signal"}
    BY <2>5, SettledWorks
  <2>7. /\ now \in Nat /\ started \in [Pids -> Nat] /\ started' \in [Pids -> Nat]
        /\ \A q \in Pids : started'[q] = started[q] \/ started'[q] = 0
    BY <2>2 DEF HostOK
  <2> HIDE DEF p
  <2>8. WorkOK(Settled(t), started', now')
    BY <2>2, <2>6, <2>7, ActsStays
  <2>9. QED
    BY <2>2, <2>3, <2>6, <2>8, MoveActs DEF WorkStages
<1>5. CASE ActDocker(c)
  <2>1. r.pc = "docker" /\ WorkOK(r, started, now) /\ UNCHANGED <<plans, now, started>>
    BY <1>0, <1>5 DEF ActDocker, Is, WorkStages
  <2>2. PICK id \in r.left : Docker(c, id, r.signal)
    BY <1>5 DEF ActDocker
  <2>3. id[1] = "container"
    BY <2>1 DEF WorkOK, ReportIs
  <2>4. QED
    BY <2>1, <2>2, <2>3, DockerActs
<1>6. CASE Finish(c) \/ EndPrune(c)
  BY <1>6, MoveExits DEF Finish, EndPrune, host
<1>7. CASE PruneOne(c)
  <2>1. PICK d \in r.left :
          Move(c, [r EXCEPT !.left = @ \ {d},
                        !.removed = IF EngineRemove(d).ok THEN @ \cup {d} ELSE @])
    BY <1>7 DEF PruneOne
  <2> DEFINE t == [r EXCEPT !.left = @ \ {d},
                        !.removed = IF EngineRemove(d).ok THEN @ \cup {d} ELSE @]
  <2>2. r.pc = "prune" /\ PruneOK(r) /\ plans' = plans /\ now' = now
    BY <1>7 DEF PruneOne, Is, Acts
  <2>3. t.pc = "prune" /\ PruneOK(t)
    BY <2>2 DEF PruneOK
  <2>4. Move(c, t)
    BY <2>1
  <2> HIDE DEF t
  <2>5. QED
    BY <2>2, <2>3, <2>4, MovePrunes
<1>8. CASE SumUp(c)
  <2> DEFINE t == [Answer(r, r.asked) EXCEPT !.pc = "summed"]
  <2>1. /\ r.pc = "next" /\ r.left = {} /\ r.op = "group" /\ Move(c, t)
        /\ WorkOK(r, started, now) /\ UNCHANGED <<plans, now, started>>
    BY <1>0, <1>8 DEF SumUp, Is, host, WorkStages
  <2>2. WorkOK(t, started, now) /\ Ready(t) /\ t.pc = "summed"
    BY <2>1, SumUpWorks
  <2> HIDE DEF t
  <2>3. QED
    BY <2>1, <2>2, MoveActs DEF WorkStages
<1>9. QED
  BY <1>1, <1>2, <1>3, <1>4, <1>5, <1>6, <1>7, <1>8 DEF WorkStep

\* A plan as it is written, or read.
Written(f) == f.issued \in Nat /\ Selectable(f.selected, f.issued)

\* A client that makes a plan ...
Drafts(r, time) ==
  r.pc \in {"gc", "create", "fill"} =>
    /\ DOMAIN r = {"pc", "plan", "selected", "issued"} /\ r.plan \in PlanIds
    /\ r.pc = "gc" => Selectable(r.selected, time)
    /\ r.pc # "gc" => Written(r)

\* ... or takes one ...
Takes(r) ==
  r.pc \in {"take", "accepted"} =>
    DOMAIN r = {"pc", "plan", "read"} /\ r.plan \in PlanIds /\ Written(r.read)

\* ... and the file of its plan.
FileOf(r, files) ==
  /\ r.pc \in {"gc", "create"} => files[r.plan] = Absent
  /\ r.pc = "take" => files[r.plan] \notin {Absent, Empty}
  /\ r.pc = "accepted" => files[r.plan] = Gone

\* A client's part in the plans.
PlanClient(r, files, time) == Drafts(r, time) /\ Takes(r) /\ FileOf(r, files)

\* No two clients make the same plan: a plan id is random and its file is created once.
OwnPlans ==
  \A c, x \in Clients :
      /\ c # x
      /\ client[c].pc \in {"gc", "create", "fill"}
      /\ client[x].pc \in {"gc", "create", "fill"}
    => client[c].plan # client[x].plan

\* The invariant of the plans: each draft and each file holds what could be selected when
\* the plan was issued, and a plan that was taken has no file.
PlanInv ==
  /\ \A c \in Clients : PlanClient(client[c], plans, now)
  /\ OwnPlans
  /\ \A p \in PlanIds : plans[p] \notin {Absent, Empty, Gone} => Written(plans[p])

\* The leftovers of a snapshot had started when it was made, and none is a volume
\* (docker_artifact_resource puts persistent first).
LEMMA LeftoversSelectable ==
  ASSUME HostOK
  PROVE  Selectable(Leftovers(Snap), now)
<1>1. ASSUME NEW id \in Leftovers(Snap)
      PROVE  \/ \E p \in Pids :
                  id = ResourceId(Snap, p) /\ started[p] \in Nat /\ started[p] <= now
             \/ \E d \in DockerIds : id = ContainerId(d) /\ DKind[d] # "Volume"
             \/ \E d \in DockerIds :
                  /\ id = ContainerId(d) /\ DKind[d] = "Volume"
                  /\ ArtifactClass(Snap, d) = "leftover"
  BY <1>1 DEF Leftovers, Rows, HostOK, Snap, LiveIn, Listed
<1>2. ASSUME NEW d \in DockerIds, DKind[d] = "Volume" PROVE ArtifactClass(Snap, d) # "leftover"
  BY <1>2 DEF ArtifactClass, PersistentDocker
<1>3. ASSUME NEW p \in Pids, started[p] \in Nat, started[p] <= now
      PROVE  /\ ResourceId(Snap, p)[3] \in Nat /\ ResourceId(Snap, p)[3] <= now
             /\ ResourceId(Snap, p)[1] = "resource"
  <2>1. ResourceId(Snap, p)[1] = "resource" /\ ResourceId(Snap, p)[3] = Reading(p, started[p])
    BY DEF ResourceId, StartOf, Snap
  <2>2. Reading(p, started[p]) \in {0, started[p]}
    BY ReadingIs
  <2>3. QED
    BY <1>3, <2>1, <2>2 DEF HostOK
<1>4. ASSUME NEW d \in DockerIds
      PROVE ContainerId(d)[1] = "container" /\ ContainerId(d)[2] = ShortId[d]
  BY DEF ContainerId
<1>5. ASSUME NEW id \in Leftovers(Snap)
      PROVE  /\ id[1] = "resource" => id[3] \in Nat /\ id[3] <= now
             /\ \A d \in DockerIds : ContainerId(d) = id => DKind[d] # "Volume"
  <2>1. CASE \E p \in Pids : id = ResourceId(Snap, p) /\ started[p] \in Nat /\ started[p] <= now
    BY <1>3, <1>4, <2>1
  <2>2. CASE \E e \in DockerIds : id = ContainerId(e) /\ DKind[e] # "Volume"
    <3>1. PICK e \in DockerIds : id = ContainerId(e) /\ DKind[e] # "Volume"
      BY <2>2
    <3>2. id[1] = "container" /\ id[2] = ShortId[e]
      BY <1>4, <3>1
    <3>3. \A d \in DockerIds : ContainerId(d) = id => ShortId[d] = ShortId[e]
      BY <1>4, <3>2
    <3>4. QED
      BY <3>1, <3>2, <3>3, BarmanConstants
  <2>3. QED
    BY <1>1, <1>2, <1>5, <2>1, <2>2
<1>6. QED
  BY <1>5 DEF Selectable

\* What can be selected now can be later.
LEMMA SelectableLater ==
  ASSUME NEW ids, NEW t \in Nat, NEW u \in Nat, t <= u, Selectable(ids, t)
  PROVE  Selectable(ids, u)
  BY DEF Selectable

\* There are no plans at first.
LEMMA PlansBegin == ControlInit => PlanInv
<1> SUFFICES ASSUME NEW h \in Scenes, Set(h) PROVE PlanInv
  BY DEF ControlInit
<1>1. \A c \in Clients : client[c].pc = "idle"
  BY DEF Set
<1>2. \A p \in PlanIds : plans[p] = Absent
  BY DEF Set
<1>3. QED
  BY <1>1, <1>2 DEF PlanInv, PlanClient, Drafts, Takes, FileOf, OwnPlans

\* The plans when the clients stay, or one of them acts.
LEMMA PlansStay ==
  ASSUME HostOK, PlanInv, now' \in Nat, now <= now', plans' = plans,
         \/ client' = client
         \/ \E c \in Clients : ActsAfter(c)
  PROVE  PlanInv'
<1>1. \A c \in Clients :
        client'[c] = client[c] \/ client'[c].pc \in WorkStages \cup {"prune", "exited"}
  BY DEF ActsAfter
<1>2. ASSUME NEW c \in Clients PROVE PlanClient(client'[c], plans', now')
  <2>1. CASE client'[c] = client[c]
    <3>1. Drafts(client[c], now) => Drafts(client[c], now')
      BY SelectableLater DEF Drafts, HostOK
    <3>2. QED
      BY <2>1, <3>1 DEF PlanInv, PlanClient
  <2>2. CASE client'[c].pc \in WorkStages \cup {"prune", "exited"}
    BY <2>2 DEF PlanClient, Drafts, Takes, FileOf, WorkStages
  <2>3. QED
    BY <1>1, <2>1, <2>2
<1>3. OwnPlans'
  BY <1>1 DEF PlanInv, OwnPlans, WorkStages
<1>4. QED
  BY <1>2, <1>3 DEF PlanInv

\* The plans after a step of c that leaves it as r, and the files as files.
LEMMA PlansMove ==
  ASSUME HostOK, PlanInv, NEW c \in Clients, NEW r, Move(c, r), now' = now,
         NEW files, plans' = files, PlanClient(r, files, now),
         \A x \in Clients : x # c => FileOf(client[x], files),
         r.pc \in {"gc", "create", "fill"} =>
           \A x \in Clients : x # c /\ client[x].pc \in {"gc", "create", "fill"}
             => client[x].plan # r.plan,
         \A p \in PlanIds : files[p] \notin {Absent, Empty, Gone} => Written(files[p])
  PROVE  PlanInv'
<1>1. client'[c] = r /\ \A x \in Clients : x # c => client'[x] = client[x]
  BY MovesOne
<1>2. ASSUME NEW x \in Clients PROVE PlanClient(client'[x], plans', now')
  <2>1. CASE x = c
    BY <1>1, <2>1
  <2>2. CASE x # c
    BY <1>1, <2>2 DEF PlanInv, PlanClient
  <2>3. QED
    BY <2>1, <2>2
<1>3. OwnPlans'
  BY <1>1 DEF PlanInv, OwnPlans
<1>4. QED
  BY <1>2, <1>3 DEF PlanInv

\* The steps of cleanup-plan and of execute keep the plans so (save_plan, gc_plans,
\* take_plan).
LEMMA PlanStepKeeps ==
  ASSUME HostOK, PlanInv, NEW c \in Clients, PlanStep(c)
  PROVE  PlanInv'
<1> DEFINE r == client[c]
<1>0. /\ \A x \in Clients :
           Drafts(client[x], now) /\ Takes(client[x]) /\ FileOf(client[x], plans)
      /\ \A p \in PlanIds : plans[p] \notin {Absent, Empty, Gone} => Written(plans[p])
      /\ DOMAIN plans = PlanIds
      /\ Absent # Empty /\ Absent # Gone /\ Empty # Gone
      /\ now \in Nat
  BY BarmanConstants DEF PlanInv, PlanClient, HostOK
<1>1. CASE BeginPlan(c)
  <2>1. PICK p \in PlanIds :
        /\ plans[p] = Absent
        /\ \A x \in Clients : client[x].pc \in {"gc", "create", "fill"} => client[x].plan # p
        /\ Move(c, [pc |-> "gc", plan |-> p, selected |-> Leftovers(Snap), issued |-> 0])
    BY <1>1 DEF BeginPlan
  <2> DEFINE t == [pc |-> "gc", plan |-> p, selected |-> Leftovers(Snap), issued |-> 0]
  <2>2. /\ DOMAIN t = {"pc", "plan", "selected", "issued"} /\ t.pc = "gc" /\ t.plan = p
        /\ t.selected = Leftovers(Snap)
    OBVIOUS
  <2>3. Move(c, t)
    BY <2>1
  <2> HIDE DEF t
  <2>4. PlanClient(t, plans, now)
    BY <2>1, <2>2, LeftoversSelectable DEF PlanClient, Drafts, Takes, FileOf
  <2>5. plans' = plans /\ now' = now
    BY <1>1 DEF BeginPlan, host
  <2>6. QED
    BY <1>0, <2>1, <2>2, <2>3, <2>4, <2>5, PlansMove
<1>2. CASE GcPlans(c)
  <2> DEFINE files == [p \in PlanIds |->
            IF plans[p] = Empty THEN Gone
            ELSE IF plans[p] \notin {Absent, Gone} /\ Expired(plans[p].issued) THEN Gone
            ELSE plans[p]]
             t == [r EXCEPT !.pc = "create", !.issued = now]
  <2>1. r.pc = "gc" /\ Move(c, t) /\ plans' = files /\ now' = now
    BY <1>2 DEF GcPlans, Is, host
  <2>2. /\ t.pc = "create" /\ t.plan = r.plan /\ t.selected = r.selected /\ t.issued = now
        /\ DOMAIN t = {"pc", "plan", "selected", "issued"}
    BY <1>0, <2>1 DEF Drafts
  <2>3. \A p \in PlanIds : files[p] = plans[p] \/ (files[p] = Gone /\ plans[p] # Absent)
    <3> SUFFICES ASSUME NEW p \in PlanIds
                 PROVE  files[p] = plans[p] \/ (files[p] = Gone /\ plans[p] # Absent)
      OBVIOUS
    <3>1. files[p] = IF plans[p] = Empty THEN Gone
                     ELSE IF plans[p] \notin {Absent, Gone} /\ Expired(plans[p].issued)
                       THEN Gone
                     ELSE plans[p]
      OBVIOUS
    <3> HIDE DEF files
    <3>2. Absent # Empty
      BY BarmanConstants
    <3>3. QED
      BY <3>1, <3>2
  <2> HIDE DEF t, files
  <2>4. \A x \in Clients : FileOf(client[x], files)
    BY <1>0, <2>3 DEF FileOf, Drafts, Takes
  <2>5. PlanClient(t, files, now)
    BY <1>0, <2>1, <2>2, <2>3 DEF PlanClient, Drafts, Takes, FileOf, Written
  <2>6. \A x \in Clients : x # c /\ client[x].pc \in {"gc", "create", "fill"}
          => client[x].plan # t.plan
    BY <2>1, <2>2 DEF PlanInv, OwnPlans
  <2>7. \A p \in PlanIds : files[p] \notin {Absent, Empty, Gone} => Written(files[p])
    BY <1>0, <2>3
  <2>8. QED
    BY <2>1, <2>4, <2>5, <2>6, <2>7, PlansMove
<1>3. CASE CreatePlan(c)
  <2> DEFINE files == [plans EXCEPT ![r.plan] = Empty]
             t == [r EXCEPT !.pc = "fill"]
  <2>1. r.pc = "create" /\ Move(c, t) /\ plans' = files /\ now' = now
    BY <1>3 DEF CreatePlan, Is, host
  <2>2. /\ t.pc = "fill" /\ t.plan = r.plan /\ t.selected = r.selected /\ t.issued = r.issued
        /\ DOMAIN t = {"pc", "plan", "selected", "issued"}
    BY <1>0, <2>1 DEF Drafts
  <2>3. /\ r.plan \in PlanIds /\ plans[r.plan] = Absent
        /\ files[r.plan] = Empty /\ \A p \in PlanIds : p # r.plan => files[p] = plans[p]
    BY <1>0, <2>1 DEF Drafts, FileOf
  <2> HIDE DEF t, files
  <2>4. \A x \in Clients : x # c /\ client[x].pc \in {"gc", "create", "fill"}
          => client[x].plan # r.plan
    BY <2>1 DEF PlanInv, OwnPlans
  <2>5. \A x \in Clients : x # c => FileOf(client[x], files)
    BY <1>0, <2>3, <2>4 DEF FileOf, Drafts, Takes
  <2>6. PlanClient(t, files, now)
    BY <1>0, <2>1, <2>2 DEF PlanClient, Drafts, Takes, FileOf, Written
  <2>7. \A p \in PlanIds : files[p] \notin {Absent, Empty, Gone} => Written(files[p])
    BY <1>0, <2>3
  <2>8. QED
    BY <2>1, <2>2, <2>4, <2>5, <2>6, <2>7, PlansMove
<1>a. Exited.pc = "exited" /\ \A files : PlanClient(Exited, files, now)
  BY DEF Exited, PlanClient, Drafts, Takes, FileOf
<1>4. CASE FillPlan(c)
  <2> DEFINE new == [issued |-> r.issued, selected |-> r.selected]
             files == IF plans[r.plan] = Empty THEN [plans EXCEPT ![r.plan] = new] ELSE plans
  <2>1. r.pc = "fill" /\ Move(c, Exited) /\ plans' = files /\ now' = now
    BY <1>4 DEF FillPlan, Is, host
  <2>2. Written(new)
    BY <1>0, <2>1 DEF Drafts, Written
  <2> HIDE DEF new
  <2>3. r.plan \in PlanIds
    BY <1>0, <2>1 DEF Drafts
  <2>4. \A p \in PlanIds : files[p] = plans[p] \/ (plans[p] = Empty /\ files[p] = new)
    <3>1. CASE plans[r.plan] = Empty
      <4>1. \A p \in PlanIds : files[p] = IF p = r.plan THEN new ELSE plans[p]
        BY <1>0, <2>3, <3>1
      <4> HIDE DEF files
      <4>2. QED
        BY <3>1, <4>1
    <3>2. CASE plans[r.plan] # Empty
      BY <3>2
    <3>3. QED
      BY <3>1, <3>2
  <2> HIDE DEF files
  <2>5. \A x \in Clients : FileOf(client[x], files)
    BY <1>0, <2>4 DEF FileOf, Drafts, Takes
  <2>6. \A p \in PlanIds : files[p] \notin {Absent, Empty, Gone} => Written(files[p])
    BY <1>0, <2>2, <2>4
  <2>7. QED
    BY <1>a, <2>1, <2>5, <2>6, PlansMove
<1>5. ASSUME NEW p \in PlanIds, ReadPlan(c, p) PROVE PlanInv'
  <2> DEFINE t == [pc |-> "take", plan |-> p, read |-> plans[p]]
  <2>1. /\ Move(c, t) /\ plans' = plans /\ now' = now /\ plans[p] \notin {Absent, Gone, Empty}
    BY <1>5 DEF ReadPlan, host
  <2>2. DOMAIN t = {"pc", "plan", "read"} /\ t.pc = "take" /\ t.plan = p /\ t.read = plans[p]
    OBVIOUS
  <2> HIDE DEF t
  <2>3. PlanClient(t, plans, now)
    BY <1>0, <2>1, <2>2 DEF PlanClient, Drafts, Takes, FileOf
  <2>4. QED
    BY <1>0, <2>1, <2>2, <2>3, PlansMove
<1>6. CASE TakePlan(c)
  <2> DEFINE files == [plans EXCEPT ![r.plan] = Gone]
             t == [r EXCEPT !.pc = "accepted"]
  <2>1. r.pc = "take" /\ (Move(c, t) \/ Move(c, Exited)) /\ plans' = files /\ now' = now
    BY <1>6 DEF TakePlan, Is, host
  <2>2. /\ t.pc = "accepted" /\ t.plan = r.plan /\ t.read = r.read
        /\ DOMAIN t = {"pc", "plan", "read"}
    BY <1>0, <2>1 DEF Takes
  <2>3. /\ r.plan \in PlanIds /\ plans[r.plan] \notin {Absent, Empty}
        /\ files[r.plan] = Gone /\ \A p \in PlanIds : p # r.plan => files[p] = plans[p]
    BY <1>0, <2>1 DEF Takes, FileOf
  <2> HIDE DEF t, files
  <2>4. \A x \in Clients : FileOf(client[x], files)
    BY <1>0, <2>3 DEF FileOf, Drafts, Takes
  <2>5. PlanClient(t, files, now)
    BY <1>0, <2>1, <2>2, <2>3 DEF PlanClient, Drafts, Takes, FileOf
  <2>6. \A p \in PlanIds : files[p] \notin {Absent, Empty, Gone} => Written(files[p])
    BY <1>0, <2>3
  <2>7. CASE Move(c, t)
    BY <2>1, <2>2, <2>4, <2>5, <2>6, <2>7, PlansMove
  <2>8. CASE Move(c, Exited)
    BY <1>a, <2>1, <2>4, <2>6, <2>8, PlansMove
  <2>9. QED
    BY <2>1, <2>7, <2>8
<1>7. CASE Resolve(c)
  <2>1. PICK only \in SUBSET r.read.selected :
          Move(c, [Work("execute", only, "Term", Snap) EXCEPT !.issued = r.read.issued])
    BY <1>7 DEF Resolve
  <2> DEFINE t == [Work("execute", only, "Term", Snap) EXCEPT !.issued = r.read.issued]
  <2>2. Move(c, t)
    BY <2>1
  <2>3. t.pc = "next"
    BY DEF Work
  <2>4. plans' = plans /\ now' = now
    BY <1>7 DEF Resolve, host
  <2> HIDE DEF t
  <2>5. PlanClient(t, plans, now)
    BY <2>3 DEF PlanClient, Drafts, Takes, FileOf
  <2>6. QED
    BY <1>0, <2>2, <2>3, <2>4, <2>5, PlansMove
<1>8. QED
  BY <1>1, <1>2, <1>3, <1>4, <1>5, <1>6, <1>7 DEF PlanStep

\* The step with which a client goes on with a plan.
LEMMA GoesOnFresh ==
  ASSUME HostOK, PlanInv, NEW c \in Clients, client[c].pc = "take", NEW x \in Clients,
         PlanStep(x), client'[c].pc = "accepted"
  PROVE  now < client[c].read.issued + PlanTtl
<1> DEFINE r == client[c]
<1>1. x = c
  <2>1. \E t : Move(x, t)
    BY DEF PlanStep, BeginPlan, GcPlans, CreatePlan, FillPlan, ReadPlan, TakePlan, Resolve
  <2>2. QED
    BY <2>1, MovesOne
<1>2. TakePlan(c)
  BY <1>1 DEF PlanStep, BeginPlan, GcPlans, CreatePlan, FillPlan, ReadPlan, Resolve, Is, Starts
<1>3. CASE Expired(r.read.issued)
  <2>1. Move(c, Exited)
    BY <1>2, <1>3 DEF TakePlan
  <2>2. client'[c] = Exited
    BY <2>1, MovesOne
  <2>3. QED
    BY <2>2 DEF Exited
<1>4. CASE ~ Expired(r.read.issued)
  <2>1. r.read.issued \in Nat
    BY DEF PlanInv, PlanClient, Takes, Written
  <2>2. QED
    BY <1>4, <2>1, BarmanConstants DEF Expired, HostOK
<1>5. QED
  BY <1>3, <1>4

\* A plan that is gone stays so: a plan id is new when its file is created.
LEMMA GoneStays ==
  ASSUME HostOK, PlanInv, NEW c \in Clients, PlanStep(c), NEW p \in PlanIds, plans[p] = Gone
  PROVE  plans'[p] = Gone
<1> DEFINE r == client[c]
<1>0. /\ Drafts(r, now) /\ FileOf(r, plans) /\ DOMAIN plans = PlanIds
      /\ Absent # Empty /\ Absent # Gone /\ Empty # Gone
  BY BarmanConstants DEF PlanInv, PlanClient, HostOK
<1>1. CASE plans' = plans
  BY <1>1
<1>2. CASE GcPlans(c)
  <2>1. plans'[p] = IF plans[p] = Empty THEN Gone
                    ELSE IF plans[p] \notin {Absent, Gone} /\ Expired(plans[p].issued) THEN Gone
                    ELSE plans[p]
    BY <1>2 DEF GcPlans
  <2>2. QED
    BY <1>0, <2>1
<1>3. CASE CreatePlan(c)
  <2>1. plans' = [plans EXCEPT ![r.plan] = Empty] /\ plans[r.plan] = Absent
    BY <1>0, <1>3 DEF CreatePlan, Is, FileOf
  <2>2. r.plan # p
    BY <1>0, <2>1
  <2>3. QED
    BY <1>0, <2>1, <2>2
<1>4. CASE FillPlan(c)
  <2> DEFINE new == [issued |-> r.issued, selected |-> r.selected]
  <2>1. plans' = IF plans[r.plan] = Empty THEN [plans EXCEPT ![r.plan] = new] ELSE plans
    BY <1>4 DEF FillPlan
  <2> HIDE DEF new
  <2>2. CASE plans[r.plan] = Empty
    BY <1>0, <2>1, <2>2
  <2>3. QED
    BY <2>1, <2>2
<1>5. CASE TakePlan(c)
  <2>1. plans' = [plans EXCEPT ![r.plan] = Gone]
    BY <1>5 DEF TakePlan
  <2>2. QED
    BY <1>0, <2>1
<1>6. CASE BeginPlan(c) \/ Resolve(c) \/ \E q \in PlanIds : ReadPlan(c, q)
  BY <1>1, <1>6 DEF BeginPlan, Resolve, ReadPlan
<1>7. QED
  BY <1>2, <1>3, <1>4, <1>5, <1>6 DEF PlanStep

\* The invariant of the clients that act.
WorkInv == \A c \in Clients : Acts(client[c], started, now)

\* No client acts at first.
LEMMA WorkInvBegins == ControlInit => WorkInv
<1> SUFFICES ASSUME NEW h \in Scenes, Set(h) PROVE WorkInv
  BY DEF ControlInit
<1>1. \A c \in Clients : client[c].pc = "idle"
  BY DEF Set
<1>2. QED
  BY <1>1 DEF WorkInv, Acts, PruneOK, WorkStages

\* A step of c that leaves it as r, which acts or is at another stage.
LEMMA WorkMoves ==
  ASSUME HostOK, WorkInv, NEW c \in Clients, NEW r, Move(c, r), Acts(r, started, now),
         UNCHANGED <<now, started>>
  PROVE  WorkInv'
<1>1. client'[c] = r /\ \A x \in Clients : x # c => client'[x] = client[x]
  BY MovesOne
<1>2. QED
  BY <1>1 DEF WorkInv

\* A client that makes or takes a plan does not act yet.
LEMMA PlanStepActs ==
  ASSUME HostOK, PlanInv, WorkInv, NEW c \in Clients, PlanStep(c)
  PROVE  WorkInv'
<1> DEFINE r == client[c]
<1>0. Drafts(r, now) /\ Takes(r) /\ now \in Nat /\ started \in [Pids -> Nat]
  BY DEF PlanInv, PlanClient, HostOK
<1>a. UNCHANGED <<now, started>>
  BY DEF PlanStep, BeginPlan, GcPlans, CreatePlan, FillPlan, ReadPlan, TakePlan, Resolve, host
<1>1. ASSUME NEW t, Move(c, t), t.pc \in {"gc", "create", "fill", "take", "accepted", "exited"}
      PROVE  WorkInv'
  <2>1. Acts(t, started, now)
    BY <1>1 DEF Acts, PruneOK, WorkStages
  <2>2. QED
    BY <1>1, <1>a, <2>1, WorkMoves
<1>2. CASE BeginPlan(c)
  <2>1. PICK p : Move(c, [pc |-> "gc", plan |-> p, selected |-> Leftovers(Snap), issued |-> 0])
    BY <1>2 DEF BeginPlan
  <2>2. QED
    BY <1>1, <2>1
<1>3. CASE GcPlans(c)
  <2>1. r.pc = "gc" /\ Move(c, [r EXCEPT !.pc = "create", !.issued = now])
    BY <1>3 DEF GcPlans, Is
  <2>2. [r EXCEPT !.pc = "create", !.issued = now].pc = "create"
    BY <1>0, <2>1 DEF Drafts
  <2>3. QED
    BY <1>1, <2>1, <2>2
<1>4. CASE CreatePlan(c)
  <2>1. r.pc = "create" /\ Move(c, [r EXCEPT !.pc = "fill"])
    BY <1>4 DEF CreatePlan, Is
  <2>2. [r EXCEPT !.pc = "fill"].pc = "fill"
    BY <1>0, <2>1 DEF Drafts
  <2>3. QED
    BY <1>1, <2>1, <2>2
<1>5. CASE Move(c, Exited)
  <2>1. Exited.pc = "exited"
    BY DEF Exited
  <2>2. QED
    BY <1>1, <1>5, <2>1
<1>6. CASE FillPlan(c)
  BY <1>5, <1>6 DEF FillPlan
<1>7. ASSUME NEW p \in PlanIds, ReadPlan(c, p) PROVE WorkInv'
  <2>1. Move(c, [pc |-> "take", plan |-> p, read |-> plans[p]])
    BY <1>7 DEF ReadPlan
  <2>2. QED
    BY <1>1, <2>1
<1>8. CASE TakePlan(c)
  <2>1. r.pc = "take" /\ (Move(c, Exited) \/ Move(c, [r EXCEPT !.pc = "accepted"]))
    BY <1>8 DEF TakePlan, Is
  <2>2. [r EXCEPT !.pc = "accepted"].pc = "accepted"
    BY <1>0, <2>1 DEF Takes
  <2>3. QED
    BY <1>1, <1>5, <2>1, <2>2
<1>9. CASE Resolve(c)
  <2>1. PICK only \in SUBSET r.read.selected :
          Move(c, [Work("execute", only, "Term", Snap) EXCEPT !.issued = r.read.issued])
    BY <1>9 DEF Resolve
  <2> DEFINE t == [Work("execute", only, "Term", Snap) EXCEPT !.issued = r.read.issued]
  <2>2. Selectable(only, r.read.issued)
    BY <1>0, <1>9 DEF Resolve, Is, Takes, Written, Selectable
  <2>3. Begun(t, "execute", only) /\ t.pc = "next" /\ t.issued = r.read.issued
    BY DEF Work, Begun, Fields
  <2>4. Move(c, t)
    BY <2>1
  <2> HIDE DEF t
  <2>5. WorkOK(t, started, now) /\ Ready(t)
    BY <1>0, <2>2, <2>3, BegunWorks
  <2>6. Acts(t, started, now)
    BY <2>3, <2>5 DEF Acts, PruneOK
  <2>7. QED
    BY <1>a, <2>4, <2>6, WorkMoves
<1>10. QED
  BY <1>2, <1>3, <1>4, <1>6, <1>7, <1>8, <1>9 DEF PlanStep

-----------------------------------------------------------------------------

\* A request that confirms the cancel of a run.
Confirms(r) ==
  r.pc \in {"recheck", "remove", "send"} =>
    /\ DOMAIN r = {"pc", "id", "run", "late"} /\ <<r.id, r.run>> \in shown
    /\ r.pc = "recheck" => r.run \in Runs /\ (r.late => Terminal(r.run))
    /\ r.pc # "recheck" => ~ r.late

\* Only asked for by who may.
MayAsk(t) ==
  /\ "id" \in DOMAIN t.by => <<t.by.id, t.run>> \in shown /\ ~ t.by.late
  /\ "mcp" \in DOMAIN t.by => t.by.mcp \in AllowRun

\* The invariant of the gates: a confirm under way is for a run that was shown under the id
\* it names, and no later step of it began after the run had finished.
GateInv ==
  /\ run \in [Runs -> RunStates] /\ starter \in [Runs -> {"cli"} \cup AllowRun]
  /\ DOMAIN request = Requests
  /\ \A q \in Requests : Confirms(request[q])
  /\ \A x \in DOMAIN proposals :
       proposals[x].kind = "cancel_run" => <<x, proposals[x].run>> \in shown
  /\ \A t \in told : MayAsk(t)

\* Nothing is proposed or asked for at first.
LEMMA GateBegins == ControlInit => GateInv
<1> SUFFICES ASSUME NEW h \in Scenes, SetWeb(h) PROVE GateInv
  BY DEF ControlInit
<1>1. h.run \in [Runs -> RunStates]
  BY WebConstants
<1>2. \A q \in Requests : request[q].pc \in {"wait", "answered"}
  BY DEF SetWeb, Answered
<1>3. \A q \in Requests : Confirms(request[q])
  BY <1>2 DEF Confirms
<1>4. /\ run = h.run /\ starter = [i \in Runs |-> "cli"] /\ DOMAIN request = Requests
      /\ DOMAIN proposals = {} /\ told = {}
  BY DEF SetWeb
<1>5. QED
  BY <1>1, <1>3, <1>4 DEF GateInv

\* The gates when runs only go on and the connections stay, but for one that now is r.
LEMMA GateMoves ==
  ASSUME GateInv, NEW q, NEW r, Go(q, r), run' \in [Runs -> RunStates], starter' = starter,
         \A i \in Runs : Terminal(i) => Terminal(i)',
         shown \subseteq shown', Confirms(r)',
         \A x \in DOMAIN proposals' :
           proposals'[x].kind = "cancel_run" => <<x, proposals'[x].run>> \in shown',
         \A t \in told' : t \in told \/ MayAsk(t)'
  PROVE  GateInv'
<1>1. DOMAIN request' = Requests /\ \A x \in Requests :
        request'[x] = request[x] \/ request'[x] = r
  BY DEF GateInv, Go
<1>2. ASSUME NEW x, Confirms(x) PROVE Confirms(x)'
  BY <1>2 DEF Confirms
<1>3. \A x \in Requests : Confirms(request[x])'
  BY <1>1, <1>2 DEF GateInv
<1>4. \A t \in told : MayAsk(t)'
  BY DEF GateInv, MayAsk
<1>5. starter' \in [Runs -> {"cli"} \cup AllowRun]
  BY DEF GateInv
<1>6. QED
  BY <1>1, <1>3, <1>4, <1>5 DEF GateInv

\* Supervisor::cancel moves a run forward or leaves it.
LEMMA CancelSettles ==
  ASSUME GateInv, NEW who, NEW i, Ask(who, i)
  PROVE  /\ run' \in [Runs -> RunStates]
         /\ \A j \in Runs : Terminal(j) => Terminal(j)'
         /\ \A t \in told' : t \in told \/ (t.by = who /\ t.run = i)
<1>1. \A j \in Runs : run[j] \in RunStates
  BY DEF GateInv
<1>2. i \in Runs =>
        Cancelled(i) \in RunStates /\ (run[i] = "finished" => Cancelled(i) = "finished")
  BY <1>1 DEF Cancelled, RunStates
<1>3. run' = [run EXCEPT ![i] = Cancelled(i)] /\ told' = told \cup {[by |-> who, run |-> i]}
  BY DEF Ask
<1>4. run' \in [Runs -> RunStates] /\ \A j \in Runs : Terminal(j) => Terminal(j)'
  BY <1>2, <1>3 DEF GateInv, Terminal
<1>5. QED
  BY <1>3, <1>4

\* The runs and their supervisor, and the tools of an MCP connection, keep the gates.
LEMMA RunsMoveGated ==
  ASSUME GateInv, RunsMove
  PROVE  GateInv'
<1>1. ASSUME run' \in [Runs -> RunStates], starter' \in [Runs -> {"cli"} \cup AllowRun],
             \A i \in Runs : Terminal(i) => Terminal(i)',
             UNCHANGED <<shown, request, proposals>>,
             \A t \in told' : t \in told \/ MayAsk(t)'
      PROVE  GateInv'
  <2>1. ASSUME NEW x, Confirms(x) PROVE Confirms(x)'
    BY <1>1, <2>1 DEF Confirms
  <2>2. \A x \in Requests : Confirms(request[x])'
    BY <1>1, <2>1 DEF GateInv
  <2>3. \A t \in told : MayAsk(t)'
    BY <1>1 DEF GateInv, MayAsk
  <2>4. QED
    BY <1>1, <2>2, <2>3 DEF GateInv
<1>2. ASSUME NEW i \in Runs, RunMoves(i) PROVE GateInv'
  <2>1. /\ run' \in [Runs -> RunStates] /\ \A j \in Runs : Terminal(j) => Terminal(j)'
    BY <1>2 DEF RunMoves, GateInv, RunStates, Terminal
  <2>2. UNCHANGED <<starter, shown, request, proposals, told>>
    BY <1>2 DEF RunMoves
  <2>3. QED
    BY <1>1, <2>1, <2>2 DEF GateInv
<1>3. CASE SupervisorStops
  <2>1. UNCHANGED <<run, starter, shown, request, proposals, told>>
    BY <1>3 DEF SupervisorStops
  <2>2. QED
    BY <1>1, <2>1 DEF GateInv, Terminal
<1>4. CASE SupervisorStarts
  <2>1. UNCHANGED <<starter, shown, request, proposals, told>>
    BY <1>4 DEF SupervisorStarts
  <2>2. run' \in [Runs -> RunStates] /\ \A j \in Runs : Terminal(j) => Terminal(j)'
    BY <1>4 DEF SupervisorStarts, GateInv, RunStates, Terminal
  <2>3. QED
    BY <1>1, <2>1, <2>2 DEF GateInv
<1>5. ASSUME NEW m \in Mcps, NEW i \in Runs, McpStart(m, i) PROVE GateInv'
  <2>1. UNCHANGED <<shown, request, proposals, told>>
    BY <1>5 DEF McpStart
  <2>2. m \in AllowRun /\ run[i] = "absent" /\ run' = [run EXCEPT ![i] = "queued"]
        /\ starter' = [starter EXCEPT ![i] = m]
    BY <1>5 DEF McpStart, Gate
  <2>3. run' \in [Runs -> RunStates] /\ \A j \in Runs : Terminal(j) => Terminal(j)'
    BY <2>2 DEF GateInv, RunStates, Terminal
  <2>4. starter' \in [Runs -> {"cli"} \cup AllowRun]
    BY <2>2 DEF GateInv
  <2>5. QED
    BY <1>1, <2>1, <2>3, <2>4
<1>6. ASSUME NEW m \in Mcps, NEW i \in Runs, McpCancel(m, i) PROVE GateInv'
  <2>1. /\ UNCHANGED <<starter, shown, request, proposals>>
        /\ m \in AllowRun /\ Ask([mcp |-> m], i)
    BY <1>6 DEF McpCancel, Gate
  <2>2. /\ run' \in [Runs -> RunStates] /\ \A j \in Runs : Terminal(j) => Terminal(j)'
        /\ \A t \in told' : t \in told \/ (t.by = [mcp |-> m] /\ t.run = i)
    BY <2>1, CancelSettles
  <2>3. \A t \in told' : t \in told \/ MayAsk(t)'
    BY <2>1, <2>2 DEF MayAsk
  <2>4. QED
    BY <1>1, <2>1, <2>2, <2>3 DEF GateInv
<1>7. QED
  BY <1>2, <1>3, <1>4, <1>5, <1>6 DEF RunsMove

\* Every request to the web server keeps the gates.
LEMMA RequestsGated ==
  ASSUME GateInv, NEW q \in Requests,
         RunRequest(q) \/ CleanupRequest(q) \/ HostRequest(q) \/ Refused(q)
  PROVE  GateInv'
<1> DEFINE r == request[q]
<1>0. /\ Confirms(r)
      /\ \A x \in DOMAIN proposals :
           proposals[x].kind = "cancel_run" => <<x, proposals[x].run>> \in shown
      /\ run \in [Runs -> RunStates]
  BY DEF GateInv
<1>1. ASSUME NEW t, Go(q, t), UNCHANGED <<run, starter, shown, proposals, told>>, Confirms(t)
      PROVE  GateInv'
  <2>1. Confirms(t)'
    BY <1>1 DEF Confirms, Terminal
  <2>2. \A i \in Runs : Terminal(i) => Terminal(i)'
    BY <1>1 DEF Terminal
  <2>3. QED
    BY <1>0, <1>1, <2>1, <2>2, GateMoves
<1>2. ASSUME NEW t, Go(q, t), UNCHANGED <<run, starter, shown, proposals, told>>,
             t.pc \notin {"recheck", "remove", "send"}
      PROVE  GateInv'
  BY <1>1, <1>2 DEF Confirms
<1>a. Answered.pc \notin {"recheck", "remove", "send"}
  BY DEF Answered
<1>3. ASSUME NEW i \in Runs, ProposeCancel(q, i) PROVE GateInv'
  <2> DEFINE t == [pc |-> "insert", run |-> i, state |-> run[i]]
  <2>1. Go(q, t) /\ UNCHANGED <<run, starter, shown, proposals, told>>
    BY <1>3 DEF ProposeCancel, webOnly
  <2>2. t.pc = "insert"
    OBVIOUS
  <2> HIDE DEF t
  <2>3. QED
    BY <1>2, <2>1, <2>2
<1>4. ASSUME NEW i \in Runs, NEW id, ConfirmCancel(q, id, i) PROVE GateInv'
  <2> DEFINE t == [pc |-> "recheck", id |-> id, run |-> i, late |-> Terminal(i)]
  <2>1. /\ UNCHANGED <<run, starter, shown, proposals, told>>
        /\ \/ Go(q, Answered)
           \/ /\ id \in DOMAIN proposals /\ proposals[id].kind = "cancel_run"
              /\ proposals[id].run = i /\ Go(q, t)
    BY <1>4 DEF ConfirmCancel, webOnly
  <2>2. /\ DOMAIN t = {"pc", "id", "run", "late"} /\ t.pc = "recheck" /\ t.id = id /\ t.run = i
    OBVIOUS
  <2>3. t.late <=> Terminal(i)
    BY Zenon DEF Terminal
  <2> HIDE DEF t
  <2>4. CASE /\ id \in DOMAIN proposals /\ proposals[id].kind = "cancel_run"
             /\ proposals[id].run = i
    <3>1. Confirms(t)
      BY <1>0, <1>4, <2>2, <2>3, <2>4 DEF Confirms
    <3>2. QED
      BY <1>1, <1>2, <1>a, <2>1, <3>1
  <2>5. QED
    BY <1>2, <1>a, <2>1, <2>4
<1>5. CASE InsertCancel(q)
  <2> DEFINE i == r.run
             id == <<"run", i, now>>
             new == CancelProposal(i, r.state)
  <2>1. /\ proposals' = [x \in DOMAIN proposals \cup {id} |->
                          IF x = id THEN new ELSE proposals[x]]
        /\ shown' = shown \cup {<<id, i>>}
        /\ Go(q, Answered)
        /\ run' = run /\ starter' = starter /\ told' = told
    BY <1>5 DEF InsertCancel
  <2>2. new.run = i
    BY DEF CancelProposal
  <2> HIDE DEF new, id
  <2>3. \A x \in DOMAIN proposals' :
          proposals'[x].kind = "cancel_run" => <<x, proposals'[x].run>> \in shown'
    BY <1>0, <2>1, <2>2
  <2>4. Confirms(Answered)'
    BY <1>a DEF Confirms
  <2>5. \A j \in Runs : Terminal(j) => Terminal(j)'
    BY <2>1 DEF Terminal
  <2>6. QED
    BY <1>0, <2>1, <2>3, <2>4, <2>5, GateMoves
<1>6. CASE Recheck(q)
  <2> DEFINE t == [r EXCEPT !.pc = "remove"]
  <2>1. /\ r.pc = "recheck" /\ UNCHANGED <<run, starter, shown, proposals, told>>
        /\ Go(q, Answered) \/ (~ Terminal(r.run) /\ Go(q, t))
    BY <1>6 DEF Recheck, At, webOnly
  <2>2. /\ DOMAIN t = {"pc", "id", "run", "late"} /\ t.pc = "remove" /\ t.id = r.id
        /\ t.run = r.run /\ t.late = r.late
    BY <1>0, <2>1 DEF Confirms
  <2> HIDE DEF t
  <2>3. ~ Terminal(r.run) => Confirms(t)
    BY <1>0, <2>1, <2>2 DEF Confirms
  <2>4. QED
    BY <1>1, <1>2, <1>a, <2>1, <2>3
<1>7. CASE RemoveProposal(q)
  <2>1. /\ r.pc = "remove" /\ UNCHANGED <<run, starter, shown, told>>
        /\ Go(q, [r EXCEPT !.pc = "send"])
        /\ proposals' = [x \in DOMAIN proposals \ {r.id} |-> proposals[x]]
    BY <1>7 DEF RemoveProposal, At
  <2> PICK t : t = [r EXCEPT !.pc = "send"]
    OBVIOUS
  <2>2. /\ Go(q, t) /\ DOMAIN t = {"pc", "id", "run", "late"} /\ t.pc = "send" /\ t.id = r.id
        /\ t.run = r.run /\ t.late = r.late
    BY <1>0, <2>1 DEF Confirms
  <2>3. Confirms(t)'
    BY <1>0, <2>1, <2>2 DEF Confirms
  <2>4. \A x \in DOMAIN proposals' :
          proposals'[x].kind = "cancel_run" => <<x, proposals'[x].run>> \in shown'
    BY <1>0, <2>1
  <2>5. \A j \in Runs : Terminal(j) => Terminal(j)'
    BY <2>1 DEF Terminal
  <2>6. QED
    BY <1>0, <2>1, <2>2, <2>3, <2>4, <2>5, GateMoves
<1>8. CASE SendCancel(q)
  <2>1. /\ r.pc = "send" /\ UNCHANGED <<starter, shown, proposals>> /\ Go(q, Answered)
        /\ Ask(r, r.run) \/ UNCHANGED <<run, told>>
    BY <1>8 DEF SendCancel, At
  <2>2. CASE UNCHANGED <<run, told>>
    BY <1>2, <1>a, <2>1, <2>2
  <2>3. CASE Ask(r, r.run)
    <3>1. /\ run' \in [Runs -> RunStates]
          /\ \A j \in Runs : Terminal(j) => Terminal(j)'
          /\ \A t \in told' : t \in told \/ (t.by = r /\ t.run = r.run)
      BY <2>3, CancelSettles
    <3>2. DOMAIN r = {"pc", "id", "run", "late"} /\ <<r.id, r.run>> \in shown /\ ~ r.late
      BY <1>0, <2>1 DEF Confirms
    <3>3. \A t : t.by = r /\ t.run = r.run => MayAsk(t)'
      BY <2>1, <3>2 DEF MayAsk
    <3>4. Confirms(Answered)'
      BY <1>a DEF Confirms
    <3>5. QED
      BY <1>0, <2>1, <3>1, <3>3, <3>4, GateMoves
  <2>4. QED
    BY <2>1, <2>2, <2>3
<1>9. ASSUME NEW scope, NEW target, ProposeCleanup(q, scope, target) PROVE GateInv'
  <2> DEFINE id == <<"prop", SnapshotVersion, now>>
             new == CleanupProposal(published, scope, target)
  <2>1. /\ proposals' = [x \in DOMAIN proposals \cup {id} |->
                          IF x = id THEN new ELSE proposals[x]]
        /\ Go(q, Answered) /\ UNCHANGED <<run, starter, shown, told>>
    BY <1>9 DEF ProposeCleanup
  <2>2. new.kind = "cleanup"
    BY DEF CleanupProposal
  <2> HIDE DEF new, id
  <2>3. \A x \in DOMAIN proposals' :
          proposals'[x].kind = "cancel_run" => <<x, proposals'[x].run>> \in shown'
    BY <1>0, <2>1, <2>2
  <2>4. Confirms(Answered)'
    BY <1>a DEF Confirms
  <2>5. \A j \in Runs : Terminal(j) => Terminal(j)'
    BY <2>1 DEF Terminal
  <2>6. QED
    BY <1>0, <2>1, <2>3, <2>4, <2>5, GateMoves
<1>10. ASSUME NEW id, NEW v, ConfirmCleanup(q, id, v) PROVE GateInv'
  <2> DEFINE t == [pc |-> "confirmed", selected |-> proposals[id].selected, of |-> published]
  <2>1. (Go(q, Answered) \/ Go(q, t)) /\ UNCHANGED <<run, starter, shown, proposals, told>>
    BY <1>10 DEF ConfirmCleanup, webOnly
  <2>2. t.pc = "confirmed"
    OBVIOUS
  <2> HIDE DEF t
  <2>3. QED
    BY <1>2, <1>a, <2>1, <2>2
<1>11. CASE HostRequest(q) \/ Refused(q)
  <2>1. \E t : Go(q, t) /\ t.pc \in {"kill", "signal", "killed", "answered"}
    <3>1. ASSUME NEW p, NEW signal, KillRequest(q, p, signal)
          PROVE  \E t : Go(q, t) /\ t.pc \in {"kill", "signal", "killed", "answered"}
      BY <3>1 DEF KillRequest
    <3>2. CASE KillRefresh(q)
      BY <3>2 DEF KillRefresh, Answered
    <3>3. CASE KillSignal(q)
      BY <3>3 DEF KillSignal
    <3>4. CASE Refused(q) \/ PruneRequest(q) \/ \E d, action : DockerRequest(q, d, action)
      <4>1. Go(q, Answered) /\ Answered.pc = "answered"
        BY <3>4 DEF Refused, PruneRequest, DockerRequest, Answered
      <4>2. QED
        BY <4>1
    <3>5. QED
      BY <1>11, <3>1, <3>2, <3>3, <3>4 DEF HostRequest
  <2>2. UNCHANGED <<run, starter, shown, proposals, told>>
    BY <1>11 DEF HostRequest, KillRequest, KillRefresh, KillSignal, DockerRequest, PruneRequest,
       Refused, webOnly
  <2>3. QED
    BY <1>2, <2>1, <2>2
<1>12. QED
  BY <1>3, <1>4, <1>5, <1>6, <1>7, <1>8, <1>9, <1>10, <1>11 DEF RunRequest, CleanupRequest

\* A kill request after its re-check saw a process that passes for the published one.
Kills(r) ==
  /\ r.pc = "kill" => r.id.start = Reading(r.id.pid, r.was)
  /\ r.pc = "signal" => PassesFor(r.id.pid, r.saw, r.was)
  /\ r.pc = "killed" /\ r.got # 0 => PassesFor(r.pid, r.got, r.was) \/ r.got # r.saw

\* The invariant of the kill requests.
KillInv == \A q \in Requests : Kills(request[q])

\* Every step keeps it.
LEMMA KillAlways ==
  ASSUME GateInv, KillInv, [ControlNext]_controlVars
  PROVE  KillInv'
<1>0. DOMAIN request = Requests
  BY DEF GateInv
<1>1. CASE request' = request
  BY <1>1 DEF KillInv
<1>2. ASSUME NEW q \in Requests, NEW t, Go(q, t), Kills(t) PROVE KillInv'
  <2>1. \A x \in Requests : request'[x] = t \/ request'[x] = request[x]
    BY <1>0, <1>2 DEF Go
  <2>2. QED
    BY <1>2, <2>1 DEF KillInv
<1>3. ASSUME NEW q \in Requests, NEW t, Go(q, t),
             t.pc \notin {"kill", "signal", "killed"}
      PROVE KillInv'
  BY <1>2, <1>3 DEF Kills
<1>4. ASSUME NEW q \in Requests, Go(q, Answered) PROVE KillInv'
  BY <1>3, <1>4 DEF Answered
<1>5. ASSUME NEW q \in Requests, RunRequest(q) PROVE KillInv'
  <2>1. ASSUME NEW i, ProposeCancel(q, i) PROVE KillInv'
    BY <1>3, <2>1 DEF ProposeCancel
  <2>2. ASSUME NEW i, NEW id, ConfirmCancel(q, id, i) PROVE KillInv'
    BY <1>3, <1>4, <2>2 DEF ConfirmCancel
  <2>3. ASSUME NEW pc \in {"remove", "send"}, request[q].pc \in {"recheck", "remove"},
               Go(q, [request[q] EXCEPT !.pc = pc])
        PROVE  KillInv'
    <3>1. DOMAIN request[q] = {"pc", "id", "run", "late"}
      BY <2>3 DEF GateInv, Confirms
    <3>2. [request[q] EXCEPT !.pc = pc].pc = pc
      BY <3>1
    <3>3. QED
      BY <1>3, <2>3, <3>2
  <2>4. QED
    BY <1>4, <1>5, <2>1, <2>2, <2>3
       DEF RunRequest, InsertCancel, Recheck, RemoveProposal, SendCancel, At
<1>6. ASSUME NEW q \in Requests, CleanupRequest(q) PROVE KillInv'
  <2>1. ASSUME NEW id, NEW v, ConfirmCleanup(q, id, v) PROVE KillInv'
    BY <1>3, <1>4, <2>1 DEF ConfirmCleanup
  <2>2. QED
    BY <1>4, <1>6, <2>1 DEF CleanupRequest, ProposeCleanup
<1>7. ASSUME NEW q \in Requests, HostRequest(q) PROVE KillInv'
  <2>1. ASSUME NEW p, NEW signal, KillRequest(q, p, signal) PROVE KillInv'
    <3> DEFINE t == [pc |-> "kill", id |-> [pid |-> p, start |-> StartOf(published, p)],
                     signal |-> signal, was |-> published.started[p]]
    <3>1. Go(q, t)
      BY <2>1 DEF KillRequest
    <3>2. Kills(t)
      BY DEF Kills, StartOf
    <3> HIDE DEF t
    <3>3. QED
      BY <1>2, <3>1, <3>2
  <2>2. CASE KillRefresh(q)
    <3> DEFINE i == request[q].id
               t == [pc |-> "signal", id |-> i, signal |-> request[q].signal,
                     was |-> request[q].was, saw |-> started[i.pid]]
    <3>1. Go(q, Answered) \/ (IdentityHolds(i) /\ Go(q, t))
      BY <2>2 DEF KillRefresh
    <3>2. i.start = Reading(i.pid, request[q].was)
      BY <2>2 DEF KillRefresh, At, KillInv, Kills
    <3>3. ASSUME IdentityHolds(i) PROVE PassesFor(i.pid, started[i.pid], request[q].was)
      <4>1. CASE 0 \in {i.start, Reading(i.pid, started[i.pid])}
        BY <3>2, <4>1 DEF PassesFor
      <4>2. CASE i.start = Reading(i.pid, started[i.pid])
        BY <3>2, <4>2, ReadingIs
      <4>3. QED
        BY <3>3, <4>1, <4>2 DEF IdentityHolds
    <3>4. t.pc = "signal" /\ t.id = i /\ t.was = request[q].was /\ t.saw = started[i.pid]
      OBVIOUS
    <3> HIDE DEF t, i
    <3>5. IdentityHolds(i) => Kills(t)
      BY <3>3, <3>4 DEF Kills
    <3>6. QED
      BY <1>2, <1>4, <3>1, <3>5
  <2>3. CASE KillSignal(q)
    <3> DEFINE k == request[q]
    <3>1. PICK n : Go(q, [pc |-> "killed", pid |-> k.id.pid, was |-> k.was, saw |-> k.saw,
                          got |-> n])
      BY <2>3 DEF KillSignal
    <3> DEFINE t == [pc |-> "killed", pid |-> k.id.pid, was |-> k.was, saw |-> k.saw, got |-> n]
    <3>2. PassesFor(k.id.pid, k.saw, k.was)
      BY <2>3 DEF KillSignal, At, KillInv, Kills
    <3> HIDE DEF k
    <3>3. Kills(t)
      BY <3>2 DEF Kills
    <3> HIDE DEF t
    <3>4. Go(q, t)
      BY <3>1 DEF t, k
    <3>5. QED
      BY <1>2, <3>3, <3>4
  <2>4. CASE PruneRequest(q) \/ \E d, action : DockerRequest(q, d, action)
    <3>1. Go(q, Answered)
      BY <2>4 DEF PruneRequest, DockerRequest
    <3>2. QED
      BY <1>4, <3>1
  <2>5. QED
    BY <1>7, <2>1, <2>2, <2>3, <2>4 DEF HostRequest
<1>8. CASE RunsMove
  <2>1. request' = request
    BY <1>8 DEF RunsMove, RunMoves, SupervisorStops, SupervisorStarts, McpStart, McpCancel
  <2>2. QED
    BY <1>1, <2>1
<1>9. QED
  BY <1>1, <1>4, <1>5, <1>6, <1>7, <1>8
     DEF ControlNext, WebNext, Publish, Refused, webVars, controlVars

\* Every step keeps the gates.
LEMMA GateAlways ==
  ASSUME GateInv, [ControlNext]_controlVars
  PROVE  GateInv'
<1>1. CASE UNCHANGED webVars
  BY <1>1 DEF GateInv, Confirms, MayAsk, Terminal, webVars
<1>2. CASE Publish
  BY <1>2 DEF Publish, webOnly, GateInv, Confirms, MayAsk, Terminal
<1>3. QED
  BY <1>1, <1>2, RunsMoveGated, RequestsGated DEF ControlNext, WebNext, controlVars

\* The inductive invariant of the whole.
ControlInv == HostOK /\ PlanInv /\ WorkInv /\ GateInv /\ KillInv

\* It holds at first ...
LEMMA ControlBegins == ControlInit => ControlInv
<1> SUFFICES ASSUME ControlInit PROVE ControlInv
  OBVIOUS
<1>1. KillInv
  <2>1. \A q \in Requests : request[q].pc \in {"wait", "answered"}
    BY DEF ControlInit, SetWeb, Answered
  <2>2. QED
    BY <2>1 DEF KillInv, Kills
<1>2. QED
  BY <1>1, HostBegins, PlansBegin, WorkInvBegins, GateBegins DEF ControlInv

\* A client that acts, at a step that is one of its own or another's.
LEMMA ActingStep ==
  ASSUME ItemsNest, IsFiniteSet(Pids), ControlInv, NEW c \in Clients,
         ActionBegins(c) \/ WorkStep(c)
  PROVE  ActsAfter(c)
  BY BeginsActing, KeepsActing DEF ControlInv, WorkInv

\* ... every step keeps it ...
LEMMA ControlAlways ==
  ASSUME ItemsNest, IsFiniteSet(Pids), ControlInv, [ControlNext]_controlVars
  PROVE  ControlInv'
<1>1. HostOK /\ PlanInv /\ WorkInv /\ GateInv /\ KillInv
  BY DEF ControlInv
<1>2. HostOK' /\ GateInv' /\ KillInv'
  BY <1>1, HostAlways, GateAlways, KillAlways
<1>a. ASSUME NEW c \in Clients PROVE Acts(client[c], started', now')
  <2>1. Acts(client[c], started, now)
    BY <1>1 DEF WorkInv
  <2>2. QED
    BY <1>1, <2>1, StartsAge, ActsStays
<1>3. CASE client' = client /\ plans' = plans /\ now' \in Nat /\ now <= now'
  <2>1. PlanInv'
    BY <1>1, <1>3, PlansStay
  <2>2. WorkInv'
    BY <1>1, <1>3, <1>a DEF WorkInv
  <2>3. QED
    BY <1>2, <2>1, <2>2 DEF ControlInv
<1>4. ASSUME NEW c \in Clients, PlanStep(c) PROVE ControlInv'
  BY <1>1, <1>2, <1>4, PlanStepKeeps, PlanStepActs DEF ControlInv
<1>5. ASSUME NEW c \in Clients, ActionBegins(c) \/ WorkStep(c) PROVE ControlInv'
  <2>1. ActsAfter(c)
    BY <1>5, ActingStep
  <2>2. WorkInv'
    BY <1>a, <2>1 DEF WorkInv, ActsAfter
  <2>3. now' \in Nat /\ now <= now' /\ plans' = plans
    BY <1>1, <2>1 DEF ActsAfter, HostOK
  <2>4. PlanInv'
    BY <1>1, <2>1, <2>3, PlansStay
  <2>5. QED
    BY <1>2, <2>2, <2>4 DEF ControlInv
<1>6. QED
  BY <1>1, <1>3, <1>4, <1>5, StepsAre

\* ... and so it always holds.
LEMMA ControlHolds ==
  ASSUME ItemsNest, IsFiniteSet(Pids)
  PROVE  ControlSpec => []ControlInv
<1>1. ControlInit => ControlInv
  BY ControlBegins
<1>2. ControlInv /\ [ControlNext]_controlVars => ControlInv'
  BY ControlAlways
<1>3. QED
  BY <1>1, <1>2, PTL DEF ControlSpec, ControlInit

\* A signal reaches a process of a chain that was asked for, of a plan none that is known
\* to have started since, and of a kill request the published one, unless the pid passed on
\* between the refresh of send and the signal or one of the start times is unknown: for
\* any host, number of clients and order of their steps (find_item_by_id, identities_for,
\* identity_holds, kill_response).
THEOREM IdentityIsActedOn ==
  ASSUME ItemsNest, IsFiniteSet(Pids)
  PROVE  ControlSpec => []ActsOnIdentity
<1>1. ControlInv => ActsOnIdentity
  <2> SUFFICES ASSUME ControlInv PROVE ActsOnIdentity
    OBVIOUS
  <2>1. \A c \in Clients : Working(c) => WorkOK(client[c], started, now)
    BY DEF ControlInv, WorkInv, Acts, Working, WorkStages
  <2>2. AskedOnly
    BY <2>1, WorkGives DEF AskedOnly
  <2>3. NothingNewer
    BY <2>1, WorkGives DEF NothingNewer
  <2>4. KillsPublished
    BY DEF ControlInv, KillInv, Kills, KillsPublished, At
  <2>5. BarmanTypeOK
    <3>1. HostOK
      BY DEF ControlInv
    <3>2. started \in [Pids -> 0 .. MaxNow]
      BY <3>1, BarmanConstants DEF HostOK
    <3>3. \A c \in Clients : Working(c) => client[c].left \subseteq client[c].asked
                                         /\ client[c].failed \subseteq client[c].asked
      BY <2>1 DEF WorkOK, AskedOK
    <3> QED BY <3>1, <3>2, <3>3 DEF HostOK, EngineStates, BarmanTypeOK
  <2>6. QED
    BY <2>2, <2>3, <2>4, <2>5 DEF ActsOnIdentity
<1>2. QED
  BY <1>1, ControlHolds, PTL

\* Of what a client reports as done it left out no process that its snapshot saw and that
\* is still there; of a group it reports the members as done only together.  Nothing is
\* reported both ways, no plan removes a volume, and a prune none with a name of its own
\* (send, signal_report, act_group, docker_artifact_resource, DockerResource::prunable).
THEOREM ActionsAlwaysHonest ==
  ASSUME ItemsNest, IsFiniteSet(Pids)
  PROVE  ControlSpec => []ActionsHonest
<1>1. ControlInv => ActionsHonest
  <2> SUFFICES ASSUME ControlInv PROVE ActionsHonest
    OBVIOUS
  <2>1. \A c \in Clients : Acts(client[c], started, now)
    BY DEF ControlInv, WorkInv
  <2>2. \A c \in Clients : Working(c) => WorkOK(client[c], started, now)
    BY <2>1 DEF Acts, Working, WorkStages
  <2>3. ReportHonest
    BY <2>2, WorkGives DEF ReportHonest
  <2>4. VolumesKept
    BY <2>1, <2>2, WorkGives DEF VolumesKept, Acts, PruneOK, Is
  <2>5. QED
    BY <2>3, <2>4 DEF ActionsHonest
<1>2. QED
  BY <1>1, ControlHolds, PTL

\* A plan an execute goes on with is younger than PLAN_TTL_SECS and its file is gone and
\* never comes back, so no execute that starts later can read it.  Of those that
\* read it before it was removed each goes on (take_plan).
THEOREM PlansAlwaysOnce ==
  ASSUME ItemsNest, IsFiniteSet(Pids)
  PROVE  ControlSpec => PlansOnce
<1> DEFINE Fresh == \A c \in Clients : Is(c, "take") /\ client'[c].pc = "accepted" =>
                      now < client[c].read.issued + PlanTtl
           Spent == \A p \in PlanIds : plans[p] = Gone => plans'[p] = Gone
<1>1. ControlInv => PlanConsumed
  BY DEF ControlInv, PlanInv, PlanClient, FileOf, PlanConsumed, Is
<1>2. ControlInv /\ [ControlNext]_controlVars => [Fresh]_barmanVars
  <2> SUFFICES ASSUME ControlInv, [ControlNext]_controlVars,
                      NEW c \in Clients, client[c].pc = "take", client'[c].pc = "accepted"
               PROVE  now < client[c].read.issued + PlanTtl
    BY DEF Is
  <2>1. HostOK /\ PlanInv
    BY DEF ControlInv
  <2>2. ASSUME NEW x \in Clients, ActsAfter(x) PROVE FALSE
    BY <2>2 DEF ActsAfter, WorkStages
  <2>3. \E x \in Clients : PlanStep(x)
    BY <2>1, <2>2, StepsAre, ActingStep
  <2>4. QED
    BY <2>1, <2>3, GoesOnFresh
<1>3. ControlInv /\ [ControlNext]_controlVars => [Spent]_barmanVars
  <2> SUFFICES ASSUME ControlInv, [ControlNext]_controlVars, NEW p \in PlanIds, plans[p] = Gone
               PROVE  plans'[p] = Gone
    OBVIOUS
  <2>1. HostOK /\ PlanInv
    BY DEF ControlInv
  <2>2. CASE plans' = plans
    BY <2>2
  <2>3. ASSUME NEW x \in Clients, ActsAfter(x) PROVE plans'[p] = Gone
    BY <2>2, <2>3 DEF ActsAfter
  <2>4. ASSUME NEW x \in Clients, PlanStep(x) PROVE plans'[p] = Gone
    BY <2>1, <2>4, GoneStays
  <2>5. QED
    BY <2>1, <2>2, <2>3, <2>4, StepsAre, ActingStep
<1>4. QED
  BY <1>1, <1>2, <1>3, ControlHolds, PTL DEF PlansOnce, PlanSpent, PlanFresh, ControlSpec

\* The web cancels only runs it showed a proposal for and that had not finished when the
\* confirm came, MCP starts and cancels only with --allow-run (run_cancel_response,
\* run_tool).
THEOREM RunsAlwaysGated == ControlSpec => []RunsAreGated
<1>1. GateInv => RunsAreGated
  <2> SUFFICES ASSUME GateInv PROVE RunsAreGated
    OBVIOUS
  <2>1. CancelWasShown
    BY DEF GateInv, MayAsk, CancelWasShown
  <2>2. RunToolsGated
    BY WebConstants DEF GateInv, MayAsk, RunToolsGated
  <2>3. QED
    BY <2>1, <2>2 DEF RunsAreGated
<1>2. ControlInit => GateInv
  BY GateBegins
<1>3. GateInv /\ [ControlNext]_controlVars => GateInv'
  BY GateAlways
<1>4. QED
  BY <1>1, <1>2, <1>3, PTL DEF ControlSpec, ControlInit
=============================================================================
