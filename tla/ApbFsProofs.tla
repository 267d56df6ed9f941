---------------------------- MODULE ApbFsProofs ----------------------------
(***************************************************************************)
(* Theorems about ApbFs, for every number of packets, volumes, requests    *)
(* and locks.                                                              *)
(***************************************************************************)
EXTENDS ApbFs, SequenceTheorems, FiniteSetTheorems, WellFoundedInduction, TLAPS

-----------------------------------------------------------------------------
(* Numbers and sums.                                                       *)

LEMMA Least ==
    ASSUME NEW T, T \subseteq Nat, T # {}
    PROVE  \E n \in T : \A m \in T : n <= m
<1>1. PICK n \in T : \A m \in T : ~ (<<m, n>> \in OpToRel(<, Nat))
  BY WFMin, NatLessThanWellFounded
<1>2. ASSUME NEW m \in T
      PROVE  n <= m
  <2>1. ~ (m < n)
    BY <1>1 DEF OpToRel
  <2> QED BY <2>1
<1> QED BY <1>2

LEMMA MinIn ==
    ASSUME NEW T, T \subseteq Nat, T # {}
    PROVE  Min(T) \in T
BY Least DEF Min

LEMMA AllOf ==
    ASSUME NEW S, 0 \in S, \A n \in Nat : n \in S => n + 1 \in S
    PROVE  Nat \subseteq S
<1> SUFFICES ASSUME Nat \ S # {}
             PROVE  FALSE
  OBVIOUS
<1>1. PICK n \in Nat \ S : \A m \in Nat \ S : n <= m
  BY Least
<1>2. n # 0 /\ n - 1 \in Nat
  BY <1>1
<1>3. n - 1 \in S
  BY <1>1, <1>2
<1>4. (n - 1) + 1 \in S
  BY <1>2, <1>3
<1> QED BY <1>1, <1>4

\* The sum of t over all volumes, in the order in which FoldSet adds.
First(S) == CHOOSE x \in S : TRUE
Partial(t) ==
    CHOOSE g : g = [S \in SUBSET Vols |->
                       IF S = {} THEN 0 ELSE t[First(S)] + g[S \ {First(S)}]]
Sum(t) == Partial(t)[Vols]

LEMMA SumStep ==
    ASSUME NEW t \in [Vols -> Nat]
    PROVE  /\ Partial(t) \in [SUBSET Vols -> Nat]
           /\ Partial(t)[{}] = 0
           /\ \A S \in (SUBSET Vols) \ {{}} :
                 /\ First(S) \in S /\ First(S) \in Vols
                 /\ Partial(t)[S] = t[First(S)] + Partial(t)[S \ {First(S)}]
<1> DEFINE Upto(k) == {S \in SUBSET Vols : Cardinality(S) <= k}
           Body(g, S) == IF S = {} THEN 0 ELSE t[First(S)] + g[S \ {First(S)}]
           Has(k) == \E g : g = [S \in Upto(k) |-> Body(g, S)]
           K == {k \in Nat : Has(k)}
<1>1. \A S \in SUBSET Vols : /\ IsFiniteSet(S) /\ Cardinality(S) \in Nat
                             /\ Cardinality(S) <= Cardinality(Vols)
  BY FS_Subset, FS_CardinalityType, ApbFsAssumption
<1>2. \A S \in SUBSET Vols : S # {} =>
         /\ First(S) \in S /\ First(S) \in Vols /\ S \ {First(S)} \in SUBSET Vols
         /\ Cardinality(S \ {First(S)}) = Cardinality(S) - 1
  <2> SUFFICES ASSUME NEW S \in SUBSET Vols, S # {}
               PROVE  First(S) \in S /\ Cardinality(S \ {First(S)}) = Cardinality(S) - 1
    OBVIOUS
  <2>1. First(S) \in S
    BY DEF First
  <2>2. Cardinality(S \ {First(S)}) = Cardinality(S) - 1
    BY <1>1, <2>1, FS_RemoveElement
  <2> QED BY <2>1, <2>2
<1>3. 0 \in K
  <2>1. \A S \in Upto(0) : S = {}
    BY <1>1, FS_EmptySet
  <2> DEFINE g == [S \in Upto(0) |-> 0]
  <2>2. g = [S \in Upto(0) |-> Body(g, S)]
    BY <2>1
  <2> QED BY <2>2
<1>4. ASSUME NEW k \in Nat, k \in K
      PROVE  k + 1 \in K
  <2>1. PICK g : g = [S \in Upto(k) |-> Body(g, S)]
    BY <1>4
  <2> DEFINE h == [S \in Upto(k + 1) |-> Body(g, S)]
  <2>2. \A S \in Upto(k) : S \in Upto(k + 1) /\ h[S] = g[S]
    <3>1. \A S \in Upto(k) : S \in Upto(k + 1)
      BY <1>1
    <3>2. \A S \in Upto(k) : g[S] = Body(g, S)
      BY <2>1
    <3> QED BY <3>1, <3>2
  <2>3. ASSUME NEW S \in Upto(k + 1)
        PROVE  h[S] = Body(h, S)
    <3>1. CASE S = {}
      BY <3>1
    <3>2. CASE S # {}
      <4> DEFINE x == First(S)
      <4>1. x \in Vols /\ S \ {x} \in Upto(k)
        BY <1>1, <1>2, <3>2
      <4>2. h[S] = t[x] + g[S \ {x}] /\ h[S \ {x}] = g[S \ {x}]
        BY <2>2, <3>2, <4>1
      <4>3. Body(h, S) = t[x] + h[S \ {x}]
        BY <3>2
      <4> HIDE DEF x, h, Body, Upto
      <4> QED BY <4>2, <4>3
    <3> QED BY <3>1, <3>2
  <2>4. h = [S \in Upto(k + 1) |-> h[S]]
    OBVIOUS
  <2> HIDE DEF h, Upto, Body
  <2>5. h = [S \in Upto(k + 1) |-> Body(h, S)]
    BY <2>3, <2>4
  <2> QED BY <2>5
<1> HIDE DEF K
<1>5. Nat \subseteq K
  BY <1>3, <1>4, AllOf
<1>6. Cardinality(Vols) \in K
  BY <1>1, <1>5
<1>7. Upto(Cardinality(Vols)) = SUBSET Vols
  BY <1>1
<1>8. PICK g : g = [S \in SUBSET Vols |-> Body(g, S)]
  <2> HIDE DEF Upto, Body
  <2> QED BY <1>6, <1>7, Zenon DEF K
<1> DEFINE P == Partial(t)
<1>9. P = [S \in SUBSET Vols |-> Body(P, S)]
  BY <1>8 DEF Partial
<1> HIDE DEF P
<1>10. /\ P[{}] = 0
       /\ \A S \in (SUBSET Vols) \ {{}} :
             /\ First(S) \in S /\ First(S) \in Vols
             /\ P[S] = t[First(S)] + P[S \ {First(S)}]
  <2>1. \A S \in SUBSET Vols : P[S] = Body(P, S)
    <3> HIDE DEF Body
    <3> QED BY <1>9
  <2>2. P[{}] = 0
    BY <2>1
  <2>3. ASSUME NEW S \in (SUBSET Vols) \ {{}}
        PROVE  /\ First(S) \in S /\ First(S) \in Vols
               /\ P[S] = t[First(S)] + P[S \ {First(S)}]
    <3>1. S # {} /\ S \in SUBSET Vols
      OBVIOUS
    <3>2. P[S] = Body(P, S)
      <4> HIDE DEF Body
      <4> QED BY <2>1, <3>1, Zenon
    <3> QED BY <1>2, <3>1, <3>2, Zenon
  <2> QED BY <2>2, <2>3
\* Each partial sum is a number.
<1> DEFINE N == {k \in Nat : \A S \in Upto(k) : P[S] \in Nat}
<1>11. 0 \in N
  <2>1. \A S \in Upto(0) : S = {}
    BY <1>1, FS_EmptySet
  <2>2. P[{}] \in Nat
    <3>1. P[{}] = 0
      BY <1>10, Zenon
    <3> QED BY ONLY <3>1
  <2> HIDE DEF Upto
  <2> QED BY <2>1, <2>2
<1>12. ASSUME NEW k \in Nat, k \in N
       PROVE  k + 1 \in N
  <2> SUFFICES ASSUME NEW S \in Upto(k + 1), S # {}
               PROVE  P[S] \in Nat
    <3>1. P[{}] \in Nat
      <4>1. P[{}] = 0
        BY <1>10, Zenon
      <4> QED BY ONLY <4>1
    <3>2. ASSUME NEW S \in Upto(k + 1)
          PROVE  P[S] \in Nat
      BY <3>1
    <3> HIDE DEF Upto
    <3> QED BY <3>2
  <2> DEFINE x == First(S)
  <2>1. x \in Vols /\ S \ {x} \in Upto(k)
    BY <1>1, <1>2
  <2>2. P[S] = t[x] + P[S \ {x}]
    BY <1>10
  <2>3. P[S \ {x}] \in Nat /\ t[x] \in Nat
    BY <1>12, <2>1
  <2> HIDE DEF x
  <2> QED BY <2>2, <2>3
<1> HIDE DEF N
<1>13. Nat \subseteq N
  BY <1>11, <1>12, AllOf
<1>14. \A S \in SUBSET Vols : P[S] \in Nat
  <2>1. Cardinality(Vols) \in N
    BY <1>1, <1>13
  <2> QED BY <1>7, <2>1 DEF N
<1>15. P \in [SUBSET Vols -> Nat]
  BY <1>9, <1>14
<1> QED BY <1>10, <1>15 DEF P
\* A term that changes changes the sum by as much.
LEMMA SumChanges ==
    ASSUME NEW t \in [Vols -> Nat], NEW u \in [Vols -> Nat], NEW v \in Vols,
           \A w \in Vols \ {v} : u[w] = t[w]
    PROVE  /\ Sum(t) \in Nat /\ Sum(u) \in Nat
           /\ t[v] <= Sum(t)
           /\ Sum(u) - u[v] = Sum(t) - t[v]
<1> DEFINE P == Partial(t)
           R == Partial(u)
           Upto(k) == {S \in SUBSET Vols : Cardinality(S) <= k}
           Good(S) == IF v \in S THEN t[v] <= P[S] /\ R[S] - u[v] = P[S] - t[v] ELSE R[S] = P[S]
           K == {k \in Nat : \A S \in Upto(k) : Good(S)}
<1>1. \A S \in SUBSET Vols : /\ IsFiniteSet(S) /\ Cardinality(S) \in Nat
                             /\ Cardinality(S) <= Cardinality(Vols)
  BY FS_Subset, FS_CardinalityType, ApbFsAssumption
<1>2. /\ P \in [SUBSET Vols -> Nat] /\ P[{}] = 0
      /\ R \in [SUBSET Vols -> Nat] /\ R[{}] = 0
      /\ \A S \in (SUBSET Vols) \ {{}} :
            /\ First(S) \in S /\ First(S) \in Vols
            /\ P[S] = t[First(S)] + P[S \ {First(S)}]
            /\ R[S] = u[First(S)] + R[S \ {First(S)}]
  BY SumStep
<1> HIDE DEF P, R
<1>3. 0 \in K
  <2>1. \A S \in Upto(0) : S = {}
    BY <1>1, FS_EmptySet
  <2> QED BY <1>2, <2>1
<1>4. ASSUME NEW k \in Nat, k \in K
      PROVE  k + 1 \in K
  <2> SUFFICES ASSUME NEW S \in Upto(k + 1)
               PROVE  Good(S)
    OBVIOUS
  <2>1. CASE S = {}
    BY <1>2, <2>1
  <2>2. CASE S # {}
    <3> DEFINE x == First(S)
               T == S \ {x}
    <3>1. x \in S /\ x \in Vols /\ P[S] = t[x] + P[T] /\ R[S] = u[x] + R[T] /\ T \in SUBSET Vols
      BY <1>2, <2>2
    <3>2. Cardinality(T) = Cardinality(S) - 1
      BY <1>1, <3>1, FS_RemoveElement
    <3>3. T \in Upto(k)
      BY <1>1, <3>1, <3>2
    <3>4. Good(T)
      BY <1>4, <3>3
    <3>5. /\ P[T] \in Nat /\ R[T] \in Nat /\ t[x] \in Nat /\ u[x] \in Nat
          /\ t[v] \in Nat /\ u[v] \in Nat
      BY <1>2, <3>1
    <3>6. v \in T <=> v \in S /\ v # x
      OBVIOUS
    <3> HIDE DEF x, T, Upto, K
    <3>7. CASE v \in S /\ v # x
      BY <3>1, <3>4, <3>5, <3>6, <3>7
    <3>8. CASE v \in S /\ v = x
      BY <3>1, <3>4, <3>5, <3>6, <3>8
    <3>9. CASE ~ (v \in S)
      BY <3>1, <3>4, <3>5, <3>6, <3>9
    <3> QED BY <3>7, <3>8, <3>9
  <2> QED BY <2>1, <2>2
<1> HIDE DEF K
<1>5. Nat \subseteq K
  BY <1>3, <1>4, AllOf
<1>6. Good(Vols)
  <2>1. Cardinality(Vols) \in K /\ Vols \in Upto(Cardinality(Vols))
    BY <1>1, <1>5
  <2> QED BY <2>1 DEF K
<1> QED BY <1>2, <1>6 DEF Sum, P, R

\* The sum the property takes, as a sum of a function.
LocksOut == FoldSet(LAMBDA v, n : n + Out(v) + leaked[v], 0, Vols)

LEMMA LocksSum ==
    \A t \in [Vols -> Nat] :
       (\A v \in Vols : Out(v) \in Nat /\ leaked[v] \in Nat /\ t[v] = Out(v) + leaked[v])
          => LocksOut = Sum(t)
<1> SUFFICES ASSUME NEW t \in [Vols -> Nat],
                    \A v \in Vols : Out(v) \in Nat /\ leaked[v] \in Nat /\ t[v] = Out(v) + leaked[v]
             PROVE  LocksOut = Sum(t)
  OBVIOUS
<1> DEFINE Body(g, S) == IF S = {} THEN 0 ELSE g[S \ {First(S)}] + Out(First(S)) + leaked[First(S)]
           It == CHOOSE g : g = [S \in SUBSET Vols |-> Body(g, S)]
           P == Partial(t)
<1>1. LocksOut = It[Vols]
  BY DEF LocksOut, FoldSet, MapThenFoldSet, First
<1>2. /\ P \in [SUBSET Vols -> Nat] /\ P[{}] = 0
      /\ \A S \in (SUBSET Vols) \ {{}} :
            /\ First(S) \in S /\ First(S) \in Vols
            /\ P[S] = t[First(S)] + P[S \ {First(S)}]
  BY SumStep
<1> HIDE DEF P
<1>3. ASSUME NEW S \in SUBSET Vols
      PROVE  P[S] = Body(P, S)
  <2>1. CASE S = {}
    BY <1>2, <2>1
  <2>2. CASE S # {}
    <3>1. /\ First(S) \in Vols /\ P[S] = t[First(S)] + P[S \ {First(S)}]
          /\ P[S \ {First(S)}] \in Nat
      BY <1>2, <2>2
    <3>2. Body(P, S) = P[S \ {First(S)}] + Out(First(S)) + leaked[First(S)]
      BY <2>2
    <3>3. /\ Out(First(S)) \in Nat /\ leaked[First(S)] \in Nat
          /\ t[First(S)] = Out(First(S)) + leaked[First(S)]
      BY <3>1
    <3> HIDE DEF Body
    <3> QED BY <3>1, <3>2, <3>3
  <2> QED BY <2>1, <2>2
<1>4. P = [S \in SUBSET Vols |-> Body(P, S)]
  <2> HIDE DEF Body
  <2> QED BY <1>2, <1>3
<1>5. It = [S \in SUBSET Vols |-> Body(It, S)]
  BY <1>4
<1> HIDE DEF It
\* Both are the same function.
<1> DEFINE Upto(k) == {S \in SUBSET Vols : Cardinality(S) <= k}
           K == {k \in Nat : \A S \in Upto(k) : It[S] = P[S]}
<1>6. \A S \in SUBSET Vols : /\ IsFiniteSet(S) /\ Cardinality(S) \in Nat
                             /\ Cardinality(S) <= Cardinality(Vols)
  BY FS_Subset, FS_CardinalityType, ApbFsAssumption
<1>7. \A S \in SUBSET Vols : It[S] = Body(It, S)
  <2> HIDE DEF Body
  <2> QED BY <1>5
<1>8. 0 \in K
  <2>1. \A S \in Upto(0) : S = {}
    BY <1>6, FS_EmptySet
  <2> QED BY <1>2, <1>7, <2>1
<1>9. ASSUME NEW k \in Nat, k \in K
      PROVE  k + 1 \in K
  <2> SUFFICES ASSUME NEW S \in Upto(k + 1)
               PROVE  It[S] = P[S]
    OBVIOUS
  <2>1. CASE S = {}
    BY <1>2, <1>7, <2>1
  <2>2. CASE S # {}
    <3> DEFINE x == First(S)
               T == S \ {x}
    <3>1. x \in S /\ T \in SUBSET Vols
      BY <1>2, <2>2
    <3>2. Cardinality(T) = Cardinality(S) - 1
      BY <1>6, <3>1, FS_RemoveElement
    <3>3. T \in Upto(k)
      BY <1>6, <3>1, <3>2
    <3>4. It[T] = P[T]
      BY <1>9, <3>3
    <3>5. It[S] = It[T] + Out(x) + leaked[x] /\ P[S] = P[T] + Out(x) + leaked[x]
      BY <1>3, <1>7, <2>2
    <3> QED BY <3>4, <3>5, Zenon
  <2> QED BY <2>1, <2>2
<1> HIDE DEF K
<1>10. Nat \subseteq K
  BY <1>8, <1>9, AllOf
<1>11. It[Vols] = P[Vols]
  <2>1. Cardinality(Vols) \in K /\ Vols \in Upto(Cardinality(Vols))
    BY <1>6, <1>10
  <2> QED BY <2>1 DEF K
<1> QED BY <1>1, <1>11 DEF Sum, P
-----------------------------------------------------------------------------
(* The fold of FS_EnqueueRequest over the requests of a packet.            *)

LEMMA MaxIn ==
    ASSUME NEW n \in Nat, NEW S \in SUBSET (1..n), S # {}
    PROVE  Max(S) \in S
<1> DEFINE T == {n - x : x \in S}
<1>0. \A x \in S : x \in 1..n /\ n - x \in Nat
  OBVIOUS
<1>1. T \subseteq Nat /\ T # {}
  BY <1>0
<1>2. PICK m \in T : \A y \in T : m <= y
  BY <1>1, Least
<1>3. PICK x \in S : m = n - x
  BY <1>2
<1>4. ASSUME NEW y \in S
      PROVE  x >= y
  <2>1. m <= n - y
    BY <1>2
  <2>2. x \in 1..n /\ y \in 1..n
    BY <1>0
  <2> QED BY <1>3, <2>1, <2>2
<1> QED BY <1>4 DEF Max

EnqueuesAll(s, rs) == FoldLeft(Enqueue, s, rs)

FoldsBy(f, n, s, rs) ==
    /\ f[0] = s
    /\ \A k \in 1..n : f[k] = Enqueue(f[k - 1], rs[k])
    /\ EnqueuesAll(s, rs) = f[n]

\* FoldLeft goes through its intermediate results one after the other.
LEMMA FoldsLeft ==
    ASSUME NEW n \in Nat, NEW rs, DOMAIN rs = 1..n, NEW s
    PROVE  \E f : FoldsBy(f, n, s, rs)
<1> DEFINE Body(g, S) == IF S = {} THEN s ELSE Enqueue(g[S \ {Max(S)}], rs[Max(S)])
           It == CHOOSE g : g = [S \in SUBSET (1..n) |-> Body(g, S)]
           Upto(k) == {S \in SUBSET (1..n) : Cardinality(S) <= k}
           Has(k) == \E g : g = [S \in Upto(k) |-> Body(g, S)]
           K == {k \in Nat : Has(k)}
<1>1. EnqueuesAll(s, rs) = It[1..n]
  BY DEF EnqueuesAll, FoldLeft, MapThenFoldSet
<1>2. \A S \in SUBSET (1..n) : IsFiniteSet(S) /\ Cardinality(S) \in Nat /\ Cardinality(S) <= n
  <2>1. IsFiniteSet(1..n) /\ Cardinality(1..n) <= n
    <3>1. 1 \in Int /\ n \in Int
      OBVIOUS
    <3>2. /\ IsFiniteSet(1..n)
          /\ Cardinality(1..n) = IF 1 > n THEN 0 ELSE n - 1 + 1
      BY <3>1, FS_Interval
    <3> QED BY <3>2
  <2>2. ASSUME NEW S \in SUBSET (1..n)
        PROVE  IsFiniteSet(S) /\ Cardinality(S) \in Nat /\ Cardinality(S) <= n
    <3>1. IsFiniteSet(S) /\ Cardinality(S) <= Cardinality(1..n)
      BY <2>1, FS_Subset
    <3>2. Cardinality(S) \in Nat /\ Cardinality(1..n) \in Nat
      BY <2>1, <3>1, FS_CardinalityType
    <3> QED BY <2>1, <3>1, <3>2
  <2> QED BY <2>2
<1>3. \A S \in SUBSET (1..n) : S # {} =>
         /\ Max(S) \in S /\ S \ {Max(S)} \in SUBSET (1..n)
         /\ Cardinality(S \ {Max(S)}) = Cardinality(S) - 1
  <2>1. ASSUME NEW S \in SUBSET (1..n), S # {}
        PROVE  /\ Max(S) \in S /\ S \ {Max(S)} \in SUBSET (1..n)
               /\ Cardinality(S \ {Max(S)}) = Cardinality(S) - 1
    <3>1. Max(S) \in S
      BY <2>1, MaxIn
    <3>2. IsFiniteSet(S)
      BY <1>2
    <3>3. Cardinality(S \ {Max(S)}) = Cardinality(S) - 1
      BY <3>1, <3>2, FS_RemoveElement
    <3> QED BY <3>1, <3>3
  <2> QED BY <2>1
<1>4. 0 \in K
  <2>1. \A S \in Upto(0) : S = {}
    BY <1>2, FS_EmptySet
  <2> DEFINE g == [S \in Upto(0) |-> s]
  <2>2. g = [S \in Upto(0) |-> Body(g, S)]
    BY <2>1
  <2> QED BY <2>2
<1>5. ASSUME NEW k \in Nat, k \in K
      PROVE  k + 1 \in K
  <2>1. PICK g : g = [S \in Upto(k) |-> Body(g, S)]
    BY <1>5
  <2> DEFINE h == [S \in Upto(k + 1) |-> Body(g, S)]
  <2>2. \A S \in Upto(k) : S \in Upto(k + 1) /\ h[S] = g[S]
    <3>1. \A S \in Upto(k) : S \in Upto(k + 1)
      BY <1>2
    <3>2. \A S \in Upto(k) : g[S] = Body(g, S)
      <4> HIDE DEF Body, Upto
      <4> QED BY <2>1
    <3> HIDE DEF Body, Upto
    <3> QED BY <3>1, <3>2
  <2>3. ASSUME NEW S \in Upto(k + 1)
        PROVE  h[S] = Body(h, S)
    <3>1. CASE S = {}
      BY <3>1
    <3>2. CASE S # {}
      <4> DEFINE x == Max(S)
      <4>1. S \ {x} \in Upto(k)
        <5>1. S \ {x} \in SUBSET (1..n) /\ Cardinality(S \ {x}) = Cardinality(S) - 1
          BY <1>3, <3>2
        <5>2. Cardinality(S) \in Nat /\ Cardinality(S) <= k + 1
          BY <1>2
        <5> QED BY <5>1, <5>2
      <4>2. h[S] = Body(g, S) /\ h[S \ {x}] = g[S \ {x}]
        <5> HIDE DEF Upto, Body, x
        <5> QED BY <2>2, <4>1
      <4>3. Body(h, S) = Enqueue(h[S \ {x}], rs[x]) /\ Body(g, S) = Enqueue(g[S \ {x}], rs[x])
        BY <3>2
      <4> HIDE DEF x, h, Body, Upto
      <4> QED BY <4>2, <4>3
    <3> QED BY <3>1, <3>2
  <2>4. h = [S \in Upto(k + 1) |-> h[S]]
    OBVIOUS
  <2> HIDE DEF h, Upto, Body
  <2>5. h = [S \in Upto(k + 1) |-> Body(h, S)]
    BY <2>3, <2>4
  <2> QED BY <2>5
<1> HIDE DEF K
<1>6. Nat \subseteq K
  BY <1>4, <1>5, AllOf
<1>7. Upto(n) = SUBSET (1..n)
  BY <1>2
<1>8. PICK g : g = [S \in SUBSET (1..n) |-> Body(g, S)]
  <2>1. n \in K
    BY <1>6
  <2> HIDE DEF Upto, Body
  <2> QED BY <1>7, <2>1, Zenon DEF K
<1>9. It = [S \in SUBSET (1..n) |-> Body(It, S)]
  BY <1>8
<1> HIDE DEF It
<1>10. \A S \in SUBSET (1..n) : It[S] = Body(It, S)
  <2> HIDE DEF Body
  <2> QED BY <1>9
<1> DEFINE f == [k \in 0..n |-> It[1..k]]
<1>11. f[0] = s
  <2>1. 1..0 = {} /\ {} \in SUBSET (1..n)
    OBVIOUS
  <2>2. It[{}] = s
    BY <1>10, <2>1
  <2> QED BY <2>1, <2>2
<1>12. ASSUME NEW k \in 1..n
       PROVE  f[k] = Enqueue(f[k - 1], rs[k])
  <2>1. 1..k \in SUBSET (1..n) /\ 1..k # {} /\ (1..k) \ {k} = 1..(k - 1)
    OBVIOUS
  <2>2. Max(1..k) = k
    <3>1. Max(1..k) \in 1..k /\ \A y \in 1..k : Max(1..k) >= y
      <4>1. k \in 1..k /\ \A y \in 1..k : k >= y
        OBVIOUS
      <4> QED BY <4>1, Zenon DEF Max
    <3> QED BY <3>1
  <2>3. It[1..k] = Enqueue(It[1..(k - 1)], rs[k])
    <3>1. It[1..k] = Body(It, 1..k)
      BY <1>10, <2>1, Zenon
    <3> QED BY <2>1, <2>2, <3>1
  <2> QED BY <2>3
<1>13. f[n] = It[1..n]
  OBVIOUS
<1> QED BY <1>1, <1>11, <1>12, <1>13 DEF FoldsBy

-----------------------------------------------------------------------------
(* Lists.                                                                  *)

Lists == [succ : [Nodes -> Nodes], pred : [Nodes -> Nodes]]

LEMMA NodesAre ==
    /\ Ids \subseteq Nodes /\ REQ \in Nodes /\ SENT \in Nodes /\ REQ # SENT
    /\ REQ \notin Ids /\ SENT \notin Ids /\ 0 \notin Ids /\ Ids \subseteq Nat
    /\ IsFiniteSet(Ids) /\ Cardinality(Ids) = MaxReqs
<1>1. IsFiniteSet(1..MaxReqs) /\ Cardinality(1..MaxReqs) = MaxReqs
  <2>1. 1 \in Int /\ MaxReqs \in Int /\ MaxReqs > 0
    BY ApbFsAssumption
  <2>2. IsFiniteSet(1..MaxReqs) /\ Cardinality(1..MaxReqs) = IF 1 > MaxReqs THEN 0 ELSE MaxReqs - 1 + 1
    BY <2>1, FS_Interval
  <2> QED BY <2>1, <2>2
<1> QED BY <1>1 DEF Ids, Nodes, REQ, SENT

LEMMA AddTailLinks ==
    ASSUME NEW l \in Lists, NEW h \in Nodes, NEW n \in Nodes
    PROVE  /\ AddTail(l, h, n) \in Lists
           /\ AddTail(l, h, n).succ = [[l.succ EXCEPT ![l.pred[h]] = n] EXCEPT ![n] = h]
           /\ AddTail(l, h, n).pred = [[l.pred EXCEPT ![n] = l.pred[h]] EXCEPT ![h] = n]
BY DEF AddTail, Lists

LEMMA UnlinkLinks ==
    ASSUME NEW l \in Lists, NEW n \in Nodes
    PROVE  /\ Unlink(l, n) \in Lists
           /\ Unlink(l, n).succ = [l.succ EXCEPT ![l.pred[n]] = l.succ[n]]
           /\ Unlink(l, n).pred = [l.pred EXCEPT ![l.succ[n]] = l.pred[n]]
BY DEF Unlink, Lists

\* The links of a list go round: pred is the inverse of succ both ways, since
\* what links finitely many nodes one to one reaches all of them.
LEMMA GoesRound ==
    ASSUME NEW l \in Lists, NEW h, NEW S, S \subseteq Ids, Links(l, h, S)
    PROVE  \A m \in S \cup {h} : l.pred[m] \in S \cup {h} /\ l.succ[l.pred[m]] = m
<1> DEFINE R == S \cup {h}
           f == [n \in R |-> l.succ[n]]
<1>1. \A n \in R : l.succ[n] \in R /\ l.pred[l.succ[n]] = n
  BY DEF Links
<1>2. IsFiniteSet(R)
  <2>1. IsFiniteSet(S)
    BY NodesAre, FS_Subset
  <2> QED BY <2>1, FS_AddElement
<1> HIDE DEF R
<1>3. f \in Injection(R, R)
  BY <1>1 DEF Injection, IsInjective
<1>4. f \in Surjection(R, R)
  BY <1>2, <1>3, FS_Injection
<1>5. \A m \in R : \E n \in R : l.succ[n] = m
  BY <1>4 DEF Surjection
<1>6. ASSUME NEW m \in R
      PROVE  l.pred[m] \in R /\ l.succ[l.pred[m]] = m
  <2>1. PICK n \in R : l.succ[n] = m
    BY <1>5
  <2>2. l.pred[m] = n
    BY <1>1, <2>1, Zenon
  <2> QED BY <2>1, <2>2
<1> QED BY <1>6 DEF R

\* A node that was on no list goes to the end.
LEMMA AddLinked ==
    ASSUME NEW l \in Lists, NEW h \in Nodes, NEW S, S \subseteq Ids, Links(l, h, S),
           NEW n \in Ids, n \notin S, n # h
    PROVE  /\ Links(AddTail(l, h, n), h, S \cup {n})
           /\ AddTail(l, h, n).succ[h] # h
<1> DEFINE a == AddTail(l, h, n)
           e == l.pred[h]
<1>1. /\ a \in Lists
      /\ a.succ = [[l.succ EXCEPT ![e] = n] EXCEPT ![n] = h]
      /\ a.pred = [[l.pred EXCEPT ![n] = e] EXCEPT ![h] = n]
  BY AddTailLinks, NodesAre
<1>2. e \in S \cup {h} /\ l.succ[e] = h
  BY GoesRound
<1>3. \A m \in S \cup {h} : l.succ[m] \in S \cup {h} /\ l.pred[l.succ[m]] = m
  BY DEF Links
<1>4. DOMAIN l.succ = Nodes /\ DOMAIN l.pred = Nodes /\ S \subseteq Nodes /\ n \in Nodes
  BY NodesAre DEF Lists
<1> HIDE DEF a, e
<1>5. a.succ[e] = n /\ a.succ[n] = h /\ a.pred[n] = e /\ a.pred[h] = n
  BY <1>1, <1>2, <1>4
<1>6. \A m \in S \cup {h} : m # e => a.succ[m] = l.succ[m] /\ l.succ[m] # h
  BY <1>1, <1>2, <1>3, <1>4
<1>7. \A m \in S : a.pred[m] = l.pred[m] \/ m = h
  BY <1>1, <1>4
<1>8. Links(a, h, S \cup {n})
  BY <1>2, <1>3, <1>5, <1>6, <1>7 DEF Links
<1>9. a.succ[h] # h
  BY <1>2, <1>5, <1>6
<1> QED BY <1>8, <1>9 DEF a

-----------------------------------------------------------------------------
(* Requests.                                                               *)

Tables == UNION {[D -> Request] : D \in SUBSET Ids}
Queues == [links : Lists, reqs : Tables, writer : Ids \cup {0}, ready : BOOLEAN, again : BOOLEAN]

Queued(s) == {i \in DOMAIN s.reqs : s.reqs[i].st = "queued"}
Marked(r, st) == [r EXCEPT !.st = st]

LEMMA QueueFields ==
    ASSUME NEW s \in Queues
    PROVE  /\ s.links \in Lists /\ s.reqs \in Tables /\ s.writer \in Ids \cup {0}
           /\ s.ready \in BOOLEAN /\ s.again \in BOOLEAN
           /\ DOMAIN s.reqs \subseteq Ids /\ \A i \in DOMAIN s.reqs : s.reqs[i] \in Request
BY DEF Queues, Tables

LEMMA RequestFields ==
    ASSUME NEW r \in Request
    PROVE  /\ r.pkt \in Pkts /\ r.type \in PktTypes /\ r.left \in Nat
           /\ r.st \in {"queued", "sent", "done"} /\ r.orphan \in BOOLEAN
BY DEF Request

LEMMA MarkedIs ==
    ASSUME NEW r \in Request, NEW st \in {"queued", "sent", "done"}
    PROVE  /\ Marked(r, st) \in Request /\ Marked(r, st).st = st
           /\ Marked(r, st).pkt = r.pkt /\ Marked(r, st).type = r.type
           /\ Marked(r, st).left = r.left /\ Marked(r, st).orphan = r.orphan
BY DEF Request, Marked

LEMMA TableIs ==
    ASSUME NEW D \in SUBSET Ids, NEW t, t = [i \in D |-> t[i]], \A i \in D : t[i] \in Request
    PROVE  t \in Tables
<1>1. t \in [D -> Request]
  OBVIOUS
<1> QED BY <1>1 DEF Tables

\* FS_SendReq sends the first request that waits.
LEMMA SendReqIs ==
    ASSUME NEW s \in Queues, Links(s.links, REQ, Queued(s))
    PROVE  LET n == s.links.succ[REQ]
               t == FS_SendReq(s)
           IN  /\ t \in Queues /\ t.again = s.again
               /\ \/ n = REQ /\ t = s
                  \/ /\ n \in Queued(s) /\ n \in DOMAIN s.reqs
                     /\ DOMAIN t.reqs = DOMAIN s.reqs
                     /\ t.reqs[n] = Marked(s.reqs[n], "sent")
                     /\ \A i \in DOMAIN s.reqs : i # n => t.reqs[i] = s.reqs[i]
                     /\ t.writer = n /\ t.ready = FALSE
                     /\ t.links = AddTail(Unlink(s.links, n), SENT, n)
<1> DEFINE n == s.links.succ[REQ]
           t == FS_SendReq(s)
<1>1. n = REQ \/ n \in Queued(s)
  BY DEF Links
<1>2. CASE n = REQ
  <2>1. t = s
    BY <1>2 DEF FS_SendReq
  <2> QED BY <1>2, <2>1
<1>3. CASE n # REQ
  <2>1. n \in Queued(s) /\ n \in DOMAIN s.reqs /\ n \in Ids /\ n \in Nodes /\ SENT \in Nodes
    BY <1>1, <1>3, QueueFields, NodesAre DEF Queued
  <2> DEFINE l == AddTail(Unlink(s.links, n), SENT, n)
             r == [s.reqs EXCEPT ![n] = Marked(s.reqs[n], "sent")]
  <2>2. l \in Lists
    BY <2>1, QueueFields, UnlinkLinks, AddTailLinks
  <2>3. /\ DOMAIN r = DOMAIN s.reqs /\ r[n] = Marked(s.reqs[n], "sent")
        /\ \A i \in DOMAIN s.reqs : i # n => r[i] = s.reqs[i]
        /\ r = [i \in DOMAIN s.reqs |-> r[i]]
    BY <2>1
  <2>4. r \in Tables
    <3>1. \A i \in DOMAIN s.reqs : r[i] \in Request
      BY <2>3, QueueFields, MarkedIs
    <3>2. DOMAIN s.reqs \in SUBSET Ids
      BY QueueFields
    <3> HIDE DEF r
    <3> QED BY <2>3, <3>1, <3>2, TableIs
  <2>5. t = [s EXCEPT !.links = l, !.reqs[n].st = "sent", !.writer = n, !.ready = FALSE]
    <3>1. t = IF n = REQ THEN s
              ELSE [s EXCEPT !.links = l, !.reqs[n].st = "sent", !.writer = n, !.ready = FALSE]
      BY Zenon DEF FS_SendReq
    <3> HIDE DEF t, n, l
    <3> QED BY <1>3, <3>1, Zenon
  <2>6. r = [s.reqs EXCEPT ![n].st = "sent"]
    BY DEF Marked
  <2> HIDE DEF l, r, t, n
  <2>7. /\ t \in Queues /\ t.links = l /\ t.reqs = r /\ t.writer = n
        /\ t.ready = FALSE /\ t.again = s.again
    BY <2>1, <2>2, <2>4, <2>5, <2>6 DEF Queues
  <2>8. t.links = AddTail(Unlink(s.links, n), SENT, n)
    BY <2>7 DEF l
  <2> QED BY <2>1, <2>3, <2>7, <2>8 DEF t, n
<1> QED BY <1>2, <1>3

\* A packet's request takes a number that is free.
LEMMA FreeIdIs ==
    ASSUME NEW s \in Queues, FreeIds(s) # {}
    PROVE  Min(FreeIds(s)) \in Ids /\ Min(FreeIds(s)) \notin DOMAIN s.reqs
<1>1. FreeIds(s) \subseteq Nat
  BY NodesAre DEF FreeIds
<1> QED BY <1>1, MinIn DEF FreeIds

Added(s, r) ==
    LET n == Min(FreeIds(s))
    IN  [s EXCEPT !.links = AddTail(s.links, REQ, n),
                  !.reqs = [i \in DOMAIN s.reqs \cup {n} |-> IF i = n THEN r ELSE s.reqs[i]]]

LEMMA AddedIs ==
    ASSUME NEW s \in Queues, FreeIds(s) # {}, NEW r \in Request, r.st = "queued"
    PROVE  LET n == Min(FreeIds(s))
               t == Added(s, r)
           IN  /\ t \in Queues /\ t.again = s.again /\ t.writer = s.writer /\ t.ready = s.ready
               /\ t.links = AddTail(s.links, REQ, n)
               /\ DOMAIN t.reqs = DOMAIN s.reqs \cup {n} /\ t.reqs[n] = r
               /\ \A i \in DOMAIN s.reqs : t.reqs[i] = s.reqs[i]
               /\ Links(s.links, REQ, Queued(s)) =>
                     Links(t.links, REQ, Queued(t)) /\ t.links.succ[REQ] # REQ
<1> DEFINE n == Min(FreeIds(s))
           t == Added(s, r)
           l == AddTail(s.links, REQ, n)
           b == [i \in DOMAIN s.reqs \cup {n} |-> IF i = n THEN r ELSE s.reqs[i]]
<1>1. n \in Ids /\ n \notin DOMAIN s.reqs /\ n \in Nodes /\ REQ \in Nodes /\ n # REQ
  BY FreeIdIs, NodesAre
<1> HIDE DEF n
<1>2. l \in Lists
  BY <1>1, QueueFields, AddTailLinks
<1>3. /\ DOMAIN b = DOMAIN s.reqs \cup {n} /\ b[n] = r
      /\ \A i \in DOMAIN s.reqs : b[i] = s.reqs[i]
      /\ b = [i \in DOMAIN s.reqs \cup {n} |-> b[i]]
  BY <1>1
<1> HIDE DEF b
<1>4. b \in Tables
  <2>1. \A i \in DOMAIN s.reqs \cup {n} : b[i] \in Request
    BY <1>3, QueueFields
  <2>2. DOMAIN s.reqs \cup {n} \in SUBSET Ids
    BY <1>1, QueueFields
  <2> QED BY <1>3, <2>1, <2>2, TableIs
<1>5. /\ t \in Queues /\ t.links = l /\ t.reqs = b /\ t.writer = s.writer
      /\ t.ready = s.ready /\ t.again = s.again
  <2>1. t = [s EXCEPT !.links = l, !.reqs = b]
    BY Zenon DEF Added, n, b
  <2> HIDE DEF l, t
  <2> QED BY <1>2, <1>4, <2>1 DEF Queues
<1> HIDE DEF t, l
<1>7. Queued(t) = Queued(s) \cup {n}
  BY <1>1, <1>3, <1>5 DEF Queued
<1>8. Links(s.links, REQ, Queued(s)) => Links(l, REQ, Queued(t)) /\ l.succ[REQ] # REQ
  <2>1. Queued(s) \subseteq Ids /\ n \notin Queued(s)
    BY <1>1, QueueFields DEF Queued
  <2>2. ASSUME Links(s.links, REQ, Queued(s))
        PROVE  Links(l, REQ, Queued(s) \cup {n}) /\ l.succ[REQ] # REQ
    BY <1>1, <2>1, <2>2, QueueFields, AddLinked DEF l
  <2> QED BY <1>7, <2>2, Zenon
<1> QED BY <1>3, <1>5, <1>8 DEF n, t, l

\* One request enqueued: at number n, and the request at m, if any, is sent.
EnqueuedAt(s, t, r, n, m) ==
    /\ n \in Ids \ DOMAIN s.reqs /\ m \in DOMAIN t.reqs \cup {0}
    /\ DOMAIN t.reqs = DOMAIN s.reqs \cup {n}
    /\ t.reqs[n] = IF n = m THEN Marked(r, "sent") ELSE r
    /\ \A i \in DOMAIN s.reqs :
          t.reqs[i] = IF i = m THEN Marked(s.reqs[i], "sent") ELSE s.reqs[i]
    /\ m = 0 => ~ s.ready /\ t.writer = s.writer
    /\ m # 0 => s.ready /\ t.writer = m /\ (m = n \/ m \in Queued(s))

LEMMA EnqueueIs ==
    ASSUME NEW s \in Queues, FreeIds(s) # {}, NEW r \in Request, r.st = "queued",
           s.ready => Links(s.links, REQ, Queued(s))
    PROVE  LET t == Enqueue(s, r)
           IN  /\ t \in Queues /\ t.again = s.again /\ t.ready = FALSE
               /\ \E n, m \in Ids \cup {0} : EnqueuedAt(s, t, r, n, m)
<1> DEFINE a == Added(s, r)
           t == Enqueue(s, r)
           n == Min(FreeIds(s))
<1>1. /\ a \in Queues /\ a.again = s.again /\ a.writer = s.writer /\ a.ready = s.ready
      /\ DOMAIN a.reqs = DOMAIN s.reqs \cup {n} /\ a.reqs[n] = r
      /\ \A i \in DOMAIN s.reqs : a.reqs[i] = s.reqs[i]
      /\ Links(s.links, REQ, Queued(s)) =>
            Links(a.links, REQ, Queued(a)) /\ a.links.succ[REQ] # REQ
  BY AddedIs
<1>2. n \in Ids /\ n \notin DOMAIN s.reqs /\ DOMAIN s.reqs \subseteq Ids /\ 0 \notin Ids
  BY FreeIdIs, QueueFields, NodesAre
<1>3. t = IF s.ready THEN FS_SendReq(a) ELSE a
  BY DEF Enqueue, Added
<1> HIDE DEF a, t, n
<1>4. CASE ~ s.ready
  <2>1. t = a
    BY <1>3, <1>4
  <2>2. EnqueuedAt(s, t, r, n, 0)
    BY <1>1, <1>2, <1>4, <2>1 DEF EnqueuedAt
  <2>3. t.ready = FALSE
    BY <1>1, <1>4, <2>1, QueueFields
  <2> QED BY <1>1, <1>2, <2>1, <2>2, <2>3 DEF t
<1>5. CASE s.ready
  <2> DEFINE m == a.links.succ[REQ]
  <2>1. /\ t \in Queues /\ t.again = a.again
        /\ m \in Queued(a) /\ m \in DOMAIN a.reqs
        /\ DOMAIN t.reqs = DOMAIN a.reqs
        /\ t.reqs[m] = Marked(a.reqs[m], "sent")
        /\ \A i \in DOMAIN a.reqs : i # m => t.reqs[i] = a.reqs[i]
        /\ t.writer = m /\ t.ready = FALSE
    <3>1. Links(a.links, REQ, Queued(a)) /\ m # REQ
      BY <1>1, <1>5
    <3>2. t = FS_SendReq(a)
      BY <1>3, <1>5
    <3> QED BY <1>1, <3>1, <3>2, SendReqIs
  <2> HIDE DEF m
  <2>2. m \in Ids /\ m # 0
    BY <1>1, <1>2, <2>1
  <2>3. m = n \/ m \in Queued(s)
    BY <1>1, <2>1 DEF Queued
  <2>4. EnqueuedAt(s, t, r, n, m)
    BY <1>1, <1>2, <1>5, <2>1, <2>2, <2>3 DEF EnqueuedAt
  <2> QED BY <1>1, <1>2, <2>1, <2>2, <2>4 DEF t
<1> QED BY <1>4, <1>5

\* k requests of rs enqueued: they are the new ones, and the request at m, if
\* any, is sent.
EnqueuedAll(s, t, rs, k, m) ==
    /\ t \in Queues /\ t.again = s.again
    /\ DOMAIN s.reqs \subseteq DOMAIN t.reqs /\ m \in DOMAIN t.reqs \cup {0}
    /\ Cardinality(DOMAIN t.reqs) = Cardinality(DOMAIN s.reqs) + k
    /\ \A i \in DOMAIN s.reqs :
          t.reqs[i] = IF i = m THEN Marked(s.reqs[i], "sent") ELSE s.reqs[i]
    /\ \A i \in DOMAIN t.reqs \ DOMAIN s.reqs :
          \E j \in 1..k : t.reqs[i] = IF i = m THEN Marked(rs[j], "sent") ELSE rs[j]
    /\ \A j \in 1..k : \E i \in DOMAIN t.reqs \ DOMAIN s.reqs :
          t.reqs[i] = IF i = m THEN Marked(rs[j], "sent") ELSE rs[j]
    /\ m = 0 => ~ s.ready /\ t.writer = s.writer
    /\ m # 0 => s.ready /\ t.writer = m /\ (m \in DOMAIN s.reqs => m \in Queued(s))
    /\ t.ready = FALSE

LEMMA NumbersLeft ==
    ASSUME NEW s \in Queues
    PROVE  /\ IsFiniteSet(DOMAIN s.reqs) /\ Cardinality(DOMAIN s.reqs) \in Nat
           /\ IsFiniteSet(FreeIds(s))
           /\ Cardinality(FreeIds(s)) = MaxReqs - Cardinality(DOMAIN s.reqs)
<1>1. DOMAIN s.reqs \in SUBSET Ids
  BY QueueFields
<1>2. IsFiniteSet(DOMAIN s.reqs) /\ Cardinality(DOMAIN s.reqs) \in Nat
  BY <1>1, NodesAre, FS_Subset, FS_CardinalityType
<1>3. /\ IsFiniteSet(Ids \ DOMAIN s.reqs)
      /\ Cardinality(Ids \ DOMAIN s.reqs) = Cardinality(Ids) - Cardinality(Ids \cap DOMAIN s.reqs)
  BY NodesAre, FS_Difference
<1>4. Ids \cap DOMAIN s.reqs = DOMAIN s.reqs
  BY <1>1
<1> QED BY <1>2, <1>3, <1>4, NodesAre DEF FreeIds

LEMMA EnqueuedAllIs ==
    ASSUME NEW s \in Queues, s.ready => Links(s.links, REQ, Queued(s)),
           NEW n \in Nat \ {0}, NEW rs, DOMAIN rs = 1..n,
           \A j \in 1..n : rs[j] \in Request /\ rs[j].st = "queued",
           n <= Cardinality(FreeIds(s))
    PROVE  \E m \in Ids \cup {0} : EnqueuedAll(s, EnqueuesAll(s, rs), rs, n, m)
<1>1. PICK f : /\ f[0] = s
               /\ \A k \in 1..n : f[k] = Enqueue(f[k - 1], rs[k])
               /\ EnqueuesAll(s, rs) = f[n]
  <2>1. n \in Nat /\ DOMAIN rs = 1..n
    OBVIOUS
  <2>2. \E f : FoldsBy(f, n, s, rs)
    BY <2>1, FoldsLeft, Zenon
  <2> QED BY <2>2 DEF FoldsBy
<1> DEFINE All(k) == \E m \in Ids \cup {0} : EnqueuedAll(s, f[k], rs, k, m)
           K == {k \in Nat : k + 1 <= n => All(k + 1)}
<1>2. /\ IsFiniteSet(DOMAIN s.reqs) /\ Cardinality(DOMAIN s.reqs) \in Nat
      /\ Cardinality(FreeIds(s)) = MaxReqs - Cardinality(DOMAIN s.reqs)
      /\ MaxReqs \in Nat /\ 0 \notin Ids
  BY NumbersLeft, NodesAre, ApbFsAssumption
<1>3. 0 \in K
  <2>1. FreeIds(s) # {}
    <3>1. Cardinality(FreeIds(s)) # 0
      BY <1>2
    <3> QED BY <3>1, FS_EmptySet, Zenon
  <2>2. f[1] = Enqueue(s, rs[1])
    BY <1>1
  <2> DEFINE t == f[1]
  <2>3. /\ t \in Queues /\ t.again = s.again /\ t.ready = FALSE
        /\ \E i, m \in Ids \cup {0} : EnqueuedAt(s, t, rs[1], i, m)
    <3>1. rs[1] \in Request /\ rs[1].st = "queued"
      OBVIOUS
    <3>2. s.ready => Links(s.links, REQ, Queued(s))
      OBVIOUS
    <3>3. PICK r \in Request : r = rs[1] /\ r.st = "queued"
      BY <3>1
    <3>4. t = Enqueue(s, r)
      BY <2>2, <3>3
    <3> HIDE DEF t
    <3>5. /\ t \in Queues /\ t.again = s.again /\ t.ready = FALSE
          /\ \E i, m \in Ids \cup {0} : EnqueuedAt(s, t, r, i, m)
      BY ONLY <2>1, <3>2, <3>3, <3>4, EnqueueIs, s \in Queues, r \in Request
    <3> QED BY <3>3, <3>5
  <2>4. PICK i, m \in Ids \cup {0} : EnqueuedAt(s, t, rs[1], i, m)
    BY <2>3
  <2> HIDE DEF t
  <2>5. /\ i \in Ids /\ i \notin DOMAIN s.reqs /\ m \in DOMAIN t.reqs \cup {0}
        /\ DOMAIN t.reqs = DOMAIN s.reqs \cup {i}
        /\ t.reqs[i] = (IF i = m THEN Marked(rs[1], "sent") ELSE rs[1])
        /\ \A x \in DOMAIN s.reqs :
              t.reqs[x] = IF x = m THEN Marked(s.reqs[x], "sent") ELSE s.reqs[x]
        /\ (m = 0 => ~ s.ready /\ t.writer = s.writer)
        /\ (m # 0 => s.ready /\ t.writer = m /\ (m = i \/ m \in Queued(s)))
    BY <2>4 DEF EnqueuedAt
  <2>6. Cardinality(DOMAIN t.reqs) = Cardinality(DOMAIN s.reqs) + 1
    <3>1. /\ DOMAIN t.reqs = DOMAIN s.reqs \cup {i} /\ i \notin DOMAIN s.reqs
          /\ IsFiniteSet(DOMAIN s.reqs)
      BY <1>2, <2>5
    <3> QED BY ONLY <3>1, FS_AddElement
  <2>7. DOMAIN t.reqs \ DOMAIN s.reqs = {i} /\ 1..1 = {1}
    BY <2>5
  <2>8. EnqueuedAll(s, t, rs, 1, m)
    BY <2>3, <2>5, <2>6, <2>7 DEF EnqueuedAll
  <2> QED BY <2>8 DEF t
<1>4. ASSUME NEW k \in Nat, k \in K
      PROVE  k + 1 \in K
  <2> SUFFICES ASSUME k + 2 <= n
               PROVE  All(k + 2)
    OBVIOUS
  <2> DEFINE u == f[k + 1]
             t == f[k + 2]
             r == rs[k + 2]
  <2>1. PICK m \in Ids \cup {0} : EnqueuedAll(s, u, rs, k + 1, m)
    BY <1>4
  <2>2. t = Enqueue(u, r) /\ r \in Request /\ r.st = "queued"
    BY <1>1
  <2> HIDE DEF u, t, r
  <2>3. /\ u \in Queues /\ u.again = s.again
        /\ DOMAIN s.reqs \subseteq DOMAIN u.reqs /\ m \in DOMAIN u.reqs \cup {0}
        /\ Cardinality(DOMAIN u.reqs) = Cardinality(DOMAIN s.reqs) + (k + 1)
        /\ \A i \in DOMAIN s.reqs :
              u.reqs[i] = IF i = m THEN Marked(s.reqs[i], "sent") ELSE s.reqs[i]
        /\ \A i \in DOMAIN u.reqs \ DOMAIN s.reqs :
              \E j \in 1..(k + 1) : u.reqs[i] = IF i = m THEN Marked(rs[j], "sent") ELSE rs[j]
        /\ \A j \in 1..(k + 1) : \E i \in DOMAIN u.reqs \ DOMAIN s.reqs :
              u.reqs[i] = IF i = m THEN Marked(rs[j], "sent") ELSE rs[j]
        /\ (m = 0 => ~ s.ready /\ u.writer = s.writer)
        /\ (m # 0 => s.ready /\ u.writer = m /\ (m \in DOMAIN s.reqs => m \in Queued(s)))
        /\ u.ready = FALSE
    BY <2>1, Zenon DEF EnqueuedAll
  <2>4. FreeIds(u) # {}
    <3>1. Cardinality(FreeIds(u)) = MaxReqs - Cardinality(DOMAIN u.reqs)
      BY <2>3, NumbersLeft
    <3>2. Cardinality(FreeIds(u)) # 0
      BY <1>2, <2>3, <3>1
    <3> QED BY <3>2, FS_EmptySet
  <2>5. /\ t \in Queues /\ t.again = u.again /\ t.ready = FALSE
        /\ \E i, x \in Ids \cup {0} : EnqueuedAt(u, t, r, i, x)
    BY <2>2, <2>3, <2>4, EnqueueIs
  <2>6. PICK i, x \in Ids \cup {0} : EnqueuedAt(u, t, r, i, x)
    BY <2>5
  <2>7. /\ x = 0 /\ i \in Ids /\ i \notin DOMAIN u.reqs /\ i # 0
        /\ DOMAIN t.reqs = DOMAIN u.reqs \cup {i}
        /\ t.reqs[i] = r
        /\ \A y \in DOMAIN u.reqs : t.reqs[y] = u.reqs[y]
        /\ t.writer = u.writer
    <3>1. x = 0
      BY <2>3, <2>6 DEF EnqueuedAt
    <3>2. \A y \in DOMAIN u.reqs : y # 0
      BY <1>2, <2>3, QueueFields
    <3> QED BY <1>2, <2>6, <3>1, <3>2 DEF EnqueuedAt
  <2>8. Cardinality(DOMAIN t.reqs) = Cardinality(DOMAIN s.reqs) + (k + 2)
    <3>1. IsFiniteSet(DOMAIN u.reqs)
      BY <2>3, NumbersLeft
    <3>2. Cardinality(DOMAIN t.reqs) = Cardinality(DOMAIN u.reqs) + 1
      BY <2>7, <3>1, FS_AddElement
    <3> QED BY <1>2, <2>3, <3>2
  <2>9. i # m /\ r = rs[k + 2] /\ \A j \in 1..(k + 2) : j \in 1..(k + 1) \/ j = k + 2
    BY <2>3, <2>7 DEF r
  <2>10. k + 2 \in 1..(k + 2) /\ \A j \in 1..(k + 1) : j \in 1..(k + 2)
    OBVIOUS
  <2>11. \A y \in DOMAIN t.reqs \ DOMAIN s.reqs :
            \E j \in 1..(k + 2) : t.reqs[y] = IF y = m THEN Marked(rs[j], "sent") ELSE rs[j]
    <3>1. SUFFICES ASSUME NEW y \in DOMAIN t.reqs \ DOMAIN s.reqs
                   PROVE  \E j \in 1..(k + 2) :
                             t.reqs[y] = IF y = m THEN Marked(rs[j], "sent") ELSE rs[j]
      OBVIOUS
    <3>2. CASE y = i
      BY <2>7, <2>9, <2>10, <3>2
    <3>3. CASE y # i
      BY <2>3, <2>7, <2>10, <3>3
    <3> QED BY <3>2, <3>3
  <2>12. \A j \in 1..(k + 2) : \E y \in DOMAIN t.reqs \ DOMAIN s.reqs :
            t.reqs[y] = IF y = m THEN Marked(rs[j], "sent") ELSE rs[j]
    <3>1. SUFFICES ASSUME NEW j \in 1..(k + 2)
                   PROVE  \E y \in DOMAIN t.reqs \ DOMAIN s.reqs :
                             t.reqs[y] = IF y = m THEN Marked(rs[j], "sent") ELSE rs[j]
      OBVIOUS
    <3>2. CASE j = k + 2
      BY <2>3, <2>7, <2>9, <3>2
    <3>3. CASE j \in 1..(k + 1)
      BY <2>3, <2>7, <3>3
    <3> QED BY <2>9, <3>2, <3>3
  <2>13. EnqueuedAll(s, t, rs, k + 2, m)
    BY <2>3, <2>5, <2>7, <2>8, <2>11, <2>12, Zenon DEF EnqueuedAll
  <2> QED BY <2>13 DEF t
<1> HIDE DEF K
<1>5. Nat \subseteq K
  BY <1>3, <1>4, AllOf
<1>6. n - 1 \in K /\ (n - 1) + 1 = n
  BY <1>5
<1> QED BY <1>1, <1>6 DEF K

-----------------------------------------------------------------------------
(* The inductive invariant.                                                *)

Packet == [type : PktTypes, vol : Vols, root : BOOLEAN, chunks : Chunks \cup {0}]
Messages ==
    [key : {"none", "error"}] \cup [key : {"mount", "unmount"}, vol : Vols]
        \cup [key : {"request"}, req : Ids, res2 : {More, Final, Error}]

PktsOK ==
    /\ at \in [Pkts -> {"client", "port", "handler"}] /\ pkt \in [Pkts -> Packet]
    /\ port \in [Vols -> Seq(Pkts)]
LocksOK ==
    /\ own \in [Vols -> [BOOLEAN -> Nat]] /\ leaked \in [Vols -> Nat]
    /\ lockCount \in [Vols -> Int] /\ locks \in Int /\ locks <= MaxLocks
VolsOK ==
    /\ vols \in Seq(Vols) /\ IsInjective(vols)
    /\ mounted \subseteq ToSet(vols) /\ remounted \subseteq Vols
LineOK ==
    /\ remotePort \in Seq({"reader", "writer"}) /\ reading \in BOOLEAN
    /\ resp \in Messages /\ piReqs \in Seq(Ids)
RunOK ==
    /\ pc \in {"run", "stopped", "wild", "dead"}
    /\ sig \cup got \subseteq Vols \cup {REMOTE, BREAK}

TypeInv == PktsOK /\ LocksOK /\ VolsOK /\ LineOK /\ RunOK /\ q \in Queues

\* A request that waits is nowhere else, and a request that has been sent is
\* with the server, on its way to the Pi or answered, but not two of these.
WriterInv ==
    q.writer # 0 =>
       /\ q.writer \in DOMAIN q.reqs /\ q.reqs[q.writer].st # "queued" /\ ~ q.ready
       /\ \A k \in DOMAIN piReqs : piReqs[k] # q.writer
BackInv ==
    /\ q.writer # 0 \/ q.ready => \A k \in DOMAIN remotePort : remotePort[k] # "writer"
    /\ \A j, k \in DOMAIN remotePort :
          remotePort[j] = "writer" /\ remotePort[k] = "writer" => j = k
SentInv ==
    /\ IsInjective(piReqs)
    /\ \A k \in DOMAIN piReqs : piReqs[k] \in DOMAIN q.reqs /\ q.reqs[piReqs[k]].st # "queued"
RespInv ==
    /\ resp.key = "request" =>
          LET n == resp.req
          IN  /\ n \in DOMAIN q.reqs /\ n # q.writer /\ q.reqs[n].st # "queued"
              /\ (\E k \in DOMAIN piReqs : piReqs[k] = n) =>
                    q.reqs[n].type = "READ" /\ resp.res2 = More
              /\ resp.res2 = More =>
                    \/ q.reqs[n].type = "READ" /\ piReqs # <<>> /\ Head(piReqs) = n
                    \/ q.reqs[n].type = "WRITE" /\ q.reqs[n].left > 0
    /\ reading => resp.key = "none"

LineInv == WriterInv /\ BackInv /\ SentInv /\ RespInv

PortInv ==
    \A v \in Vols :
       /\ IsInjective(port[v])
       /\ \A k \in DOMAIN port[v] : at[port[v][k]] = "port" /\ pkt[port[v][k]].vol = v

\* A packet that the handler has is asked for by its last request, and by
\* others only if it is a WRITE.
AskedFor(p) ==
    \/ pkt[p].type = "WRITE" /\ pkt[p].chunks = 0
    \/ \E i \in DOMAIN q.reqs : /\ q.reqs[i].pkt = p /\ ~ q.reqs[i].orphan
                                /\ q.reqs[i].left = 0 /\ Expected(i)

HandledInv == \A p \in Pkts : at[p] = "handler" => pkt[p].type # "END" /\ AskedFor(p)
OwnerInv ==
    \A i \in DOMAIN q.reqs :
       IF q.reqs[i].orphan THEN q.reqs[i].type \in {"END", "WRITE"}
       ELSE at[q.reqs[i].pkt] = "handler" /\ pkt[q.reqs[i].pkt].type = q.reqs[i].type
AloneInv ==
    \A i, j \in DOMAIN q.reqs :
       q.reqs[i].pkt = q.reqs[j].pkt /\ ~ q.reqs[i].orphan /\ ~ q.reqs[j].orphan
          => i = j \/ q.reqs[i].type = "WRITE"
DeadInv == pc = "dead" /\ Enough => \E i \in DOMAIN q.reqs : q.reqs[i].type \in {"END", "WRITE"}

AnswerInv == HandledInv /\ OwnerInv /\ AloneInv /\ DeadInv

Borrowed == [v \in Vols |-> Out(v) + leaked[v]]

LockInv ==
    /\ locks = Sum(Borrowed)
    /\ \A v \in Vols \ remounted :
          lockCount[v] = Borrowed[v] /\ (pc = "stopped" => Out(v) = 0)
    /\ pc = "run" =>
          \A v \in Vols \ ToSet(vols) :
             Borrowed[v] = 0 /\ \A p \in Pkts : at[p] # "client" => pkt[p].vol # v

-----------------------------------------------------------------------------
(* What the actions do to the requests.                                    *)

LEMMA AnsweredIs ==
    ASSUME q \in Queues, NEW n \in DOMAIN q.reqs
    PROVE  LET t == Answered(n)
           IN  /\ t \in Queues /\ t.writer = q.writer /\ t.ready = q.ready
               /\ t.links = Unlink(q.links, n)
               /\ t.again = (q.again \/ q.reqs[n].st = "done")
               /\ DOMAIN t.reqs = DOMAIN q.reqs
               /\ t.reqs[n] = Marked(q.reqs[n], "done")
               /\ \A i \in DOMAIN q.reqs : i # n => t.reqs[i] = q.reqs[i]
<1> DEFINE l == Unlink(q.links, n)
           r == [q.reqs EXCEPT ![n] = Marked(q.reqs[n], "done")]
           again == q.again \/ q.reqs[n].st = "done"
           t == Answered(n)
<1>1. n \in Nodes /\ DOMAIN q.reqs \in SUBSET Ids
  BY QueueFields, NodesAre
<1>2. l \in Lists /\ again \in BOOLEAN
  BY <1>1, QueueFields, UnlinkLinks
<1>3. /\ DOMAIN r = DOMAIN q.reqs /\ r[n] = Marked(q.reqs[n], "done")
      /\ \A i \in DOMAIN q.reqs : i # n => r[i] = q.reqs[i]
      /\ r = [i \in DOMAIN q.reqs |-> r[i]]
  OBVIOUS
<1>4. r \in Tables
  <2>1. \A i \in DOMAIN q.reqs : r[i] \in Request
    BY <1>3, QueueFields, MarkedIs
  <2> HIDE DEF r
  <2> QED BY <1>1, <1>3, <2>1, TableIs
<1>5. t = [q EXCEPT !.links = l, !.reqs[n].st = "done", !.again = again]
  BY DEF Answered
<1>6. r = [q.reqs EXCEPT ![n].st = "done"]
  BY DEF Marked
<1> HIDE DEF l, r, again, t
<1>7. /\ t \in Queues /\ t.reqs = r /\ t.writer = q.writer /\ t.ready = q.ready
      /\ t.links = l /\ t.again = again
  BY <1>2, <1>4, <1>5, <1>6 DEF Queues
<1> QED BY <1>3, <1>7 DEF t, l, again

\* r, but an orphan if its packet is p.
OrphanOf(r, p) == [r EXCEPT !.orphan = r.orphan \/ r.pkt = p]

LEMMA OrphanOfIs ==
    ASSUME NEW r \in Request, NEW p
    PROVE  /\ OrphanOf(r, p) \in Request
           /\ OrphanOf(r, p).orphan = (r.orphan \/ r.pkt = p)
           /\ OrphanOf(r, p).pkt = r.pkt /\ OrphanOf(r, p).type = r.type
           /\ OrphanOf(r, p).left = r.left /\ OrphanOf(r, p).st = r.st
BY DEF Request, OrphanOf

LEMMA OrphanedIs ==
    ASSUME NEW s \in Queues, NEW p
    PROVE  LET t == Orphaned(s, p)
           IN  /\ t \in Queues /\ t.writer = s.writer /\ t.ready = s.ready
               /\ t.links = s.links /\ t.again = s.again
               /\ DOMAIN t.reqs = DOMAIN s.reqs
               /\ \A i \in DOMAIN s.reqs : t.reqs[i] = OrphanOf(s.reqs[i], p)
<1> DEFINE r == [i \in DOMAIN s.reqs |-> OrphanOf(s.reqs[i], p)]
           t == Orphaned(s, p)
<1>1. /\ DOMAIN r = DOMAIN s.reqs /\ \A i \in DOMAIN s.reqs : r[i] = OrphanOf(s.reqs[i], p)
      /\ r = [i \in DOMAIN s.reqs |-> r[i]]
  OBVIOUS
<1>2. r \in Tables
  <2>1. \A i \in DOMAIN s.reqs : r[i] \in Request
    BY <1>1, QueueFields, OrphanOfIs
  <2>2. DOMAIN s.reqs \in SUBSET Ids
    BY QueueFields
  <2> HIDE DEF r
  <2> QED BY <1>1, <2>1, <2>2, TableIs
<1>3. t = [s EXCEPT !.reqs = r]
  BY DEF Orphaned, OrphanOf
<1> HIDE DEF r, t
<1>4. /\ t \in Queues /\ t.reqs = r /\ t.writer = s.writer /\ t.ready = s.ready
      /\ t.links = s.links /\ t.again = s.again
  BY <1>2, <1>3 DEF Queues
<1> QED BY <1>1, <1>4 DEF t

LEMMA FreeRequestIs ==
    ASSUME NEW s \in Queues, NEW n \in DOMAIN s.reqs
    PROVE  LET t == FreeRequest(s, n)
           IN  /\ t \in Queues /\ t.writer = s.writer /\ t.ready = s.ready
               /\ t.again = s.again
               /\ \A x \in Nodes \ {n} :
                     t.links.succ[x] = s.links.succ[x] /\ t.links.pred[x] = s.links.pred[x]
               /\ DOMAIN t.reqs = DOMAIN s.reqs \ {n}
               /\ \A i \in DOMAIN s.reqs \ {n} : t.reqs[i] = s.reqs[i]
<1> DEFINE r == Restrict(s.reqs, DOMAIN s.reqs \ {n})
           l == [s.links EXCEPT !.succ[n] = n, !.pred[n] = n]
           t == FreeRequest(s, n)
<1>1. /\ DOMAIN r = DOMAIN s.reqs \ {n} /\ \A i \in DOMAIN s.reqs \ {n} : r[i] = s.reqs[i]
      /\ r = [i \in DOMAIN s.reqs \ {n} |-> r[i]]
  BY DEF Restrict
<1>2. r \in Tables
  <2>1. \A i \in DOMAIN s.reqs \ {n} : r[i] \in Request
    BY <1>1, QueueFields
  <2>2. DOMAIN s.reqs \ {n} \in SUBSET Ids
    BY QueueFields
  <2> HIDE DEF r
  <2> QED BY <1>1, <2>1, <2>2, TableIs
<1>3. /\ l \in Lists
      /\ \A x \in Nodes \ {n} : l.succ[x] = s.links.succ[x] /\ l.pred[x] = s.links.pred[x]
  <2>1. n \in Nodes /\ s.links \in Lists
    BY QueueFields, NodesAre
  <2> QED BY <2>1 DEF Lists
<1>4. t = [s EXCEPT !.reqs = r, !.links = l]
  BY DEF FreeRequest
<1> HIDE DEF r, t, l
<1>5. /\ t \in Queues /\ t.reqs = r /\ t.writer = s.writer /\ t.ready = s.ready
      /\ t.links = l /\ t.again = s.again
  BY <1>2, <1>3, <1>4 DEF Queues
<1> QED BY <1>1, <1>3, <1>5 DEF t

\* The request at m, if any, is sent.
SentOne(s, m) ==
    /\ s \in Queues /\ DOMAIN s.reqs = DOMAIN q.reqs
    /\ m \in DOMAIN q.reqs \cup {0}
    /\ \A i \in DOMAIN q.reqs :
          s.reqs[i] = IF i = m THEN Marked(q.reqs[i], "sent") ELSE q.reqs[i]
    /\ m = 0 => s.writer = q.writer
    /\ m # 0 => q.reqs[m].st = "queued" /\ s.writer = m /\ s.ready = FALSE

LEMMA SendNextIs ==
    ASSUME q \in Queues, Linked
    PROVE  \E m : SentOne(SendNext, m)
<1> DEFINE s == [q EXCEPT !.ready = TRUE]
           t == SendNext
<1>1. s \in Queues /\ s.links = q.links /\ s.reqs = q.reqs /\ s.writer = q.writer
  BY DEF Queues
<1>2. Links(s.links, REQ, Queued(s))
  BY <1>1 DEF Linked, In, Queued
<1>3. t = FS_SendReq(s)
  BY DEF SendNext
<1> HIDE DEF s, t
<1> DEFINE n == s.links.succ[REQ]
<1>4. /\ t \in Queues
      /\ \/ n = REQ /\ t = s
         \/ /\ n \in Queued(s) /\ n \in DOMAIN s.reqs
            /\ DOMAIN t.reqs = DOMAIN s.reqs
            /\ t.reqs[n] = Marked(s.reqs[n], "sent")
            /\ \A i \in DOMAIN s.reqs : i # n => t.reqs[i] = s.reqs[i]
            /\ t.writer = n /\ t.ready = FALSE
  BY <1>1, <1>2, <1>3, SendReqIs
<1> HIDE DEF n
<1>5. DOMAIN q.reqs \subseteq Ids /\ 0 \notin Ids
  BY QueueFields, NodesAre
<1>6. CASE t = s
  <2>1. SentOne(t, 0)
    BY <1>1, <1>5, <1>6 DEF SentOne
  <2> QED BY <2>1 DEF t
<1>7. CASE t # s
  <2>1. SentOne(t, n)
    BY <1>1, <1>4, <1>5, <1>7 DEF SentOne, Queued
  <2> QED BY <2>1 DEF t
<1> QED BY <1>6, <1>7

LEMMA PacketFields ==
    ASSUME NEW x \in Packet
    PROVE  /\ x.type \in PktTypes /\ x.vol \in Vols /\ x.root \in BOOLEAN
           /\ x.chunks \in Chunks \cup {0} /\ x.chunks \in Nat
<1>1. /\ x.type \in PktTypes /\ x.vol \in Vols /\ x.root \in BOOLEAN
      /\ x.chunks \in Chunks \cup {0}
  BY DEF Packet
<1>2. \A n \in Chunks \cup {0} : n \in Nat
  BY ApbFsAssumption
<1>3. x.chunks \in Nat
  BY <1>1, <1>2, Zenon
<1> QED BY <1>1, <1>3

\* The requests a packet needs: n of them, the last with nothing left.
LEMMA AskedIs ==
    ASSUME pkt \in [Pkts -> Packet], NEW p \in Pkts
    PROVE  LET n == IF pkt[p].type = "WRITE" THEN pkt[p].chunks ELSE 1
           IN  /\ n \in Nat /\ n \in Chunks \cup {0, 1}
               /\ DOMAIN Asked(p) = 1..n /\ Len(Asked(p)) = n
               /\ \A j \in 1..n :
                     /\ Asked(p)[j] \in Request /\ Asked(p)[j].st = "queued"
                     /\ Asked(p)[j].pkt = p /\ Asked(p)[j].type = pkt[p].type
                     /\ Asked(p)[j].orphan = FALSE
               /\ n # 0 => Asked(p)[n].left = 0
<1>1. pkt[p].type \in PktTypes /\ pkt[p].chunks \in Chunks \cup {0} /\ pkt[p].chunks \in Nat
  <2>1. pkt[p] \in Packet
    OBVIOUS
  <2> QED BY <2>1, PacketFields
<1> DEFINE r == OneRequest(p)
<1>2. r \in Request /\ r.st = "queued" /\ r.pkt = p /\ r.type = pkt[p].type /\ r.orphan = FALSE
      /\ r.left = 0
  BY <1>1 DEF OneRequest, Request
<1>3. CASE pkt[p].type # "WRITE"
  <2>1. Asked(p) = <<r>>
    BY <1>3 DEF Asked
  <2> HIDE DEF r
  <2> QED BY <1>2, <1>3, <2>1
<1>4. CASE pkt[p].type = "WRITE"
  <2> DEFINE n == pkt[p].chunks
             w == Asked(p)
             Rest(l) == [r EXCEPT !.left = l]
  <2>1. w = [i \in 1..n |-> Rest(n - i)]
    BY <1>4 DEF Asked, WriteRequests
  <2>2. \A l \in Nat : /\ Rest(l) \in Request /\ Rest(l).st = "queued" /\ Rest(l).pkt = p
                       /\ Rest(l).type = pkt[p].type /\ Rest(l).orphan = FALSE
                       /\ Rest(l).left = l
    <3> HIDE DEF r
    <3> QED BY <1>2 DEF Request
  <2>3. DOMAIN w = 1..n /\ Len(w) = n
    <3>1. DOMAIN w = 1..n
      BY <2>1
    <3>2. w \in Seq(Request)
      <4>1. \A i \in 1..n : n - i \in Nat /\ Rest(n - i) \in Request
        BY <1>1, <2>2
      <4>2. w \in [1..n -> Request]
        BY <2>1, <4>1
      <4> HIDE DEF w
      <4> QED BY <1>1, <4>2
    <3> HIDE DEF w
    <3> QED BY <1>1, <3>1, <3>2
  <2>4. \A j \in 1..n : w[j] = Rest(n - j) /\ n - j \in Nat
    BY <1>1, <2>1
  <2>5. n # 0 => n \in 1..n /\ n - n = 0
    BY <1>1
  <2> HIDE DEF w, r, Rest
  <2>6. \A j \in 1..n : /\ w[j] \in Request /\ w[j].st = "queued" /\ w[j].pkt = p
                        /\ w[j].type = pkt[p].type /\ w[j].orphan = FALSE /\ w[j].left = n - j
    <3> SUFFICES ASSUME NEW j \in 1..n
                 PROVE  /\ w[j] \in Request /\ w[j].st = "queued" /\ w[j].pkt = p
                        /\ w[j].type = pkt[p].type /\ w[j].orphan = FALSE /\ w[j].left = n - j
      OBVIOUS
    <3>1. w[j] = Rest(n - j) /\ n - j \in Nat
      BY <2>4
    <3> HIDE DEF n
    <3> QED BY ONLY <2>2, <3>1
  <2>7. /\ \A j \in 1..n : /\ w[j] \in Request /\ w[j].st = "queued" /\ w[j].pkt = p
                           /\ w[j].type = pkt[p].type /\ w[j].orphan = FALSE
        /\ n # 0 => w[n].left = 0
    BY <2>5, <2>6
  <2> QED BY <1>1, <1>4, <2>3, <2>7 DEF w
<1> QED BY <1>3, <1>4

\* The requests for p are enqueued, and the request at m, if any, is sent.
AskedBy(p, s, m) ==
    /\ s \in Queues /\ DOMAIN q.reqs \subseteq DOMAIN s.reqs /\ m \in DOMAIN s.reqs \cup {0}
    /\ \A i \in DOMAIN q.reqs :
          s.reqs[i] = IF i = m THEN Marked(q.reqs[i], "sent") ELSE q.reqs[i]
    /\ \A i \in DOMAIN s.reqs \ DOMAIN q.reqs :
          /\ s.reqs[i].pkt = p /\ s.reqs[i].type = pkt[p].type /\ ~ s.reqs[i].orphan
          /\ s.reqs[i].st = IF i = m THEN "sent" ELSE "queued"
    /\ pkt[p].type # "WRITE" => \A i, j \in DOMAIN s.reqs \ DOMAIN q.reqs : i = j
    /\ pkt[p].type # "WRITE" \/ pkt[p].chunks # 0 =>
          \E i \in DOMAIN s.reqs \ DOMAIN q.reqs : s.reqs[i].left = 0
    /\ m = 0 => s.writer = q.writer /\ s.ready = q.ready
    /\ m # 0 => /\ q.ready /\ s.writer = m /\ s.ready = FALSE
                /\ m \in DOMAIN q.reqs => q.reqs[m].st = "queued"

LEMMA AskIs ==
    ASSUME q \in Queues, pkt \in [Pkts -> Packet], NEW p \in Pkts, Linked,
           Len(Asked(p)) <= Cardinality(FreeIds(q))
    PROVE  \E m : AskedBy(p, EnqueuesAll(q, Asked(p)), m)
<1> DEFINE rs == Asked(p)
           n == IF pkt[p].type = "WRITE" THEN pkt[p].chunks ELSE 1
           t == EnqueuesAll(q, rs)
<1>1. /\ n \in Nat
      /\ DOMAIN rs = 1..n /\ Len(rs) = n
      /\ \A j \in 1..n :
            /\ rs[j] \in Request /\ rs[j].st = "queued"
            /\ rs[j].pkt = p /\ rs[j].type = pkt[p].type
            /\ rs[j].orphan = FALSE
      /\ n # 0 => rs[n].left = 0
      /\ pkt[p].type # "WRITE" => n = 1
      /\ pkt[p].type # "WRITE" \/ pkt[p].chunks # 0 => n # 0
  <2>1. pkt[p].type # "WRITE" => n = 1
    OBVIOUS
  <2>2. pkt[p].type # "WRITE" \/ pkt[p].chunks # 0 => n # 0
    OBVIOUS
  <2>3. /\ n \in Nat
        /\ DOMAIN rs = 1..n /\ Len(rs) = n
        /\ \A j \in 1..n :
              /\ rs[j] \in Request /\ rs[j].st = "queued"
              /\ rs[j].pkt = p /\ rs[j].type = pkt[p].type
              /\ rs[j].orphan = FALSE
        /\ n # 0 => rs[n].left = 0
    BY AskedIs, Zenon
  <2> QED BY <2>1, <2>2, <2>3, Zenon
<1>2. Links(q.links, REQ, Queued(q)) /\ 0 \notin Ids
  BY NodesAre DEF Linked, In, Queued
<1>3. n <= Cardinality(FreeIds(q))
  BY <1>1
<1> HIDE DEF rs, n
<1>4. CASE n = 0
  <2>1. PICK f : FoldsBy(f, n, q, rs)
    BY <1>1, FoldsLeft, Zenon
  <2>2. t = q
    BY <1>4, <2>1 DEF FoldsBy
  <2> HIDE DEF t
  <2>3. AskedBy(p, t, 0)
    <3>1. DOMAIN q.reqs \subseteq Ids /\ q.ready \in BOOLEAN
      BY QueueFields
    <3>2. DOMAIN t.reqs \ DOMAIN q.reqs = {}
      BY <2>2
    <3> QED BY <1>1, <1>2, <1>4, <2>2, <3>1, <3>2 DEF AskedBy
  <2> QED BY <2>3 DEF t, rs
<1>5. CASE n # 0
  <2>1. \E m \in Ids \cup {0} : EnqueuedAll(q, t, rs, n, m)
    <3>1. n \in Nat \ {0} /\ \A j \in 1..n : rs[j] \in Request /\ rs[j].st = "queued"
      BY <1>1, <1>5
    <3> QED BY <1>1, <1>2, <1>3, <3>1, EnqueuedAllIs, Zenon
  <2>2. PICK m \in Ids \cup {0} : EnqueuedAll(q, t, rs, n, m)
    BY <2>1
  <2> HIDE DEF t
  <2>3. /\ t \in Queues
        /\ DOMAIN q.reqs \subseteq DOMAIN t.reqs /\ m \in DOMAIN t.reqs \cup {0}
        /\ Cardinality(DOMAIN t.reqs) = Cardinality(DOMAIN q.reqs) + n
        /\ \A i \in DOMAIN q.reqs :
              t.reqs[i] = IF i = m THEN Marked(q.reqs[i], "sent") ELSE q.reqs[i]
        /\ \A i \in DOMAIN t.reqs \ DOMAIN q.reqs :
              \E j \in 1..n : t.reqs[i] = IF i = m THEN Marked(rs[j], "sent") ELSE rs[j]
        /\ \A j \in 1..n : \E i \in DOMAIN t.reqs \ DOMAIN q.reqs :
              t.reqs[i] = IF i = m THEN Marked(rs[j], "sent") ELSE rs[j]
        /\ (m = 0 => ~ q.ready /\ t.writer = q.writer)
        /\ (m # 0 => q.ready /\ t.writer = m /\ (m \in DOMAIN q.reqs => m \in Queued(q)))
        /\ t.ready = FALSE
    BY <2>2, Zenon DEF EnqueuedAll
  <2> DEFINE New == DOMAIN t.reqs \ DOMAIN q.reqs
  <2>4. ASSUME NEW i \in New
        PROVE  /\ t.reqs[i].pkt = p /\ t.reqs[i].type = pkt[p].type /\ ~ t.reqs[i].orphan
               /\ t.reqs[i].st = IF i = m THEN "sent" ELSE "queued"
    <3>1. PICK j \in 1..n : t.reqs[i] = IF i = m THEN Marked(rs[j], "sent") ELSE rs[j]
      BY <2>3
    <3>2. /\ rs[j] \in Request /\ rs[j].st = "queued" /\ rs[j].pkt = p
          /\ rs[j].type = pkt[p].type /\ rs[j].orphan = FALSE
      BY <1>1
    <3>3. /\ Marked(rs[j], "sent").st = "sent" /\ Marked(rs[j], "sent").pkt = p
          /\ Marked(rs[j], "sent").type = pkt[p].type /\ Marked(rs[j], "sent").orphan = FALSE
      BY <3>2, MarkedIs
    <3> HIDE DEF New
    <3> QED BY <3>1, <3>2, <3>3
  <2>5. ASSUME pkt[p].type # "WRITE"
        PROVE  \A i, j \in New : i = j
    <3>1. n = 1
      BY <1>1, <2>5
    <3>2. IsFiniteSet(DOMAIN t.reqs) /\ Cardinality(DOMAIN t.reqs) \in Nat
      BY <2>3, NumbersLeft
    <3>3. Cardinality(New) = Cardinality(DOMAIN t.reqs) - Cardinality(DOMAIN q.reqs)
          /\ IsFiniteSet(New)
      <4>1. /\ IsFiniteSet(New)
            /\ Cardinality(New) =
                  Cardinality(DOMAIN t.reqs) - Cardinality(DOMAIN t.reqs \cap DOMAIN q.reqs)
        BY <3>2, FS_Difference
      <4>2. DOMAIN t.reqs \cap DOMAIN q.reqs = DOMAIN q.reqs
        BY <2>3
      <4> QED BY <4>1, <4>2
    <3>4. Cardinality(New) = 1
      BY <2>3, <3>1, <3>2, <3>3, NumbersLeft
    <3> HIDE DEF New
    <3>5. \E x : New = {x}
      BY <3>3, <3>4, FS_Singleton
    <3> QED BY <3>5
  <2>6. ASSUME pkt[p].type # "WRITE" \/ pkt[p].chunks # 0
        PROVE  \E i \in New : t.reqs[i].left = 0
    <3>1. n \in 1..n /\ rs[n].left = 0 /\ rs[n] \in Request
      BY <1>1, <1>5
    <3>2. PICK i \in New : t.reqs[i] = IF i = m THEN Marked(rs[n], "sent") ELSE rs[n]
      BY <2>3, <3>1
    <3>3. Marked(rs[n], "sent").left = 0
      BY <3>1, MarkedIs
    <3> HIDE DEF New
    <3> QED BY <3>1, <3>2, <3>3
  <2>7. q.ready \in BOOLEAN
    BY QueueFields
  <2>8. m # 0 => (m \in DOMAIN q.reqs => q.reqs[m].st = "queued")
    BY <2>3 DEF Queued
  <2>9. AskedBy(p, t, m)
    BY <2>3, <2>4, <2>5, <2>6, <2>7, <2>8 DEF AskedBy
  <2> QED BY <2>9 DEF t, rs
<1> QED BY <1>4, <1>5

-----------------------------------------------------------------------------
(* Types.                                                                  *)

LEMMA TypeInvInit == Init => TypeInv
<1> SUFFICES ASSUME Init
             PROVE  TypeInv
  OBVIOUS
<1>1. NoPacket \in Packet
  <2>1. (CHOOSE v \in Vols : TRUE) \in Vols
    BY ApbFsAssumption
  <2> QED BY <2>1 DEF NoPacket, Packet, PktTypes
<1>2. at \in [Pkts -> {"client", "port", "handler"}] /\ pkt \in [Pkts -> Packet]
  BY <1>1 DEF Init
<1>3. /\ own \in [Vols -> [BOOLEAN -> Nat]] /\ leaked \in [Vols -> Nat]
      /\ lockCount \in [Vols -> Int] /\ locks \in Int /\ locks <= MaxLocks
  BY ApbFsAssumption DEF Init
<1>4. vols \in Seq(Vols) /\ IsInjective(vols) /\ mounted \subseteq ToSet(vols) /\ remounted \subseteq Vols
  BY DEF Init, IsInjective
<1>5. port \in [Vols -> Seq(Pkts)] /\ piReqs \in Seq(Ids) /\ remotePort \in Seq({"reader", "writer"})
  BY DEF Init
<1>6. q \in Queues
  <2> DEFINE l == [succ |-> [n \in Nodes |-> n], pred |-> [n \in Nodes |-> n]]
  <2>1. l \in Lists
    BY DEF Lists
  <2>2. <<>> \in Tables
    <3>1. <<>> = [i \in {} |-> <<>>[i]]
      OBVIOUS
    <3> QED BY <3>1, TableIs
  <2>3. q = [links |-> l, reqs |-> <<>>, writer |-> 0, ready |-> TRUE, again |-> FALSE]
    BY DEF Init
  <2> HIDE DEF l
  <2> QED BY <2>1, <2>2, <2>3 DEF Queues
<1>7. resp \in Messages
  BY DEF Init, NoMsg, Messages
<1>8. PktsOK /\ LocksOK /\ VolsOK
  BY <1>2, <1>3, <1>4, <1>5 DEF PktsOK, LocksOK, VolsOK
<1>9. LineOK /\ RunOK
  BY <1>5, <1>7 DEF Init, LineOK, RunOK
<1> QED BY <1>6, <1>8, <1>9 DEF TypeInv

LEMMA MessagesAre ==
    /\ NoMsg \in Messages /\ NoMsg.key = "none"
    /\ [key |-> "error"] \in Messages
    /\ \A key \in {"mount", "unmount"}, v \in Vols : [key |-> key, vol |-> v] \in Messages
    /\ \A n \in Ids, res \in {More, Final, Error} :
          [key |-> "request", req |-> n, res2 |-> res] \in Messages
    /\ \A m \in Messages :
          /\ m.key \in {"none", "error", "mount", "unmount", "request"}
          /\ m.key \in {"mount", "unmount"} => m.vol \in Vols
          /\ m.key = "request" => m.req \in Ids /\ m.res2 \in {More, Final, Error}
BY DEF Messages, NoMsg

LEMMA TypesKept ==
    /\ PktsOK /\ UNCHANGED pktVars => PktsOK'
    /\ LocksOK /\ UNCHANGED lockVars => LocksOK'
    /\ VolsOK /\ UNCHANGED volVars => VolsOK'
    /\ LineOK /\ UNCHANGED lineVars /\ UNCHANGED readVars => LineOK'
    /\ RunOK /\ UNCHANGED runVars /\ UNCHANGED pc => RunOK'
    /\ UNCHANGED q /\ q \in Queues => q' \in Queues
<1>1. PktsOK /\ UNCHANGED pktVars => PktsOK'
  BY DEF PktsOK, pktVars
<1>2. LocksOK /\ UNCHANGED lockVars => LocksOK'
  BY DEF LocksOK, lockVars
<1>3. VolsOK /\ UNCHANGED volVars => VolsOK'
  BY DEF VolsOK, volVars
<1>4. LineOK /\ UNCHANGED lineVars /\ UNCHANGED readVars => LineOK'
  BY DEF LineOK, lineVars, readVars
<1>5. RunOK /\ UNCHANGED runVars /\ UNCHANGED pc => RunOK'
  BY DEF RunOK, runVars
<1> QED BY <1>1, <1>2, <1>3, <1>4, <1>5

LEMMA HeadTail ==
    ASSUME NEW S, NEW s \in Seq(S), s # <<>>
    PROVE  /\ Head(s) \in S /\ Tail(s) \in Seq(S) /\ 1 \in DOMAIN s /\ Head(s) = s[1]
           /\ \A k \in DOMAIN Tail(s) : k + 1 \in DOMAIN s /\ Tail(s)[k] = s[k + 1]
           /\ \A k \in DOMAIN s : k = 1 \/ (k - 1 \in DOMAIN Tail(s) /\ Tail(s)[k - 1] = s[k])
OBVIOUS

LEMMA AppendIs ==
    ASSUME NEW S, NEW s \in Seq(S), NEW x \in S
    PROVE  /\ Append(s, x) \in Seq(S) /\ Len(s) + 1 \in DOMAIN Append(s, x)
           /\ Append(s, x)[Len(s) + 1] = x
           /\ \A k \in DOMAIN s : k \in DOMAIN Append(s, x) /\ Append(s, x)[k] = s[k]
           /\ \A k \in DOMAIN Append(s, x) : k \in DOMAIN s \/ k = Len(s) + 1
           /\ Len(s) + 1 \notin DOMAIN s
OBVIOUS

\* A packet is taken off its port.
LEMMA PortTaken ==
    ASSUME PktsOK, NEW v \in Vols, NEW p \in ToSet(port[v]), GetDosPacket(p, v)
    PROVE  /\ p \in Pkts /\ port[v] \in Seq(Pkts) /\ port[v] # <<>> /\ p = Head(port[v])
           /\ port' = [port EXCEPT ![v] = Tail(port[v])] /\ port' \in [Vols -> Seq(Pkts)]
<1>1. port[v] \in Seq(Pkts) /\ port[v] # <<>> /\ p = Head(port[v]) /\ port \in [Vols -> Seq(Pkts)]
  BY DEF PktsOK, GetDosPacket
<1>2. p \in Pkts /\ Tail(port[v]) \in Seq(Pkts)
  BY <1>1, HeadTail
<1>3. port' = [port EXCEPT ![v] = Tail(port[v])]
  BY DEF GetDosPacket
<1> QED BY <1>1, <1>2, <1>3

LEMMA Replied ==
    ASSUME PktsOK, NEW p \in Pkts, ReplyToDosPacket(p), port' \in [Vols -> Seq(Pkts)]
    PROVE  PktsOK'
<1>1. NoPacket \in Packet
  <2>1. (CHOOSE v \in Vols : TRUE) \in Vols
    BY ApbFsAssumption
  <2> QED BY <2>1 DEF NoPacket, Packet, PktTypes
<1> QED BY <1>1 DEF PktsOK, ReplyToDosPacket

\* The locks that the replies give out or take back.
LEMMA LocksChanged ==
    ASSUME LocksOK, NEW v \in Vols, NEW root \in BOOLEAN, NEW ok
    PROVE  /\ FS_AllocLock(v, root) => LocksOK'
           /\ FreeLockReply(v) => LocksOK'
           /\ FHFromLockReply(v, ok) => LocksOK'
           /\ LocateObjectReply(v, ok) => LocksOK'
<1>1. MaxLocks \in Nat
  BY ApbFsAssumption
<1>2. FS_AllocLock(v, root) => LocksOK'
  BY <1>1 DEF LocksOK, FS_AllocLock
<1>3. FreeLockReply(v) => LocksOK'
  BY <1>1 DEF LocksOK, FreeLockReply
<1>4. FHFromLockReply(v, ok) => LocksOK'
  <2>1. \A r \in BOOLEAN : [own EXCEPT ![v][r] = @ + 1] \in [Vols -> [BOOLEAN -> Nat]]
    BY DEF LocksOK
  <2>2. [own EXCEPT ![v][FALSE] = @ + 1] \in [Vols -> [BOOLEAN -> Nat]]
    BY <2>1, Zenon
  <2>3. [leaked EXCEPT ![v] = @ + 1] \in [Vols -> Nat]
    BY DEF LocksOK
  <2> QED BY <2>2, <2>3 DEF LocksOK, FHFromLockReply
<1>5. FS_AllocLock(v, FALSE) => LocksOK'
  <2>1. \A r \in BOOLEAN : FS_AllocLock(v, r) => LocksOK'
    BY <1>1 DEF LocksOK, FS_AllocLock
  <2> QED BY <2>1, Zenon
<1>6. LocateObjectReply(v, ok) => LocksOK'
  BY <1>5, TypesKept DEF LocateObjectReply
<1> QED BY <1>2, <1>3, <1>4, <1>6

LEMMA PostedTypes ==
    ASSUME LineOK, RunOK, NEW m \in {"reader", "writer"}, PostToRemotePort(m)
    PROVE  /\ remotePort' \in Seq({"reader", "writer"})
           /\ sig' \cup got \subseteq Vols \cup {REMOTE, BREAK}
<1>1. remotePort \in Seq({"reader", "writer"})
  BY DEF LineOK
<1>2. remotePort' = Append(remotePort, m) /\ sig' = sig \cup {REMOTE}
  BY DEF PostToRemotePort
<1>3. remotePort' \in Seq({"reader", "writer"})
  BY <1>1, <1>2, AppendIs
<1> QED BY <1>2, <1>3 DEF RunOK

LEMMA ReadTypes ==
    ASSUME LineOK, RunOK, NEW m \in Messages, ReadDone(m), piReqs' \in Seq(Ids)
    PROVE  LineOK' /\ RunOK'
<1>1. /\ remotePort' \in Seq({"reader", "writer"})
      /\ sig' \cup got \subseteq Vols \cup {REMOTE, BREAK}
  BY PostedTypes DEF ReadDone
<1>2. reading' = FALSE /\ resp' = m /\ got' = got /\ pc' = pc
  BY DEF ReadDone
<1> QED BY <1>1, <1>2 DEF LineOK, RunOK

LEMMA GotTypes ==
    ASSUME LineOK, RunOK, NEW m, GetRemoteMsg(m), pc' \in {pc, "wild"},
           resp' \in Messages, reading' \in BOOLEAN
    PROVE  LineOK' /\ RunOK'
<1>1. remotePort \in Seq({"reader", "writer"}) /\ remotePort # <<>> /\ remotePort' = Tail(remotePort)
  BY DEF GetRemoteMsg, LineOK
<1>2. remotePort' \in Seq({"reader", "writer"})
  BY <1>1, HeadTail
<1>3. piReqs' = piReqs /\ sig' = sig /\ got' = got
  BY DEF GetRemoteMsg, lineVars, runVars
<1> QED BY <1>2, <1>3 DEF LineOK, RunOK

LEMMA WithVolumeIs ==
    ASSUME VolsOK, NEW v \in Vols
    PROVE  /\ WithVolume(v) \in Seq(Vols) /\ IsInjective(WithVolume(v))
           /\ ToSet(WithVolume(v)) = ToSet(vols) \cup {v}
<1>1. vols \in Seq(Vols) /\ IsInjective(vols)
  BY DEF VolsOK
<1>2. CASE v \in ToSet(vols)
  BY <1>1, <1>2 DEF WithVolume
<1>3. CASE v \notin ToSet(vols)
  <2> DEFINE a == Append(vols, v)
  <2>1. /\ a \in Seq(Vols) /\ Len(vols) + 1 \in DOMAIN a /\ a[Len(vols) + 1] = v
        /\ \A k \in DOMAIN vols : k \in DOMAIN a /\ a[k] = vols[k]
        /\ \A k \in DOMAIN a : k \in DOMAIN vols \/ k = Len(vols) + 1
    BY <1>1, AppendIs
  <2>2. WithVolume(v) = a
    BY <1>3 DEF WithVolume
  <2> HIDE DEF a
  <2>3. \A k \in DOMAIN vols : vols[k] # v
    BY <1>3 DEF ToSet
  <2>4. IsInjective(a)
    BY <1>1, <2>1, <2>3 DEF IsInjective
  <2>5. ToSet(a) = ToSet(vols) \cup {v}
    BY <2>1 DEF ToSet
  <2> QED BY <2>1, <2>2, <2>4, <2>5
<1> QED BY <1>2, <1>3

LEMMA ResponseTypes ==
    ASSUME TypeInv, NEW key, Response(key), pc' \in {pc, "wild"}
    PROVE  LineOK' /\ RunOK' /\ resp.key = key /\ pc = "run" /\ resp \in Messages /\ Linked
<1>1. GetRemoteMsg("reader") /\ resp.key = key /\ reading' = TRUE /\ resp' = NoMsg
  BY DEF Response
<1>2. LineOK' /\ RunOK'
  BY <1>1, GotTypes, MessagesAre DEF TypeInv
<1> QED BY <1>1, <1>2 DEF GetRemoteMsg, Running, TypeInv, LineOK

LEMMA TypeInvNext ==
    ASSUME TypeInv, LineInv, [Next]_vars
    PROVE  TypeInv'
<1>0. PktsOK /\ LocksOK /\ VolsOK /\ LineOK /\ RunOK /\ q \in Queues /\ pkt \in [Pkts -> Packet]
  BY DEF TypeInv, PktsOK
<1>1. CASE UNCHANGED vars
  BY <1>0, <1>1, TypesKept DEF TypeInv, vars
<1>2. CASE Wait \/ NoMoreDos \/ NoMoreRemote \/ Break
  <2>1. /\ UNCHANGED pktVars /\ UNCHANGED lockVars /\ UNCHANGED volVars /\ UNCHANGED lineVars
        /\ UNCHANGED readVars /\ UNCHANGED q /\ UNCHANGED pc
    BY <1>2 DEF Wait, NoMoreDos, NoMoreRemote, Break
  <2>2. RunOK'
    BY <1>0, <1>2, <2>1 DEF Wait, NoMoreDos, NoMoreRemote, Break, RunOK
  <2> QED BY <1>0, <2>1, <2>2, TypesKept DEF TypeInv
<1>3. CASE BreakSeen
  <2>1. /\ UNCHANGED pktVars /\ UNCHANGED lockVars /\ UNCHANGED lineVars
        /\ UNCHANGED readVars /\ UNCHANGED q
    BY <1>3 DEF BreakSeen
  <2>2. RunOK'
    BY <1>0, <1>3 DEF BreakSeen, FS_FreeDevice, RunOK
  <2>3. VolsOK'
    <3>1. CASE UNCHANGED <<pc, vols, mounted>>
      BY <1>0, <1>3, <3>1, TypesKept DEF BreakSeen, volVars
    <3>2. CASE FS_FreeDevice
      BY <1>0, <1>3, <3>2 DEF BreakSeen, FS_FreeDevice, VolsOK, IsInjective
    <3> QED BY <1>3, <3>1, <3>2 DEF BreakSeen
  <2> QED BY <1>0, <2>1, <2>2, <2>3, TypesKept DEF TypeInv
<1>4. ASSUME NEW v \in Vols, NEW p \in ToSet(port[v]),
             ReplyAtOnce(p, v) \/ ActionCopyDir(p, v) \/ Ask(p, v) \/ OutOfRequests(p, v)
      PROVE  TypeInv'
  <2>1. GetDosPacket(p, v)
    BY <1>4 DEF ReplyAtOnce, ActionCopyDir, Ask, OutOfRequests
  <2>2. /\ UNCHANGED volVars /\ UNCHANGED lineVars /\ UNCHANGED readVars /\ UNCHANGED runVars /\ Linked
        /\ pc = "run"
    BY <2>1 DEF GetDosPacket, Running
  <2>3. VolsOK' /\ LineOK'
    BY <1>0, <2>2, TypesKept
  <2>4. p \in Pkts /\ port' \in [Vols -> Seq(Pkts)]
    BY <1>0, <2>1, PortTaken
  <2>5. CASE ReplyAtOnce(p, v)
    <3>1. PktsOK'
      BY <1>0, <2>4, <2>5, Replied DEF ReplyAtOnce
    <3>2. LocksOK'
      <4>1. UNCHANGED <<lockCount, locks>>
        BY <2>5 DEF ReplyAtOnce
      <4>2. leaked' \in [Vols -> Nat]
        BY <1>0, <2>5 DEF ReplyAtOnce, LocksOK
      <4>3. own' \in [Vols -> [BOOLEAN -> Nat]]
        <5>1. \A r \in BOOLEAN : [own EXCEPT ![v][r] = @ + 1] \in [Vols -> [BOOLEAN -> Nat]]
          BY <1>0 DEF LocksOK
        <5>2. [own EXCEPT ![v][FALSE] = @ + 1] \in [Vols -> [BOOLEAN -> Nat]]
          BY <5>1, Zenon
        <5>3. own \in [Vols -> [BOOLEAN -> Nat]]
          BY <1>0 DEF LocksOK
        <5>4. own' = own \/ own' = [own EXCEPT ![v][FALSE] = @ + 1]
          BY <2>5 DEF ReplyAtOnce
        <5> QED BY <5>2, <5>3, <5>4
      <4> QED BY <1>0, <4>1, <4>2, <4>3 DEF LocksOK
    <3>3. UNCHANGED q /\ UNCHANGED pc
      BY <2>5 DEF ReplyAtOnce
    <3> QED BY <1>0, <2>2, <2>3, <3>1, <3>2, <3>3, TypesKept DEF TypeInv
  <2>6. CASE ActionCopyDir(p, v)
    <3>1. PktsOK'
      BY <1>0, <2>4, <2>6, Replied DEF ActionCopyDir
    <3>2. LocksOK'
      <4>1. pkt[p].root \in BOOLEAN
        BY <1>0, <2>4, PacketFields
      <4>2. FS_AllocLock(v, pkt[p].root) \/ UNCHANGED lockVars
        BY <2>6 DEF ActionCopyDir
      <4> QED BY <1>0, <4>1, <4>2, LocksChanged, TypesKept
    <3>3. UNCHANGED q /\ UNCHANGED pc
      BY <2>6 DEF ActionCopyDir
    <3> QED BY <1>0, <2>2, <2>3, <3>1, <3>2, <3>3, TypesKept DEF TypeInv
  <2>7. CASE Ask(p, v)
    <3> DEFINE s == EnqueuesAll(q, Asked(p))
    <3>1. UNCHANGED lockVars /\ UNCHANGED pc
      BY <2>7 DEF Ask
    <3>2. s \in Queues
      <4>1. Len(Asked(p)) <= Cardinality(FreeIds(q))
        BY <2>7 DEF Ask
      <4>2. \E m : AskedBy(p, s, m)
        BY <1>0, <2>2, <2>4, <4>1, AskIs
      <4> HIDE DEF s
      <4> QED BY <4>2 DEF AskedBy
    <3>3. IF RepliesToo(p)
          THEN ReplyToDosPacket(p) /\ q' = Orphaned(s, p)
          ELSE at' = [at EXCEPT ![p] = "handler"] /\ q' = s /\ UNCHANGED pkt
      BY <2>7 DEF Ask, EnqueuesAll
    <3> HIDE DEF s
    <3>4. q' \in Queues
      BY <3>2, <3>3, OrphanedIs
    <3>5. PktsOK'
      <4>1. CASE ReplyToDosPacket(p)
        BY <1>0, <2>4, <4>1, Replied
      <4>2. CASE at' = [at EXCEPT ![p] = "handler"] /\ UNCHANGED pkt
        BY <1>0, <2>4, <4>2 DEF PktsOK
      <4> QED BY <3>3, <4>1, <4>2
    <3> QED BY <1>0, <2>2, <2>3, <3>1, <3>4, <3>5, TypesKept DEF TypeInv
  <2>8. CASE OutOfRequests(p, v)
    <3>1. UNCHANGED <<at, pkt, lockVars, q>> /\ pc' = "dead"
      BY <2>8 DEF OutOfRequests
    <3>2. PktsOK'
      BY <1>0, <2>4, <3>1 DEF PktsOK
    <3>3. RunOK'
      BY <1>0, <2>2, <3>1 DEF RunOK, runVars
    <3> QED BY <1>0, <2>2, <2>3, <3>1, <3>2, <3>3, TypesKept DEF TypeInv
  <2> QED BY <1>4, <2>5, <2>6, <2>7, <2>8
<1>5. CASE WriterBack
  <2>1. /\ GetRemoteMsg("writer") /\ q' = SendNext
        /\ UNCHANGED <<pktVars, lockVars, volVars, resp, reading, pc, events>>
    BY <1>5 DEF WriterBack
  <2>2. q' \in Queues
    <3>1. Linked
      BY <2>1 DEF GetRemoteMsg
    <3> QED BY <1>0, <2>1, <3>1, SendNextIs DEF SentOne
  <2>3. LineOK' /\ RunOK'
    <3>1. resp' \in Messages /\ reading' \in BOOLEAN /\ pc' \in {pc, "wild"}
      BY <1>0, <2>1 DEF LineOK
    <3> QED BY <1>0, <2>1, <3>1, GotTypes
  <2> QED BY <1>0, <2>1, <2>2, <2>3, TypesKept DEF TypeInv
<1>6. CASE ReaderError
  <2>1. /\ GetRemoteMsg("reader")
        /\ UNCHANGED <<pktVars, lockVars, volVars, resp, reading, q, pc, events>>
    BY <1>6 DEF ReaderError
  <2>2. LineOK' /\ RunOK'
    <3>1. resp' \in Messages /\ reading' \in BOOLEAN /\ pc' \in {pc, "wild"}
      BY <1>0, <2>1 DEF LineOK
    <3> QED BY <1>0, <2>1, <3>1, GotTypes
  <2> QED BY <1>0, <2>1, <2>2, TypesKept DEF TypeInv
<1>7. CASE HandleMountVolume
  <2>1. /\ Response("mount") /\ (FS_MountVolume(resp.vol) \/ MountFails(resp.vol))
        /\ UNCHANGED <<pktVars, own, locks, leaked, q, pc>>
    BY <1>7 DEF HandleMountVolume
  <2>2. Response("mount")
    BY <1>7 DEF HandleMountVolume
  <2>3. LineOK' /\ RunOK' /\ resp.key = "mount" /\ resp \in Messages
    BY <2>1, <2>2, ResponseTypes
  <2> DEFINE v == resp.vol
  <2>4. v \in Vols
    BY <2>3, MessagesAre
  <2> HIDE DEF v
  <2>5. /\ WithVolume(v) \in Seq(Vols) /\ IsInjective(WithVolume(v))
        /\ ToSet(WithVolume(v)) = ToSet(vols) \cup {v}
    BY <1>0, <2>4, WithVolumeIs
  <2>6. CASE FS_MountVolume(v)
    <3>1. VolsOK'
      BY <1>0, <2>4, <2>5, <2>6 DEF FS_MountVolume, VolsOK
    <3>2. LocksOK'
      BY <1>0, <2>1, <2>4, <2>6 DEF FS_MountVolume, LocksOK
    <3> QED BY <1>0, <2>1, <2>3, <3>1, <3>2, TypesKept DEF TypeInv
  <2>7. CASE MountFails(v)
    <3>1. VolsOK'
      BY <1>0, <2>4, <2>5, <2>7 DEF MountFails, VolsOK
    <3>2. LocksOK'
      BY <1>0, <2>1, <2>4, <2>7 DEF MountFails, LocksOK
    <3> QED BY <1>0, <2>1, <2>3, <3>1, <3>2, TypesKept DEF TypeInv
  <2>8. FS_MountVolume(v) \/ MountFails(v)
    BY <1>7 DEF HandleMountVolume, v
  <2> QED BY <2>6, <2>7, <2>8
<1>8. CASE HandleUnmountVolume
  <2>1. /\ Response("unmount") /\ FS_UnmountVolume(resp.vol)
        /\ UNCHANGED <<pktVars, lockVars, vols, remounted, q, pc, events>>
    BY <1>8 DEF HandleUnmountVolume
  <2>2. LineOK' /\ RunOK'
    BY <2>1, ResponseTypes
  <2>3. VolsOK'
    BY <1>0, <2>1 DEF FS_UnmountVolume, VolsOK
  <2> QED BY <1>0, <2>1, <2>2, <2>3, TypesKept DEF TypeInv
<1>9. CASE AnsweredTwice \/ AnsweredInPart
  <2>1. /\ Response("request") /\ q' = Answered(resp.req) /\ pc' \in {pc, "wild"}
        /\ UNCHANGED pktVars /\ UNCHANGED lockVars /\ UNCHANGED volVars
    BY <1>9 DEF AnsweredTwice, AnsweredInPart
  <2>2. LineOK' /\ RunOK' /\ resp.key = "request"
    BY <2>1, ResponseTypes
  <2>3. resp.req \in DOMAIN q.reqs
    BY <2>2 DEF LineInv, RespInv
  <2>4. q' \in Queues
    BY <1>0, <2>1, <2>3, AnsweredIs
  <2> QED BY <1>0, <2>1, <2>2, <2>4, TypesKept DEF TypeInv
<1>10. CASE AnsweredWhole
  <2> DEFINE n == resp.req
             r == q.reqs[n]
             v == pkt[r.pkt].vol
             ok == resp.res2 = Final
  <2>1. /\ Response("request")
        /\ FreeLockReply(v) \/ FHFromLockReply(v, ok) \/ LocateObjectReply(v, ok) \/ OtherReply
        /\ pc' \in {pc, "wild"}
        /\ ReplyToDosPacket(r.pkt)
        /\ q' = FreeRequest(Orphaned(Answered(n), r.pkt), n)
        /\ UNCHANGED port /\ UNCHANGED volVars
    BY <1>10 DEF AnsweredWhole
  <2>2. LineOK' /\ RunOK' /\ resp.key = "request"
    BY <2>1, ResponseTypes
  <2>3. n \in DOMAIN q.reqs
    BY <2>2 DEF LineInv, RespInv
  <2>4. q' \in Queues
    <3>1. Answered(n) \in Queues /\ n \in DOMAIN Answered(n).reqs
      BY <1>0, <2>3, AnsweredIs
    <3>2. /\ Orphaned(Answered(n), r.pkt) \in Queues
          /\ n \in DOMAIN Orphaned(Answered(n), r.pkt).reqs
      BY <3>1, OrphanedIs
    <3> QED BY <2>1, <3>2, FreeRequestIs
  <2>5. r.pkt \in Pkts
    BY <1>0, <2>3, QueueFields, RequestFields
  <2>6. v \in Vols
    BY <1>0, <2>5, PacketFields
  <2>7. PktsOK'
    BY <1>0, <2>1, <2>5, Replied DEF PktsOK
  <2>8. LocksOK'
    BY <1>0, <2>1, <2>6, LocksChanged, TypesKept DEF OtherReply
  <2> QED BY <1>0, <2>1, <2>2, <2>4, <2>7, <2>8, TypesKept DEF TypeInv
<1>11. CASE WriteDone
  <2>1. /\ q.writer # 0 /\ q' = [q EXCEPT !.writer = 0] /\ PostToRemotePort("writer")
        /\ UNCHANGED <<pktVars, lockVars, volVars, connected, parts, resp, reading, pc, got, missed,
                       boundVars>>
        /\ piReqs' = IF connected THEN Append(piReqs, q.writer) ELSE piReqs
    BY <1>11 DEF WriteDone
  <2>2. q' \in Queues
    BY <1>0, <2>1 DEF Queues
  <2>3. /\ remotePort' \in Seq({"reader", "writer"})
        /\ sig' \cup got \subseteq Vols \cup {REMOTE, BREAK}
    BY <1>0, <2>1, PostedTypes
  <2>4. piReqs' \in Seq(Ids)
    <3>1. q.writer \in Ids /\ piReqs \in Seq(Ids)
      BY <1>0, <2>1, QueueFields DEF LineOK
    <3> QED BY <2>1, <3>1, AppendIs
  <2>5. LineOK' /\ RunOK'
    BY <1>0, <2>1, <2>3, <2>4 DEF LineOK, RunOK
  <2> QED BY <1>0, <2>1, <2>2, <2>5, TypesKept DEF TypeInv
<1>12. CASE PiAnswers
  <2> DEFINE n == Head(piReqs)
  <2>1. PICK res \in Results(q.reqs[n]) :
           /\ ReadDone([key |-> "request", req |-> n, res2 |-> res])
           /\ piReqs' \in {piReqs, Tail(piReqs)}
    BY <1>12 DEF PiAnswers
  <2>2. piReqs \in Seq(Ids) /\ piReqs # <<>>
    BY <1>0, <1>12 DEF PiAnswers, LineOK
  <2>3. n \in Ids /\ piReqs' \in Seq(Ids)
    BY <2>1, <2>2, HeadTail
  <2> HIDE DEF n
  <2>4. res \in {More, Final, Error}
    BY <2>1 DEF Results
  <2>5. LineOK' /\ RunOK'
    BY <1>0, <2>1, <2>3, <2>4, MessagesAre, ReadTypes
  <2> QED BY <1>0, <2>1, <2>5, TypesKept DEF TypeInv, ReadDone
<1>13. CASE PiSkipsEnd
  <2>1. /\ piReqs # <<>> /\ piReqs' = Tail(piReqs)
        /\ UNCHANGED <<pktVars, lockVars, volVars, connected, parts, readVars, q, pc, runVars,
                       boundVars>>
    BY <1>13 DEF PiSkipsEnd
  <2>2. piReqs' \in Seq(Ids)
    BY <1>0, <2>1, HeadTail DEF LineOK
  <2>3. LineOK'
    BY <1>0, <2>1, <2>2 DEF LineOK, readVars
  <2> QED BY <1>0, <2>1, <2>3, TypesKept DEF TypeInv
<1>14. ASSUME NEW key \in {"mount", "unmount"}, NEW v \in Vols, PiMounts(key, v)
       PROVE  TypeInv'
  <2>1. ReadDone([key |-> key, vol |-> v]) /\ UNCHANGED lineVars
    BY <1>14 DEF PiMounts
  <2>2. LineOK' /\ RunOK'
    BY <1>0, <2>1, MessagesAre, ReadTypes DEF lineVars, LineOK
  <2> QED BY <1>0, <2>1, <2>2, TypesKept DEF TypeInv, ReadDone
<1>15. CASE LoseConnection
  <2>1. ReadDone([key |-> "error"]) /\ UNCHANGED piReqs
    BY <1>15 DEF LoseConnection
  <2>2. LineOK' /\ RunOK'
    BY <1>0, <2>1, MessagesAre, ReadTypes DEF LineOK
  <2> QED BY <1>0, <2>1, <2>2, TypesKept DEF TypeInv, ReadDone
<1>16. ASSUME NEW type \in Types, NEW v \in ToSet(vols), NEW root \in BOOLEAN,
              NEW chunks \in Chunks \cup {0}, Send(type, v, root, chunks)
       PROVE  TypeInv'
  <2> DEFINE free == {x \in Pkts : at[x] = "client"}
             p == CHOOSE x \in free : TRUE
             packet == [type |-> type, vol |-> v, root |-> root, chunks |-> chunks]
  <2>1. /\ free # {}
        /\ own' = IF NeedsLock(type) THEN [own EXCEPT ![v][root] = @ - 1] ELSE own
        /\ NeedsLock(type) => own[v][root] > 0
        /\ pkt' = [pkt EXCEPT ![p] = packet]
        /\ at' = [at EXCEPT ![p] = "port"]
        /\ port' = [port EXCEPT ![v] = Append(@, p)]
        /\ sig' = sig \cup {v}
        /\ UNCHANGED <<lockCount, locks, leaked, volVars, lineVars, readVars, q, pc, got, missed>>
    BY <1>16 DEF Send
  <2>2. p \in Pkts /\ v \in Vols
    BY <1>0, <2>1 DEF VolsOK, ToSet
  <2>3. packet \in Packet
    BY <2>2, ApbFsAssumption DEF Packet
  <2> HIDE DEF p, free, packet
  <2>4. PktsOK'
    BY <1>0, <2>1, <2>2, <2>3 DEF PktsOK
  <2>5. LocksOK'
    BY <1>0, <2>1, <2>2 DEF LocksOK
  <2>6. RunOK'
    BY <1>0, <2>1, <2>2 DEF RunOK
  <2> QED BY <1>0, <2>1, <2>4, <2>5, <2>6, TypesKept DEF TypeInv
<1> QED
  BY <1>1, <1>2, <1>3, <1>4, <1>5, <1>6, <1>7, <1>8, <1>9, <1>10, <1>11, <1>12, <1>13, <1>14,
     <1>15, <1>16 DEF Next, Handler, Environment

-----------------------------------------------------------------------------
(* Requests on their way.                                                  *)

LEMMA LineInvInit == Init => LineInv
<1> SUFFICES ASSUME Init
             PROVE  LineInv
  OBVIOUS
<1>1. q.writer = 0 /\ remotePort = <<>> /\ piReqs = <<>> /\ resp = NoMsg
  BY DEF Init
<1>2. WriterInv /\ SentInv
  BY <1>1 DEF WriterInv, SentInv, IsInjective
<1>3. BackInv
  BY <1>1 DEF BackInv
<1>4. RespInv
  BY <1>1, MessagesAre DEF RespInv
<1> QED BY <1>2, <1>3, <1>4 DEF LineInv

LEMMA LineKept ==
    LineInv /\ UNCHANGED lineVars /\ UNCHANGED readVars /\ UNCHANGED q => LineInv'
BY DEF LineInv, WriterInv, BackInv, SentInv, RespInv, lineVars, readVars

\* Requests may be added, and the one at m, if any, is sent.
Moves(m) ==
    /\ DOMAIN q.reqs \subseteq DOMAIN q'.reqs /\ m \in DOMAIN q'.reqs \cup {0}
    /\ \A i \in DOMAIN q.reqs :
          /\ q'.reqs[i].pkt = q.reqs[i].pkt /\ q'.reqs[i].type = q.reqs[i].type
          /\ q'.reqs[i].left = q.reqs[i].left
          /\ q'.reqs[i].st = IF i = m THEN "sent" ELSE q.reqs[i].st
    /\ m = 0 => q'.writer = q.writer /\ (q.writer # 0 => q'.ready = q.ready)
    /\ m # 0 => /\ q.writer = 0 /\ q'.writer = m /\ q'.ready = FALSE
                /\ q'.reqs[m].st = "sent" /\ (m \in DOMAIN q.reqs => q.reqs[m].st = "queued")

LEMMA LineMoves ==
    ASSUME TypeInv, LineInv, NEW m, Moves(m), UNCHANGED <<piReqs, resp, reading>>
    PROVE  WriterInv' /\ SentInv' /\ RespInv'
<1>1. WriterInv /\ SentInv /\ RespInv /\ 0 \notin Ids /\ DOMAIN q.reqs \subseteq Ids
  BY NodesAre, QueueFields DEF LineInv, TypeInv
<1>2. piReqs' = piReqs /\ resp' = resp /\ reading' = reading
  OBVIOUS
<1>3. \A k \in DOMAIN piReqs : piReqs[k] \in DOMAIN q.reqs /\ q.reqs[piReqs[k]].st # "queued"
  BY <1>1 DEF SentInv
<1>4. SentInv'
  <2>1. \A k \in DOMAIN piReqs :
           piReqs[k] \in DOMAIN q'.reqs /\ q'.reqs[piReqs[k]].st # "queued"
    BY <1>3 DEF Moves
  <2> QED BY <1>1, <1>2, <2>1 DEF SentInv
<1>5. WriterInv'
  <2>1. CASE m = 0
    BY <1>1, <1>2, <2>1 DEF WriterInv, Moves
  <2>2. CASE m # 0
    <3>1. \A k \in DOMAIN piReqs : piReqs[k] # m
      BY <1>3, <2>2 DEF Moves
    <3> QED BY <1>2, <2>2, <3>1 DEF WriterInv, Moves
  <2> QED BY <2>1, <2>2
<1>6. RespInv'
  <2>1. CASE resp.key = "request"
    <3> DEFINE n == resp.req
    <3>1. n \in DOMAIN q.reqs /\ n # q.writer /\ q.reqs[n].st # "queued"
      BY <1>1, <2>1 DEF RespInv
    <3>2. /\ n \in DOMAIN q'.reqs /\ n # q'.writer /\ q'.reqs[n].st # "queued"
          /\ q'.reqs[n].type = q.reqs[n].type /\ q'.reqs[n].left = q.reqs[n].left
      BY <1>1, <3>1 DEF Moves
    <3> QED BY <1>1, <1>2, <2>1, <3>2 DEF RespInv
  <2>2. CASE resp.key # "request"
    BY <1>1, <1>2, <2>2 DEF RespInv
  <2> QED BY <2>1, <2>2
<1> QED BY <1>4, <1>5, <1>6

LEMMA BackTaken ==
    ASSUME TypeInv, LineInv, NEW m, GetRemoteMsg(m)
    PROVE  /\ \A j, k \in DOMAIN remotePort' :
                 remotePort'[j] = "writer" /\ remotePort'[k] = "writer" => j = k
           /\ q.writer # 0 \/ q.ready =>
                 m # "writer" /\ \A k \in DOMAIN remotePort' : remotePort'[k] # "writer"
           /\ m = "writer" => \A k \in DOMAIN remotePort' : remotePort'[k] # "writer"
<1>1. /\ remotePort \in Seq({"reader", "writer"}) /\ remotePort # <<>>
      /\ remotePort' = Tail(remotePort) /\ m = Head(remotePort)
  BY DEF GetRemoteMsg, TypeInv, LineOK
<1> DEFINE r == Tail(remotePort)
<1>2. /\ 1 \in DOMAIN remotePort /\ m = remotePort[1]
      /\ \A k \in DOMAIN r : k + 1 \in DOMAIN remotePort /\ r[k] = remotePort[k + 1]
  BY <1>1, HeadTail
<1>3. \A k \in DOMAIN r : k \in Nat /\ k # 0
  BY <1>1
<1>4. r = remotePort'
  BY <1>1
<1> HIDE DEF r
<1>5. BackInv
  BY DEF LineInv
<1>6. \A j, k \in DOMAIN r : r[j] = "writer" /\ r[k] = "writer" => j = k
  <2> SUFFICES ASSUME NEW j \in DOMAIN r, NEW k \in DOMAIN r, r[j] = "writer", r[k] = "writer"
               PROVE  j = k
    OBVIOUS
  <2>1. j + 1 = k + 1
    BY <1>2, <1>5 DEF BackInv
  <2> QED BY <1>3, <2>1
<1>7. q.writer # 0 \/ q.ready => m # "writer" /\ \A k \in DOMAIN r : r[k] # "writer"
  BY <1>2, <1>5 DEF BackInv
<1>8. m = "writer" => \A k \in DOMAIN r : r[k] # "writer"
  <2> SUFFICES ASSUME m = "writer", NEW k \in DOMAIN r, r[k] = "writer"
               PROVE  FALSE
    OBVIOUS
  <2>1. 1 = k + 1
    BY <1>2, <1>5 DEF BackInv
  <2> QED BY <1>3, <2>1
<1> QED BY <1>4, <1>6, <1>7, <1>8

\* Another message comes back.
LEMMA BackPosted ==
    ASSUME TypeInv, LineInv, NEW m \in {"reader", "writer"}, PostToRemotePort(m),
           m = "writer" => q.writer # 0 /\ q'.writer = 0 /\ ~ q'.ready,
           m = "reader" => q' = q
    PROVE  BackInv'
<1>1. remotePort \in Seq({"reader", "writer"}) /\ BackInv
  BY DEF TypeInv, LineOK, LineInv
<1> DEFINE r == Append(remotePort, m)
           e == Len(remotePort) + 1
<1>2. /\ e \in DOMAIN r /\ r[e] = m
      /\ \A k \in DOMAIN remotePort : k \in DOMAIN r /\ r[k] = remotePort[k]
      /\ \A k \in DOMAIN r : k \in DOMAIN remotePort \/ k = e
  BY <1>1, AppendIs
<1>3. remotePort' = r
  BY DEF PostToRemotePort
<1> HIDE DEF r, e
<1>4. CASE m = "writer"
  <2>1. \A k \in DOMAIN remotePort : remotePort[k] # "writer"
    BY <1>1, <1>4 DEF BackInv
  <2> QED BY <1>2, <1>3, <1>4, <2>1 DEF BackInv
<1>5. CASE m = "reader"
  BY <1>1, <1>2, <1>3, <1>5 DEF BackInv
<1> QED BY <1>4, <1>5

\* The requests that Ask enqueues.
LEMMA AskDoes ==
    ASSUME TypeInv, NEW v \in Vols, NEW p \in Pkts, Ask(p, v)
    PROVE  \E s, m : /\ AskedBy(p, s, m) /\ s \in Queues
                     /\ IF RepliesToo(p)
                        THEN ReplyToDosPacket(p) /\ q' = Orphaned(s, p)
                        ELSE at' = [at EXCEPT ![p] = "handler"] /\ q' = s /\ UNCHANGED pkt
<1> DEFINE s == EnqueuesAll(q, Asked(p))
<1>1. IF RepliesToo(p)
      THEN ReplyToDosPacket(p) /\ q' = Orphaned(s, p)
      ELSE at' = [at EXCEPT ![p] = "handler"] /\ q' = s /\ UNCHANGED pkt
  BY DEF Ask, EnqueuesAll
<1>2. q \in Queues /\ pkt \in [Pkts -> Packet] /\ Linked /\ Len(Asked(p)) <= Cardinality(FreeIds(q))
  BY DEF TypeInv, PktsOK, Ask, GetDosPacket
<1>3. PICK m : AskedBy(p, s, m)
  BY <1>2, AskIs
<1> HIDE DEF s
<1>4. s \in Queues
  BY <1>3 DEF AskedBy
<1> QED BY <1>1, <1>3, <1>4

LEMMA AskMoves ==
    ASSUME TypeInv, LineInv, NEW p \in Pkts, NEW s \in Queues, NEW m, AskedBy(p, s, m),
           q' = s \/ q' = Orphaned(s, p)
    PROVE  /\ Moves(m) /\ (m = 0 => q'.ready = q.ready) /\ (m # 0 => q.ready)
           /\ DOMAIN q'.reqs = DOMAIN s.reqs /\ q'.writer = s.writer
           /\ \A i \in DOMAIN s.reqs :
                 /\ q'.reqs[i].pkt = s.reqs[i].pkt /\ q'.reqs[i].type = s.reqs[i].type
                 /\ q'.reqs[i].left = s.reqs[i].left /\ q'.reqs[i].st = s.reqs[i].st
<1>1. /\ DOMAIN q'.reqs = DOMAIN s.reqs /\ q'.writer = s.writer /\ q'.ready = s.ready
      /\ \A i \in DOMAIN s.reqs :
            /\ q'.reqs[i].pkt = s.reqs[i].pkt /\ q'.reqs[i].type = s.reqs[i].type
            /\ q'.reqs[i].left = s.reqs[i].left /\ q'.reqs[i].st = s.reqs[i].st
  <2>1. CASE q' = s
    BY <2>1
  <2>2. CASE q' = Orphaned(s, p)
    <3>1. /\ DOMAIN q'.reqs = DOMAIN s.reqs /\ q'.writer = s.writer /\ q'.ready = s.ready
          /\ \A i \in DOMAIN s.reqs : q'.reqs[i] = OrphanOf(s.reqs[i], p)
      BY <2>2, OrphanedIs
    <3>2. \A i \in DOMAIN s.reqs : s.reqs[i] \in Request
      BY QueueFields
    <3> QED BY <3>1, <3>2, OrphanOfIs
  <2> QED BY <2>1, <2>2
<1>2. /\ DOMAIN q.reqs \subseteq DOMAIN s.reqs /\ m \in DOMAIN s.reqs \cup {0}
      /\ \A i \in DOMAIN q.reqs :
            s.reqs[i] = IF i = m THEN Marked(q.reqs[i], "sent") ELSE q.reqs[i]
      /\ m = 0 => s.writer = q.writer /\ s.ready = q.ready
      /\ m # 0 => /\ q.ready /\ s.writer = m /\ s.ready = FALSE
                  /\ m \in DOMAIN q.reqs => q.reqs[m].st = "queued"
  BY DEF AskedBy
<1>3. m \in DOMAIN s.reqs \ DOMAIN q.reqs => s.reqs[m].st = "sent"
  BY DEF AskedBy
<1>4. \A i \in DOMAIN q.reqs :
         /\ s.reqs[i].pkt = q.reqs[i].pkt /\ s.reqs[i].type = q.reqs[i].type
         /\ s.reqs[i].left = q.reqs[i].left
         /\ s.reqs[i].st = IF i = m THEN "sent" ELSE q.reqs[i].st
  <2> SUFFICES ASSUME NEW i \in DOMAIN q.reqs
               PROVE  /\ s.reqs[i].pkt = q.reqs[i].pkt /\ s.reqs[i].type = q.reqs[i].type
                      /\ s.reqs[i].left = q.reqs[i].left
                      /\ s.reqs[i].st = IF i = m THEN "sent" ELSE q.reqs[i].st
    OBVIOUS
  <2>1. q.reqs[i] \in Request
    BY QueueFields DEF TypeInv
  <2>2. LET r == Marked(q.reqs[i], "sent")
        IN  r.pkt = q.reqs[i].pkt /\ r.type = q.reqs[i].type /\ r.left = q.reqs[i].left /\ r.st = "sent"
    BY <2>1, MarkedIs
  <2>3. s.reqs[i] = IF i = m THEN Marked(q.reqs[i], "sent") ELSE q.reqs[i]
    BY <1>2
  <2> QED BY <2>2, <2>3
<1>5. q.ready => q.writer = 0
  BY DEF LineInv, WriterInv
<1>6. m # 0 => s.reqs[m].st = "sent"
  BY <1>2, <1>3, <1>4
<1>7. \A i \in DOMAIN q.reqs :
         /\ q'.reqs[i].pkt = q.reqs[i].pkt /\ q'.reqs[i].type = q.reqs[i].type
         /\ q'.reqs[i].left = q.reqs[i].left
         /\ q'.reqs[i].st = IF i = m THEN "sent" ELSE q.reqs[i].st
  BY <1>1, <1>2, <1>4
<1>8. m # 0 => q'.reqs[m].st = "sent"
  BY <1>1, <1>2, <1>6
<1>9. Moves(m)
  BY <1>1, <1>2, <1>5, <1>7, <1>8 DEF Moves
<1> QED BY <1>1, <1>2, <1>9

LEMMA WriterMoves ==
    ASSUME TypeInv, LineInv, GetRemoteMsg("writer"), q' = SendNext
    PROVE  \E m : Moves(m) /\ SentOne(q', m) /\ q.writer = 0
<1>1. PICK m : SentOne(q', m)
  BY SendNextIs DEF TypeInv, GetRemoteMsg
<1>2. q.writer = 0
  BY BackTaken
<1>3. \A i \in DOMAIN q.reqs :
         /\ q'.reqs[i].pkt = q.reqs[i].pkt /\ q'.reqs[i].type = q.reqs[i].type
         /\ q'.reqs[i].left = q.reqs[i].left
         /\ q'.reqs[i].st = IF i = m THEN "sent" ELSE q.reqs[i].st
  <2> SUFFICES ASSUME NEW i \in DOMAIN q.reqs
               PROVE  /\ q'.reqs[i].pkt = q.reqs[i].pkt /\ q'.reqs[i].type = q.reqs[i].type
                      /\ q'.reqs[i].left = q.reqs[i].left
                      /\ q'.reqs[i].st = IF i = m THEN "sent" ELSE q.reqs[i].st
    OBVIOUS
  <2>1. q.reqs[i] \in Request
    BY QueueFields DEF TypeInv
  <2>2. LET r == Marked(q.reqs[i], "sent")
        IN  r.pkt = q.reqs[i].pkt /\ r.type = q.reqs[i].type /\ r.left = q.reqs[i].left /\ r.st = "sent"
    BY <2>1, MarkedIs
  <2>3. q'.reqs[i] = IF i = m THEN Marked(q.reqs[i], "sent") ELSE q.reqs[i]
    BY <1>1 DEF SentOne
  <2> QED BY <2>2, <2>3
<1>4. Moves(m)
  BY <1>1, <1>2, <1>3 DEF SentOne, Moves
<1> QED BY <1>1, <1>2, <1>4

LEMMA PartDoes ==
    ASSUME TypeInv, LineInv, Response("request"), q' = Answered(resp.req)
    PROVE  LET n == resp.req
           IN  /\ n \in DOMAIN q.reqs /\ DOMAIN q'.reqs = DOMAIN q.reqs
               /\ q'.writer = q.writer /\ q'.ready = q.ready
               /\ q'.reqs[n] = Marked(q.reqs[n], "done")
               /\ \A i \in DOMAIN q.reqs : i # n => q'.reqs[i] = q.reqs[i]
<1>1. resp.req \in DOMAIN q.reqs
  BY DEF Response, LineInv, RespInv
<1> QED BY <1>1, AnsweredIs DEF TypeInv

LEMMA WholeDoes ==
    ASSUME TypeInv, LineInv, Response("request"), NEW p,
           q' = FreeRequest(Orphaned(Answered(resp.req), p), resp.req)
    PROVE  LET n == resp.req
           IN  /\ n \in DOMAIN q.reqs /\ DOMAIN q'.reqs = DOMAIN q.reqs \ {n}
               /\ q'.writer = q.writer /\ q'.ready = q.ready
               /\ \A i \in DOMAIN q'.reqs : q'.reqs[i] = OrphanOf(q.reqs[i], p)
<1> DEFINE n == resp.req
           a == Answered(n)
           o == Orphaned(a, p)
<1>1. n \in DOMAIN q.reqs
  BY DEF Response, LineInv, RespInv
<1>2. /\ a \in Queues /\ a.writer = q.writer /\ a.ready = q.ready
      /\ DOMAIN a.reqs = DOMAIN q.reqs
      /\ \A i \in DOMAIN q.reqs : i # n => a.reqs[i] = q.reqs[i]
  BY <1>1, AnsweredIs DEF TypeInv
<1>3. q' = FreeRequest(o, n)
  OBVIOUS
<1> HIDE DEF n, a
<1>4. /\ o \in Queues /\ o.writer = a.writer /\ o.ready = a.ready
      /\ DOMAIN o.reqs = DOMAIN a.reqs
      /\ \A i \in DOMAIN a.reqs : o.reqs[i] = OrphanOf(a.reqs[i], p)
  BY <1>2, OrphanedIs
<1> HIDE DEF o
<1>5. /\ q'.writer = o.writer /\ q'.ready = o.ready
      /\ DOMAIN q'.reqs = DOMAIN o.reqs \ {n}
      /\ \A i \in DOMAIN o.reqs \ {n} : q'.reqs[i] = o.reqs[i]
  BY <1>1, <1>2, <1>3, <1>4, FreeRequestIs
<1>6. /\ n \in DOMAIN q.reqs /\ DOMAIN q'.reqs = DOMAIN q.reqs \ {n}
      /\ q'.writer = q.writer /\ q'.ready = q.ready
      /\ \A i \in DOMAIN q'.reqs : q'.reqs[i] = OrphanOf(q.reqs[i], p)
  BY <1>1, <1>2, <1>4, <1>5
<1> QED BY <1>6 DEF n

\* A response has been handled: the requests stay as they are, but for the one
\* answered, which may be gone.
LEMMA LineAnswered ==
    ASSUME TypeInv, LineInv, Response("request"),
           q'.writer = q.writer, q'.ready = q.ready,
           NEW n, n = resp.req,
           \/ DOMAIN q'.reqs = DOMAIN q.reqs /\ q'.reqs[n].st # "queued"
           \/ /\ DOMAIN q'.reqs = DOMAIN q.reqs \ {n}
              /\ \A k \in DOMAIN piReqs : piReqs[k] # n,
           \A i \in DOMAIN q'.reqs : i # n => q'.reqs[i].st = q.reqs[i].st
    PROVE  LineInv'
<1>1. /\ GetRemoteMsg("reader") /\ resp.key = "request" /\ resp' = NoMsg /\ piReqs' = piReqs
  BY DEF Response, GetRemoteMsg, lineVars
<1>2. WriterInv /\ SentInv /\ RespInv
  BY DEF LineInv
<1>3. n # q.writer
  BY <1>1, <1>2 DEF RespInv
<1>4. WriterInv'
  BY <1>1, <1>2, <1>3 DEF WriterInv
<1>5. BackInv'
  BY <1>1, BackTaken DEF BackInv
<1>6. SentInv'
  BY <1>1, <1>2 DEF SentInv
<1>7. RespInv'
  BY <1>1, MessagesAre DEF RespInv
<1> QED BY <1>4, <1>5, <1>6, <1>7 DEF LineInv

\* Another message has been handled.
LEMMA LineHeard ==
    ASSUME TypeInv, LineInv, NEW key, Response(key), UNCHANGED q
    PROVE  LineInv'
<1>1. /\ GetRemoteMsg("reader") /\ resp' = NoMsg /\ piReqs' = piReqs
  BY DEF Response, GetRemoteMsg, lineVars
<1>2. WriterInv' /\ SentInv'
  BY <1>1 DEF LineInv, WriterInv, SentInv
<1>3. BackInv'
  BY <1>1, BackTaken DEF BackInv
<1>4. RespInv'
  BY <1>1, MessagesAre DEF RespInv
<1> QED BY <1>2, <1>3, <1>4 DEF LineInv

\* A message has been read that is no response.
LEMMA LineRead ==
    ASSUME TypeInv, LineInv, NEW m, m.key # "request", ReadDone(m), UNCHANGED piReqs
    PROVE  LineInv'
<1>1. UNCHANGED q /\ resp' = m /\ reading' = FALSE /\ PostToRemotePort("reader")
  BY DEF ReadDone
<1>2. WriterInv' /\ SentInv'
  BY <1>1 DEF LineInv, WriterInv, SentInv
<1>3. BackInv'
  BY <1>1, BackPosted
<1>4. RespInv'
  BY <1>1 DEF RespInv
<1> QED BY <1>2, <1>3, <1>4 DEF LineInv

LEMMA LineWritten ==
    ASSUME TypeInv, LineInv, WriteDone
    PROVE  LineInv'
<1> DEFINE w == q.writer
           a == Append(piReqs, w)
<1>1. /\ w # 0 /\ q' = [q EXCEPT !.writer = 0] /\ PostToRemotePort("writer")
      /\ piReqs' \in {piReqs, a} /\ resp' = resp /\ reading' = reading
  BY DEF WriteDone
<1>2. WriterInv /\ SentInv /\ RespInv /\ piReqs \in Seq(Ids) /\ w \in Ids
  BY <1>1, QueueFields DEF LineInv, TypeInv, LineOK
<1>3. q'.writer = 0 /\ q'.reqs = q.reqs /\ q'.ready = q.ready
  BY <1>1 DEF TypeInv, Queues
<1>4. /\ w \in DOMAIN q.reqs /\ q.reqs[w].st # "queued" /\ ~ q.ready
      /\ \A k \in DOMAIN piReqs : piReqs[k] # w
  BY <1>1, <1>2 DEF WriterInv
<1>5. /\ Len(piReqs) + 1 \in DOMAIN a /\ a[Len(piReqs) + 1] = w
      /\ \A k \in DOMAIN piReqs : k \in DOMAIN a /\ a[k] = piReqs[k]
      /\ \A k \in DOMAIN a : k \in DOMAIN piReqs \/ k = Len(piReqs) + 1
  BY <1>2, AppendIs
<1>6. piReqs # <<>> => a # <<>> /\ Head(a) = Head(piReqs)
  BY <1>2
<1> HIDE DEF a, w
<1>7. SentInv'
  <2>1. CASE piReqs' = piReqs
    BY <1>2, <1>3, <2>1 DEF SentInv
  <2>2. CASE piReqs' = a
    <3>1. IsInjective(a)
      BY <1>2, <1>4, <1>5 DEF SentInv, IsInjective
    <3>2. \A k \in DOMAIN a : a[k] \in DOMAIN q.reqs /\ q.reqs[a[k]].st # "queued"
      BY <1>2, <1>4, <1>5 DEF SentInv
    <3> QED BY <1>3, <2>2, <3>1, <3>2 DEF SentInv
  <2> QED BY <1>1, <2>1, <2>2
<1>8. WriterInv'
  BY <1>3 DEF WriterInv
<1>9. BackInv'
  BY <1>1, <1>3, <1>4, BackPosted DEF w
<1>10. RespInv'
  <2>1. CASE resp.key = "request"
    <3> DEFINE n == resp.req
    <3>1. /\ n \in DOMAIN q.reqs /\ n # w /\ q.reqs[n].st # "queued"
          /\ (\E k \in DOMAIN piReqs : piReqs[k] = n) =>
                q.reqs[n].type = "READ" /\ resp.res2 = More
          /\ resp.res2 = More =>
                \/ q.reqs[n].type = "READ" /\ piReqs # <<>> /\ Head(piReqs) = n
                \/ q.reqs[n].type = "WRITE" /\ q.reqs[n].left > 0
      BY <1>2, <2>1 DEF RespInv, w
    <3> HIDE DEF n
    <3>2. n # 0
      BY <1>2, <3>1, NodesAre, QueueFields DEF TypeInv
    <3>3. (\E k \in DOMAIN piReqs' : piReqs'[k] = n) => \E k \in DOMAIN piReqs : piReqs[k] = n
      BY <1>1, <1>5, <3>1
    <3>4. piReqs # <<>> => piReqs' # <<>> /\ Head(piReqs') = Head(piReqs)
      BY <1>1, <1>6
    <3>5. /\ n \in DOMAIN q.reqs /\ n # 0 /\ q.reqs[n].st # "queued"
          /\ (\E k \in DOMAIN piReqs' : piReqs'[k] = n) =>
                q.reqs[n].type = "READ" /\ resp.res2 = More
          /\ resp.res2 = More =>
                \/ q.reqs[n].type = "READ" /\ piReqs' # <<>> /\ Head(piReqs') = n
                \/ q.reqs[n].type = "WRITE" /\ q.reqs[n].left > 0
      BY <3>1, <3>2, <3>3, <3>4
    <3> QED BY <1>1, <1>2, <1>3, <3>5 DEF RespInv, n
  <2>2. CASE resp.key # "request"
    BY <1>1, <1>2, <2>2 DEF RespInv
  <2> QED BY <2>1, <2>2
<1> QED BY <1>7, <1>8, <1>9, <1>10 DEF LineInv

\* The first of the requests on their way is no longer on it.
LEMMA LineShorter ==
    ASSUME TypeInv, LineInv, piReqs # <<>>
    PROVE  /\ \A j, k \in DOMAIN Tail(piReqs) : Tail(piReqs)[j] = Tail(piReqs)[k] => j = k
           /\ \A k \in DOMAIN Tail(piReqs) :
                 /\ Tail(piReqs)[k] \in DOMAIN q.reqs /\ q.reqs[Tail(piReqs)[k]].st # "queued"
                 /\ Tail(piReqs)[k] # Head(piReqs) /\ (q.writer # 0 => Tail(piReqs)[k] # q.writer)
                 /\ \E j \in DOMAIN piReqs : piReqs[j] = Tail(piReqs)[k]
           /\ \A i : i # Head(piReqs) /\ (\E k \in DOMAIN piReqs : piReqs[k] = i) =>
                 \E k \in DOMAIN Tail(piReqs) : Tail(piReqs)[k] = i
           /\ Head(piReqs) \in DOMAIN q.reqs /\ Head(piReqs) \in Ids
           /\ q.reqs[Head(piReqs)].st # "queued"
           /\ q.writer # 0 => Head(piReqs) # q.writer
           /\ \E k \in DOMAIN piReqs : piReqs[k] = Head(piReqs)
<1> DEFINE t == Tail(piReqs)
           h == Head(piReqs)
<1>1. SentInv /\ WriterInv /\ piReqs \in Seq(Ids) /\ DOMAIN q.reqs \subseteq Ids
  BY QueueFields DEF LineInv, TypeInv, LineOK
<1>2. /\ 1 \in DOMAIN piReqs /\ h = piReqs[1]
      /\ \A k \in DOMAIN t : k + 1 \in DOMAIN piReqs /\ t[k] = piReqs[k + 1]
      /\ \A k \in DOMAIN piReqs : k = 1 \/ (k - 1 \in DOMAIN t /\ t[k - 1] = piReqs[k])
  BY <1>1, HeadTail
<1>3. \A k \in DOMAIN t : k \in Nat /\ k # 0
  BY <1>1
<1> HIDE DEF t, h
<1>4. \A j, k \in DOMAIN piReqs : piReqs[j] = piReqs[k] => j = k
  BY <1>1 DEF SentInv, IsInjective
<1>5. \A j, k \in DOMAIN t : t[j] = t[k] => j = k
  <2> SUFFICES ASSUME NEW j \in DOMAIN t, NEW k \in DOMAIN t, t[j] = t[k]
               PROVE  j = k
    OBVIOUS
  <2>1. j + 1 = k + 1
    BY <1>2, <1>4
  <2> QED BY <1>3, <2>1
<1>6. \A k \in DOMAIN t : t[k] # h
  <2> SUFFICES ASSUME NEW k \in DOMAIN t, t[k] = h
               PROVE  FALSE
    OBVIOUS
  <2>1. k + 1 = 1
    BY <1>2, <1>4
  <2> QED BY <1>3, <2>1
<1>7. /\ \A k \in DOMAIN t :
            /\ t[k] \in DOMAIN q.reqs /\ q.reqs[t[k]].st # "queued"
            /\ q.writer # 0 => t[k] # q.writer
      /\ h \in DOMAIN q.reqs /\ q.reqs[h].st # "queued" /\ (q.writer # 0 => h # q.writer)
  BY <1>1, <1>2 DEF SentInv, WriterInv
<1>8. \A i : i # h /\ (\E k \in DOMAIN piReqs : piReqs[k] = i) => \E k \in DOMAIN t : t[k] = i
  BY <1>2
<1>9. \A k \in DOMAIN t : \E j \in DOMAIN piReqs : piReqs[j] = t[k]
  BY <1>2
<1> QED BY <1>1, <1>2, <1>5, <1>6, <1>7, <1>8, <1>9 DEF t, h

LEMMA LineAnswers ==
    ASSUME TypeInv, LineInv, PiAnswers
    PROVE  LineInv'
<1> DEFINE n == Head(piReqs)
           t == Tail(piReqs)
<1>1. PICK res \in Results(q.reqs[n]) :
         /\ ReadDone([key |-> "request", req |-> n, res2 |-> res])
         /\ IF q.reqs[n].type = "READ" /\ res = More
            THEN parts' = parts + 1 /\ UNCHANGED piReqs
            ELSE parts' = 0 /\ piReqs' = Tail(piReqs)
  BY DEF PiAnswers
<1>2. piReqs # <<>> /\ WriterInv /\ SentInv /\ 0 \notin Ids
  BY NodesAre DEF PiAnswers, LineInv
<1>3. /\ \A j, k \in DOMAIN t : t[j] = t[k] => j = k
      /\ \A k \in DOMAIN t :
            /\ t[k] \in DOMAIN q.reqs /\ q.reqs[t[k]].st # "queued"
            /\ t[k] # n /\ (q.writer # 0 => t[k] # q.writer)
      /\ n \in DOMAIN q.reqs /\ n \in Ids /\ q.reqs[n].st # "queued"
      /\ q.writer # 0 => n # q.writer
  BY <1>2, LineShorter
<1>4. q' = q /\ reading' = FALSE /\ PostToRemotePort("reader")
      /\ resp' = [key |-> "request", req |-> n, res2 |-> res]
  BY <1>1 DEF ReadDone
<1>5. \/ piReqs' = piReqs /\ q.reqs[n].type = "READ" /\ res = More
      \/ piReqs' = t /\ ~ (q.reqs[n].type = "READ" /\ res = More)
  BY <1>1
<1>6. resp'.key = "request" /\ resp'.req = n /\ resp'.res2 = res
  BY <1>4
<1>7. res = More => q.reqs[n].type = "READ" \/ (q.reqs[n].type = "WRITE" /\ q.reqs[n].left > 0)
  BY <1>1 DEF Results, More, Final, Error
<1>8. piReqs # <<>> /\ Head(piReqs) = n
  BY <1>2
<1> HIDE DEF n, t
<1>9. WriterInv' /\ SentInv'
  BY <1>2, <1>3, <1>4, <1>5 DEF WriterInv, SentInv, IsInjective
<1>10. BackInv'
  BY <1>4, BackPosted
<1>11. RespInv'
  BY <1>2, <1>3, <1>4, <1>5, <1>6, <1>7, <1>8 DEF RespInv
<1> QED BY <1>9, <1>10, <1>11 DEF LineInv

LEMMA LineSkips ==
    ASSUME TypeInv, LineInv, PiSkipsEnd
    PROVE  LineInv'
<1> DEFINE h == Head(piReqs)
           t == Tail(piReqs)
<1>1. /\ piReqs # <<>> /\ q.reqs[h].type = "END" /\ piReqs' = t
      /\ q' = q /\ resp' = resp /\ reading' = reading /\ remotePort' = remotePort
  BY DEF PiSkipsEnd, readVars
<1>2. WriterInv /\ BackInv /\ RespInv
  BY DEF LineInv
<1>3. /\ \A j, k \in DOMAIN t : t[j] = t[k] => j = k
      /\ \A k \in DOMAIN t :
            /\ t[k] \in DOMAIN q.reqs /\ q.reqs[t[k]].st # "queued"
            /\ (q.writer # 0 => t[k] # q.writer)
            /\ \E j \in DOMAIN piReqs : piReqs[j] = t[k]
  BY <1>1, LineShorter
<1> HIDE DEF h, t
<1>4. WriterInv' /\ SentInv' /\ BackInv'
  BY <1>1, <1>2, <1>3 DEF WriterInv, SentInv, BackInv, IsInjective
<1>5. RespInv'
  <2>1. CASE resp.key = "request"
    <3> DEFINE n == resp.req
    <3>1. /\ n \in DOMAIN q.reqs /\ n # q.writer /\ q.reqs[n].st # "queued"
          /\ (\E k \in DOMAIN piReqs : piReqs[k] = n) =>
                q.reqs[n].type = "READ" /\ resp.res2 = More
          /\ resp.res2 = More =>
                \/ q.reqs[n].type = "READ" /\ piReqs # <<>> /\ Head(piReqs) = n
                \/ q.reqs[n].type = "WRITE" /\ q.reqs[n].left > 0
      BY <1>2, <2>1 DEF RespInv
    <3>2. resp.res2 = More => q.reqs[n].type = "WRITE" /\ q.reqs[n].left > 0
      BY <1>1, <3>1 DEF h
    <3>3. (\E k \in DOMAIN t : t[k] = n) => q.reqs[n].type = "READ" /\ resp.res2 = More
      BY <1>3, <3>1
    <3> QED BY <1>1, <1>2, <3>1, <3>2, <3>3 DEF RespInv
  <2>2. CASE resp.key # "request"
    BY <1>1, <1>2, <2>2 DEF RespInv
  <2> QED BY <2>1, <2>2
<1> QED BY <1>4, <1>5 DEF LineInv

LEMMA LineInvNext ==
    ASSUME TypeInv, LineInv, [Next]_vars
    PROVE  LineInv'
<1>1. CASE UNCHANGED vars
  BY <1>1, LineKept DEF vars
<1>2. CASE Wait \/ NoMoreDos \/ NoMoreRemote \/ Break \/ BreakSeen
  <2>1. UNCHANGED lineVars /\ UNCHANGED readVars /\ UNCHANGED q
    BY <1>2 DEF Wait, NoMoreDos, NoMoreRemote, Break, BreakSeen
  <2> QED BY <2>1, LineKept
<1>3. ASSUME NEW v \in Vols, NEW p \in ToSet(port[v]),
             ReplyAtOnce(p, v) \/ ActionCopyDir(p, v) \/ OutOfRequests(p, v)
      PROVE  LineInv'
  <2>1. UNCHANGED lineVars /\ UNCHANGED readVars /\ UNCHANGED q
    BY <1>3 DEF ReplyAtOnce, ActionCopyDir, OutOfRequests, GetDosPacket
  <2> QED BY <2>1, LineKept
<1>4. ASSUME NEW v \in Vols, NEW p \in ToSet(port[v]), Ask(p, v)
      PROVE  LineInv'
  <2>1. UNCHANGED lineVars /\ UNCHANGED readVars /\ GetDosPacket(p, v)
    BY <1>4 DEF Ask, GetDosPacket
  <2>2. p \in Pkts
    BY <2>1, PortTaken DEF TypeInv
  <2>3. PICK s, m : AskedBy(p, s, m) /\ s \in Queues /\ (q' = s \/ q' = Orphaned(s, p))
    BY <1>4, <2>2, AskDoes
  <2>4. Moves(m) /\ (m = 0 => q'.ready = q.ready) /\ (m # 0 => q.ready)
    BY <2>2, <2>3, AskMoves
  <2>5. UNCHANGED <<piReqs, resp, reading>> /\ remotePort' = remotePort
    BY <2>1 DEF lineVars, readVars
  <2>6. WriterInv' /\ SentInv' /\ RespInv'
    BY <2>4, <2>5, LineMoves
  <2>7. BackInv'
    BY <2>4, <2>5 DEF LineInv, BackInv, Moves
  <2> QED BY <2>6, <2>7 DEF LineInv
<1>5. CASE WriterBack
  <2>1. /\ GetRemoteMsg("writer") /\ q' = SendNext
        /\ UNCHANGED <<piReqs, resp, reading>>
    BY <1>5 DEF WriterBack, GetRemoteMsg, lineVars
  <2>2. PICK m : Moves(m)
    BY <2>1, WriterMoves
  <2>3. WriterInv' /\ SentInv' /\ RespInv'
    BY <2>1, <2>2, LineMoves
  <2>4. BackInv'
    BY <2>1, BackTaken DEF BackInv
  <2> QED BY <2>3, <2>4 DEF LineInv
<1>6. CASE ReaderError
  <2>1. /\ GetRemoteMsg("reader") /\ q' = q /\ piReqs' = piReqs /\ resp' = resp /\ reading' = reading
    BY <1>6 DEF ReaderError, GetRemoteMsg, lineVars
  <2>2. BackInv'
    BY <2>1, BackTaken DEF BackInv
  <2>3. WriterInv' /\ SentInv' /\ RespInv'
    BY <2>1 DEF LineInv, WriterInv, SentInv, RespInv
  <2> QED BY <2>2, <2>3 DEF LineInv
<1>7. CASE HandleMountVolume \/ HandleUnmountVolume
  BY <1>7, LineHeard DEF HandleMountVolume, HandleUnmountVolume
<1>8. CASE AnsweredTwice \/ AnsweredInPart
  <2> DEFINE n == resp.req
  <2>1. Response("request") /\ q' = Answered(n)
    BY <1>8 DEF AnsweredTwice, AnsweredInPart
  <2>2. /\ n \in DOMAIN q.reqs /\ DOMAIN q'.reqs = DOMAIN q.reqs
        /\ q'.writer = q.writer /\ q'.ready = q.ready
        /\ q'.reqs[n] = Marked(q.reqs[n], "done")
        /\ \A i \in DOMAIN q.reqs : i # n => q'.reqs[i] = q.reqs[i]
    BY <2>1, PartDoes
  <2>3. q'.reqs[n].st # "queued"
    <3>1. q.reqs[n] \in Request
      BY <2>2, QueueFields DEF TypeInv
    <3>2. Marked(q.reqs[n], "done").st = "done"
      BY <3>1, MarkedIs
    <3> QED BY <2>2, <3>2
  <2> HIDE DEF n
  <2> QED BY <2>1, <2>2, <2>3, LineAnswered DEF n
<1>9. CASE AnsweredWhole
  <2> DEFINE n == resp.req
             p == q.reqs[n].pkt
  <2>1. /\ Response("request") /\ q' = FreeRequest(Orphaned(Answered(n), p), n)
        /\ q.reqs[n].type = "READ" => resp.res2 # More
    BY <1>9 DEF AnsweredWhole
  <2> HIDE DEF p
  <2>2. /\ n \in DOMAIN q.reqs /\ DOMAIN q'.reqs = DOMAIN q.reqs \ {n}
        /\ q'.writer = q.writer /\ q'.ready = q.ready
        /\ \A i \in DOMAIN q'.reqs : q'.reqs[i] = OrphanOf(q.reqs[i], p)
    BY <2>1, WholeDoes
  <2>3. \A i \in DOMAIN q'.reqs : q'.reqs[i].st = q.reqs[i].st
    <3>1. \A i \in DOMAIN q.reqs : q.reqs[i] \in Request
      BY QueueFields DEF TypeInv
    <3> QED BY <2>2, <3>1, OrphanOfIs
  <2>4. \A k \in DOMAIN piReqs : piReqs[k] # n
    <3>1. RespInv /\ resp.key = "request"
      BY <2>1 DEF LineInv, Response
    <3> QED BY <2>1, <3>1 DEF RespInv
  <2> HIDE DEF n
  <2> QED BY <2>1, <2>2, <2>3, <2>4, LineAnswered DEF n
<1>10. CASE WriteDone
  BY <1>10, LineWritten
<1>11. CASE PiAnswers
  BY <1>11, LineAnswers
<1>12. CASE PiSkipsEnd
  BY <1>12, LineSkips
<1>13. ASSUME NEW key \in {"mount", "unmount"}, NEW v \in Vols, PiMounts(key, v)
       PROVE  LineInv'
  <2> DEFINE m == [key |-> key, vol |-> v]
  <2>1. m.key # "request" /\ ReadDone(m) /\ UNCHANGED piReqs
    BY <1>13 DEF PiMounts, lineVars
  <2> QED BY <2>1, LineRead
<1>14. CASE LoseConnection
  <2> DEFINE m == [key |-> "error"]
  <2>1. m.key # "request" /\ ReadDone(m) /\ UNCHANGED piReqs
    BY <1>14 DEF LoseConnection
  <2> QED BY <2>1, LineRead
<1>15. ASSUME NEW type \in Types, NEW v \in ToSet(vols), NEW root \in BOOLEAN,
              NEW chunks \in Chunks \cup {0}, Send(type, v, root, chunks)
       PROVE  LineInv'
  <2>1. UNCHANGED lineVars /\ UNCHANGED readVars /\ UNCHANGED q
    BY <1>15 DEF Send
  <2> QED BY <2>1, LineKept
<1> QED
  BY <1>1, <1>2, <1>3, <1>4, <1>5, <1>6, <1>7, <1>8, <1>9, <1>10, <1>11, <1>12, <1>13, <1>14,
     <1>15 DEF Next, Handler, Environment

-----------------------------------------------------------------------------
(* Packets and their answers.                                              *)

LEMMA PortInvInit == Init => PortInv
BY DEF Init, PortInv, IsInjective

LEMMA AnswerInvInit == Init => AnswerInv
<1> SUFFICES ASSUME Init
             PROVE  AnswerInv
  OBVIOUS
<1>1. at = [p \in Pkts |-> "client"] /\ DOMAIN q.reqs = {} /\ pc = "run"
  BY DEF Init
<1> QED BY <1>1 DEF AnswerInv, HandledInv, OwnerInv, AloneInv, DeadInv

LEMMA PortKept == PortInv /\ UNCHANGED pktVars => PortInv'
BY DEF PortInv, pktVars

\* The packet taken off its port is on no other.
LEMMA PortLeft ==
    ASSUME TypeInv, PortInv, NEW v \in Vols, NEW p \in ToSet(port[v]), GetDosPacket(p, v)
    PROVE  /\ p \in Pkts /\ at[p] = "port" /\ pkt[p].vol = v
           /\ (\A x \in Pkts \ {p} : at'[x] = at[x] /\ pkt'[x] = pkt[x]) => PortInv'
<1>1. /\ p \in Pkts /\ port[v] \in Seq(Pkts) /\ port[v] # <<>> /\ p = Head(port[v])
      /\ port' = [port EXCEPT ![v] = Tail(port[v])] /\ port \in [Vols -> Seq(Pkts)]
  BY PortTaken DEF TypeInv, PktsOK
<1> DEFINE s == port[v]
           t == Tail(port[v])
<1>2. /\ t \in Seq(Pkts) /\ 1 \in DOMAIN s /\ p = s[1]
      /\ \A k \in DOMAIN t : k + 1 \in DOMAIN s /\ t[k] = s[k + 1]
  BY <1>1, HeadTail
<1>3. \A k \in DOMAIN t : k \in Nat /\ k # 0
  BY <1>2
<1>4. port'[v] = t /\ \A w \in Vols \ {v} : port'[w] = port[w]
  BY <1>1
<1>5. \A k \in DOMAIN s : at[s[k]] = "port" /\ pkt[s[k]].vol = v
  BY DEF PortInv
<1>6. \A j, k \in DOMAIN s : s[j] = s[k] => j = k
  BY DEF PortInv, IsInjective
<1>7. \A w \in Vols, k \in Nat : k \in DOMAIN port[w] =>
         port[w][k] \in Pkts /\ at[port[w][k]] = "port" /\ pkt[port[w][k]].vol = w
  BY <1>1 DEF PortInv
<1> HIDE DEF s, t
<1>8. at[p] = "port" /\ pkt[p].vol = v
  BY <1>2, <1>5
<1>9. \A j, k \in DOMAIN t : t[j] = t[k] => j = k
  <2> SUFFICES ASSUME NEW j \in DOMAIN t, NEW k \in DOMAIN t, t[j] = t[k]
               PROVE  j = k
    OBVIOUS
  <2>1. j + 1 = k + 1
    BY <1>2, <1>6
  <2> QED BY <1>3, <2>1
<1>10. \A k \in DOMAIN t : t[k] # p /\ at[t[k]] = "port" /\ pkt[t[k]].vol = v /\ t[k] \in Pkts
  <2> SUFFICES ASSUME NEW k \in DOMAIN t
               PROVE  t[k] # p /\ at[t[k]] = "port" /\ pkt[t[k]].vol = v /\ t[k] \in Pkts
    OBVIOUS
  <2>1. k + 1 \in DOMAIN s /\ t[k] = s[k + 1] /\ k + 1 # 1
    BY <1>2, <1>3
  <2>2. t[k] # p
    BY <1>2, <1>6, <2>1
  <2>3. t[k] \in Pkts
    BY <1>2
  <2> QED BY <1>5, <2>1, <2>2, <2>3
<1>11. ASSUME \A x \in Pkts \ {p} : at'[x] = at[x] /\ pkt'[x] = pkt[x]
       PROVE  PortInv'
  <2>1. IsInjective(port'[v]) /\ \A k \in DOMAIN port'[v] :
           at'[port'[v][k]] = "port" /\ pkt'[port'[v][k]].vol = v
    BY <1>4, <1>9, <1>10, <1>11 DEF IsInjective
  <2>2. ASSUME NEW w \in Vols \ {v}
        PROVE  IsInjective(port'[w]) /\ \A k \in DOMAIN port'[w] :
                  at'[port'[w][k]] = "port" /\ pkt'[port'[w][k]].vol = w
    <3>1. port'[w] = port[w] /\ port[w] \in Seq(Pkts)
      BY <1>1, <1>4
    <3>2. IsInjective(port[w]) /\ \A k \in DOMAIN port[w] :
             at[port[w][k]] = "port" /\ pkt[port[w][k]].vol = w /\ port[w][k] \in Pkts
      BY <3>1 DEF PortInv
    <3>3. \A k \in DOMAIN port[w] : port[w][k] # p
      BY <1>8, <3>2
    <3> QED BY <1>11, <3>1, <3>2, <3>3
  <2> QED BY <2>1, <2>2 DEF PortInv
<1> QED BY <1>1, <1>8, <1>11

\* Packets that are on no port do not matter to the ports.
LEMMA PortAside ==
    ASSUME TypeInv, PortInv, NEW p, at[p] # "port", UNCHANGED port,
           \A x \in Pkts \ {p} : at'[x] = at[x] /\ pkt'[x] = pkt[x]
    PROVE  PortInv'
<1>1. ASSUME NEW v \in Vols
      PROVE  IsInjective(port'[v]) /\ \A k \in DOMAIN port'[v] :
                at'[port'[v][k]] = "port" /\ pkt'[port'[v][k]].vol = v
  <2>1. port'[v] = port[v] /\ port[v] \in Seq(Pkts)
    BY DEF TypeInv, PktsOK
  <2>2. IsInjective(port[v]) /\ \A k \in DOMAIN port[v] :
           at[port[v][k]] = "port" /\ pkt[port[v][k]].vol = v /\ port[v][k] \in Pkts
    BY <2>1 DEF PortInv
  <2> QED BY <2>1, <2>2
<1> QED BY <1>1 DEF PortInv

LEMMA PortSent ==
    ASSUME TypeInv, PortInv, NEW p \in Pkts, NEW v \in Vols, NEW packet \in Packet,
           at[p] = "client", packet.vol = v,
           pkt' = [pkt EXCEPT ![p] = packet], at' = [at EXCEPT ![p] = "port"],
           port' = [port EXCEPT ![v] = Append(@, p)]
    PROVE  PortInv'
<1> DEFINE s == port[v]
           a == Append(s, p)
<1>1. /\ port \in [Vols -> Seq(Pkts)] /\ s \in Seq(Pkts)
      /\ at \in [Pkts -> {"client", "port", "handler"}] /\ pkt \in [Pkts -> Packet]
  BY DEF TypeInv, PktsOK
<1>2. /\ Len(s) + 1 \in DOMAIN a /\ a[Len(s) + 1] = p
      /\ \A k \in DOMAIN s : k \in DOMAIN a /\ a[k] = s[k]
      /\ \A k \in DOMAIN a : k \in DOMAIN s \/ k = Len(s) + 1
  BY <1>1, AppendIs
<1>3. port'[v] = a /\ \A w \in Vols \ {v} : port'[w] = port[w]
  BY <1>1
<1>4. /\ at'[p] = "port" /\ pkt'[p].vol = v
      /\ \A x \in Pkts \ {p} : at'[x] = at[x] /\ pkt'[x] = pkt[x]
  BY <1>1
<1>5. ASSUME NEW w \in Vols
      PROVE  \A k \in DOMAIN port[w] :
                /\ port[w][k] \in Pkts /\ port[w][k] # p
                /\ at'[port[w][k]] = "port" /\ pkt'[port[w][k]].vol = w
  <2>1. port[w] \in Seq(Pkts)
    BY <1>1
  <2>2. \A k \in DOMAIN port[w] :
           at[port[w][k]] = "port" /\ pkt[port[w][k]].vol = w /\ port[w][k] \in Pkts
    BY <2>1 DEF PortInv
  <2> QED BY <1>4, <2>2
<1>6. \A w \in Vols : IsInjective(port[w])
  BY DEF PortInv
<1> HIDE DEF s, a
<1>7. IsInjective(a) /\ \A k \in DOMAIN a : at'[a[k]] = "port" /\ pkt'[a[k]].vol = v
  BY <1>2, <1>4, <1>5, <1>6 DEF IsInjective, s
<1>8. ASSUME NEW w \in Vols
      PROVE  IsInjective(port'[w]) /\ \A k \in DOMAIN port'[w] :
                at'[port'[w][k]] = "port" /\ pkt'[port'[w][k]].vol = w
  <2>1. CASE w = v
    BY <1>3, <1>7, <2>1
  <2>2. CASE w # v
    BY <1>3, <1>5, <1>6, <2>2
  <2> QED BY <2>1, <2>2
<1> QED BY <1>8 DEF PortInv

LEMMA PortInvNext ==
    ASSUME TypeInv, LineInv, PortInv, AnswerInv, [Next]_vars
    PROVE  PortInv'
<1>1. CASE UNCHANGED pktVars
  BY <1>1, PortKept
<1>2. CASE \/ UNCHANGED vars \/ Wait \/ NoMoreDos \/ NoMoreRemote \/ BreakSeen \/ WriterBack
           \/ ReaderError \/ HandleMountVolume \/ HandleUnmountVolume \/ AnsweredTwice
           \/ AnsweredInPart \/ WriteDone \/ PiAnswers \/ Break \/ PiSkipsEnd \/ LoseConnection
           \/ \E key \in {"mount", "unmount"}, v \in Vols : PiMounts(key, v)
  BY <1>1, <1>2 DEF vars, Wait, NoMoreDos, NoMoreRemote, BreakSeen, WriterBack, ReaderError,
       HandleMountVolume, HandleUnmountVolume, AnsweredTwice, AnsweredInPart, WriteDone,
       PiAnswers, Break, PiSkipsEnd, LoseConnection, PiMounts, ReadDone
<1>3. ASSUME NEW v \in Vols, NEW p \in ToSet(port[v]),
             ReplyAtOnce(p, v) \/ ActionCopyDir(p, v) \/ Ask(p, v) \/ OutOfRequests(p, v)
      PROVE  PortInv'
  <2>1. GetDosPacket(p, v)
    BY <1>3 DEF ReplyAtOnce, ActionCopyDir, Ask, OutOfRequests
  <2>2. \A x \in Pkts \ {p} : at'[x] = at[x] /\ pkt'[x] = pkt[x]
    <3>1. \/ ReplyToDosPacket(p)
          \/ at' = [at EXCEPT ![p] = "handler"] /\ pkt' = pkt
          \/ UNCHANGED <<at, pkt>>
      BY <1>3 DEF ReplyAtOnce, ActionCopyDir, Ask, OutOfRequests
    <3> QED BY <3>1 DEF ReplyToDosPacket, TypeInv, PktsOK
  <2> QED BY <2>1, <2>2, PortLeft
<1>4. CASE AnsweredWhole
  <2> DEFINE p == q.reqs[resp.req].pkt
  <2>1. /\ Response("request") /\ ~ q.reqs[resp.req].orphan /\ ReplyToDosPacket(p) /\ UNCHANGED port
    BY <1>4 DEF AnsweredWhole
  <2>2. resp.req \in DOMAIN q.reqs
    BY <2>1 DEF Response, LineInv, RespInv
  <2>3. at[p] = "handler"
    BY <2>1, <2>2 DEF AnswerInv, OwnerInv
  <2> HIDE DEF p
  <2>4. \A x \in Pkts \ {p} : at'[x] = at[x] /\ pkt'[x] = pkt[x]
    BY <2>1 DEF ReplyToDosPacket, TypeInv, PktsOK
  <2> QED BY <2>1, <2>3, <2>4, PortAside
<1>5. ASSUME NEW type \in Types, NEW v \in ToSet(vols), NEW root \in BOOLEAN,
             NEW chunks \in Chunks \cup {0}, Send(type, v, root, chunks)
      PROVE  PortInv'
  <2> DEFINE free == {x \in Pkts : at[x] = "client"}
             p == CHOOSE x \in free : TRUE
             packet == [type |-> type, vol |-> v, root |-> root, chunks |-> chunks]
  <2>1. /\ free # {}
        /\ pkt' = [pkt EXCEPT ![p] = packet]
        /\ at' = [at EXCEPT ![p] = "port"]
        /\ port' = [port EXCEPT ![v] = Append(@, p)]
    BY <1>5 DEF Send
  <2>2. p \in free
    BY <2>1
  <2>3. v \in Vols
    BY DEF TypeInv, VolsOK, ToSet
  <2>4. packet \in Packet /\ packet.vol = v
    BY <2>3, ApbFsAssumption DEF Packet
  <2>5. p \in Pkts /\ at[p] = "client"
    BY <2>2
  <2> HIDE DEF p, packet, free
  <2> QED BY <2>1, <2>3, <2>4, <2>5, PortSent
<1> QED BY <1>2, <1>3, <1>4, <1>5 DEF Next, Handler, Environment

\* The packets stay where they are, and so do the requests; those that answer
\* a packet are still expected.
LEMMA AnswersKept ==
    ASSUME TypeInv, AnswerInv, pc' # "dead", UNCHANGED <<at, pkt>>,
           DOMAIN q'.reqs = DOMAIN q.reqs,
           \A i \in DOMAIN q.reqs :
              /\ q'.reqs[i].pkt = q.reqs[i].pkt /\ q'.reqs[i].type = q.reqs[i].type
              /\ q'.reqs[i].left = q.reqs[i].left /\ q'.reqs[i].orphan = q.reqs[i].orphan,
           \A i \in DOMAIN q.reqs :
              ~ q.reqs[i].orphan /\ q.reqs[i].left = 0 /\ Expected(i) /\ q.reqs[i].type # "END"
                 => Expected(i)'
    PROVE  AnswerInv'
<1>1. HandledInv /\ OwnerInv /\ AloneInv
  BY DEF AnswerInv
<1>2. HandledInv'
  <2> SUFFICES ASSUME NEW p \in Pkts, at[p] = "handler"
               PROVE  pkt[p].type # "END" /\ AskedFor(p)'
    BY DEF HandledInv
  <2>1. pkt[p].type # "END" /\ AskedFor(p)
    BY <1>1 DEF HandledInv
  <2>2. CASE pkt[p].type = "WRITE" /\ pkt[p].chunks = 0
    BY <2>1, <2>2 DEF AskedFor
  <2>3. ASSUME NEW i \in DOMAIN q.reqs,
               q.reqs[i].pkt = p /\ ~ q.reqs[i].orphan /\ q.reqs[i].left = 0 /\ Expected(i)
        PROVE  AskedFor(p)'
    <3>1. q.reqs[i].type # "END"
      BY <1>1, <2>1, <2>3 DEF OwnerInv
    <3>2. Expected(i)'
      BY <2>3, <3>1
    <3>3. q'.reqs[i].pkt = p /\ ~ q'.reqs[i].orphan /\ q'.reqs[i].left = 0 /\ i \in DOMAIN q'.reqs
      BY <2>3
    <3> QED BY <3>2, <3>3 DEF AskedFor
  <2> QED BY <2>1, <2>2, <2>3 DEF AskedFor
<1>3. OwnerInv'
  BY <1>1 DEF OwnerInv
<1>4. AloneInv'
  BY <1>1 DEF AloneInv
<1> QED BY <1>2, <1>3, <1>4 DEF AnswerInv, DeadInv

LEMMA ExpectedKept ==
    ASSUME UNCHANGED <<q, piReqs, connected>>, resp.key = "request" => UNCHANGED resp
    PROVE  \A i : Expected(i) => Expected(i)'
BY DEF Expected

\* A packet moves between its program and the handler's port, or back.
LEMMA AnswersAside ==
    ASSUME TypeInv, AnswerInv, pc' # "dead", UNCHANGED <<q, piReqs, connected, resp>>,
           NEW p, at[p] # "handler", at'[p] # "handler",
           \A x \in Pkts \ {p} : at'[x] = at[x] /\ pkt'[x] = pkt[x]
    PROVE  AnswerInv'
<1>1. HandledInv /\ OwnerInv /\ AloneInv
  BY DEF AnswerInv
<1>2. \A i : Expected(i) => Expected(i)'
  BY ExpectedKept
<1>3. HandledInv'
  <2> SUFFICES ASSUME NEW x \in Pkts, at'[x] = "handler"
               PROVE  pkt'[x].type # "END" /\ AskedFor(x)'
    BY DEF HandledInv
  <2>1. x # p /\ at[x] = "handler" /\ pkt'[x] = pkt[x]
    OBVIOUS
  <2>2. pkt[x].type # "END" /\ AskedFor(x)
    BY <1>1, <2>1 DEF HandledInv
  <2>3. AskedFor(x)'
    BY <1>2, <2>1, <2>2 DEF AskedFor
  <2> QED BY <2>1, <2>2, <2>3
<1>4. OwnerInv'
  <2>1. \A i \in DOMAIN q.reqs : q.reqs[i].pkt \in Pkts
    BY QueueFields, RequestFields DEF TypeInv
  <2> QED BY <1>1, <2>1 DEF OwnerInv
<1>5. AloneInv'
  BY <1>1 DEF AloneInv
<1> QED BY <1>3, <1>4, <1>5 DEF AnswerInv, DeadInv

\* Requests that are sent are expected, as they were before.
LEMMA ExpectedMoves ==
    ASSUME TypeInv, NEW m, Moves(m), UNCHANGED <<piReqs, connected, resp>>
    PROVE  \A i \in DOMAIN q.reqs : Expected(i) => Expected(i)'
<1> SUFFICES ASSUME NEW i \in DOMAIN q.reqs, Expected(i)
             PROVE  Expected(i)'
  OBVIOUS
<1>1. i # 0
  BY NodesAre, QueueFields DEF TypeInv
<1>2. CASE q.reqs[i].st = "queued"
  <2>1. q'.reqs[i].st = "queued" \/ q'.writer = i
    BY <1>1, <1>2 DEF Moves
  <2> QED BY <2>1 DEF Expected
<1>3. CASE q.writer = i
  <2>1. q.writer # 0 /\ m = 0
    BY <1>1, <1>3 DEF Moves
  <2>2. q'.writer = i
    BY <1>3, <2>1 DEF Moves
  <2> QED BY <2>2 DEF Expected
<1>4. CASE i \in ToSet(piReqs) \/ ~ connected \/ (resp.key = "request" /\ resp.req = i)
  BY <1>4 DEF Expected
<1> QED BY <1>2, <1>3, <1>4 DEF Expected

LEMMA AnswersAsk ==
    ASSUME TypeInv, LineInv, PortInv, AnswerInv,
           NEW v \in Vols, NEW p \in ToSet(port[v]), Ask(p, v)
    PROVE  AnswerInv'
<1>1. GetDosPacket(p, v) /\ UNCHANGED pc /\ pc = "run"
      /\ UNCHANGED <<piReqs, connected, resp>>
  BY DEF Ask, GetDosPacket, Running, lineVars, readVars
<1>2. p \in Pkts /\ at[p] = "port"
  BY <1>1, PortLeft
<1>3. PICK s, m : /\ AskedBy(p, s, m) /\ s \in Queues
                  /\ IF RepliesToo(p)
                     THEN ReplyToDosPacket(p) /\ q' = Orphaned(s, p)
                     ELSE at' = [at EXCEPT ![p] = "handler"] /\ q' = s /\ UNCHANGED pkt
  BY <1>2, AskDoes
<1>4. q' = s \/ q' = Orphaned(s, p)
  BY <1>3
<1>5. /\ Moves(m)
      /\ DOMAIN q'.reqs = DOMAIN s.reqs /\ q'.writer = s.writer
      /\ \A i \in DOMAIN s.reqs :
            /\ q'.reqs[i].pkt = s.reqs[i].pkt /\ q'.reqs[i].type = s.reqs[i].type
            /\ q'.reqs[i].left = s.reqs[i].left /\ q'.reqs[i].st = s.reqs[i].st
  BY <1>2, <1>3, <1>4, AskMoves
<1>6. HandledInv /\ OwnerInv /\ AloneInv
  BY DEF AnswerInv
<1> DEFINE Old == DOMAIN q.reqs
           New == DOMAIN s.reqs \ DOMAIN q.reqs
<1>7. \A i \in Old : q.reqs[i] \in Request /\ q.reqs[i].pkt \in Pkts
  BY QueueFields, RequestFields DEF TypeInv
\* No request but the new ones is for p.
<1>8. \A i \in Old : q.reqs[i].pkt = p => q.reqs[i].orphan
  BY <1>2, <1>6 DEF OwnerInv
<1>9. \A i \in Old : s.reqs[i].orphan = q.reqs[i].orphan
  <2> SUFFICES ASSUME NEW i \in Old
               PROVE  s.reqs[i].orphan = q.reqs[i].orphan
    OBVIOUS
  <2>1. s.reqs[i] = IF i = m THEN Marked(q.reqs[i], "sent") ELSE q.reqs[i]
    BY <1>3 DEF AskedBy
  <2>2. Marked(q.reqs[i], "sent").orphan = q.reqs[i].orphan
    BY <1>7, MarkedIs
  <2> QED BY <2>1, <2>2
<1>10. \A i \in Old : Expected(i) => Expected(i)'
  BY <1>1, <1>5, ExpectedMoves
<1>11. \A i \in Old : /\ i \in DOMAIN q'.reqs
                      /\ q'.reqs[i].pkt = q.reqs[i].pkt /\ q'.reqs[i].type = q.reqs[i].type
                      /\ q'.reqs[i].left = q.reqs[i].left
  BY <1>5 DEF Moves
<1>12. \A i \in New : s.reqs[i].pkt = p /\ s.reqs[i].type = pkt[p].type /\ ~ s.reqs[i].orphan
                      /\ s.reqs[i].st = IF i = m THEN "sent" ELSE "queued"
  BY <1>3 DEF AskedBy
<1>13. \A i \in DOMAIN q'.reqs : i \in Old \/ i \in New
  BY <1>5
<1>14. \A x \in Pkts \ {p} : at'[x] = at[x] /\ pkt'[x] = pkt[x]
  BY <1>3 DEF ReplyToDosPacket, TypeInv, PktsOK
<1>15. /\ \A i \in Old : q'.reqs[i].orphan = q.reqs[i].orphan
       /\ \A i \in New : q'.reqs[i].orphan = RepliesToo(p)
  <2>1. CASE RepliesToo(p)
    <3>1. q' = Orphaned(s, p)
      BY <1>3, <2>1
    <3>2. \A i \in DOMAIN s.reqs : s.reqs[i] \in Request /\ s.reqs[i].orphan \in BOOLEAN
      BY <1>3, QueueFields, RequestFields
    <3>3. \A i \in DOMAIN s.reqs : q'.reqs[i].orphan = (s.reqs[i].orphan \/ s.reqs[i].pkt = p)
      BY <1>3, <3>1, <3>2, OrphanedIs, OrphanOfIs
    <3>4. ASSUME NEW i \in Old
          PROVE  q'.reqs[i].orphan = q.reqs[i].orphan
      <4>1. i \in DOMAIN s.reqs
        BY <1>5, <1>11
      <4>2. s.reqs[i].pkt = q.reqs[i].pkt /\ q.reqs[i].orphan \in BOOLEAN
        BY <1>5, <1>7, <1>11, <4>1, RequestFields
      <4> QED BY <1>8, <1>9, <3>3, <4>1, <4>2
    <3>5. ASSUME NEW i \in New
          PROVE  q'.reqs[i].orphan = TRUE
      BY <1>12, <3>3
    <3>6. RepliesToo(p) = TRUE
      BY <2>1 DEF RepliesToo
    <3> QED BY <3>4, <3>5, <3>6
  <2>2. CASE ~ RepliesToo(p)
    <3>1. q' = s
      BY <1>3, <2>2
    <3>2. \A i \in New : s.reqs[i].orphan = FALSE
      <4>1. \A i \in New : s.reqs[i].orphan \in BOOLEAN
        BY <1>3, QueueFields, RequestFields
      <4> QED BY <1>12, <4>1
    <3>3. RepliesToo(p) = FALSE
      BY <2>2 DEF RepliesToo
    <3> QED BY <1>9, <3>1, <3>2, <3>3
  <2> QED BY <2>1, <2>2
<1>16. HandledInv'
  <2> SUFFICES ASSUME NEW x \in Pkts, at'[x] = "handler"
               PROVE  pkt'[x].type # "END" /\ AskedFor(x)'
    BY DEF HandledInv
  <2>1. CASE x # p
    <3>1. at[x] = "handler" /\ pkt'[x] = pkt[x]
      BY <1>14, <2>1
    <3>2. pkt[x].type # "END" /\ AskedFor(x)
      BY <1>6, <3>1 DEF HandledInv
    <3>3. AskedFor(x)'
      BY <1>10, <1>11, <1>15, <3>1, <3>2 DEF AskedFor
    <3> QED BY <3>1, <3>2, <3>3
  <2>2. CASE x = p
    <3>1. ~ RepliesToo(p)
      BY <1>2, <1>3, <2>2 DEF ReplyToDosPacket, TypeInv, PktsOK
    <3>2. pkt' = pkt /\ pkt[p].type # "END"
      BY <1>3, <3>1 DEF RepliesToo
    <3>3. CASE pkt[p].type = "WRITE" /\ pkt[p].chunks = 0
      BY <2>2, <3>2, <3>3 DEF AskedFor
    <3>4. CASE pkt[p].type # "WRITE" \/ pkt[p].chunks # 0
      <4>1. PICK i \in New : s.reqs[i].left = 0
        BY <1>3, <3>4 DEF AskedBy
      <4>2. /\ i \in DOMAIN q'.reqs /\ q'.reqs[i].pkt = p /\ q'.reqs[i].left = 0
            /\ ~ q'.reqs[i].orphan
        BY <1>5, <1>12, <1>15, <3>1, <4>1
      <4>3. q'.reqs[i].st = "queued" \/ q'.writer = i
        <5>1. CASE i = m
          <6>1. i # 0
            BY <1>3, NodesAre, QueueFields
          <6> QED BY <1>5, <5>1, <6>1 DEF Moves
        <5>2. CASE i # m
          BY <1>5, <1>12, <5>2
        <5> QED BY <5>1, <5>2
      <4>4. Expected(i)'
        BY <4>3 DEF Expected
      <4> QED BY <2>2, <3>2, <4>2, <4>4 DEF AskedFor
    <3> QED BY <2>2, <3>2, <3>3, <3>4
  <2> QED BY <2>1, <2>2
<1>17. OwnerInv'
  <2>1. ASSUME NEW i \in Old
        PROVE  IF q'.reqs[i].orphan THEN q'.reqs[i].type \in {"END", "WRITE"}
               ELSE at'[q'.reqs[i].pkt] = "handler" /\ pkt'[q'.reqs[i].pkt].type = q'.reqs[i].type
    <3>1. q'.reqs[i].orphan = q.reqs[i].orphan /\ q'.reqs[i].pkt = q.reqs[i].pkt
          /\ q'.reqs[i].type = q.reqs[i].type /\ q.reqs[i].pkt \in Pkts
      BY <1>7, <1>11, <1>15
    <3>2. CASE q.reqs[i].orphan
      BY <1>6, <3>1, <3>2 DEF OwnerInv
    <3>3. CASE ~ q.reqs[i].orphan
      <4>1. q.reqs[i].pkt # p
        BY <1>8, <3>3
      <4> QED BY <1>6, <1>14, <3>1, <3>3, <4>1 DEF OwnerInv
    <3> QED BY <3>2, <3>3
  <2>2. ASSUME NEW i \in New
        PROVE  IF q'.reqs[i].orphan THEN q'.reqs[i].type \in {"END", "WRITE"}
               ELSE at'[q'.reqs[i].pkt] = "handler" /\ pkt'[q'.reqs[i].pkt].type = q'.reqs[i].type
    <3>1. q'.reqs[i].pkt = p /\ q'.reqs[i].type = pkt[p].type /\ q'.reqs[i].orphan = RepliesToo(p)
      BY <1>5, <1>12, <1>15
    <3>2. CASE RepliesToo(p)
      BY <3>1, <3>2 DEF RepliesToo
    <3>3. CASE ~ RepliesToo(p)
      <4>1. at'[p] = "handler" /\ pkt' = pkt
        BY <1>2, <1>3, <3>3 DEF TypeInv, PktsOK
      <4> QED BY <3>1, <3>3, <4>1
    <3> QED BY <3>2, <3>3
  <2> QED BY <1>13, <2>1, <2>2 DEF OwnerInv
<1>18. AloneInv'
  <2> SUFFICES ASSUME NEW i \in DOMAIN q'.reqs, NEW j \in DOMAIN q'.reqs,
                      q'.reqs[i].pkt = q'.reqs[j].pkt, ~ q'.reqs[i].orphan, ~ q'.reqs[j].orphan
               PROVE  i = j \/ q'.reqs[i].type = "WRITE"
    BY DEF AloneInv
  <2>1. CASE i \in Old /\ j \in Old
    BY <1>6, <1>11, <1>15, <2>1 DEF AloneInv
  <2>2. CASE i \in New /\ j \in New
    <3>1. q'.reqs[i].type = pkt[p].type
      BY <1>5, <1>12, <2>2
    <3>2. pkt[p].type # "WRITE" => \A a, b \in New : a = b
      BY <1>3 DEF AskedBy
    <3> QED BY <2>2, <3>1, <3>2
  <2>3. CASE i \in Old /\ j \in New
    BY <1>5, <1>8, <1>11, <1>12, <1>15, <2>3
  <2>4. CASE i \in New /\ j \in Old
    BY <1>5, <1>8, <1>11, <1>12, <1>15, <2>4
  <2> QED BY <1>13, <2>1, <2>2, <2>3, <2>4
<1> QED BY <1>1, <1>16, <1>17, <1>18 DEF AnswerInv, DeadInv

\* Unless requests of ENDs and WRITEs are left over, each packet that is with the
\* handler has one request, so that enough are left for another.
LEMMA EnoughLeft ==
    ASSUME TypeInv, AnswerInv, Enough, NEW p \in Pkts, at[p] = "port",
           Len(Asked(p)) > Cardinality(FreeIds(q))
    PROVE  \E i \in DOMAIN q.reqs : q.reqs[i].type \in {"END", "WRITE"}
<1> SUFFICES ASSUME \A i \in DOMAIN q.reqs : ~ (q.reqs[i].type \in {"END", "WRITE"})
             PROVE  FALSE
  OBVIOUS
<1> DEFINE D == DOMAIN q.reqs
           f == [i \in D |-> q.reqs[i].pkt]
           n == Len(Asked(p))
<1>1. HandledInv /\ OwnerInv /\ AloneInv /\ q \in Queues /\ pkt \in [Pkts -> Packet]
  BY DEF AnswerInv, TypeInv, PktsOK
<1>2. \A i \in D : /\ ~ q.reqs[i].orphan /\ at[q.reqs[i].pkt] = "handler"
                   /\ q.reqs[i].pkt \in Pkts \ {p}
  <2>1. \A i \in D : ~ q.reqs[i].orphan /\ at[q.reqs[i].pkt] = "handler"
    BY <1>1 DEF OwnerInv
  <2>2. \A i \in D : q.reqs[i].pkt \in Pkts
    BY <1>1, QueueFields, RequestFields
  <2> QED BY <2>1, <2>2
<1>3. f \in Injection(D, Pkts \ {p})
  BY <1>1, <1>2 DEF Injection, IsInjective, AloneInv
<1>4. IsFiniteSet(Pkts \ {p}) /\ Cardinality(Pkts \ {p}) = Cardinality(Pkts) - 1
      /\ Cardinality(Pkts) \in Nat
  BY ApbFsAssumption, FS_RemoveElement, FS_CardinalityType
<1>5. IsFiniteSet(D) /\ Cardinality(D) \in Nat /\ Cardinality(FreeIds(q)) = MaxReqs - Cardinality(D)
  BY <1>1, NumbersLeft
<1>6. Cardinality(D) <= Cardinality(Pkts \ {p})
  BY <1>3, <1>4, FS_Injection
<1>7. n \in Nat /\ n \in Chunks \cup {0, 1}
  <2> DEFINE k == IF pkt[p].type = "WRITE" THEN pkt[p].chunks ELSE 1
  <2>1. k \in Nat /\ k \in Chunks \cup {0, 1} /\ Len(Asked(p)) = k
    BY <1>1, AskedIs, Zenon
  <2> QED BY <2>1
<1>8. MaxReqs \in Nat
  BY ApbFsAssumption
<1> HIDE DEF D, n
<1>9. CASE n = 0
  <2>1. 0 > MaxReqs - Cardinality(D) /\ Cardinality(FreeIds(q)) \in Nat
    <3>1. Cardinality(FreeIds(q)) \in Nat
      BY <1>1, NumbersLeft, FS_CardinalityType
    <3> QED BY <1>5, <1>9, <3>1 DEF n
  <2> QED BY <1>5, <2>1
<1>10. CASE n # 0
  <2>1. n \in Chunks \cup {1}
    BY <1>7, <1>10
  <2>2. n + Cardinality(Pkts) - 1 <= MaxReqs
    BY <2>1 DEF Enough
  <2>3. n > MaxReqs - Cardinality(D)
    BY <1>5 DEF n
  <2> QED BY <1>4, <1>5, <1>6, <1>7, <1>8, <2>2, <2>3
<1> QED BY <1>9, <1>10

LEMMA AnswersDead ==
    ASSUME TypeInv, PortInv, AnswerInv,
           NEW v \in Vols, NEW p \in ToSet(port[v]), OutOfRequests(p, v)
    PROVE  AnswerInv'
<1>1. /\ GetDosPacket(p, v) /\ Len(Asked(p)) > Cardinality(FreeIds(q))
      /\ UNCHANGED <<at, pkt, q, piReqs, connected, resp>>
  BY DEF OutOfRequests, GetDosPacket, lineVars, readVars
<1>2. p \in Pkts /\ at[p] = "port"
  BY <1>1, PortLeft
<1>3. HandledInv'
  <2>1. \A i : Expected(i) => Expected(i)'
    BY <1>1, ExpectedKept
  <2>2. \A x \in Pkts : AskedFor(x) => AskedFor(x)'
    BY <1>1, <2>1 DEF AskedFor
  <2> QED BY <1>1, <2>2 DEF AnswerInv, HandledInv
<1>4. OwnerInv' /\ AloneInv'
  BY <1>1 DEF AnswerInv, OwnerInv, AloneInv
<1>5. DeadInv'
  BY <1>1, <1>2, EnoughLeft DEF DeadInv, Enough
<1> QED BY <1>3, <1>4, <1>5 DEF AnswerInv

LEMMA AnswersWhole ==
    ASSUME TypeInv, LineInv, AnswerInv, AnsweredWhole
    PROVE  AnswerInv'
<1> DEFINE n == resp.req
           p == q.reqs[n].pkt
<1>1. /\ Response("request") /\ ~ q.reqs[n].orphan /\ ReplyToDosPacket(p)
      /\ q' = FreeRequest(Orphaned(Answered(n), p), n) /\ pc' \in {pc, "wild"} /\ pc = "run"
  BY DEF AnsweredWhole, Response, GetRemoteMsg, Running
<1>2. UNCHANGED <<piReqs, connected>> /\ resp.key = "request" /\ resp' = NoMsg
  BY <1>1 DEF Response, GetRemoteMsg, lineVars
<1> HIDE DEF p
<1>3. /\ n \in DOMAIN q.reqs /\ DOMAIN q'.reqs = DOMAIN q.reqs \ {n}
      /\ q'.writer = q.writer /\ q'.ready = q.ready
      /\ \A i \in DOMAIN q'.reqs : q'.reqs[i] = OrphanOf(q.reqs[i], p)
  BY <1>1, WholeDoes
<1>4. \A i \in DOMAIN q'.reqs :
         /\ i \in DOMAIN q.reqs /\ i # n /\ q.reqs[i].pkt \in Pkts
         /\ q'.reqs[i].pkt = q.reqs[i].pkt /\ q'.reqs[i].type = q.reqs[i].type
         /\ q'.reqs[i].left = q.reqs[i].left /\ q'.reqs[i].st = q.reqs[i].st
         /\ q'.reqs[i].orphan = (q.reqs[i].orphan \/ q.reqs[i].pkt = p)
  <2>1. \A i \in DOMAIN q.reqs : q.reqs[i] \in Request
    BY QueueFields DEF TypeInv
  <2> QED BY <1>3, <2>1, OrphanOfIs, RequestFields
<1>5. HandledInv /\ OwnerInv /\ AloneInv
  BY DEF AnswerInv
<1>6. \A x \in Pkts \ {p} : at'[x] = at[x] /\ pkt'[x] = pkt[x]
  BY <1>1 DEF ReplyToDosPacket, TypeInv, PktsOK
<1>7. HandledInv'
  <2> SUFFICES ASSUME NEW x \in Pkts, at'[x] = "handler"
               PROVE  pkt'[x].type # "END" /\ AskedFor(x)'
    BY DEF HandledInv
  <2>1. x # p
    BY <1>1 DEF ReplyToDosPacket, TypeInv, PktsOK
  <2>2. at[x] = "handler" /\ pkt'[x] = pkt[x]
    BY <1>6, <2>1
  <2>3. pkt[x].type # "END" /\ AskedFor(x)
    BY <1>5, <2>2 DEF HandledInv
  <2>4. CASE pkt[x].type = "WRITE" /\ pkt[x].chunks = 0
    BY <2>2, <2>3, <2>4 DEF AskedFor
  <2>5. ASSUME NEW i \in DOMAIN q.reqs, q.reqs[i].pkt = x, ~ q.reqs[i].orphan,
               q.reqs[i].left = 0, Expected(i)
        PROVE  AskedFor(x)'
    <3>1. i # n /\ i \in DOMAIN q'.reqs
      BY <1>3, <2>1, <2>5 DEF p
    <3>2. q'.reqs[i].pkt = x /\ ~ q'.reqs[i].orphan /\ q'.reqs[i].left = 0
      BY <1>4, <2>1, <2>5, <3>1
    <3>3. Expected(i)'
      BY <1>2, <1>3, <1>4, <2>5, <3>1 DEF Expected
    <3> QED BY <3>1, <3>2, <3>3 DEF AskedFor
  <2> QED BY <2>2, <2>3, <2>4, <2>5 DEF AskedFor
<1>8. OwnerInv'
  <2> SUFFICES ASSUME NEW i \in DOMAIN q'.reqs
               PROVE  IF q'.reqs[i].orphan THEN q'.reqs[i].type \in {"END", "WRITE"}
                      ELSE /\ at'[q'.reqs[i].pkt] = "handler"
                           /\ pkt'[q'.reqs[i].pkt].type = q'.reqs[i].type
    BY DEF OwnerInv
  <2>1. CASE q.reqs[i].orphan
    BY <1>4, <1>5, <2>1 DEF OwnerInv
  <2>2. CASE ~ q.reqs[i].orphan /\ q.reqs[i].pkt = p
    <3>1. q.reqs[i].type = "WRITE"
      BY <1>1, <1>3, <1>4, <1>5, <2>2 DEF AloneInv, p
    <3> QED BY <1>4, <2>2, <3>1
  <2>3. CASE ~ q.reqs[i].orphan /\ q.reqs[i].pkt # p
    <3>1. /\ q.reqs[i].pkt \in Pkts \ {p} /\ at[q.reqs[i].pkt] = "handler"
          /\ pkt[q.reqs[i].pkt].type = q.reqs[i].type
      BY <1>4, <1>5, <2>3 DEF OwnerInv
    <3>2. ~ q'.reqs[i].orphan /\ q'.reqs[i].pkt = q.reqs[i].pkt /\ q'.reqs[i].type = q.reqs[i].type
      BY <1>4, <2>3
    <3> QED BY <1>6, <3>1, <3>2
  <2> QED BY <2>1, <2>2, <2>3
<1>9. AloneInv'
  <2> SUFFICES ASSUME NEW i \in DOMAIN q'.reqs, NEW j \in DOMAIN q'.reqs,
                      q'.reqs[i].pkt = q'.reqs[j].pkt, ~ q'.reqs[i].orphan, ~ q'.reqs[j].orphan
               PROVE  i = j \/ q'.reqs[i].type = "WRITE"
    BY DEF AloneInv
  <2>1. /\ i \in DOMAIN q.reqs /\ j \in DOMAIN q.reqs
        /\ q.reqs[i].pkt = q.reqs[j].pkt /\ ~ q.reqs[i].orphan /\ ~ q.reqs[j].orphan
        /\ q'.reqs[i].type = q.reqs[i].type
    BY <1>4
  <2> QED BY <1>5, <2>1 DEF AloneInv
<1>10. DeadInv'
  BY <1>1 DEF DeadInv
<1> QED BY <1>7, <1>8, <1>9, <1>10 DEF AnswerInv

\* A response to a packet that has been given back, or to a part of one.
LEMMA AnswersPart ==
    ASSUME TypeInv, LineInv, AnswerInv, AnsweredTwice \/ AnsweredInPart
    PROVE  AnswerInv'
<1> DEFINE n == resp.req
<1>1. /\ Response("request") /\ q' = Answered(n) /\ pc' \in {pc, "wild"} /\ pc = "run"
      /\ UNCHANGED <<at, pkt>>
      /\ q.reqs[n].orphan \/ (q.reqs[n].type \in {"READ", "WRITE"} /\ resp.res2 = More)
  BY DEF AnsweredTwice, AnsweredInPart, Response, GetRemoteMsg, Running, pktVars
<1>2. /\ UNCHANGED <<piReqs, connected>> /\ resp.key = "request" /\ resp' = NoMsg
      /\ RespInv /\ piReqs \in Seq(Ids)
  BY <1>1 DEF Response, GetRemoteMsg, lineVars, LineInv, TypeInv, LineOK
<1>3. /\ n \in DOMAIN q.reqs /\ DOMAIN q'.reqs = DOMAIN q.reqs
      /\ q'.writer = q.writer /\ q'.ready = q.ready
      /\ q'.reqs[n] = Marked(q.reqs[n], "done")
      /\ \A i \in DOMAIN q.reqs : i # n => q'.reqs[i] = q.reqs[i]
  BY <1>1, PartDoes
<1>4. q.reqs[n] \in Request
  BY <1>3, QueueFields DEF TypeInv
<1>5. LET r == Marked(q.reqs[n], "done")
      IN  /\ r.pkt = q.reqs[n].pkt /\ r.type = q.reqs[n].type
          /\ r.left = q.reqs[n].left /\ r.orphan = q.reqs[n].orphan
  BY <1>4, MarkedIs
<1>6. \A i \in DOMAIN q.reqs :
         /\ q'.reqs[i].pkt = q.reqs[i].pkt /\ q'.reqs[i].type = q.reqs[i].type
         /\ q'.reqs[i].left = q.reqs[i].left /\ q'.reqs[i].orphan = q.reqs[i].orphan
  BY <1>3, <1>5
<1>7. resp.res2 = More =>
         \/ q.reqs[n].type = "READ" /\ piReqs # <<>> /\ Head(piReqs) = n
         \/ q.reqs[n].type = "WRITE" /\ q.reqs[n].left > 0
  BY <1>2 DEF RespInv
<1>8. piReqs # <<>> /\ Head(piReqs) = n => n \in ToSet(piReqs)
  BY <1>2, HeadTail DEF ToSet
<1> HIDE DEF n
<1>9. \A i \in DOMAIN q.reqs :
         ~ q.reqs[i].orphan /\ q.reqs[i].left = 0 /\ Expected(i) /\ q.reqs[i].type # "END"
            => Expected(i)'
  <2> SUFFICES ASSUME NEW i \in DOMAIN q.reqs,
                      ~ q.reqs[i].orphan, q.reqs[i].left = 0, Expected(i)
               PROVE  Expected(i)'
    OBVIOUS
  <2>1. CASE i = n
    <3>1. n \in ToSet(piReqs)
      BY <1>1, <1>7, <1>8, <2>1
    <3> QED BY <1>2, <2>1, <3>1 DEF Expected
  <2>2. CASE i # n
    BY <1>2, <1>3, <2>2 DEF Expected, n
  <2> QED BY <2>1, <2>2
<1>10. pc' # "dead"
  BY <1>1
<1>11. UNCHANGED <<at, pkt>> /\ DOMAIN q'.reqs = DOMAIN q.reqs
  BY <1>1, <1>3
<1> QED BY <1>6, <1>9, <1>10, <1>11, AnswersKept, Zenon

\* Nothing happens to packets and requests, and no response is lost.
LEMMA AnswersStill ==
    ASSUME TypeInv, AnswerInv, pc' # "dead", UNCHANGED <<at, pkt, q>>,
           \A i \in DOMAIN q.reqs : Expected(i) /\ q.reqs[i].type # "END" => Expected(i)'
    PROVE  AnswerInv'
<1>1. /\ UNCHANGED <<at, pkt>> /\ DOMAIN q'.reqs = DOMAIN q.reqs
      /\ \A i \in DOMAIN q.reqs :
            /\ q'.reqs[i].pkt = q.reqs[i].pkt /\ q'.reqs[i].type = q.reqs[i].type
            /\ q'.reqs[i].left = q.reqs[i].left /\ q'.reqs[i].orphan = q.reqs[i].orphan
  OBVIOUS
<1>2. \A i \in DOMAIN q.reqs :
         ~ q.reqs[i].orphan /\ q.reqs[i].left = 0 /\ Expected(i) /\ q.reqs[i].type # "END"
            => Expected(i)'
  OBVIOUS
<1> QED BY <1>1, <1>2, AnswersKept

LEMMA AnswersWriterBack ==
    ASSUME TypeInv, LineInv, AnswerInv, WriterBack
    PROVE  AnswerInv'
<1>1. /\ GetRemoteMsg("writer") /\ q' = SendNext /\ pc' = pc /\ pc = "run"
      /\ UNCHANGED <<at, pkt>> /\ UNCHANGED <<piReqs, connected, resp>>
  BY DEF WriterBack, GetRemoteMsg, Running, lineVars, pktVars
<1>2. PICK m : Moves(m) /\ SentOne(q', m)
  BY <1>1, WriterMoves
<1>3. \A i \in DOMAIN q.reqs : Expected(i) => Expected(i)'
  BY <1>1, <1>2, ExpectedMoves
<1>4. DOMAIN q'.reqs = DOMAIN q.reqs
  BY <1>2 DEF SentOne
<1>5. \A i \in DOMAIN q.reqs :
         /\ q'.reqs[i].pkt = q.reqs[i].pkt /\ q'.reqs[i].type = q.reqs[i].type
         /\ q'.reqs[i].left = q.reqs[i].left /\ q'.reqs[i].orphan = q.reqs[i].orphan
  <2> SUFFICES ASSUME NEW i \in DOMAIN q.reqs
               PROVE  /\ q'.reqs[i].pkt = q.reqs[i].pkt /\ q'.reqs[i].type = q.reqs[i].type
                      /\ q'.reqs[i].left = q.reqs[i].left /\ q'.reqs[i].orphan = q.reqs[i].orphan
    OBVIOUS
  <2>1. q.reqs[i] \in Request
    BY QueueFields DEF TypeInv
  <2>2. LET r == Marked(q.reqs[i], "sent")
        IN  /\ r.pkt = q.reqs[i].pkt /\ r.type = q.reqs[i].type /\ r.left = q.reqs[i].left
            /\ r.orphan = q.reqs[i].orphan
    BY <2>1, MarkedIs
  <2>3. q'.reqs[i] = IF i = m THEN Marked(q.reqs[i], "sent") ELSE q.reqs[i]
    BY <1>2 DEF SentOne
  <2> QED BY <2>2, <2>3
<1>6. pc' # "dead"
  BY <1>1
<1>7. \A i \in DOMAIN q.reqs :
         ~ q.reqs[i].orphan /\ q.reqs[i].left = 0 /\ Expected(i) /\ q.reqs[i].type # "END"
            => Expected(i)'
  BY <1>3
<1> QED BY <1>1, <1>4, <1>5, <1>6, <1>7, AnswersKept

LEMMA AnswersWritten ==
    ASSUME TypeInv, LineInv, AnswerInv, WriteDone
    PROVE  AnswerInv'
<1>1. /\ q.writer # 0 /\ q' = [q EXCEPT !.writer = 0] /\ pc' = pc /\ pc = "run"
      /\ UNCHANGED <<at, pkt, connected, resp>>
      /\ piReqs' = IF connected THEN Append(piReqs, q.writer) ELSE piReqs
  BY DEF WriteDone, Running, pktVars
<1>2. q'.reqs = q.reqs /\ piReqs \in Seq(Ids) /\ q.writer \in Ids
  BY <1>1, QueueFields DEF TypeInv, LineOK, Queues
<1>3. connected => /\ q.writer \in ToSet(piReqs')
                   /\ \A i \in ToSet(piReqs) : i \in ToSet(piReqs')
  <2> SUFFICES ASSUME connected
               PROVE  q.writer \in ToSet(piReqs') /\ \A i \in ToSet(piReqs) : i \in ToSet(piReqs')
    OBVIOUS
  <2> DEFINE a == Append(piReqs, q.writer)
  <2>1. /\ Len(piReqs) + 1 \in DOMAIN a /\ a[Len(piReqs) + 1] = q.writer
        /\ \A k \in DOMAIN piReqs : k \in DOMAIN a /\ a[k] = piReqs[k]
    BY <1>2, AppendIs
  <2>2. piReqs' = a
    BY <1>1
  <2> HIDE DEF a
  <2> QED BY <2>1, <2>2 DEF ToSet
<1>4. \A i \in DOMAIN q.reqs : Expected(i) => Expected(i)'
  <2> SUFFICES ASSUME NEW i \in DOMAIN q.reqs, Expected(i)
               PROVE  Expected(i)'
    OBVIOUS
  <2>1. CASE ~ connected
    BY <1>1, <2>1 DEF Expected
  <2>2. CASE connected
    BY <1>1, <1>2, <1>3, <2>2 DEF Expected
  <2> QED BY <2>1, <2>2
<1>5. /\ DOMAIN q'.reqs = DOMAIN q.reqs
      /\ \A i \in DOMAIN q.reqs :
            /\ q'.reqs[i].pkt = q.reqs[i].pkt /\ q'.reqs[i].type = q.reqs[i].type
            /\ q'.reqs[i].left = q.reqs[i].left /\ q'.reqs[i].orphan = q.reqs[i].orphan
  BY <1>2
<1>6. pc' # "dead" /\ UNCHANGED <<at, pkt>>
  BY <1>1
<1>7. \A i \in DOMAIN q.reqs :
         ~ q.reqs[i].orphan /\ q.reqs[i].left = 0 /\ Expected(i) /\ q.reqs[i].type # "END"
            => Expected(i)'
  BY <1>4
<1> QED BY <1>5, <1>6, <1>7, AnswersKept

\* A request leaves the line to the Pi, with a response or without.
LEMMA AnswersPi ==
    ASSUME TypeInv, LineInv, AnswerInv, PiAnswers \/ PiSkipsEnd
    PROVE  AnswerInv'
<1> DEFINE h == Head(piReqs)
           t == Tail(piReqs)
<1>1. /\ UNCHANGED <<at, pkt, q, pc, connected>> /\ pc = "run" /\ piReqs # <<>>
      /\ piReqs' \in {piReqs, t}
  BY DEF PiAnswers, PiSkipsEnd, ReadDone, Running, pktVars
<1>2. \A i : i # h /\ (\E k \in DOMAIN piReqs : piReqs[k] = i) => \E k \in DOMAIN t : t[k] = i
  BY <1>1, LineShorter
<1>3. \A i : i # h /\ i \in ToSet(piReqs) => i \in ToSet(piReqs')
  BY <1>1, <1>2 DEF ToSet
<1>4. RespInv
  BY DEF LineInv
<1>5. CASE PiAnswers
  <2>1. reading /\ resp'.key = "request" /\ resp'.req = h
    BY <1>5 DEF PiAnswers, ReadDone
  <2>2. resp.key # "request"
    BY <1>4, <2>1 DEF RespInv
  <2> HIDE DEF h
  <2>3. \A i \in DOMAIN q.reqs : Expected(i) /\ q.reqs[i].type # "END" => Expected(i)'
    BY <1>1, <1>3, <2>1, <2>2 DEF Expected
  <2> QED BY <1>1, <2>3, AnswersStill
<1>6. CASE PiSkipsEnd
  <2>1. UNCHANGED resp /\ q.reqs[h].type = "END"
    BY <1>6 DEF PiSkipsEnd, readVars
  <2> HIDE DEF h
  <2>3. \A i \in DOMAIN q.reqs : Expected(i) /\ q.reqs[i].type # "END" => Expected(i)'
    BY <1>1, <1>3, <2>1 DEF Expected
  <2> QED BY <1>1, <2>3, AnswersStill
<1> QED BY <1>5, <1>6

LEMMA AnswerInvNext ==
    ASSUME TypeInv, LineInv, PortInv, AnswerInv, [Next]_vars
    PROVE  AnswerInv'
<1>1. CASE UNCHANGED vars
  BY <1>1 DEF vars, pktVars, lineVars, readVars, AnswerInv, HandledInv, AskedFor, Expected, OwnerInv,
       AloneInv, DeadInv
<1>2. CASE Wait \/ NoMoreDos \/ NoMoreRemote \/ Break \/ BreakSeen \/ ReaderError
  <2>1. UNCHANGED <<at, pkt, q>> /\ UNCHANGED <<q, piReqs, connected>> /\ UNCHANGED resp
        /\ pc' # "dead"
    BY <1>2 DEF Wait, NoMoreDos, NoMoreRemote, Break, BreakSeen, ReaderError, GetRemoteMsg, Running,
         FS_FreeDevice, pktVars, lineVars, readVars
  <2>2. \A i : Expected(i) => Expected(i)'
    BY <2>1, ExpectedKept
  <2> QED BY <2>1, <2>2, AnswersStill
<1>3. CASE HandleMountVolume \/ HandleUnmountVolume
  <2>1. /\ UNCHANGED <<at, pkt, q>> /\ UNCHANGED <<q, piReqs, connected>> /\ resp.key # "request"
        /\ pc' # "dead"
    BY <1>3 DEF HandleMountVolume, HandleUnmountVolume, Response, GetRemoteMsg, Running, pktVars,
         lineVars
  <2>2. \A i : Expected(i) => Expected(i)'
    BY <2>1, ExpectedKept
  <2> QED BY <2>1, <2>2, AnswersStill
<1>4. ASSUME NEW key \in {"mount", "unmount"}, NEW v \in Vols, PiMounts(key, v)
      PROVE  AnswerInv'
  <2>1. /\ UNCHANGED <<at, pkt, q>> /\ UNCHANGED <<q, piReqs, connected>> /\ reading /\ pc' # "dead"
    BY <1>4 DEF PiMounts, ReadDone, Running, pktVars, lineVars
  <2>2. resp.key # "request"
    BY <2>1 DEF LineInv, RespInv
  <2>3. \A i : Expected(i) => Expected(i)'
    BY <2>1, <2>2, ExpectedKept
  <2> QED BY <2>1, <2>3, AnswersStill
<1>5. CASE LoseConnection
  <2>1. UNCHANGED <<at, pkt, q>> /\ connected' = FALSE /\ pc' # "dead"
    BY <1>5 DEF LoseConnection, ReadDone, Running, pktVars
  <2>2. \A i : Expected(i)'
    BY <2>1 DEF Expected
  <2> QED BY <2>1, <2>2, AnswersStill
<1>6. ASSUME NEW v \in Vols, NEW p \in ToSet(port[v]), ReplyAtOnce(p, v) \/ ActionCopyDir(p, v)
      PROVE  AnswerInv'
  <2>1. /\ GetDosPacket(p, v) /\ ReplyToDosPacket(p) /\ UNCHANGED <<q, pc>> /\ pc = "run"
        /\ UNCHANGED <<piReqs, connected, resp>>
    BY <1>6 DEF ReplyAtOnce, ActionCopyDir, GetDosPacket, Running, lineVars, readVars
  <2>2. p \in Pkts /\ at[p] = "port"
    BY <2>1, PortLeft
  <2>3. at'[p] = "client" /\ \A x \in Pkts \ {p} : at'[x] = at[x] /\ pkt'[x] = pkt[x]
    BY <2>1, <2>2 DEF ReplyToDosPacket, TypeInv, PktsOK
  <2> QED BY <2>1, <2>2, <2>3, AnswersAside
<1>7. ASSUME NEW type \in Types, NEW v \in ToSet(vols), NEW root \in BOOLEAN,
             NEW chunks \in Chunks \cup {0}, Send(type, v, root, chunks)
      PROVE  AnswerInv'
  <2> DEFINE free == {x \in Pkts : at[x] = "client"}
             p == CHOOSE x \in free : TRUE
             packet == [type |-> type, vol |-> v, root |-> root, chunks |-> chunks]
  <2>1. /\ free # {} /\ pkt' = [pkt EXCEPT ![p] = packet] /\ at' = [at EXCEPT ![p] = "port"]
        /\ UNCHANGED <<q, pc>> /\ pc = "run" /\ UNCHANGED <<piReqs, connected, resp>>
    BY <1>7 DEF Send, Running, lineVars, readVars
  <2>2. p \in Pkts /\ at[p] = "client"
    BY <2>1
  <2> HIDE DEF free, p, packet
  <2>3. at'[p] = "port" /\ \A x \in Pkts \ {p} : at'[x] = at[x] /\ pkt'[x] = pkt[x]
    BY <2>1, <2>2 DEF TypeInv, PktsOK
  <2> QED BY <2>1, <2>2, <2>3, AnswersAside
<1>8. ASSUME NEW v \in Vols, NEW p \in ToSet(port[v]), Ask(p, v)
      PROVE  AnswerInv'
  BY <1>8, AnswersAsk
<1>9. ASSUME NEW v \in Vols, NEW p \in ToSet(port[v]), OutOfRequests(p, v)
      PROVE  AnswerInv'
  BY <1>9, AnswersDead
<1>10. CASE WriterBack
  BY <1>10, AnswersWriterBack
<1>11. CASE AnsweredTwice \/ AnsweredInPart
  BY <1>11, AnswersPart
<1>12. CASE AnsweredWhole
  BY <1>12, AnswersWhole
<1>13. CASE WriteDone
  BY <1>13, AnswersWritten
<1>14. CASE PiAnswers \/ PiSkipsEnd
  BY <1>14, AnswersPi
<1> QED
  BY <1>1, <1>2, <1>3, <1>4, <1>5, <1>6, <1>7, <1>8, <1>9, <1>10, <1>11, <1>12, <1>13, <1>14
  DEF Next, Handler, Environment

-----------------------------------------------------------------------------
(* Locks: what a step changes of those that a volume has lent.             *)

\* The packets that have a lock of volume v.
Holding(v) == {p \in Pkts : at[p] # "client" /\ pkt[p].vol = v /\ NeedsLock(pkt[p].type)}
Holds(p) == IF at[p] # "client" /\ NeedsLock(pkt[p].type) THEN 1 ELSE 0
InHand(o, v) == o[v][TRUE] + o[v][FALSE]

Accounts ==
    /\ Borrowed \in [Vols -> Nat]
    /\ \A v \in Vols : /\ Out(v) \in Nat /\ leaked[v] \in Nat /\ InHand(own, v) \in Nat
                       /\ IsFiniteSet(Holding(v)) /\ Cardinality(Holding(v)) \in Nat
                       /\ Out(v) = InHand(own, v) + Cardinality(Holding(v))
                       /\ Borrowed[v] = Out(v) + leaked[v]

LEMMA OutIs == LocksOK => Accounts
<1> SUFFICES ASSUME LocksOK
             PROVE  Accounts
  OBVIOUS
<1>1. ASSUME NEW v \in Vols
      PROVE  /\ Out(v) \in Nat /\ leaked[v] \in Nat /\ InHand(own, v) \in Nat
             /\ IsFiniteSet(Holding(v)) /\ Cardinality(Holding(v)) \in Nat
             /\ Out(v) = InHand(own, v) + Cardinality(Holding(v))
             /\ Borrowed[v] = Out(v) + leaked[v]
  <2>1. IsFiniteSet(Holding(v)) /\ Cardinality(Holding(v)) \in Nat
    <3>1. Holding(v) \subseteq Pkts
      BY DEF Holding
    <3> QED BY <3>1, ApbFsAssumption, FS_Subset, FS_CardinalityType
  <2>2. leaked[v] \in Nat
    BY DEF LocksOK
  <2>3. own[v][TRUE] \in Nat /\ own[v][FALSE] \in Nat
    <3>1. \A r \in BOOLEAN : own[v][r] \in Nat
      BY DEF LocksOK
    <3> QED BY <3>1, Zenon
  <2>4. PICK a \in Nat, b \in Nat : own[v][TRUE] = a /\ own[v][FALSE] = b
    BY <2>3, Zenon
  <2>5. InHand(own, v) = a + b
    BY ONLY <2>4, Zenon DEF InHand
  <2>6. InHand(own, v) \in Nat
    BY ONLY <2>5, a \in Nat, b \in Nat
  <2>7. Out(v) = InHand(own, v) + Cardinality(Holding(v))
    BY Zenon DEF Out, InHand, Holding
  <2>8. Out(v) \in Nat
    BY <2>1, <2>6, <2>7
  <2>9. Borrowed[v] = Out(v) + leaked[v]
    BY Zenon DEF Borrowed
  <2> QED BY <2>1, <2>2, <2>6, <2>7, <2>8, <2>9
<1>2. Borrowed \in [Vols -> Nat]
  <2>1. \A v \in Vols : Out(v) + leaked[v] \in Nat
    BY <1>1
  <2> QED BY <2>1 DEF Borrowed
<1> QED BY <1>1, <1>2 DEF Accounts

\* Of the locks o of volume v, u has d more with root r.
Differs(o, u, v, r, d) ==
    \A s \in BOOLEAN : u[v][s] = IF s = r THEN o[v][s] + d ELSE o[v][s]

LEMMA InHandMore ==
    ASSUME NEW o \in [Vols -> [BOOLEAN -> Nat]], NEW u, NEW v \in Vols, NEW r \in BOOLEAN,
           NEW d \in Int, Differs(o, u, v, r, d)
    PROVE  InHand(u, v) = InHand(o, v) + d
<1>1. /\ \A s \in BOOLEAN : o[v][s] \in Nat
      /\ \A s \in BOOLEAN : u[v][s] = IF s = r THEN o[v][s] + d ELSE o[v][s]
  BY DEF Differs
<1>2. /\ u[v][TRUE] = (IF TRUE = r THEN o[v][TRUE] + d ELSE o[v][TRUE]) /\ o[v][TRUE] \in Nat
      /\ u[v][FALSE] = (IF FALSE = r THEN o[v][FALSE] + d ELSE o[v][FALSE]) /\ o[v][FALSE] \in Nat
  BY <1>1, Zenon
<1>3. PICK a \in Nat, b \in Nat : o[v][TRUE] = a /\ o[v][FALSE] = b
  BY <1>2, Zenon
<1>4. InHand(o, v) = a + b
  BY ONLY <1>3, Zenon DEF InHand
<1>5. InHand(u, v) = InHand(o, v) + d
  <2>1. CASE r = TRUE
    <3>1. u[v][TRUE] = a + d /\ u[v][FALSE] = b
      BY <1>2, <1>3, <2>1, Zenon
    <3>2. InHand(u, v) = (a + d) + b
      BY ONLY <3>1, Zenon DEF InHand
    <3> QED BY ONLY <1>4, <3>2, a \in Nat, b \in Nat, d \in Int
  <2>2. CASE r = FALSE
    <3>1. u[v][TRUE] = a /\ u[v][FALSE] = b + d
      BY <1>2, <1>3, <2>2, Zenon
    <3>2. InHand(u, v) = a + (b + d)
      BY ONLY <3>1, Zenon DEF InHand
    <3> QED BY ONLY <1>4, <3>2, a \in Nat, b \in Nat, d \in Int
  <2> QED BY <2>1, <2>2, Zenon
<1> QED BY <1>5

\* One packet of volume v changes.
LEMMA HoldingChanges ==
    ASSUME NEW v \in Vols, NEW p \in Pkts, LocksOK, LocksOK',
           \A x \in Pkts \ {p} : at'[x] = at[x] /\ pkt'[x] = pkt[x],
           at[p] = "client" \/ pkt[p].vol = v, at'[p] = "client" \/ pkt'[p].vol = v
    PROVE  /\ Cardinality(Holding(v))' - Holds(p)' = Cardinality(Holding(v)) - Holds(p)
           /\ Holds(p) \in {0, 1} /\ Holds(p)' \in {0, 1}
           /\ \A w \in Vols \ {v} : Holding(w)' = Holding(w)
<1> DEFINE H == Holding(v)
           G == Holding(v)'
<1>1. Holds(p) \in {0, 1} /\ Holds(p)' \in {0, 1}
  BY DEF Holds
<1>2. \A w \in Vols \ {v} : Holding(w)' = Holding(w)
  BY DEF Holding
<1>3. /\ IsFiniteSet(H) /\ Cardinality(H) \in Nat
      /\ IsFiniteSet(G) /\ Cardinality(G) \in Nat
  <2>1. Accounts /\ (LocksOK' => Accounts')
    BY OutIs, PTL
  <2> QED BY <2>1 DEF Accounts
<1>4. G \ {p} = H \ {p}
  BY DEF Holding
<1>5. Holds(p) = IF p \in H THEN 1 ELSE 0
  BY DEF Holding, Holds
<1>6. Holds(p)' = IF p \in G THEN 1 ELSE 0
  BY DEF Holding, Holds
<1>7. Cardinality(H) - Holds(p) = Cardinality(H \ {p})
  <2> HIDE DEF H
  <2>1. p \notin H => H \ {p} = H
    OBVIOUS
  <2>2. p \in H => Cardinality(H \ {p}) = Cardinality(H) - 1
    BY <1>3, FS_RemoveElement
  <2> QED BY <1>3, <1>5, <2>1, <2>2
<1>8. Cardinality(G) - Holds(p)' = Cardinality(G \ {p})
  <2> HIDE DEF G
  <2>1. p \notin G => G \ {p} = G
    OBVIOUS
  <2>2. p \in G => Cardinality(G \ {p}) = Cardinality(G) - 1
    BY <1>3, FS_RemoveElement
  <2> QED BY <1>3, <1>6, <2>1, <2>2
<1>9. Cardinality(Holding(v))' = Cardinality(G)
  OBVIOUS
<1> QED BY <1>1, <1>2, <1>4, <1>7, <1>8, <1>9

\* A step that concerns one packet and one volume; d locks more are lent.
LEMMA LockStep ==
    ASSUME TypeInv, TypeInv', LockInv, NEW v \in Vols, NEW p \in Pkts, NEW d \in Int,
           UNCHANGED vols, UNCHANGED remounted, pc = "run", pc' # "stopped",
           v \in ToSet(vols),
           \A x \in Pkts \ {p} : at'[x] = at[x] /\ pkt'[x] = pkt[x],
           at[p] = "client" \/ pkt[p].vol = v, at'[p] = "client" \/ pkt'[p].vol = v,
           \A w \in Vols \ {v} : /\ own'[w] = own[w] /\ leaked'[w] = leaked[w]
                                 /\ lockCount'[w] = lockCount[w],
           InHand(own', v) + Holds(p)' + leaked'[v] = InHand(own, v) + Holds(p) + leaked[v] + d,
           locks' = locks + d, lockCount'[v] = lockCount[v] + d
    PROVE  LockInv'
<1> DEFINE B == Borrowed
           C == Borrowed'
<1>1. LocksOK /\ LocksOK'
  BY DEF TypeInv
<1>0. Accounts /\ (LocksOK' => Accounts')
  BY <1>1, OutIs, PTL
<1>2. /\ B \in [Vols -> Nat]
      /\ \A w \in Vols : /\ Out(w) \in Nat /\ leaked[w] \in Nat /\ InHand(own, w) \in Nat
                         /\ Cardinality(Holding(w)) \in Nat
                         /\ Out(w) = InHand(own, w) + Cardinality(Holding(w))
                         /\ B[w] = Out(w) + leaked[w]
  BY <1>0 DEF Accounts
<1>3. /\ C \in [Vols -> Nat]
      /\ \A w \in Vols : /\ Out(w)' \in Nat /\ leaked'[w] \in Nat /\ InHand(own', w) \in Nat
                         /\ Cardinality(Holding(w))' \in Nat
                         /\ Out(w)' = InHand(own', w) + Cardinality(Holding(w))'
                         /\ C[w] = Out(w)' + leaked'[w]
  BY <1>0, <1>1 DEF Accounts, InHand
<1>4. /\ Cardinality(Holding(v))' - Holds(p)' = Cardinality(Holding(v)) - Holds(p)
      /\ Holds(p) \in {0, 1} /\ Holds(p)' \in {0, 1}
      /\ \A w \in Vols \ {v} : Holding(w)' = Holding(w)
  BY <1>1, HoldingChanges
<1> HIDE DEF B, C
<1>5. \A w \in Vols \ {v} : C[w] = B[w]
  <2> SUFFICES ASSUME NEW w \in Vols \ {v}
               PROVE  C[w] = B[w]
    OBVIOUS
  <2>1. InHand(own', w) = InHand(own, w)
    BY DEF InHand
  <2>2. Cardinality(Holding(w))' = Cardinality(Holding(w)) /\ leaked'[w] = leaked[w]
    BY <1>4
  <2> QED BY <1>1, <1>2, <1>3, <2>1, <2>2
<1>6. C[v] = B[v] + d
  <2>1. /\ InHand(own', v) \in Nat /\ leaked'[v] \in Nat /\ Cardinality(Holding(v))' \in Nat
        /\ C[v] = InHand(own', v) + Cardinality(Holding(v))' + leaked'[v]
    BY <1>1, <1>3
  <2>2. /\ InHand(own, v) \in Nat /\ leaked[v] \in Nat /\ Cardinality(Holding(v)) \in Nat
        /\ B[v] = InHand(own, v) + Cardinality(Holding(v)) + leaked[v]
    BY <1>2
  <2> QED BY <1>4, <2>1, <2>2
<1>7. /\ B \in [Vols -> Nat] /\ C \in [Vols -> Nat]
      /\ locks = Sum(B) /\ \A w \in Vols \ remounted : lockCount[w] = B[w]
      /\ \A w \in Vols \ ToSet(vols) :
            B[w] = 0 /\ \A x \in Pkts : at[x] # "client" => pkt[x].vol # w
  BY <1>1, <1>2, <1>3 DEF LockInv, B
<1>8. Sum(B) \in Nat /\ Sum(C) \in Nat /\ Sum(C) - C[v] = Sum(B) - B[v]
  BY <1>5, <1>7, SumChanges
<1>9. locks' = Sum(C)
  <2>1. B[v] \in Nat /\ C[v] \in Nat
    BY <1>7
  <2> QED BY <1>6, <1>7, <1>8, <2>1
<1>10. \A w \in Vols \ remounted : lockCount'[w] = C[w]
  BY <1>5, <1>6, <1>7
<1>11. \A w \in Vols \ ToSet(vols) :
          C[w] = 0 /\ \A x \in Pkts : at'[x] # "client" => pkt'[x].vol # w
  <2> SUFFICES ASSUME NEW w \in Vols \ ToSet(vols)
               PROVE  C[w] = 0 /\ \A x \in Pkts : at'[x] # "client" => pkt'[x].vol # w
    OBVIOUS
  <2>1. w # v
    OBVIOUS
  <2>2. C[w] = 0
    BY <1>5, <1>7, <2>1
  <2>3. \A x \in Pkts \ {p} : at'[x] # "client" => pkt'[x].vol # w
    BY <1>7
  <2>4. at'[p] # "client" => pkt'[p].vol # w
    BY <2>1
  <2> QED BY <2>2, <2>3, <2>4
<1>12. vols' = vols /\ remounted' = remounted
  OBVIOUS
<1> QED BY <1>9, <1>10, <1>11, <1>12 DEF LockInv, C

\* A volume that has lent locks or has packets is known while the handler runs.
LEMMA KnownVolume ==
    ASSUME TypeInv, LockInv, pc = "run", NEW p \in Pkts, at[p] # "client"
    PROVE  pkt[p].vol \in Vols /\ pkt[p].vol \in ToSet(vols)
<1>1. pkt[p].vol \in Vols
  BY PacketFields DEF TypeInv, PktsOK
<1> QED BY <1>1 DEF LockInv

LEMMA LocksStill ==
    ASSUME LockInv, pc' # "stopped", pc = "run",
           UNCHANGED <<at, pkt>>, UNCHANGED lockVars, ToSet(vols) \subseteq ToSet(vols)',
           UNCHANGED remounted
    PROVE  LockInv'
<1>1. UNCHANGED lockVars /\ UNCHANGED <<at, pkt>>
  OBVIOUS
<1>2. \A v \in Vols : Out(v)' = Out(v)
  BY <1>1, Zenon DEF lockVars, Out
<1>3. Borrowed' = Borrowed
  BY <1>1, <1>2 DEF lockVars, Borrowed
<1>4. /\ locks = Sum(Borrowed) /\ \A v \in Vols \ remounted : lockCount[v] = Borrowed[v]
      /\ \A v \in Vols \ ToSet(vols) :
            Borrowed[v] = 0 /\ \A p \in Pkts : at[p] # "client" => pkt[p].vol # v
  BY DEF LockInv
<1> HIDE DEF Borrowed
<1>5. /\ locks' = Sum(Borrowed') /\ \A v \in Vols \ remounted' : lockCount'[v] = Borrowed'[v]
      /\ \A v \in Vols \ ToSet(vols)' :
            Borrowed'[v] = 0 /\ \A p \in Pkts : at'[p] # "client" => pkt'[p].vol # v
  BY <1>1, <1>3, <1>4 DEF lockVars
<1> QED BY <1>5 DEF LockInv

LEMMA LocksMount ==
    ASSUME TypeInv, LockInv, NEW v \in Vols, FS_MountVolume(v), pc = "run", pc' = pc,
           UNCHANGED <<at, pkt>>, UNCHANGED <<own, locks, leaked>>
    PROVE  LockInv'
<1>1. \A w \in Vols : Out(w)' = Out(w)
  BY Zenon DEF Out
<1>2. Borrowed' = Borrowed
  BY <1>1 DEF Borrowed
<1>3. /\ locks = Sum(Borrowed) /\ \A w \in Vols \ remounted : lockCount[w] = Borrowed[w]
      /\ \A w \in Vols \ ToSet(vols) :
            Borrowed[w] = 0 /\ \A p \in Pkts : at[p] # "client" => pkt[p].vol # w
  BY DEF LockInv
<1>4. ToSet(vols)' = ToSet(vols) \cup {v}
  BY WithVolumeIs DEF FS_MountVolume, TypeInv
<1>5. /\ remounted' = remounted \cup ({v} \cap ToSet(vols))
      /\ lockCount'[v] = 0 /\ \A w \in Vols \ {v} : lockCount'[w] = lockCount[w]
  BY DEF FS_MountVolume, TypeInv, LocksOK
<1> HIDE DEF Borrowed
<1>6. ASSUME NEW w \in Vols \ remounted'
      PROVE  lockCount'[w] = Borrowed'[w]
  <2>1. CASE w = v
    <3>1. v \notin ToSet(vols)
      BY <1>5, <2>1
    <3> QED BY <1>2, <1>3, <1>5, <2>1, <3>1
  <2>2. CASE w # v
    BY <1>2, <1>3, <1>5, <2>2
  <2> QED BY <2>1, <2>2
<1>7. /\ locks' = Sum(Borrowed')
      /\ \A w \in Vols \ ToSet(vols)' :
            Borrowed'[w] = 0 /\ \A p \in Pkts : at'[p] # "client" => pkt'[p].vol # w
  BY <1>2, <1>3, <1>4
<1> QED BY <1>6, <1>7 DEF LockInv

\* The handler stops only when nothing is lent.
LEMMA LocksStop ==
    ASSUME TypeInv, LockInv, pc = "run", FS_CanQuit, FS_FreeDevice,
           UNCHANGED <<at, pkt>>, UNCHANGED lockVars, UNCHANGED remounted
    PROVE  LockInv'
<1>1. UNCHANGED lockVars /\ UNCHANGED <<at, pkt>> /\ pc' = "stopped"
  BY DEF FS_FreeDevice
<1>2. \A w \in Vols : Out(w)' = Out(w)
  BY <1>1, Zenon DEF Out, lockVars
<1>3. Borrowed' = Borrowed
  BY <1>1, <1>2 DEF Borrowed, lockVars
<1>4. \A w \in Vols : Out(w) \in Nat /\ leaked[w] \in Nat /\ Borrowed[w] = Out(w) + leaked[w]
  BY OutIs DEF TypeInv, Accounts
<1>5. /\ locks = Sum(Borrowed) /\ \A w \in Vols \ remounted : lockCount[w] = Borrowed[w]
      /\ \A w \in Vols \ ToSet(vols) : Borrowed[w] = 0
  BY DEF LockInv
<1>6. \A w \in ToSet(vols) : lockCount[w] <= 0
  BY DEF FS_CanQuit
<1> HIDE DEF Borrowed
<1>7. \A w \in Vols \ remounted : Out(w) = 0
  <2> SUFFICES ASSUME NEW w \in Vols \ remounted
               PROVE  Out(w) = 0
    OBVIOUS
  <2>1. Borrowed[w] <= 0
    BY <1>4, <1>5, <1>6
  <2> QED BY <1>4, <2>1
<1>8. /\ locks' = Sum(Borrowed')
      /\ \A w \in Vols \ remounted' : lockCount'[w] = Borrowed'[w] /\ Out(w)' = 0
  BY <1>1, <1>2, <1>3, <1>5, <1>7 DEF lockVars
<1> QED BY <1>1, <1>8 DEF LockInv

LEMMA NothingLent ==
    ASSUME NEW t \in [Vols -> Nat], \A v \in Vols : t[v] = 0
    PROVE  Sum(t) = 0
<1> DEFINE P == Partial(t)
           Upto(k) == {S \in SUBSET Vols : Cardinality(S) <= k}
           K == {k \in Nat : \A S \in Upto(k) : P[S] = 0}
<1>1. \A S \in SUBSET Vols : /\ IsFiniteSet(S) /\ Cardinality(S) \in Nat
                             /\ Cardinality(S) <= Cardinality(Vols)
  BY FS_Subset, FS_CardinalityType, ApbFsAssumption
<1>2. /\ P[{}] = 0
      /\ \A S \in (SUBSET Vols) \ {{}} :
            /\ First(S) \in S /\ First(S) \in Vols
            /\ P[S] = t[First(S)] + P[S \ {First(S)}]
  BY SumStep
<1> HIDE DEF P
<1>3. 0 \in K
  <2>1. \A S \in Upto(0) : S = {}
    BY <1>1, FS_EmptySet
  <2> QED BY <1>2, <2>1
<1>4. ASSUME NEW k \in Nat, k \in K
      PROVE  k + 1 \in K
  <2> SUFFICES ASSUME NEW S \in Upto(k + 1)
               PROVE  P[S] = 0
    OBVIOUS
  <2>1. CASE S # {}
    <3> DEFINE x == First(S)
               T == S \ {x}
    <3>1. x \in S /\ x \in Vols /\ P[S] = t[x] + P[T] /\ T \in SUBSET Vols
      BY <1>2, <2>1
    <3>2. Cardinality(T) = Cardinality(S) - 1
      BY <1>1, <3>1, FS_RemoveElement
    <3>3. T \in Upto(k)
      BY <1>1, <3>1, <3>2
    <3>4. P[T] = 0
      BY <1>4, <3>3
    <3> QED BY <3>1, <3>4
  <2> QED BY <1>2, <2>1
<1> HIDE DEF K
<1>5. Nat \subseteq K
  BY <1>3, <1>4, AllOf
<1>6. Cardinality(Vols) \in K /\ Vols \in Upto(Cardinality(Vols))
  BY <1>1, <1>5
<1> QED BY <1>6 DEF K, Sum, P

LEMMA LockInvInit == Init => LockInv
<1> SUFFICES ASSUME Init
             PROVE  LockInv
  OBVIOUS
<1>1. LocksOK
  BY TypeInvInit DEF TypeInv
<1>2. /\ Borrowed \in [Vols -> Nat]
      /\ \A v \in Vols : /\ Out(v) = InHand(own, v) + Cardinality(Holding(v))
                         /\ Borrowed[v] = Out(v) + leaked[v]
  BY <1>1, OutIs DEF Accounts
<1>3. /\ own = [v \in Vols |-> [r \in BOOLEAN |-> 0]] /\ at = [p \in Pkts |-> "client"]
      /\ lockCount = [v \in Vols |-> 0] /\ leaked = lockCount /\ locks = 0 /\ pc = "run"
  BY DEF Init
<1>4. ASSUME NEW v \in Vols
      PROVE  Out(v) = 0 /\ leaked[v] = 0 /\ Borrowed[v] = 0
  <2>1. own[v][TRUE] = 0 /\ own[v][FALSE] = 0
    <3>1. \A r \in BOOLEAN : own[v][r] = 0
      BY <1>3
    <3> QED BY <3>1, Zenon
  <2>2. Cardinality(Holding(v)) = 0
    <3>1. Holding(v) = {}
      BY <1>3 DEF Holding
    <3> QED BY <3>1, FS_EmptySet
  <2>3. leaked[v] = 0
    BY <1>3
  <2>4. InHand(own, v) = 0
    BY <2>1 DEF InHand
  <2> QED BY <1>2, <2>2, <2>3, <2>4
<1> HIDE DEF Borrowed
<1>5. Sum(Borrowed) = 0
  BY <1>2, <1>4, NothingLent
<1>6. \A p \in Pkts : at[p] = "client"
  BY <1>3
<1> QED BY <1>3, <1>4, <1>5, <1>6 DEF LockInv

\* What the replies and FS_ActionCopyDir do to the locks of a volume.
Elsewhere(v) ==
    \A w \in Vols \ {v} :
       own'[w] = own[w] /\ leaked'[w] = leaked[w] /\ lockCount'[w] = lockCount[w]

LEMMA LentIs ==
    ASSUME LocksOK, NEW v \in Vols, NEW ok
    PROVE  /\ \A root \in BOOLEAN :
                 FS_AllocLock(v, root) =>
                    /\ Elsewhere(v) /\ InHand(own', v) = InHand(own, v) + 1 /\ leaked'[v] = leaked[v]
                    /\ locks' = locks + 1 /\ lockCount'[v] = lockCount[v] + 1
           /\ FreeLockReply(v) =>
                 /\ Elsewhere(v) /\ own' = own /\ leaked' = leaked
                 /\ locks' = locks - 1 /\ lockCount'[v] = lockCount[v] - 1
           /\ FHFromLockReply(v, ok) =>
                 /\ Elsewhere(v) /\ locks' = locks /\ lockCount' = lockCount
                 /\ InHand(own', v) + leaked'[v] = InHand(own, v) + leaked[v] + 1
           /\ UNCHANGED lockVars =>
                 Elsewhere(v) /\ own' = own /\ leaked' = leaked /\ locks' = locks /\ lockCount' = lockCount
<1>1. /\ own \in [Vols -> [BOOLEAN -> Nat]] /\ leaked \in [Vols -> Nat]
      /\ lockCount \in [Vols -> Int] /\ InHand(own, v) \in Nat /\ leaked[v] \in Nat
  BY OutIs DEF LocksOK, Accounts
<1>2. \A root \in BOOLEAN :
         LET u == [own EXCEPT ![v][root] = @ + 1]
         IN  InHand(u, v) = InHand(own, v) + 1 /\ \A w \in Vols \ {v} : u[w] = own[w]
  <2> SUFFICES ASSUME NEW root \in BOOLEAN
               PROVE  LET u == [own EXCEPT ![v][root] = @ + 1]
                      IN  InHand(u, v) = InHand(own, v) + 1 /\ \A w \in Vols \ {v} : u[w] = own[w]
    OBVIOUS
  <2> DEFINE u == [own EXCEPT ![v][root] = @ + 1]
  <2>1. \A w \in Vols \ {v} : u[w] = own[w]
    BY <1>1
  <2>2. Differs(own, u, v, root, 1)
    BY <1>1 DEF Differs
  <2> HIDE DEF u
  <2>3. InHand(u, v) = InHand(own, v) + 1
    <3>1. own \in [Vols -> [BOOLEAN -> Nat]] /\ 1 \in Int
      BY <1>1
    <3> QED BY ONLY <2>2, <3>1, InHandMore, v \in Vols, root \in BOOLEAN
  <2> QED BY <2>1, <2>3 DEF u
<1>3. ASSUME NEW root \in BOOLEAN, FS_AllocLock(v, root)
      PROVE  /\ Elsewhere(v) /\ InHand(own', v) = InHand(own, v) + 1 /\ leaked'[v] = leaked[v]
             /\ locks' = locks + 1 /\ lockCount'[v] = lockCount[v] + 1
  <2>1. /\ own' = [own EXCEPT ![v][root] = @ + 1] /\ locks' = locks + 1 /\ leaked' = leaked
        /\ lockCount' = [lockCount EXCEPT ![v] = @ + 1]
    BY <1>3 DEF FS_AllocLock
  <2>2. InHand(own', v) = InHand(own, v) + 1 /\ \A w \in Vols \ {v} : own'[w] = own[w]
    BY <1>2, <2>1
  <2> QED BY <1>1, <2>1, <2>2 DEF Elsewhere
<1>4. FreeLockReply(v) =>
         /\ Elsewhere(v) /\ own' = own /\ leaked' = leaked
         /\ locks' = locks - 1 /\ lockCount'[v] = lockCount[v] - 1
  BY <1>1 DEF FreeLockReply, Elsewhere
<1>5. ASSUME FHFromLockReply(v, ok)
      PROVE  /\ Elsewhere(v) /\ locks' = locks /\ lockCount' = lockCount
             /\ InHand(own', v) + leaked'[v] = InHand(own, v) + leaked[v] + 1
  <2> DEFINE u == [own EXCEPT ![v][FALSE] = @ + 1]
  <2>1. InHand(u, v) = InHand(own, v) + 1 /\ \A w \in Vols \ {v} : u[w] = own[w]
    BY <1>2, Zenon
  <2>2. /\ leaked' = IF ok THEN [leaked EXCEPT ![v] = @ + 1] ELSE leaked
        /\ own' = IF ok THEN own ELSE u
        /\ locks' = locks /\ lockCount' = lockCount
    BY <1>5 DEF FHFromLockReply
  <2> HIDE DEF u
  <2>3. CASE ok
    BY <1>1, <2>2, <2>3 DEF Elsewhere
  <2>4. CASE ~ ok
    BY <1>1, <2>1, <2>2, <2>4 DEF Elsewhere
  <2> QED BY <2>3, <2>4
<1>6. UNCHANGED lockVars =>
         Elsewhere(v) /\ own' = own /\ leaked' = leaked /\ locks' = locks /\ lockCount' = lockCount
  BY DEF lockVars, Elsewhere
<1> QED BY <1>3, <1>4, <1>5, <1>6

LEMMA LocksReplied ==
    ASSUME TypeInv, LineInv, AnswerInv, LockInv, TypeInv', AnsweredWhole
    PROVE  LockInv'
<1>1. \E p \in Pkts, v \in Vols, type \in PktTypes, ok \in BOOLEAN :
         /\ v \in ToSet(vols) /\ pkt[p].vol = v /\ at[p] = "handler" /\ pkt[p].type = type
         /\ type = "FREE_LOCK" => FreeLockReply(v)
         /\ type = "FH_FROM_LOCK" => FHFromLockReply(v, ok)
         /\ type \notin {"FREE_LOCK", "FH_FROM_LOCK"} =>
               LocateObjectReply(v, ok) \/ OtherReply
         /\ ReplyToDosPacket(p)
  <2> DEFINE n == resp.req
             r == q.reqs[n]
             p == r.pkt
             v == pkt[p].vol
             ok == resp.res2 = Final
  <2>1. /\ Response("request") /\ ~ r.orphan
        /\ r.type = "FREE_LOCK" => FreeLockReply(v)
        /\ r.type = "FH_FROM_LOCK" => FHFromLockReply(v, ok)
        /\ r.type \notin {"FREE_LOCK", "FH_FROM_LOCK"} => LocateObjectReply(v, ok) \/ OtherReply
        /\ ReplyToDosPacket(p)
    BY DEF AnsweredWhole
  <2>2. n \in DOMAIN q.reqs
    BY <2>1 DEF Response, LineInv, RespInv
  <2>3. at[p] = "handler" /\ pkt[p].type = r.type
    BY <2>1, <2>2 DEF AnswerInv, OwnerInv
  <2>4. p \in Pkts
    BY <2>2, QueueFields, RequestFields DEF TypeInv
  <2>5. pc = "run"
    BY <2>1 DEF Response, GetRemoteMsg, Running
  <2>6. v \in Vols /\ v \in ToSet(vols)
    BY <2>3, <2>4, <2>5, KnownVolume
  <2>7. pkt[p].vol = v /\ ok \in BOOLEAN
    OBVIOUS
  <2>8. r.type \in PktTypes
    BY <2>2, QueueFields, RequestFields DEF TypeInv
  <2> HIDE DEF n, r, p, v, ok
  <2> QED BY <2>1, <2>3, <2>4, <2>6, <2>7, <2>8
<1>2. PICK p \in Pkts, v \in Vols, type \in PktTypes, ok \in BOOLEAN :
         /\ v \in ToSet(vols) /\ pkt[p].vol = v /\ at[p] = "handler" /\ pkt[p].type = type
         /\ type = "FREE_LOCK" => FreeLockReply(v)
         /\ type = "FH_FROM_LOCK" => FHFromLockReply(v, ok)
         /\ type \notin {"FREE_LOCK", "FH_FROM_LOCK"} =>
               LocateObjectReply(v, ok) \/ OtherReply
         /\ ReplyToDosPacket(p)
  BY <1>1
<1>3. pc = "run" /\ pc' # "stopped" /\ UNCHANGED vols /\ UNCHANGED remounted
  BY DEF AnsweredWhole, Response, GetRemoteMsg, Running, volVars
<1>4. at'[p] = "client" /\ \A x \in Pkts \ {p} : at'[x] = at[x] /\ pkt'[x] = pkt[x]
  BY <1>2 DEF ReplyToDosPacket, TypeInv, PktsOK
<1>5. Holds(p)' = 0 /\ Holds(p) = IF type \in {"FREE_LOCK", "FH_FROM_LOCK"} THEN 1 ELSE 0
  BY <1>2, <1>4 DEF Holds, NeedsLock
<1>6. LocksOK
  BY DEF TypeInv
<1>7. /\ InHand(own, v) \in Nat /\ leaked[v] \in Nat /\ locks \in Int /\ lockCount[v] \in Int
  BY <1>6, OutIs DEF LocksOK, Accounts
<1>8. \A root \in BOOLEAN :
          FS_AllocLock(v, root) =>
             /\ Elsewhere(v) /\ InHand(own', v) = InHand(own, v) + 1 /\ leaked'[v] = leaked[v]
             /\ locks' = locks + 1 /\ lockCount'[v] = lockCount[v] + 1
  BY <1>6, LentIs
<1>9. UNCHANGED lockVars =>
          Elsewhere(v) /\ own' = own /\ leaked' = leaked /\ locks' = locks /\ lockCount' = lockCount
  BY <1>6, LentIs
<1>10. \E d \in Int :
          /\ Elsewhere(v)
          /\ InHand(own', v) + Holds(p)' + leaked'[v] = InHand(own, v) + Holds(p) + leaked[v] + d
          /\ locks' = locks + d /\ lockCount'[v] = lockCount[v] + d
  <2>1. CASE type = "FREE_LOCK"
    <3>1. /\ Elsewhere(v) /\ own' = own /\ leaked' = leaked
          /\ locks' = locks - 1 /\ lockCount'[v] = lockCount[v] - 1
      BY <1>2, <1>6, <2>1, LentIs
    <3>2. /\ InHand(own', v) + Holds(p)' + leaked'[v] = InHand(own, v) + Holds(p) + leaked[v] + (-1)
          /\ locks' = locks + (-1) /\ lockCount'[v] = lockCount[v] + (-1)
      BY <1>5, <1>7, <2>1, <3>1
    <3> QED BY <3>1, <3>2
  <2>2. CASE type = "FH_FROM_LOCK"
    <3>1. /\ Elsewhere(v) /\ locks' = locks /\ lockCount' = lockCount
          /\ InHand(own', v) + leaked'[v] = InHand(own, v) + leaked[v] + 1
      BY <1>2, <1>6, <2>2, LentIs
    <3>2. InHand(own', v) \in Nat /\ leaked'[v] \in Nat
      <4>1. LocksOK' => Accounts'
        BY OutIs, PTL
      <4> QED BY <4>1 DEF TypeInv, Accounts, InHand
    <3>3. /\ InHand(own', v) + Holds(p)' + leaked'[v] = InHand(own, v) + Holds(p) + leaked[v] + 0
          /\ locks' = locks + 0 /\ lockCount'[v] = lockCount[v] + 0
      BY <1>5, <1>7, <2>2, <3>1, <3>2
    <3> QED BY <3>1, <3>3
  <2>3. CASE type \notin {"FREE_LOCK", "FH_FROM_LOCK"}
    <3>1. UNCHANGED lockVars \/ FS_AllocLock(v, FALSE)
      BY <1>2, <2>3 DEF OtherReply, LocateObjectReply
    <3>2. CASE UNCHANGED lockVars
      <4>1. /\ InHand(own', v) + Holds(p)' + leaked'[v] = InHand(own, v) + Holds(p) + leaked[v] + 0
            /\ locks' = locks + 0 /\ lockCount'[v] = lockCount[v] + 0
        BY <1>5, <1>7, <1>9, <2>3, <3>2
      <4> QED BY <1>9, <3>2, <4>1
    <3>3. CASE FS_AllocLock(v, FALSE)
      <4>1. /\ Elsewhere(v) /\ InHand(own', v) = InHand(own, v) + 1 /\ leaked'[v] = leaked[v]
            /\ locks' = locks + 1 /\ lockCount'[v] = lockCount[v] + 1
        BY <1>8, <3>3, Zenon
      <4>2. InHand(own', v) + Holds(p)' + leaked'[v] = InHand(own, v) + Holds(p) + leaked[v] + 1
        BY <1>5, <1>7, <2>3, <4>1
      <4> QED BY <4>1, <4>2
    <3> QED BY <3>1, <3>2, <3>3
  <2> QED BY <2>1, <2>2, <2>3
<1>11. PICK d \in Int :
          /\ Elsewhere(v)
          /\ InHand(own', v) + Holds(p)' + leaked'[v] = InHand(own, v) + Holds(p) + leaked[v] + d
          /\ locks' = locks + d /\ lockCount'[v] = lockCount[v] + d
  BY <1>10
<1> QED BY <1>2, <1>3, <1>4, <1>11, LockStep DEF Elsewhere

\* A packet is answered at once.
LEMMA LocksAtOnce ==
    ASSUME TypeInv, PortInv, LockInv, TypeInv', NEW v \in Vols, NEW p \in ToSet(port[v]),
           ReplyAtOnce(p, v) \/ ActionCopyDir(p, v)
    PROVE  LockInv'
<1>1. /\ GetDosPacket(p, v) /\ ReplyToDosPacket(p) /\ UNCHANGED pc
      /\ UNCHANGED vols /\ UNCHANGED remounted
  BY DEF ReplyAtOnce, ActionCopyDir, GetDosPacket, volVars
<1>2. p \in Pkts /\ at[p] = "port" /\ pkt[p].vol = v /\ pc = "run"
  BY <1>1, PortLeft DEF GetDosPacket, Running
<1>3. v \in ToSet(vols)
  BY <1>2, KnownVolume
<1>4. at'[p] = "client" /\ \A x \in Pkts \ {p} : at'[x] = at[x] /\ pkt'[x] = pkt[x]
  BY <1>1, <1>2 DEF ReplyToDosPacket, TypeInv, PktsOK
<1>5. Holds(p)' = 0 /\ Holds(p) = IF pkt[p].type \in {"FREE_LOCK", "FH_FROM_LOCK"} THEN 1 ELSE 0
  BY <1>2, <1>4 DEF Holds, NeedsLock
<1>6. LocksOK /\ InHand(own, v) \in Nat /\ leaked[v] \in Nat /\ locks \in Int /\ lockCount[v] \in Int
  BY OutIs DEF TypeInv, LocksOK, Accounts
<1>7. UNCHANGED lockVars =>
         Elsewhere(v) /\ own' = own /\ leaked' = leaked /\ locks' = locks /\ lockCount' = lockCount
  BY <1>6, LentIs
<1>8. \E d \in Int :
         /\ Elsewhere(v)
         /\ InHand(own', v) + Holds(p)' + leaked'[v] = InHand(own, v) + Holds(p) + leaked[v] + d
         /\ locks' = locks + d /\ lockCount'[v] = lockCount[v] + d
  <2>1. CASE ReplyAtOnce(p, v)
    <3>1. /\ UNCHANGED <<lockCount, locks>>
          /\ leaked' = IF pkt[p].type = "FREE_LOCK" THEN [leaked EXCEPT ![v] = @ + 1] ELSE leaked
          /\ own' = IF pkt[p].type = "FH_FROM_LOCK" THEN [own EXCEPT ![v][FALSE] = @ + 1] ELSE own
      BY <2>1 DEF ReplyAtOnce
    <3>2. leaked \in [Vols -> Nat] /\ own \in [Vols -> [BOOLEAN -> Nat]]
      BY <1>6 DEF LocksOK
    <3>3. CASE pkt[p].type = "FREE_LOCK"
      <4>1. leaked'[v] = leaked[v] + 1 /\ \A w \in Vols \ {v} : leaked'[w] = leaked[w]
        BY <3>1, <3>2, <3>3
      <4>2. own' = own /\ locks' = locks /\ lockCount' = lockCount
        BY <3>1, <3>3
      <4>3. InHand(own', v) + Holds(p)' + leaked'[v] = InHand(own, v) + Holds(p) + leaked[v] + 0
        BY <1>5, <1>6, <3>3, <4>1, <4>2
      <4>4. locks' = locks + 0 /\ lockCount'[v] = lockCount[v] + 0
        BY <1>6, <4>2
      <4> QED BY <4>1, <4>2, <4>3, <4>4 DEF Elsewhere
    <3>4. CASE pkt[p].type = "FH_FROM_LOCK"
      <4>1. leaked' = leaked /\ locks' = locks /\ lockCount' = lockCount
        BY <3>1, <3>4
      <4>2. FHFromLockReply(v, FALSE)
        BY <3>1, <3>4, <4>1 DEF FHFromLockReply
      <4>3. /\ Elsewhere(v)
            /\ InHand(own', v) + leaked'[v] = InHand(own, v) + leaked[v] + 1
        BY <1>6, <4>2, LentIs
      <4>4. LocksOK' => Accounts'
        BY OutIs, PTL
      <4>5. InHand(own', v) \in Nat
        BY <4>4 DEF TypeInv, Accounts, InHand
      <4>6. InHand(own', v) + Holds(p)' + leaked'[v] = InHand(own, v) + Holds(p) + leaked[v] + 0
        BY <1>5, <1>6, <3>4, <4>1, <4>3, <4>5
      <4>7. locks' = locks + 0 /\ lockCount'[v] = lockCount[v] + 0
        BY <1>6, <4>1
      <4> QED BY <4>3, <4>6, <4>7
    <3>5. CASE pkt[p].type \notin {"FREE_LOCK", "FH_FROM_LOCK"}
      <4>1. UNCHANGED lockVars
        BY <3>1, <3>5 DEF lockVars
      <4>2. /\ Elsewhere(v) /\ locks' = locks + 0 /\ lockCount'[v] = lockCount[v] + 0
            /\ InHand(own', v) + Holds(p)' + leaked'[v] = InHand(own, v) + Holds(p) + leaked[v] + 0
        BY <1>5, <1>6, <1>7, <3>5, <4>1
      <4> QED BY <4>2
    <3> QED BY <3>3, <3>4, <3>5
  <2>2. CASE ActionCopyDir(p, v)
    <3>1. pkt[p].type = "COPY_DIR" /\ (UNCHANGED lockVars \/ FS_AllocLock(v, pkt[p].root))
      BY <2>2 DEF ActionCopyDir
    <3>2. CASE UNCHANGED lockVars
      <4>1. /\ Elsewhere(v) /\ locks' = locks + 0 /\ lockCount'[v] = lockCount[v] + 0
            /\ InHand(own', v) + Holds(p)' + leaked'[v] = InHand(own, v) + Holds(p) + leaked[v] + 0
        BY <1>5, <1>6, <1>7, <3>1, <3>2
      <4> QED BY <4>1
    <3>3. CASE FS_AllocLock(v, pkt[p].root)
      <4>1. pkt[p].root \in BOOLEAN
        BY <1>2, PacketFields DEF TypeInv, PktsOK
      <4>2. /\ Elsewhere(v) /\ InHand(own', v) = InHand(own, v) + 1 /\ leaked'[v] = leaked[v]
            /\ locks' = locks + 1 /\ lockCount'[v] = lockCount[v] + 1
        BY <1>6, <3>3, <4>1, LentIs
      <4>3. InHand(own', v) + Holds(p)' + leaked'[v] = InHand(own, v) + Holds(p) + leaked[v] + 1
        BY <1>5, <1>6, <3>1, <4>2
      <4> QED BY <4>2, <4>3
    <3> QED BY <3>1, <3>2, <3>3
  <2> QED BY <2>1, <2>2
<1>9. PICK d \in Int :
         /\ Elsewhere(v)
         /\ InHand(own', v) + Holds(p)' + leaked'[v] = InHand(own, v) + Holds(p) + leaked[v] + d
         /\ locks' = locks + d /\ lockCount'[v] = lockCount[v] + d
  BY <1>8
<1> QED BY <1>1, <1>2, <1>3, <1>4, <1>9, LockStep DEF Elsewhere

\* The locks of volume v do not change, nor who of the packets has one.
LEMMA LocksAside ==
    ASSUME TypeInv, LockInv, TypeInv', NEW v \in Vols, NEW p \in Pkts, v \in ToSet(vols),
           UNCHANGED vols, UNCHANGED remounted, pc = "run", pc' # "stopped", UNCHANGED lockVars,
           \A x \in Pkts \ {p} : at'[x] = at[x] /\ pkt'[x] = pkt[x],
           at[p] = "client" \/ pkt[p].vol = v, at'[p] = "client" \/ pkt'[p].vol = v,
           Holds(p)' = Holds(p)
    PROVE  LockInv'
<1>1. LocksOK /\ InHand(own, v) \in Nat /\ leaked[v] \in Nat /\ locks \in Int /\ lockCount[v] \in Int
  BY OutIs DEF TypeInv, LocksOK, Accounts
<1>2. Elsewhere(v) /\ own' = own /\ leaked' = leaked /\ locks' = locks /\ lockCount' = lockCount
  BY <1>1, LentIs
<1>3. Holds(p) \in {0, 1}
  BY DEF Holds
<1>4. /\ InHand(own', v) + Holds(p)' + leaked'[v] = InHand(own, v) + Holds(p) + leaked[v] + 0
      /\ locks' = locks + 0 /\ lockCount'[v] = lockCount[v] + 0
  BY <1>1, <1>2, <1>3
<1>5. PICK d \in Int :
         /\ InHand(own', v) + Holds(p)' + leaked'[v] = InHand(own, v) + Holds(p) + leaked[v] + d
         /\ locks' = locks + d /\ lockCount'[v] = lockCount[v] + d
  BY <1>4
<1> QED BY <1>2, <1>5, LockStep DEF Elsewhere

LEMMA LocksSent ==
    ASSUME TypeInv, LockInv, TypeInv', NEW type \in Types, NEW v \in ToSet(vols), NEW root \in BOOLEAN,
           NEW chunks \in Chunks \cup {0}, Send(type, v, root, chunks)
    PROVE  LockInv'
<1> DEFINE free == {x \in Pkts : at[x] = "client"}
           c == CHOOSE x \in free : TRUE
           packet == [type |-> type, vol |-> v, root |-> root, chunks |-> chunks]
<1>1. /\ free # {}
      /\ own' = IF NeedsLock(type) THEN [own EXCEPT ![v][root] = @ - 1] ELSE own
      /\ pkt' = [pkt EXCEPT ![c] = packet]
      /\ at' = [at EXCEPT ![c] = "port"]
      /\ UNCHANGED <<lockCount, locks, leaked>> /\ UNCHANGED <<vols, remounted>> /\ UNCHANGED pc
      /\ pc = "run"
  BY DEF Send, volVars, Running
<1>2. c \in Pkts /\ at[c] = "client" /\ v \in Vols
  BY <1>1 DEF TypeInv, VolsOK, ToSet
<1> HIDE DEF c, free
<1>3. PICK p \in Pkts : p = c
  BY <1>2
<1>4. /\ at[p] = "client" /\ at'[p] = "port" /\ pkt'[p].vol = v /\ pkt'[p].type = type
      /\ \A x \in Pkts \ {p} : at'[x] = at[x] /\ pkt'[x] = pkt[x]
  BY <1>1, <1>2, <1>3 DEF TypeInv, PktsOK
<1>5. Holds(p) = 0 /\ Holds(p)' = IF NeedsLock(type) THEN 1 ELSE 0
  BY <1>4 DEF Holds
<1>6. CASE NeedsLock(type)
  <2>1. own \in [Vols -> [BOOLEAN -> Nat]]
    BY DEF TypeInv, LocksOK
  <2>2. own' = [own EXCEPT ![v][root] = @ - 1]
    BY <1>1, <1>6
  <2>3. \A w \in Vols \ {v} : own'[w] = own[w]
    BY <2>1, <2>2
  <2>4. Differs(own, own', v, root, -1)
    BY <1>2, <2>1, <2>2 DEF Differs
  <2>5. InHand(own', v) = InHand(own, v) + (-1)
    <3>1. -1 \in Int /\ v \in Vols
      BY <1>2
    <3> QED BY ONLY <2>1, <2>4, <3>1, InHandMore, root \in BOOLEAN
  <2>6. /\ LocksOK /\ InHand(own, v) \in Nat /\ leaked[v] \in Nat /\ locks \in Int
        /\ lockCount[v] \in Int
    BY <1>2, OutIs DEF TypeInv, LocksOK, Accounts
  <2>7. /\ InHand(own', v) + Holds(p)' + leaked'[v] = InHand(own, v) + Holds(p) + leaked[v] + 0
        /\ locks' = locks + 0 /\ lockCount'[v] = lockCount[v] + 0
    BY <1>1, <1>5, <1>6, <2>5, <2>6
  <2>8. PICK d \in Int :
           /\ InHand(own', v) + Holds(p)' + leaked'[v] = InHand(own, v) + Holds(p) + leaked[v] + d
           /\ locks' = locks + d /\ lockCount'[v] = lockCount[v] + d
    BY <2>7
  <2>9. Elsewhere(v)
    BY <1>1, <2>3 DEF Elsewhere
  <2>10. pc' # "stopped" /\ UNCHANGED vols /\ UNCHANGED remounted
    BY <1>1
  <2> QED BY <1>1, <1>2, <1>4, <2>8, <2>9, <2>10, LockStep DEF Elsewhere
<1>7. CASE ~ NeedsLock(type)
  <2>1. UNCHANGED lockVars /\ UNCHANGED vols /\ UNCHANGED remounted /\ pc' # "stopped"
    BY <1>1, <1>7 DEF lockVars
  <2>2. Holds(p)' = Holds(p)
    BY <1>5, <1>7
  <2> QED BY <1>1, <1>2, <1>4, <2>1, <2>2, LocksAside
<1> QED BY <1>6, <1>7

LEMMA LockInvNext ==
    ASSUME TypeInv, LineInv, PortInv, AnswerInv, LockInv, TypeInv', [Next]_vars
    PROVE  LockInv'
<1>1. CASE UNCHANGED vars
  <2>1. UNCHANGED lockVars /\ UNCHANGED <<at, pkt>> /\ UNCHANGED <<vols, remounted, pc>>
    BY <1>1 DEF vars, pktVars, volVars
  <2>2. \A v \in Vols : Out(v)' = Out(v)
    BY <2>1, Zenon DEF lockVars, Out
  <2>3. Borrowed' = Borrowed
    BY <2>1, <2>2 DEF lockVars, Borrowed
  <2> HIDE DEF Borrowed
  <2> QED BY <2>1, <2>2, <2>3 DEF LockInv, lockVars
<1>2. CASE \/ Wait \/ NoMoreDos \/ NoMoreRemote \/ WriterBack \/ ReaderError
           \/ HandleUnmountVolume \/ AnsweredTwice \/ AnsweredInPart \/ WriteDone \/ PiAnswers
           \/ Break \/ PiSkipsEnd \/ LoseConnection
           \/ \E key \in {"mount", "unmount"}, v \in Vols : PiMounts(key, v)
  <2>1. /\ UNCHANGED <<at, pkt>> /\ UNCHANGED lockVars /\ UNCHANGED vols /\ UNCHANGED remounted
        /\ pc = "run" /\ pc' # "stopped"
    BY <1>2 DEF Wait, NoMoreDos, NoMoreRemote, WriterBack, ReaderError, HandleUnmountVolume,
         AnsweredTwice, AnsweredInPart, WriteDone, PiAnswers, Break, PiSkipsEnd, LoseConnection,
         PiMounts, ReadDone, Response, GetRemoteMsg, Running, pktVars, volVars
  <2>2. ToSet(vols) \subseteq ToSet(vols)'
    BY <2>1
  <2> QED BY <2>1, <2>2, LocksStill
<1>3. CASE BreakSeen
  <2>1. /\ UNCHANGED <<at, pkt>> /\ UNCHANGED lockVars /\ UNCHANGED remounted /\ pc = "run"
        /\ (FS_CanQuit /\ FS_FreeDevice) \/ UNCHANGED <<pc, vols, mounted>>
    BY <1>3 DEF BreakSeen, Running, pktVars
  <2>2. CASE FS_CanQuit /\ FS_FreeDevice
    BY <2>1, <2>2, LocksStop
  <2>3. CASE UNCHANGED <<pc, vols, mounted>>
    BY <2>1, <2>3, LocksStill
  <2> QED BY <2>1, <2>2, <2>3
<1>4. CASE HandleMountVolume
  <2>1. /\ UNCHANGED <<at, pkt>> /\ UNCHANGED <<own, locks, leaked>> /\ pc = "run" /\ pc' = pc
        /\ resp.key = "mount" /\ (FS_MountVolume(resp.vol) \/ MountFails(resp.vol))
    BY <1>4 DEF HandleMountVolume, Response, GetRemoteMsg, Running, pktVars
  <2>2. resp \in Messages
    BY DEF TypeInv, LineOK
  <2>3. PICK v \in Vols : FS_MountVolume(v) \/ MountFails(v)
    BY <2>1, <2>2, MessagesAre
  <2>4. CASE FS_MountVolume(v)
    BY <2>1, <2>4, LocksMount
  <2>5. CASE MountFails(v)
    <3>1. UNCHANGED lockVars /\ UNCHANGED remounted
      BY <2>1, <2>5 DEF MountFails, lockVars
    <3>2. ToSet(vols) \subseteq ToSet(vols)'
      BY <2>5, WithVolumeIs DEF MountFails, TypeInv
    <3> QED BY <2>1, <3>1, <3>2, LocksStill
  <2> QED BY <2>3, <2>4, <2>5
<1>5. ASSUME NEW v \in Vols, NEW p \in ToSet(port[v]), ReplyAtOnce(p, v) \/ ActionCopyDir(p, v)
      PROVE  LockInv'
  BY <1>5, LocksAtOnce
<1>6. ASSUME NEW v \in Vols, NEW p \in ToSet(port[v]), OutOfRequests(p, v)
      PROVE  LockInv'
  <2>1. /\ UNCHANGED <<at, pkt>> /\ UNCHANGED lockVars /\ UNCHANGED vols /\ UNCHANGED remounted
        /\ pc = "run" /\ pc' # "stopped"
    BY <1>6 DEF OutOfRequests, GetDosPacket, Running, volVars
  <2> QED BY <2>1, LocksStill
<1>7. ASSUME NEW v \in Vols, NEW p \in ToSet(port[v]), Ask(p, v)
      PROVE  LockInv'
  <2>1. /\ GetDosPacket(p, v) /\ UNCHANGED lockVars /\ UNCHANGED vols /\ UNCHANGED remounted
        /\ pc = "run" /\ pc' # "stopped"
    BY <1>7 DEF Ask, GetDosPacket, Running, volVars
  <2>2. p \in Pkts /\ at[p] = "port" /\ pkt[p].vol = v
    BY <2>1, PortLeft
  <2>3. v \in ToSet(vols)
    BY <2>1, <2>2, KnownVolume
  <2>4. \/ pkt[p].type = "END" /\ ReplyToDosPacket(p)
        \/ at' = [at EXCEPT ![p] = "handler"] /\ UNCHANGED pkt
    BY <1>7 DEF Ask, RepliesToo
  <2>5. CASE pkt[p].type = "END" /\ ReplyToDosPacket(p)
    <3>1. at'[p] = "client" /\ \A x \in Pkts \ {p} : at'[x] = at[x] /\ pkt'[x] = pkt[x]
      BY <2>2, <2>5 DEF ReplyToDosPacket, TypeInv, PktsOK
    <3>2. Holds(p)' = Holds(p)
      BY <2>5, <3>1 DEF Holds, NeedsLock
    <3> QED BY <2>1, <2>2, <2>3, <3>1, <3>2, LocksAside
  <2>6. CASE at' = [at EXCEPT ![p] = "handler"] /\ UNCHANGED pkt
    <3>1. at'[p] = "handler" /\ \A x \in Pkts \ {p} : at'[x] = at[x] /\ pkt'[x] = pkt[x]
      BY <2>2, <2>6 DEF TypeInv, PktsOK
    <3>2. Holds(p)' = Holds(p) /\ pkt'[p].vol = v
      BY <2>2, <2>6, <3>1 DEF Holds
    <3> QED BY <2>1, <2>2, <2>3, <3>1, <3>2, LocksAside
  <2> QED BY <2>4, <2>5, <2>6
<1>8. CASE AnsweredWhole
  BY <1>8, LocksReplied
<1>9. ASSUME NEW type \in Types, NEW v \in ToSet(vols), NEW root \in BOOLEAN,
             NEW chunks \in Chunks \cup {0}, Send(type, v, root, chunks)
      PROVE  LockInv'
  BY <1>9, LocksSent
<1> QED
  BY <1>1, <1>2, <1>3, <1>4, <1>5, <1>6, <1>7, <1>8, <1>9 DEF Next, Handler, Environment

-----------------------------------------------------------------------------
(* The list of requests sent.                                              *)

\* A node that does not leave the list any more.
Remains(S, L, x) == x = SENT \/ x \in S \ L

\* The links of fs_SentReqs, of which S are the requests, D those answered, in
\* part or not, L those for which a response may still come, U the one for which it
\* comes next and B the pairs that are answered one before the other.  A READ in D \cap L
\* is unlinked again with its next response: the links it has kept must be
\* those of its neighbours, or what is left of the list breaks.
Shape(l, S, D, L, U, B) ==
    /\ \A x \in S \cup {SENT} :
          /\ l.succ[x] \in S \cup {SENT} /\ l.pred[x] \in S \cup {SENT}
          /\ l.succ[x] # SENT => l.pred[l.succ[x]] = x
          /\ l.succ[l.pred[x]] = x \/ Remains(S, L, l.pred[x])
          /\ x \in L => Remains(S, L, l.pred[x]) \/ <<l.pred[x], x>> \in B
    /\ \A x \in D \cap L :
          /\ x \in U /\ Remains(S, L, l.pred[x])
          /\ l.succ[x] = SENT \/ (l.succ[x] \in S /\ l.pred[l.succ[x]] = l.pred[x])

\* Responses fall away, the others come in the order in which they came before.
LEMMA ShapeMoves ==
    ASSUME NEW l, NEW S, NEW D, NEW L, NEW U, NEW B, Shape(l, S, D, L, U, B),
           NEW M \in SUBSET L, NEW V, NEW C,
           \A x \in M : x \in U => x \in V,
           \A x \in M : \A y \in S : <<y, x>> \in B => <<y, x>> \in C \/ y \notin M
    PROVE  Shape(l, S, D, M, V, C)
<1>1. \A x : Remains(S, L, x) => Remains(S, M, x)
  BY DEF Remains
<1>2. ASSUME NEW x \in S \cup {SENT}
      PROVE  /\ l.succ[x] \in S \cup {SENT} /\ l.pred[x] \in S \cup {SENT}
             /\ l.succ[x] # SENT => l.pred[l.succ[x]] = x
             /\ l.succ[l.pred[x]] = x \/ Remains(S, M, l.pred[x])
             /\ x \in M => Remains(S, M, l.pred[x]) \/ <<l.pred[x], x>> \in C
  <2> DEFINE y == l.pred[x]
  <2>1. /\ l.succ[x] \in S \cup {SENT} /\ y \in S \cup {SENT}
        /\ l.succ[x] # SENT => l.pred[l.succ[x]] = x
        /\ l.succ[y] = x \/ Remains(S, L, y)
        /\ x \in L => Remains(S, L, y) \/ <<y, x>> \in B
    BY DEF Shape
  <2> HIDE DEF y
  <2>2. x \in M => Remains(S, M, y) \/ <<y, x>> \in C
    <3> SUFFICES ASSUME x \in M, ~ Remains(S, M, y)
                 PROVE  <<y, x>> \in C
      OBVIOUS
    <3>1. <<y, x>> \in B /\ y \in S /\ y \in M
      BY <1>1, <2>1 DEF Remains
    <3> QED BY <3>1
  <2>3. l.succ[y] = x \/ Remains(S, M, y)
    BY <1>1, <2>1
  <2> QED BY <2>1, <2>2, <2>3 DEF y
<1>3. ASSUME NEW x \in D \cap M
      PROVE  /\ x \in V /\ Remains(S, M, l.pred[x])
             /\ l.succ[x] = SENT \/ (l.succ[x] \in S /\ l.pred[l.succ[x]] = l.pred[x])
  <2>1. /\ x \in U /\ Remains(S, L, l.pred[x])
        /\ l.succ[x] = SENT \/ (l.succ[x] \in S /\ l.pred[l.succ[x]] = l.pred[x])
    BY DEF Shape
  <2> QED BY <1>1, <2>1
<1> QED BY <1>2, <1>3 DEF Shape

\* Links of other nodes do not matter.
LEMMA ShapeElsewhere ==
    ASSUME NEW l, NEW S, NEW D, NEW L, NEW U, NEW B, Shape(l, S, D, L, U, B),
           NEW m, NEW E \in SUBSET D,
           \A x \in S \cup E \cup {SENT} : m.succ[x] = l.succ[x] /\ m.pred[x] = l.pred[x]
    PROVE  Shape(m, S, E, L, U, B)
<1>1. ASSUME NEW x \in S \cup {SENT}
      PROVE  /\ m.succ[x] \in S \cup {SENT} /\ m.pred[x] \in S \cup {SENT}
             /\ m.succ[x] # SENT => m.pred[m.succ[x]] = x
             /\ m.succ[m.pred[x]] = x \/ Remains(S, L, m.pred[x])
             /\ x \in L => Remains(S, L, m.pred[x]) \/ <<m.pred[x], x>> \in B
  <2>1. /\ l.succ[x] \in S \cup {SENT} /\ l.pred[x] \in S \cup {SENT}
        /\ l.succ[x] # SENT => l.pred[l.succ[x]] = x
        /\ l.succ[l.pred[x]] = x \/ Remains(S, L, l.pred[x])
        /\ x \in L => Remains(S, L, l.pred[x]) \/ <<l.pred[x], x>> \in B
    BY DEF Shape
  <2>2. /\ m.succ[x] = l.succ[x] /\ m.pred[x] = l.pred[x]
        /\ m.pred[l.succ[x]] = l.pred[l.succ[x]] /\ m.succ[l.pred[x]] = l.succ[l.pred[x]]
    BY <2>1
  <2> QED BY <2>1, <2>2
<1>2. ASSUME NEW x \in E \cap L
      PROVE  /\ x \in U /\ Remains(S, L, m.pred[x])
             /\ m.succ[x] = SENT \/ (m.succ[x] \in S /\ m.pred[m.succ[x]] = m.pred[x])
  <2>1. /\ x \in U /\ Remains(S, L, l.pred[x])
        /\ l.succ[x] = SENT \/ (l.succ[x] \in S /\ l.pred[l.succ[x]] = l.pred[x])
    BY DEF Shape
  <2> QED BY <2>1
<1> QED BY <1>1, <1>2 DEF Shape

\* The first request that waits is sent: it goes from its list to the end of the
\* other.  No response to it can come before those of the requests sent.
LEMMA ShapeSent ==
    ASSUME NEW l \in Lists, NEW Q, Q \subseteq Ids, Links(l, REQ, Q),
           NEW S, S \subseteq Ids, NEW D, D \subseteq Ids,
           Q \cap S = {}, Q \cap D = {}, S \cap D = {},
           NEW L, L \subseteq Ids, NEW U, NEW B, Shape(l, S, D, L, U, B),
           NEW n \in Q, n = l.succ[REQ], n \notin L,
           \A x \in L : <<x, n>> \in B
    PROVE  LET m == AddTail(Unlink(l, n), SENT, n)
           IN  /\ m \in Lists /\ Links(m, REQ, Q \ {n})
               /\ Shape(m, S \cup {n}, D, L \cup {n}, U, B)
               /\ Links(l, SENT, S) => Links(m, SENT, S \cup {n})
<1> DEFINE u == Unlink(l, n)
           m == AddTail(u, SENT, n)
           e == l.pred[SENT]
           z == l.succ[n]
<1>1. /\ Ids \subseteq Nodes /\ REQ \in Nodes /\ SENT \in Nodes /\ REQ # SENT
      /\ REQ \notin Ids /\ SENT \notin Ids /\ n \in Ids /\ n \in Nodes
  BY NodesAre
<1>2. DOMAIN l.succ = Nodes /\ DOMAIN l.pred = Nodes
  BY DEF Lists
<1>3. /\ \A x \in Q \cup {REQ} : l.succ[x] \in Q \cup {REQ} /\ l.pred[l.succ[x]] = x
      /\ l.pred[n] = REQ /\ z \in Q \cup {REQ} /\ z # n
  BY <1>1 DEF Links
<1>4. /\ \A x \in S \cup {SENT} :
            /\ l.succ[x] \in S \cup {SENT} /\ l.pred[x] \in S \cup {SENT}
            /\ l.succ[x] # SENT => l.pred[l.succ[x]] = x
            /\ l.succ[l.pred[x]] = x \/ Remains(S, L, l.pred[x])
            /\ x \in L => Remains(S, L, l.pred[x]) \/ <<l.pred[x], x>> \in B
      /\ \A x \in D \cap L :
            /\ x \in U /\ Remains(S, L, l.pred[x])
            /\ l.succ[x] = SENT \/ (l.succ[x] \in S /\ l.pred[l.succ[x]] = l.pred[x])
  BY DEF Shape
<1>5. u \in Lists /\ u.succ = [l.succ EXCEPT ![REQ] = z] /\ u.pred = [l.pred EXCEPT ![z] = REQ]
  BY <1>1, <1>3, UnlinkLinks
<1>6. u.pred[SENT] = e
  BY <1>1, <1>2, <1>3, <1>5
<1> HIDE DEF u
<1>7. /\ m \in Lists
      /\ m.succ = [[u.succ EXCEPT ![e] = n] EXCEPT ![n] = SENT]
      /\ m.pred = [[u.pred EXCEPT ![n] = e] EXCEPT ![SENT] = n]
  <2>1. /\ m \in Lists
        /\ m.succ = [[u.succ EXCEPT ![u.pred[SENT]] = n] EXCEPT ![n] = SENT]
        /\ m.pred = [[u.pred EXCEPT ![n] = u.pred[SENT]] EXCEPT ![SENT] = n]
    <3>1. u \in Lists /\ SENT \in Nodes /\ n \in Nodes
      BY <1>1, <1>5
    <3> QED BY ONLY <3>1, AddTailLinks
  <2> HIDE DEF m, e
  <2> QED BY <1>6, <2>1
<1> HIDE DEF m
<1>8. e \in S \cup {SENT} /\ e \in Nodes /\ z \in Nodes /\ n \notin S /\ e # n
  <2>1. e \in S \cup {SENT}
    BY <1>4
  <2>2. z \in Q \cup {REQ} /\ n \notin S
    BY <1>3
  <2> HIDE DEF e, z
  <2> QED BY <1>1, <2>1, <2>2
<1> HIDE DEF e, z
<1>9. /\ m.succ[e] = n /\ m.succ[n] = SENT /\ m.pred[n] = e /\ m.pred[SENT] = n
      /\ m.succ[REQ] = z /\ m.pred[z] = REQ
  BY <1>1, <1>2, <1>3, <1>5, <1>7, <1>8
<1>10. /\ \A x \in Nodes : x # e /\ x # n /\ x # REQ => m.succ[x] = l.succ[x]
       /\ \A x \in Nodes : x # z /\ x # n /\ x # SENT => m.pred[x] = l.pred[x]
  BY <1>2, <1>5, <1>7
<1>11. /\ \A x \in S \cup {SENT} : x # e => m.succ[x] = l.succ[x]
       /\ \A x \in S : m.pred[x] = l.pred[x]
       /\ \A x \in D : m.succ[x] = l.succ[x] /\ m.pred[x] = l.pred[x]
  BY <1>1, <1>3, <1>8, <1>10
<1>12. Links(m, REQ, Q \ {n})
  <2> SUFFICES ASSUME NEW x \in (Q \ {n}) \cup {REQ}
               PROVE  m.succ[x] \in (Q \ {n}) \cup {REQ} /\ m.pred[m.succ[x]] = x
    BY DEF Links
  <2>1. CASE x = REQ
    BY <1>3, <1>9, <2>1
  <2>2. CASE x # REQ
    <3>1. x \in Q /\ x # n /\ m.succ[x] = l.succ[x]
      BY <1>1, <1>8, <1>10, <2>2
    <3>2. l.succ[x] \in Q \cup {REQ} /\ l.pred[l.succ[x]] = x
      BY <1>3, <3>1
    <3>3. l.succ[x] # n /\ l.succ[x] # z
      BY <1>3, <2>2, <3>1, <3>2 DEF z
    <3>4. m.pred[l.succ[x]] = l.pred[l.succ[x]]
      BY <1>1, <1>10, <3>2, <3>3
    <3> QED BY <3>1, <3>2, <3>3, <3>4
  <2> QED BY <2>1, <2>2
<1> DEFINE T == S \cup {n}
           M == L \cup {n}
<1>13. \A x : Remains(S, L, x) => Remains(T, M, x) /\ x # n
  BY <1>1, <1>8 DEF Remains
<1>14. ASSUME NEW x \in T \cup {SENT}
       PROVE  /\ m.succ[x] \in T \cup {SENT} /\ m.pred[x] \in T \cup {SENT}
              /\ m.succ[x] # SENT => m.pred[m.succ[x]] = x
              /\ m.succ[m.pred[x]] = x \/ Remains(T, M, m.pred[x])
              /\ x \in M => Remains(T, M, m.pred[x]) \/ <<m.pred[x], x>> \in B
  <2>1. CASE x = n
    <3>1. m.succ[x] = SENT /\ m.pred[x] = e /\ m.succ[e] = x
      BY <1>9, <2>1
    <3>2. Remains(T, M, e) \/ <<e, x>> \in B
      <4>1. e \in L \/ Remains(S, L, e)
        BY <1>8 DEF Remains
      <4> QED BY <1>13, <2>1, <4>1
    <3> QED BY <1>8, <3>1, <3>2
  <2>2. CASE x = SENT
    <3>1. m.pred[x] = n /\ m.succ[n] = x /\ x \notin M
      BY <1>1, <1>9, <2>2
    <3>2. /\ m.succ[x] \in T \cup {SENT}
          /\ m.succ[x] # SENT => m.pred[m.succ[x]] = x
      <4>1. CASE e = SENT
        BY <1>9, <2>2, <4>1
      <4>2. CASE e # SENT
        <5>1. m.succ[x] = l.succ[x] /\ l.succ[x] \in S \cup {SENT}
              /\ (l.succ[x] # SENT => l.pred[l.succ[x]] = x)
          BY <1>4, <1>11, <2>2, <4>2
        <5> QED BY <1>11, <5>1
      <4> QED BY <4>1, <4>2
    <3> QED BY <3>1, <3>2
  <2>3. CASE x \in S
    <3> DEFINE y == l.pred[x]
    <3>1. /\ l.succ[x] \in S \cup {SENT} /\ y \in S \cup {SENT}
          /\ l.succ[x] # SENT => l.pred[l.succ[x]] = x
          /\ l.succ[y] = x \/ Remains(S, L, y)
          /\ x \in L => Remains(S, L, y) \/ <<y, x>> \in B
      BY <1>4, <2>3
    <3>2. m.pred[x] = y
      BY <1>11, <2>3
    <3>3. e = y => Remains(S, L, y)
      <4>1. l.succ[e] = SENT \/ Remains(S, L, e)
        BY <1>4 DEF e
      <4>2. x # SENT
        BY <1>1, <2>3
      <4> QED BY <3>1, <4>1, <4>2
    <3> HIDE DEF y
    <3>4. m.succ[y] = x \/ Remains(T, M, y)
      <4>1. CASE e = y
        BY <1>13, <3>3, <4>1
      <4>2. CASE e # y
        BY <1>11, <1>13, <3>1, <4>2
      <4> QED BY <4>1, <4>2
    <3>5. x \in M => Remains(T, M, y) \/ <<y, x>> \in B
      BY <1>8, <1>13, <2>3, <3>1
    <3>6. m.succ[x] \in T \cup {SENT} /\ (m.succ[x] # SENT => m.pred[m.succ[x]] = x)
      <4>1. CASE x = e
        BY <1>9, <4>1
      <4>2. CASE x # e
        BY <1>11, <2>3, <3>1, <4>2
      <4> QED BY <4>1, <4>2
    <3> QED BY <3>1, <3>2, <3>4, <3>5, <3>6
  <2> QED BY <2>1, <2>2, <2>3
<1>15. ASSUME NEW x \in D \cap M
       PROVE  /\ x \in U /\ Remains(T, M, m.pred[x])
              /\ m.succ[x] = SENT \/ (m.succ[x] \in T /\ m.pred[m.succ[x]] = m.pred[x])
  <2>1. x \in D \cap L
    OBVIOUS
  <2>2. /\ x \in U /\ Remains(S, L, l.pred[x])
        /\ l.succ[x] = SENT \/ (l.succ[x] \in S /\ l.pred[l.succ[x]] = l.pred[x])
    BY <1>4, <2>1
  <2>3. m.succ[x] = l.succ[x] /\ m.pred[x] = l.pred[x]
    BY <1>11
  <2>4. l.succ[x] \in S => m.pred[l.succ[x]] = l.pred[l.succ[x]]
    BY <1>11
  <2> QED BY <1>13, <2>2, <2>3, <2>4
<1>16. Shape(m, T, D, M, U, B)
  BY <1>14, <1>15 DEF Shape
<1>17. ASSUME Links(l, SENT, S)
       PROVE  Links(m, SENT, T)
  <2>1. \A x \in S \cup {SENT} : l.succ[x] \in S \cup {SENT} /\ l.pred[l.succ[x]] = x
    BY <1>17 DEF Links
  <2> SUFFICES ASSUME NEW x \in T \cup {SENT}
               PROVE  m.succ[x] \in T \cup {SENT} /\ m.pred[m.succ[x]] = x
    BY DEF Links
  <2>2. CASE x = n
    BY <1>9, <2>2
  <2>3. CASE x = e
    BY <1>9, <2>3
  <2>4. CASE x # n /\ x # e
    <3>1. m.succ[x] = l.succ[x] /\ l.succ[x] \in S \cup {SENT} /\ l.pred[l.succ[x]] = x
      BY <1>11, <2>1, <2>4
    <3>2. l.succ[x] # SENT
      BY <2>4, <3>1 DEF e
    <3> QED BY <1>11, <3>1, <3>2
  <2> QED BY <2>2, <2>3, <2>4
<1> QED BY <1>7, <1>12, <1>16, <1>17 DEF m, u

\* The request that is answered is unlinked.  Its links are those of its
\* neighbours, for the requests before it have been answered.
LEMMA ShapeAnswered ==
    ASSUME NEW l \in Lists, NEW Q, Q \subseteq Ids, Links(l, REQ, Q),
           NEW S, S \subseteq Ids, NEW D, D \subseteq Ids,
           Q \cap S = {}, Q \cap D = {}, S \cap D = {},
           NEW L, L \subseteq Ids, NEW U, NEW B, Shape(l, S, D, L, U, B),
           NEW n \in S \cup D, n \in L,
           n \in U, U \subseteq {n}, \A y : <<y, n>> \notin B
    PROVE  LET m == Unlink(l, n)
           IN  /\ m \in Lists /\ Links(m, REQ, Q)
               /\ Shape(m, S \ {n}, D \cup {n}, L, U, B)
               /\ Links(l, SENT, S) /\ n \in S => Links(m, SENT, S \ {n})
<1> DEFINE m == Unlink(l, n)
           p == l.pred[n]
           z == l.succ[n]
           T == S \ {n}
<1>1. /\ Ids \subseteq Nodes /\ REQ \in Nodes /\ SENT \in Nodes /\ REQ # SENT
      /\ REQ \notin Ids /\ SENT \notin Ids /\ n \in Ids /\ n \in Nodes /\ n # SENT
  BY NodesAre
<1>2. /\ \A x \in S \cup {SENT} :
            /\ l.succ[x] \in S \cup {SENT} /\ l.pred[x] \in S \cup {SENT}
            /\ l.succ[x] # SENT => l.pred[l.succ[x]] = x
            /\ l.succ[l.pred[x]] = x \/ Remains(S, L, l.pred[x])
            /\ x \in L => Remains(S, L, l.pred[x]) \/ <<l.pred[x], x>> \in B
      /\ \A x \in D \cap L :
            /\ x \in U /\ Remains(S, L, l.pred[x])
            /\ l.succ[x] = SENT \/ (l.succ[x] \in S /\ l.pred[l.succ[x]] = l.pred[x])
  BY DEF Shape
<1>3. /\ m \in Lists
      /\ m.succ = [l.succ EXCEPT ![p] = z] /\ m.pred = [l.pred EXCEPT ![z] = p]
      /\ DOMAIN l.succ = Nodes /\ DOMAIN l.pred = Nodes
  BY <1>1, UnlinkLinks DEF Lists
<1> HIDE DEF m
<1>4. /\ \A x : Remains(S, L, x) => Remains(T, L, x) /\ x \in T \cup {SENT}
      /\ ~ Remains(S, L, n)
  BY <1>1 DEF Remains
<1>5. Remains(S, L, p)
  <2>1. CASE n \in S
    BY <1>2, <2>1
  <2>2. CASE n \in D
    BY <1>2, <2>2
  <2> QED BY <2>1, <2>2
<1>6. z = SENT \/ (z \in T /\ (n \in S => l.pred[z] = n) /\ (n \in D => l.pred[z] = p))
  <2>1. CASE n \in S
    <3>1. z \in S \cup {SENT} /\ (z # SENT => l.pred[z] = n)
      BY <1>2, <2>1
    <3>2. z # n
      BY <1>1, <1>4, <1>5, <3>1
    <3>3. n \notin D
      BY <2>1
    <3> QED BY <3>1, <3>2, <3>3
  <2>2. CASE n \in D
    <3>1. n \notin S
      BY <2>2
    <3> QED BY <1>2, <2>2, <3>1
  <2> QED BY <2>1, <2>2
<1>7. p \in T \cup {SENT} /\ p \in Nodes /\ z \in T \cup {SENT} /\ z \in Nodes
  BY <1>1, <1>4, <1>5, <1>6
<1> HIDE DEF p, z
<1>8. /\ m.succ[p] = z /\ m.pred[z] = p
      /\ \A x \in Nodes : x # p => m.succ[x] = l.succ[x]
      /\ \A x \in Nodes : x # z => m.pred[x] = l.pred[x]
  BY <1>3, <1>7
<1>9. ASSUME NEW x \in T \cup {SENT}, x # p
      PROVE  l.succ[x] # n /\ (l.succ[x] # SENT => l.succ[x] # z)
  <2>1. l.succ[x] \in S \cup {SENT} /\ (l.succ[x] # SENT => l.pred[l.succ[x]] = x)
    BY <1>2
  <2>2. l.succ[x] # n
    BY <1>1, <1>9, <2>1 DEF p
  <2>3. l.succ[x] # SENT => l.succ[x] # z
    BY <1>1, <1>6, <1>9, <2>1
  <2> QED BY <2>2, <2>3
<1>10. ASSUME NEW x \in T \cup {SENT}, x # z
       PROVE  l.pred[x] # n
  <2>1. l.succ[l.pred[x]] = x \/ Remains(S, L, l.pred[x])
    BY <1>2
  <2> QED BY <1>4, <1>10, <2>1 DEF z
<1>11. ASSUME NEW x \in T \cup {SENT}
       PROVE  /\ m.succ[x] \in T \cup {SENT} /\ m.pred[x] \in T \cup {SENT}
              /\ m.succ[x] # SENT => m.pred[m.succ[x]] = x
              /\ m.succ[m.pred[x]] = x \/ Remains(T, L, m.pred[x])
              /\ x \in L => Remains(T, L, m.pred[x]) \/ <<m.pred[x], x>> \in B
  <2> DEFINE y == l.pred[x]
  <2>1. /\ x \in S \cup {SENT} /\ x \in Nodes
        /\ l.succ[x] \in S \cup {SENT} /\ y \in S \cup {SENT}
        /\ l.succ[x] # SENT => l.pred[l.succ[x]] = x
        /\ l.succ[y] = x \/ Remains(S, L, y)
        /\ x \in L => Remains(S, L, y) \/ <<y, x>> \in B
    BY <1>1, <1>2
  <2>2. m.succ[x] \in T \cup {SENT} /\ (m.succ[x] # SENT => m.pred[m.succ[x]] = x)
    <3>1. CASE x = p
      BY <1>7, <1>8, <3>1
    <3>2. CASE x # p
      <4>1. m.succ[x] = l.succ[x] /\ l.succ[x] # n /\ (l.succ[x] # SENT => l.succ[x] # z)
        BY <1>8, <1>9, <2>1, <3>2
      <4>2. PICK w : w = l.succ[x]
        OBVIOUS
      <4>3. w \in T \cup {SENT} /\ (w # SENT => l.pred[w] = x)
        BY <2>1, <4>1, <4>2
      <4>4. w # SENT => m.pred[w] = l.pred[w]
        BY <1>1, <1>8, <4>1, <4>2, <4>3
      <4> QED BY <4>1, <4>2, <4>3, <4>4
    <3> QED BY <3>1, <3>2
  <2>3. CASE x = z
    <3>1. m.pred[x] = p /\ m.succ[p] = x /\ p \in T \cup {SENT}
      BY <1>7, <1>8, <2>3
    <3>2. Remains(T, L, p)
      BY <1>4, <1>5
    <3> QED BY <2>2, <3>1, <3>2
  <2>4. CASE x # z
    <3>1. m.pred[x] = y /\ y # n
      BY <1>8, <1>10, <2>1, <2>4
    <3> HIDE DEF y
    <3>2. y \in T \cup {SENT} /\ y \in Nodes
      BY <1>1, <2>1, <3>1
    <3>3. m.succ[y] = x \/ Remains(T, L, y)
      BY <1>4, <1>5, <1>8, <2>1, <3>2
    <3>4. x \in L => Remains(T, L, y) \/ <<y, x>> \in B
      BY <1>4, <2>1
    <3> QED BY <2>2, <3>1, <3>2, <3>3, <3>4
  <2> QED BY <2>3, <2>4
<1>12. ASSUME NEW x \in (D \cup {n}) \cap L
       PROVE  /\ x \in U /\ Remains(T, L, m.pred[x])
              /\ m.succ[x] = SENT \/ (m.succ[x] \in T /\ m.pred[m.succ[x]] = m.pred[x])
  <2>1. x = n
    BY <1>2
  <2>2. p # n /\ z # n
    BY <1>1, <1>7
  <2>3. m.pred[n] = p /\ m.succ[n] = z
    BY <1>1, <1>8, <2>2 DEF p, z
  <2> QED BY <1>4, <1>5, <1>7, <1>8, <2>1, <2>3
<1>13. Shape(m, T, D \cup {n}, L, U, B)
  BY <1>11, <1>12 DEF Shape
<1>14. Links(m, REQ, Q)
  <2>1. \A x \in Q \cup {REQ} : l.succ[x] \in Q \cup {REQ} /\ l.pred[l.succ[x]] = x
    BY DEF Links
  <2>2. p \notin Q \cup {REQ} /\ z \notin Q \cup {REQ}
    BY <1>1, <1>7
  <2>3. \A x \in Q \cup {REQ} : m.succ[x] = l.succ[x] /\ m.pred[x] = l.pred[x]
    BY <1>1, <1>8, <2>2
  <2> QED BY <2>1, <2>3 DEF Links
<1>15. ASSUME Links(l, SENT, S), n \in S
       PROVE  Links(m, SENT, T)
  <2>1. \A x \in S \cup {SENT} : l.succ[x] \in S \cup {SENT} /\ l.pred[l.succ[x]] = x
    BY <1>15 DEF Links
  <2> SUFFICES ASSUME NEW x \in T \cup {SENT}
               PROVE  m.succ[x] \in T \cup {SENT} /\ m.pred[m.succ[x]] = x
    BY DEF Links
  <2>2. CASE x = p
    BY <1>7, <1>8, <2>2
  <2>3. CASE x # p
    <3>1. m.succ[x] = l.succ[x] /\ l.succ[x] \in S \cup {SENT} /\ l.pred[l.succ[x]] = x
      BY <1>1, <1>8, <2>1, <2>3
    <3>2. l.succ[x] # n /\ l.succ[x] # z
      BY <1>1, <1>15, <2>1, <2>3, <3>1 DEF p, z
    <3> QED BY <1>1, <1>8, <3>1, <3>2
  <2> QED BY <2>2, <2>3
<1> QED BY <1>3, <1>13, <1>14, <1>15 DEF m

\* Requests sent, requests answered, in part or not, and requests that are with the
\* server, on their way to the Pi or in its response.
SentOf(s) == {i \in DOMAIN s.reqs : s.reqs[i].st = "sent"}
DoneOf(s) == {i \in DOMAIN s.reqs : s.reqs[i].st = "done"}
InResponse(i) == resp.key = "request" /\ resp.req = i
OnWay(i) == \E k \in DOMAIN piReqs : piReqs[k] = i
Live(s) == {i \in Ids : InResponse(i) \/ OnWay(i) \/ s.writer = i}

\* The request answered next, and requests answered one before the other; the Pi may
\* skip the former of two.
Due ==
    {i \in Ids : \/ InResponse(i)
                 \/ resp.key # "request" /\ piReqs # <<>> /\ Head(piReqs) = i}
Before(x, i) ==
    /\ InResponse(x) \/ OnWay(x)
    /\ ~ InResponse(i)
    /\ \A k \in DOMAIN piReqs :
          piReqs[k] = i => InResponse(x) \/ \E j \in DOMAIN piReqs : j < k /\ piReqs[j] = x
Ordered == {x \in Ids \X Ids : Before(x[1], x[2])}

Listed(s, L, U, B) ==
    /\ Links(s.links, REQ, Queued(s))
    /\ Shape(s.links, SentOf(s), DoneOf(s), L, U, B)
    /\ s.again \/ Links(s.links, SENT, SentOf(s))

ListsOK(s) == Listed(s, Live(s), Due, Ordered)

ListInv == ListsOK(q)

LEMMA Partition ==
    ASSUME NEW s \in Queues
    PROVE  /\ Queued(s) \subseteq Ids /\ SentOf(s) \subseteq Ids /\ DoneOf(s) \subseteq Ids
           /\ Queued(s) \cap SentOf(s) = {} /\ Queued(s) \cap DoneOf(s) = {}
           /\ SentOf(s) \cap DoneOf(s) = {}
           /\ DOMAIN s.reqs = Queued(s) \cup SentOf(s) \cup DoneOf(s)
           /\ Live(s) \subseteq Ids
<1>1. DOMAIN s.reqs \subseteq Ids /\ \A i \in DOMAIN s.reqs : s.reqs[i] \in Request
  BY QueueFields
<1>2. \A i \in DOMAIN s.reqs : s.reqs[i].st \in {"queued", "sent", "done"}
  BY <1>1, RequestFields
<1> QED BY <1>1, <1>2 DEF Queued, SentOf, DoneOf, Live

\* Only requests sent are live, and none is with the server when another may be sent.
Settled(s) == Live(s) \subseteq SentOf(s) \cup DoneOf(s) /\ (s.ready => s.writer = 0)

LEMMA SendsInOrder ==
    ASSUME NEW s \in Queues, ListsOK(s), Settled(s), s.writer = 0
    PROVE  ListsOK(FS_SendReq(s)) /\ Settled(FS_SendReq(s))
<1> DEFINE n == s.links.succ[REQ]
           t == FS_SendReq(s)
           m == AddTail(Unlink(s.links, n), SENT, n)
<1>1. /\ Links(s.links, REQ, Queued(s))
      /\ Shape(s.links, SentOf(s), DoneOf(s), Live(s), Due, Ordered)
      /\ s.again \/ Links(s.links, SENT, SentOf(s))
  BY DEF ListsOK, Listed
<1>2. /\ t \in Queues /\ t.again = s.again
      /\ \/ n = REQ /\ t = s
         \/ /\ n \in Queued(s) /\ n \in DOMAIN s.reqs
            /\ DOMAIN t.reqs = DOMAIN s.reqs
            /\ t.reqs[n] = Marked(s.reqs[n], "sent")
            /\ \A i \in DOMAIN s.reqs : i # n => t.reqs[i] = s.reqs[i]
            /\ t.writer = n /\ t.ready = FALSE
            /\ t.links = m
  BY <1>1, SendReqIs
<1> HIDE DEF t, m
<1>3. CASE t = s
  BY <1>3 DEF t
<1>4. CASE t # s
  <2> DEFINE Q == Queued(s)
             S == SentOf(s)
             D == DoneOf(s)
             L == Live(s)
  <2>1. /\ Q \subseteq Ids /\ S \subseteq Ids /\ D \subseteq Ids
        /\ Q \cap S = {} /\ Q \cap D = {} /\ S \cap D = {} /\ L \subseteq Ids
    BY Partition
  <2>2. /\ n \in Q /\ n \in DOMAIN s.reqs /\ DOMAIN t.reqs = DOMAIN s.reqs
        /\ t.reqs[n].st = "sent" /\ t.reqs[n] = Marked(s.reqs[n], "sent")
        /\ \A i \in DOMAIN s.reqs : i # n => t.reqs[i] = s.reqs[i]
        /\ t.writer = n /\ t.ready = FALSE /\ t.links = m
    <3>1. s.reqs[n] \in Request
      BY <1>2, <1>4, QueueFields
    <3> QED BY <1>2, <1>4, <3>1, MarkedIs
  <2> HIDE DEF n
  <2>3. s.reqs[n].st = "queued" /\ n \in Ids /\ n # 0
    BY <2>1, <2>2, NodesAre DEF Queued
  <2>4. Queued(t) = Q \ {n} /\ SentOf(t) = S \cup {n} /\ DoneOf(t) = D
    BY <2>2, <2>3 DEF Queued, SentOf, DoneOf
  <2>5. Live(t) = L \cup {n}
    <3>1. \A i \in Ids : s.writer # i
      BY NodesAre
    <3> QED BY <2>2, <2>3, <3>1 DEF Live
  <2>6. n \notin L
    BY <2>1, <2>2 DEF Settled
  <2>7. \A x \in L : <<x, n>> \in Ordered
    <3> SUFFICES ASSUME NEW x \in L
                 PROVE  <<x, n>> \in Ordered
      OBVIOUS
    <3>1. x \in Ids /\ (InResponse(x) \/ OnWay(x))
      BY NodesAre DEF Live
    <3>2. ~ InResponse(n) /\ \A k \in DOMAIN piReqs : piReqs[k] # n
      BY <2>3, <2>6 DEF Live, OnWay
    <3>3. Before(x, n)
      BY <3>1, <3>2 DEF Before
    <3> QED BY <2>3, <3>1, <3>3 DEF Ordered
  <2>8. s.links \in Lists /\ n = s.links.succ[REQ]
    BY QueueFields DEF n
  <2> HIDE DEF Q, S, D, L
  <2>9. /\ Links(s.links, REQ, Q) /\ Shape(s.links, S, D, L, Due, Ordered)
        /\ s.again \/ Links(s.links, SENT, S)
    BY <1>1 DEF Q, S, D, L
  <2>10. PICK l, U, B : l = s.links /\ U = Due /\ B = Ordered
    OBVIOUS
  <2>11. /\ l \in Lists /\ Links(l, REQ, Q) /\ Shape(l, S, D, L, U, B) /\ n = l.succ[REQ]
         /\ \A x \in L : <<x, n>> \in B
    BY <2>7, <2>8, <2>9, <2>10
  <2>12. LET k == AddTail(Unlink(l, n), SENT, n)
         IN  /\ k \in Lists /\ Links(k, REQ, Q \ {n})
             /\ Shape(k, S \cup {n}, D, L \cup {n}, U, B)
             /\ Links(l, SENT, S) => Links(k, SENT, S \cup {n})
    BY ONLY <2>1, <2>2, <2>6, <2>11, ShapeSent
  <2>13. m = AddTail(Unlink(l, n), SENT, n)
    BY <2>10 DEF m
  <2>14. /\ Links(m, REQ, Q \ {n}) /\ Shape(m, S \cup {n}, D, L \cup {n}, Due, Ordered)
         /\ Links(s.links, SENT, S) => Links(m, SENT, S \cup {n})
    BY <2>10, <2>12, <2>13
  <2>15. ListsOK(t)
    BY <1>2, <2>2, <2>4, <2>5, <2>9, <2>14 DEF ListsOK, Listed
  <2>16. Settled(t)
    <3>1. L \subseteq S \cup D
      BY DEF Settled, L, S, D
    <3> QED BY <2>2, <2>4, <2>5, <3>1 DEF Settled
  <2> QED BY <2>15, <2>16 DEF t
<1> QED BY <1>3, <1>4

LEMMA AddsAside ==
    ASSUME NEW s \in Queues, FreeIds(s) # {}, NEW r \in Request, r.st = "queued",
           ListsOK(s), Settled(s)
    PROVE  ListsOK(Added(s, r)) /\ Settled(Added(s, r))
<1> DEFINE n == Min(FreeIds(s))
           t == Added(s, r)
           Q == Queued(s)
           S == SentOf(s)
           D == DoneOf(s)
           L == Live(s)
           l == s.links
           m == AddTail(l, REQ, n)
           e == l.pred[REQ]
<1>1. /\ Links(l, REQ, Q) /\ Shape(l, S, D, L, Due, Ordered)
      /\ s.again \/ Links(l, SENT, S)
  BY DEF ListsOK, Listed
<1>2. /\ t \in Queues /\ t.again = s.again /\ t.writer = s.writer /\ t.ready = s.ready
      /\ t.links = m
      /\ DOMAIN t.reqs = DOMAIN s.reqs \cup {n} /\ t.reqs[n] = r
      /\ \A i \in DOMAIN s.reqs : t.reqs[i] = s.reqs[i]
      /\ Links(l, REQ, Q) => Links(m, REQ, Queued(t))
  BY AddedIs
<1>3. n \in Ids /\ n \notin DOMAIN s.reqs
  BY FreeIdIs
<1>4. /\ Q \subseteq Ids /\ S \subseteq Ids /\ D \subseteq Ids
      /\ Q \cap S = {} /\ Q \cap D = {} /\ S \cap D = {}
      /\ DOMAIN s.reqs = Q \cup S \cup D
  BY Partition
<1>5. l \in Lists
  BY QueueFields
<1> HIDE DEF n, t
<1>6. SentOf(t) = S /\ DoneOf(t) = D /\ Live(t) = L
  BY <1>2, <1>3 DEF SentOf, DoneOf, Live
<1> HIDE DEF Q, S, D, L, l
<1>7. e \in Q \cup {REQ}
  BY <1>1, <1>4, <1>5, GoesRound
<1>8. \A x \in S \cup D \cup {SENT} : m.succ[x] = l.succ[x] /\ m.pred[x] = l.pred[x]
  <2>1. /\ Ids \subseteq Nodes /\ REQ \in Nodes /\ SENT \in Nodes /\ REQ # SENT
        /\ REQ \notin Ids /\ SENT \notin Ids
    BY NodesAre
  <2>2. /\ m.succ = [[l.succ EXCEPT ![e] = n] EXCEPT ![n] = REQ]
        /\ m.pred = [[l.pred EXCEPT ![n] = e] EXCEPT ![REQ] = n]
    <3>1. l \in Lists /\ REQ \in Nodes /\ n \in Nodes
      BY <1>3, <1>5, <2>1
    <3> QED BY ONLY <3>1, AddTailLinks
  <2>3. DOMAIN l.succ = Nodes /\ DOMAIN l.pred = Nodes
    BY <1>5 DEF Lists
  <2> HIDE DEF e, m
  <2> SUFFICES ASSUME NEW x \in S \cup D \cup {SENT}
               PROVE  m.succ[x] = l.succ[x] /\ m.pred[x] = l.pred[x]
    OBVIOUS
  <2>4. x \in Nodes /\ x # e /\ x # n /\ x # REQ
    BY <1>3, <1>4, <1>7, <2>1
  <2> QED BY <2>2, <2>3, <2>4
<1> HIDE DEF m
<1>9. Shape(m, S, D, L, Due, Ordered)
  BY <1>1, <1>8, ShapeElsewhere
<1>10. Links(l, SENT, S) => Links(m, SENT, S)
  BY <1>8 DEF Links
<1>11. ListsOK(t)
  BY <1>1, <1>2, <1>6, <1>9, <1>10 DEF ListsOK, Listed
<1>12. Settled(t)
  BY <1>2, <1>6 DEF Settled, L, S, D
<1> QED BY <1>11, <1>12 DEF t

LEMMA EnqueuesInOrder ==
    ASSUME NEW s \in Queues, FreeIds(s) # {}, NEW r \in Request, r.st = "queued",
           ListsOK(s), Settled(s)
    PROVE  ListsOK(Enqueue(s, r)) /\ Settled(Enqueue(s, r))
<1> DEFINE a == Added(s, r)
           t == Enqueue(s, r)
<1>1. ListsOK(a) /\ Settled(a)
  BY AddsAside
<1>2. a \in Queues /\ a.writer = s.writer
  BY AddedIs
<1>3. t = IF s.ready THEN FS_SendReq(a) ELSE a
  BY DEF Enqueue, Added
<1> HIDE DEF a, t
<1>4. CASE s.ready
  <2>1. a.writer = 0
    BY <1>2, <1>4 DEF Settled
  <2>2. ListsOK(FS_SendReq(a)) /\ Settled(FS_SendReq(a))
    BY <1>1, <1>2, <2>1, SendsInOrder
  <2> QED BY <1>3, <1>4, <2>2 DEF t
<1>5. CASE ~ s.ready
  BY <1>1, <1>3, <1>5 DEF t
<1> QED BY <1>4, <1>5

LEMMA AllInOrder ==
    ASSUME NEW s \in Queues, ListsOK(s), Settled(s),
           NEW n \in Nat, NEW rs, DOMAIN rs = 1..n,
           \A j \in 1..n : rs[j] \in Request /\ rs[j].st = "queued",
           n <= Cardinality(FreeIds(s))
    PROVE  ListsOK(EnqueuesAll(s, rs)) /\ Settled(EnqueuesAll(s, rs))
<1>1. PICK f : /\ f[0] = s
               /\ \A k \in 1..n : f[k] = Enqueue(f[k - 1], rs[k])
               /\ EnqueuesAll(s, rs) = f[n]
  <2>1. n \in Nat /\ DOMAIN rs = 1..n
    OBVIOUS
  <2>2. \E f : FoldsBy(f, n, s, rs)
    BY <2>1, FoldsLeft, Zenon
  <2> QED BY <2>2 DEF FoldsBy
<1> DEFINE c == Cardinality(DOMAIN s.reqs)
           Fits(t, k) == /\ t \in Queues /\ ListsOK(t) /\ Settled(t)
                         /\ Cardinality(DOMAIN t.reqs) = c + k
           K == {k \in Nat : k <= n => Fits(f[k], k)}
<1>2. c \in Nat /\ n <= MaxReqs - c /\ MaxReqs \in Nat
  BY NumbersLeft, ApbFsAssumption
<1> HIDE DEF c
<1>3. 0 \in K
  <2>1. Cardinality(DOMAIN s.reqs) = c + 0
    BY <1>2 DEF c
  <2> QED BY <1>1, <2>1
<1>4. ASSUME NEW k \in Nat, k \in K
      PROVE  k + 1 \in K
  <2> SUFFICES ASSUME k + 1 <= n
               PROVE  Fits(f[k + 1], k + 1)
    OBVIOUS
  <2>1. PICK u : u = f[k]
    OBVIOUS
  <2>2. PICK r \in Request : r = rs[k + 1] /\ r.st = "queued"
    OBVIOUS
  <2>3. u \in Queues /\ ListsOK(u) /\ Settled(u) /\ Cardinality(DOMAIN u.reqs) = c + k
    BY <1>4, <2>1
  <2>4. f[k + 1] = Enqueue(u, r)
    <3>1. k + 1 \in 1..n /\ (k + 1) - 1 = k
      OBVIOUS
    <3> QED BY <1>1, <2>1, <2>2, <3>1
  <2>5. PICK t : t = Enqueue(u, r)
    OBVIOUS
  <2>6. FreeIds(u) # {}
    <3>1. Cardinality(FreeIds(u)) = MaxReqs - Cardinality(DOMAIN u.reqs)
      BY <2>3, NumbersLeft
    <3>2. Cardinality(FreeIds(u)) # 0
      BY <1>2, <2>3, <3>1
    <3> QED BY <3>2, FS_EmptySet
  <2>7. ListsOK(t) /\ Settled(t)
    BY <2>2, <2>3, <2>5, <2>6, EnqueuesInOrder
  <2>8. t \in Queues /\ \E i, x \in Ids \cup {0} : EnqueuedAt(u, t, r, i, x)
    <3>1. u.ready => Links(u.links, REQ, Queued(u))
      BY <2>3 DEF ListsOK, Listed
    <3> QED BY <2>2, <2>3, <2>5, <2>6, <3>1, EnqueueIs
  <2>9. Cardinality(DOMAIN t.reqs) = c + (k + 1)
    <3>1. PICK i : i \notin DOMAIN u.reqs /\ DOMAIN t.reqs = DOMAIN u.reqs \cup {i}
      BY <2>8 DEF EnqueuedAt
    <3>2. IsFiniteSet(DOMAIN u.reqs)
      BY <2>3, NumbersLeft
    <3>3. Cardinality(DOMAIN t.reqs) = Cardinality(DOMAIN u.reqs) + 1
      BY <3>1, <3>2, FS_AddElement
    <3> QED BY <1>2, <2>3, <3>3
  <2> QED BY <2>4, <2>5, <2>7, <2>8, <2>9
<1> HIDE DEF K
<1>5. n \in K
  BY <1>3, <1>4, AllOf
<1> QED BY <1>1, <1>5 DEF K

LEMMA OrphansAside ==
    ASSUME NEW s \in Queues, NEW p, NEW L, NEW U, NEW B, Listed(s, L, U, B)
    PROVE  Listed(Orphaned(s, p), L, U, B)
<1>1. PICK t : t = Orphaned(s, p)
  OBVIOUS
<1>2. /\ t.links = s.links /\ t.again = s.again /\ DOMAIN t.reqs = DOMAIN s.reqs
      /\ \A i \in DOMAIN s.reqs : t.reqs[i].st = s.reqs[i].st
  <2>1. /\ t.links = s.links /\ t.again = s.again /\ DOMAIN t.reqs = DOMAIN s.reqs
        /\ \A i \in DOMAIN s.reqs : t.reqs[i] = OrphanOf(s.reqs[i], p)
    BY <1>1, OrphanedIs
  <2>2. \A i \in DOMAIN s.reqs : s.reqs[i] \in Request
    BY QueueFields
  <2> QED BY <2>1, <2>2, OrphanOfIs
<1>3. Queued(t) = Queued(s) /\ SentOf(t) = SentOf(s) /\ DoneOf(t) = DoneOf(s)
  BY <1>2 DEF Queued, SentOf, DoneOf
<1> QED BY <1>1, <1>2, <1>3 DEF Listed

LEMMA FreesAside ==
    ASSUME NEW s \in Queues, NEW n \in DoneOf(s), NEW L, NEW U, NEW B, Listed(s, L, U, B)
    PROVE  Listed(FreeRequest(s, n), L, U, B)
<1> DEFINE Q == Queued(s)
           S == SentOf(s)
           D == DoneOf(s)
<1>1. PICK t : t = FreeRequest(s, n)
  OBVIOUS
<1>2. n \in DOMAIN s.reqs /\ s.reqs[n].st = "done" /\ n \in Nodes
  BY NodesAre, QueueFields DEF DoneOf
<1>3. /\ t.again = s.again
      /\ \A x \in Nodes \ {n} :
            t.links.succ[x] = s.links.succ[x] /\ t.links.pred[x] = s.links.pred[x]
      /\ DOMAIN t.reqs = DOMAIN s.reqs \ {n}
      /\ \A i \in DOMAIN s.reqs \ {n} : t.reqs[i] = s.reqs[i]
  BY <1>1, <1>2, FreeRequestIs
<1>4. Queued(t) = Q /\ SentOf(t) = S /\ DoneOf(t) = D \ {n}
  BY <1>2, <1>3 DEF Queued, SentOf, DoneOf
<1>5. \A x \in Q \cup S \cup (D \ {n}) \cup {REQ, SENT} : x \in Nodes \ {n}
  BY Partition, NodesAre
<1>6. /\ Links(s.links, REQ, Q) /\ Shape(s.links, S, D, L, U, B)
      /\ s.again \/ Links(s.links, SENT, S)
  BY DEF Listed
<1> HIDE DEF Q, S, D
<1>7. Links(t.links, REQ, Q)
  <2>1. \A x \in Q \cup {REQ} : s.links.succ[x] \in Q \cup {REQ} /\ s.links.pred[s.links.succ[x]] = x
    BY <1>6 DEF Links
  <2> QED BY <1>3, <1>5, <2>1 DEF Links
<1>8. Links(s.links, SENT, S) => Links(t.links, SENT, S)
  <2> SUFFICES ASSUME Links(s.links, SENT, S)
               PROVE  Links(t.links, SENT, S)
    OBVIOUS
  <2>1. \A x \in S \cup {SENT} : s.links.succ[x] \in S \cup {SENT} /\ s.links.pred[s.links.succ[x]] = x
    BY DEF Links
  <2> QED BY <1>3, <1>5, <2>1 DEF Links
<1>9. Shape(t.links, S, D \ {n}, L, U, B)
  <2>1. \A x \in S \cup (D \ {n}) \cup {SENT} :
           t.links.succ[x] = s.links.succ[x] /\ t.links.pred[x] = s.links.pred[x]
    BY <1>3, <1>5
  <2> QED BY <1>6, <2>1, ShapeElsewhere
<1> QED BY <1>1, <1>3, <1>4, <1>6, <1>7, <1>8, <1>9 DEF Listed

LEMMA SettledIs ==
    ASSUME TypeInv, LineInv
    PROVE  Settled(q)
<1>1. q \in Queues /\ WriterInv /\ SentInv /\ RespInv /\ 0 \notin Ids
  BY NodesAre DEF TypeInv, LineInv
<1>2. ASSUME NEW i \in Live(q)
      PROVE  i \in SentOf(q) \cup DoneOf(q)
  <2>1. i \in DOMAIN q.reqs /\ q.reqs[i].st # "queued"
    <3>1. CASE InResponse(i)
      BY <1>1, <3>1 DEF InResponse, RespInv
    <3>2. CASE OnWay(i)
      BY <1>1, <3>2 DEF OnWay, SentInv
    <3>3. CASE q.writer = i
      <4>1. i # 0
        BY <1>1 DEF Live
      <4> QED BY <1>1, <3>3, <4>1 DEF WriterInv
    <3> QED BY <3>1, <3>2, <3>3 DEF Live
  <2>2. i \notin Queued(q)
    BY <2>1 DEF Queued
  <2> QED BY <1>1, <2>1, <2>2, Partition
<1>3. q.ready => q.writer = 0
  BY <1>1 DEF WriterInv
<1> QED BY <1>2, <1>3 DEF Settled

LEMMA ListInvIs ==
    ASSUME NEW s, q' = s, NEW L, L = Live(q)', NEW U, U = Due', NEW B, B = Ordered',
           Listed(s, L, U, B)
    PROVE  ListInv'
BY DEF ListInv, ListsOK, Listed, Queued, SentOf, DoneOf

\* Requests have been enqueued or sent.
LEMMA ListSent ==
    ASSUME NEW s, ListsOK(s), q' = s, UNCHANGED <<piReqs, resp>>
    PROVE  ListInv'
<1>1. PICK L, U, B : L = Live(s) /\ U = Due /\ B = Ordered
  OBVIOUS
<1>2. L = Live(q)'
  BY <1>1 DEF Live, InResponse, OnWay
<1>3. U = Due'
  BY <1>1 DEF Due, InResponse
<1>4. B = Ordered'
  BY <1>1 DEF Ordered, Before, InResponse, OnWay
<1>5. Listed(s, L, U, B)
  BY <1>1 DEF ListsOK
<1> QED BY <1>2, <1>3, <1>4, <1>5, ListInvIs

\* Nothing happens to the requests but on the line.
LEMMA ListMoves ==
    ASSUME TypeInv, ListInv, q'.links = q.links, q'.reqs = q.reqs, q'.again = q.again,
           \A x \in Ids : x \in Live(q)' => x \in Live(q) /\ (x \in Due => x \in Due'),
           \A x, y \in Ids :
              x \in Live(q)' /\ Before(y, x) => Before(y, x)' \/ y \notin Live(q)'
    PROVE  ListInv'
<1>1. PICK L, U, B : L = Live(q) /\ U = Due /\ B = Ordered
  OBVIOUS
<1>2. PICK M, V, C : M = Live(q)' /\ V = Due' /\ C = Ordered'
  OBVIOUS
<1>3. M \subseteq Ids /\ SentOf(q) \subseteq Ids
  BY <1>2, Partition DEF Live, TypeInv
<1>4. M \subseteq L /\ \A x \in M : x \in U => x \in V
  BY <1>1, <1>2, <1>3
<1>5. \A x \in M : \A y \in SentOf(q) : <<y, x>> \in B => <<y, x>> \in C \/ y \notin M
  <2> SUFFICES ASSUME NEW x \in M, NEW y \in SentOf(q), <<y, x>> \in B, y \in M
               PROVE  <<y, x>> \in C
    OBVIOUS
  <2>1. Before(y, x) /\ x \in Ids /\ y \in Ids
    BY <1>1, <1>3 DEF Ordered
  <2>2. Before(y, x)'
    BY <1>2, <2>1
  <2> QED BY <1>2, <2>1, <2>2 DEF Ordered
<1>6. Listed(q, L, U, B)
  BY <1>1 DEF ListInv, ListsOK
<1>7. Listed(q, M, V, C)
  BY <1>4, <1>5, <1>6, ShapeMoves DEF Listed
<1>8. PICK s : s = q'
  OBVIOUS
<1>9. Queued(s) = Queued(q) /\ SentOf(s) = SentOf(q) /\ DoneOf(s) = DoneOf(q)
  BY <1>8 DEF Queued, SentOf, DoneOf
<1>10. Listed(s, M, V, C)
  BY <1>7, <1>8, <1>9 DEF Listed
<1> QED BY <1>2, <1>8, <1>10, ListInvIs

LEMMA ListInvInit == Init => ListInv
<1> SUFFICES ASSUME Init
             PROVE  ListInv
  OBVIOUS
<1>1. /\ q.links.succ = [n \in Nodes |-> n] /\ q.links.pred = [n \in Nodes |-> n]
      /\ q.reqs = <<>> /\ q.writer = 0 /\ resp = NoMsg /\ piReqs = <<>>
  BY DEF Init
<1>2. Queued(q) = {} /\ SentOf(q) = {} /\ DoneOf(q) = {}
  BY <1>1 DEF Queued, SentOf, DoneOf
<1>3. \A x \in {REQ, SENT} : q.links.succ[x] = x /\ q.links.pred[x] = x /\ x \notin Ids
  BY <1>1, NodesAre
<1>4. Live(q) \subseteq Ids
  BY DEF Live
<1> QED BY <1>2, <1>3, <1>4 DEF ListInv, ListsOK, Listed, Links, Shape

\* A message that is no response comes or is handled.
LEMMA ListHeard ==
    ASSUME TypeInv, ListInv, UNCHANGED <<q, piReqs>>, resp.key # "request", resp'.key # "request"
    PROVE  ListInv'
BY ListMoves DEF Live, Due, Before, InResponse, OnWay

\* The request with the server is the last on its way, or lost.
LEMMA ListWritten ==
    ASSUME TypeInv, LineInv, ListInv, WriteDone
    PROVE  ListInv'
<1> DEFINE w == q.writer
           a == Append(piReqs, w)
           e == Len(piReqs) + 1
<1>1. /\ w # 0 /\ q' = [q EXCEPT !.writer = 0]
      /\ piReqs' \in {piReqs, a} /\ resp' = resp
  BY DEF WriteDone
<1>2. piReqs \in Seq(Ids) /\ w \in Ids /\ 0 \notin Ids
  BY <1>1, QueueFields, NodesAre DEF TypeInv, LineOK
<1>3. /\ q'.writer = 0 /\ q'.reqs = q.reqs /\ q'.ready = q.ready /\ q'.links = q.links
      /\ q'.again = q.again
  BY <1>1 DEF TypeInv, Queues
<1>4. /\ e \in DOMAIN a /\ a[e] = w
      /\ \A k \in DOMAIN piReqs : k \in DOMAIN a /\ a[k] = piReqs[k] /\ k < e
      /\ \A k \in DOMAIN a : k \in DOMAIN piReqs \/ k = e
      /\ piReqs # <<>> => a # <<>> /\ Head(a) = Head(piReqs)
  BY <1>2
<1> HIDE DEF a, w, e
<1>5. CASE piReqs' = piReqs
  <2>1. \A x \in Ids : x \in Live(q)' => x \in Live(q) /\ (x \in Due => x \in Due')
    BY <1>1, <1>2, <1>3, <1>5 DEF Live, Due, InResponse, OnWay
  <2>2. \A x, y \in Ids : Before(y, x) => Before(y, x)'
    BY <1>1, <1>5 DEF Before, InResponse, OnWay
  <2> QED BY <1>3, <2>1, <2>2, ListMoves
<1>6. CASE piReqs' = a
  <2>1. \A x : OnWay(x)' => OnWay(x) \/ x = w
    BY <1>4, <1>6 DEF OnWay
  <2>2. \A x : OnWay(x) => OnWay(x)'
    BY <1>4, <1>6 DEF OnWay
  <2>3. \A x : InResponse(x)' <=> InResponse(x)
    BY <1>1 DEF InResponse
  <2>4. \A x \in Ids : x \in Live(q)' => x \in Live(q) /\ (x \in Due => x \in Due')
    <3> SUFFICES ASSUME NEW x \in Ids, x \in Live(q)'
                 PROVE  x \in Live(q) /\ (x \in Due => x \in Due')
      OBVIOUS
    <3>1. x \in Live(q)
      BY <1>2, <1>3, <2>1, <2>3 DEF Live, w
    <3>2. x \in Due => x \in Due'
      BY <1>1, <1>4, <1>6, <2>3 DEF Due
    <3> QED BY <3>1, <3>2
  <2>5. ASSUME NEW x \in Ids, NEW y \in Ids, Before(y, x)
        PROVE  Before(y, x)'
    <3>1. /\ InResponse(y) \/ OnWay(y)
          /\ ~ InResponse(x)
          /\ \A k \in DOMAIN piReqs :
                piReqs[k] = x => InResponse(y) \/ \E j \in DOMAIN piReqs : j < k /\ piReqs[j] = y
      BY <2>5 DEF Before
    <3>2. ASSUME NEW k \in DOMAIN a, a[k] = x, ~ InResponse(y)
          PROVE  \E j \in DOMAIN a : j < k /\ a[j] = y
      <4>1. CASE k \in DOMAIN piReqs
        <5>1. PICK j \in DOMAIN piReqs : j < k /\ piReqs[j] = y
          BY <1>4, <3>1, <3>2, <4>1
        <5> QED BY <1>4, <5>1
      <4>2. CASE k = e
        <5>1. PICK j \in DOMAIN piReqs : piReqs[j] = y
          BY <3>1, <3>2 DEF OnWay
        <5> QED BY <1>4, <4>2, <5>1
      <4> QED BY <1>4, <4>1, <4>2
    <3>3. (InResponse(y) \/ OnWay(y))' /\ ~ InResponse(x)'
      BY <2>2, <2>3, <3>1
    <3>4. \A k \in DOMAIN piReqs' :
             piReqs'[k] = x => InResponse(y)' \/ \E j \in DOMAIN piReqs' : j < k /\ piReqs'[j] = y
      BY <1>6, <2>3, <3>2
    <3> QED BY <3>3, <3>4 DEF Before
  <2> QED BY <1>3, <2>4, <2>5, ListMoves
<1> QED BY <1>1, <1>5, <1>6

\* Of two requests, neither the first on its way, the order stays.
LEMMA OrderLeft ==
    ASSUME TypeInv, piReqs # <<>>, NEW y, NEW x, y # Head(piReqs),
           \A k \in DOMAIN piReqs : piReqs[k] = x => \E j \in DOMAIN piReqs : j < k /\ piReqs[j] = y
    PROVE  \A k \in DOMAIN Tail(piReqs) : Tail(piReqs)[k] = x =>
              \E j \in DOMAIN Tail(piReqs) : j < k /\ Tail(piReqs)[j] = y
<1> DEFINE t == Tail(piReqs)
<1>1. piReqs \in Seq(Ids)
  BY DEF TypeInv, LineOK
<1>2. /\ Head(piReqs) = piReqs[1]
      /\ \A k \in DOMAIN t : k + 1 \in DOMAIN piReqs /\ t[k] = piReqs[k + 1] /\ k \in Nat
      /\ \A k \in DOMAIN piReqs : k = 1 \/ (k - 1 \in DOMAIN t /\ t[k - 1] = piReqs[k])
      /\ \A k \in DOMAIN piReqs : k \in Nat
  BY <1>1, HeadTail
<1> HIDE DEF t
<1>3. ASSUME NEW k \in DOMAIN t, t[k] = x
      PROVE  \E j \in DOMAIN t : j < k /\ t[j] = y
  <2>1. k + 1 \in DOMAIN piReqs /\ piReqs[k + 1] = x /\ k \in Nat
    BY <1>2, <1>3
  <2>2. PICK j \in DOMAIN piReqs : j < k + 1 /\ piReqs[j] = y
    BY <2>1
  <2>3. j # 1 /\ j \in Nat
    BY <1>2, <2>2
  <2>4. j - 1 \in DOMAIN t /\ t[j - 1] = y /\ j - 1 < k
    BY <1>2, <2>1, <2>2, <2>3
  <2> QED BY <2>4
<1> QED BY <1>3 DEF t

LEMMA ListAnswers ==
    ASSUME TypeInv, LineInv, ListInv, PiAnswers
    PROVE  ListInv'
<1> DEFINE n == Head(piReqs)
           t == Tail(piReqs)
<1>1. PICK res \in Results(q.reqs[n]) :
         /\ ReadDone([key |-> "request", req |-> n, res2 |-> res])
         /\ IF q.reqs[n].type = "READ" /\ res = More
            THEN parts' = parts + 1 /\ UNCHANGED piReqs
            ELSE parts' = 0 /\ piReqs' = Tail(piReqs)
  BY DEF PiAnswers
<1>2. /\ piReqs # <<>> /\ q' = q /\ piReqs' \in {piReqs, t}
      /\ resp'.key = "request" /\ resp'.req = n /\ resp.key = "none"
  BY <1>1 DEF PiAnswers, ReadDone, LineInv, RespInv
<1>3. /\ n \in Ids
      /\ \A k \in DOMAIN t : \E j \in DOMAIN piReqs : piReqs[j] = t[k]
      /\ \A i : i # n /\ (\E k \in DOMAIN piReqs : piReqs[k] = i) => \E k \in DOMAIN t : t[k] = i
      /\ \E k \in DOMAIN piReqs : piReqs[k] = n
  BY <1>2, LineShorter
<1>4. 1 \in DOMAIN piReqs /\ piReqs[1] = n /\ \A k \in DOMAIN piReqs : k \in Nat /\ k >= 1
  <2>1. piReqs \in Seq(Ids)
    BY DEF TypeInv, LineOK
  <2> QED BY <1>2, <2>1, HeadTail
<1>5. /\ \A i : InResponse(i)' <=> i = n
      /\ \A i : ~ InResponse(i)
  BY <1>2 DEF InResponse
<1>6. /\ OnWay(n)
      /\ \A i : OnWay(i)' => OnWay(i)
      /\ \A i : i # n /\ OnWay(i) => OnWay(i)'
  BY <1>2, <1>3 DEF OnWay
<1>7. \A x \in Ids : x \in Live(q)' => x \in Live(q) /\ (x \in Due => x \in Due')
  <2> SUFFICES ASSUME NEW x \in Ids, x \in Live(q)'
               PROVE  x \in Live(q) /\ (x \in Due => x \in Due')
    OBVIOUS
  <2>1. x \in Live(q)
    BY <1>2, <1>5, <1>6 DEF Live
  <2>2. x \in Due => x \in Due'
    BY <1>5 DEF Due
  <2> QED BY <2>1, <2>2
<1>8. ASSUME NEW x \in Ids, NEW y \in Ids, Before(y, x)
      PROVE  Before(y, x)'
  <2>1. /\ OnWay(y)
        /\ \A k \in DOMAIN piReqs :
              piReqs[k] = x => \E j \in DOMAIN piReqs : j < k /\ piReqs[j] = y
    BY <1>5, <1>8 DEF Before
  <2>2. x # n
    <3> SUFFICES ASSUME x = n
                 PROVE  FALSE
      OBVIOUS
    <3>1. PICK j \in DOMAIN piReqs : j < 1
      BY <1>4, <2>1
    <3> QED BY <1>4, <3>1
  <2>3. (InResponse(y) \/ OnWay(y))' /\ ~ InResponse(x)'
    BY <1>5, <1>6, <2>1, <2>2
  <2>4. CASE y = n
    <3>1. InResponse(y)'
      BY <1>5, <2>4
    <3> QED BY <2>3, <3>1 DEF Before
  <2>5. CASE y # n
    <3>1. \A k \in DOMAIN t : t[k] = x => \E j \in DOMAIN t : j < k /\ t[j] = y
      BY <1>2, <2>1, <2>5, OrderLeft
    <3> HIDE DEF t
    <3>2. \A k \in DOMAIN piReqs' :
             piReqs'[k] = x => \E j \in DOMAIN piReqs' : j < k /\ piReqs'[j] = y
      BY <1>2, <2>1, <3>1
    <3> QED BY <2>3, <3>2 DEF Before
  <2> QED BY <2>4, <2>5
<1>9. q'.links = q.links /\ q'.reqs = q.reqs /\ q'.again = q.again
  BY <1>2
<1> QED BY <1>7, <1>8, <1>9, ListMoves

\* A request that is not answered stays on fs_SentReqs for good.
LEMMA ListSkips ==
    ASSUME TypeInv, LineInv, ListInv, PiSkipsEnd
    PROVE  ListInv'
<1> DEFINE t == Tail(piReqs)
<1>0. PICK h : h = Head(piReqs)
  OBVIOUS
<1>1. /\ piReqs # <<>> /\ q.reqs[h].type = "END" /\ piReqs' = t
      /\ q' = q /\ resp' = resp
  BY <1>0 DEF PiSkipsEnd, readVars
<1>2. /\ \A k \in DOMAIN t : t[k] # h /\ \E j \in DOMAIN piReqs : piReqs[j] = t[k]
      /\ \A i : i # h /\ (\E k \in DOMAIN piReqs : piReqs[k] = i) => \E k \in DOMAIN t : t[k] = i
      /\ \E k \in DOMAIN piReqs : piReqs[k] = h
      /\ h \in Ids /\ (q.writer # 0 => h # q.writer)
  BY <1>0, <1>1, LineShorter
<1>3. \A i : InResponse(i)' <=> InResponse(i)
  BY <1>1 DEF InResponse
<1>4. ~ InResponse(h)
  BY <1>1, <1>2 DEF InResponse, LineInv, RespInv
<1>5. /\ ~ OnWay(h)'
      /\ \A i : OnWay(i)' => OnWay(i)
      /\ \A i : i # h /\ OnWay(i) => OnWay(i)'
  BY <1>1, <1>2 DEF OnWay
<1>6. h \notin Live(q)'
  <2>1. h # 0
    BY <1>2, NodesAre
  <2> QED BY <1>1, <1>2, <1>3, <1>4, <1>5, <2>1 DEF Live
<1>7. \A x \in Ids : x \in Live(q)' => x \in Live(q) /\ (x \in Due => x \in Due')
  <2> SUFFICES ASSUME NEW x \in Ids, x \in Live(q)'
               PROVE  x \in Live(q) /\ (x \in Due => x \in Due')
    OBVIOUS
  <2>1. x \in Live(q)
    BY <1>1, <1>3, <1>5 DEF Live
  <2>2. x # h
    BY <1>6
  <2>3. x \in Due => x \in Due'
    BY <1>0, <1>3, <2>2 DEF Due
  <2> QED BY <2>1, <2>3
<1>8. ASSUME NEW x \in Ids, NEW y \in Ids, x \in Live(q)', y \in Live(q)', Before(y, x)
      PROVE  Before(y, x)'
  <2>1. y # h
    BY <1>6, <1>8
  <2>2. /\ InResponse(y) \/ OnWay(y)
        /\ ~ InResponse(x)
        /\ \A k \in DOMAIN piReqs :
              piReqs[k] = x => InResponse(y) \/ \E j \in DOMAIN piReqs : j < k /\ piReqs[j] = y
    BY <1>8 DEF Before
  <2>3. (InResponse(y) \/ OnWay(y))' /\ ~ InResponse(x)'
    BY <1>3, <1>5, <2>1, <2>2
  <2>4. CASE InResponse(y)
    <3>1. InResponse(y)'
      BY <1>3, <2>4
    <3> QED BY <2>3, <3>1 DEF Before
  <2>5. CASE ~ InResponse(y)
    <3>1. \A k \in DOMAIN t : t[k] = x => \E j \in DOMAIN t : j < k /\ t[j] = y
      BY <1>0, <1>1, <2>1, <2>2, <2>5, OrderLeft
    <3> HIDE DEF t
    <3> QED BY <1>1, <2>3, <3>1 DEF Before
  <2> QED BY <2>4, <2>5
<1>9. q'.links = q.links /\ q'.reqs = q.reqs /\ q'.again = q.again
  BY <1>1
<1> QED BY <1>7, <1>8, <1>9, ListMoves

\* A response is handled.
LEMMA ListAnswered ==
    ASSUME TypeInv, LineInv, ListInv, Response("request"), q'.writer = q.writer
    PROVE  /\ resp.req \in DOMAIN q.reqs /\ resp.req \in DoneOf(Answered(resp.req))
           /\ \E M, V, C : /\ M = Live(q)' /\ V = Due' /\ C = Ordered'
                           /\ Listed(Answered(resp.req), M, V, C)
<1> DEFINE Q == Queued(q)
           S == SentOf(q)
           D == DoneOf(q)
           L == Live(q)
<1>1. PICK n : n = resp.req
  OBVIOUS
<1>2. PICK M, V, C : M = Live(q)' /\ V = Due' /\ C = Ordered'
  OBVIOUS
<1>3. PICK a : a = Answered(n)
  OBVIOUS
<1>4. PICK l : l = q.links
  OBVIOUS
<1>5. /\ resp.key = "request" /\ resp'.key = "none" /\ piReqs' = piReqs
  BY MessagesAre DEF Response, GetRemoteMsg, lineVars
<1>6. /\ n \in DOMAIN q.reqs /\ n # q.writer /\ q.reqs[n].st # "queued" /\ n \in Ids
      /\ OnWay(n) => piReqs # <<>> /\ Head(piReqs) = n
      /\ q \in Queues /\ l \in Lists
  <2>1. RespInv /\ q \in Queues
    BY DEF LineInv, TypeInv
  <2>2. /\ n \in DOMAIN q.reqs /\ n # q.writer /\ q.reqs[n].st # "queued"
        /\ OnWay(n) => q.reqs[n].type = "READ" /\ resp.res2 = More
        /\ resp.res2 = More =>
              \/ q.reqs[n].type = "READ" /\ piReqs # <<>> /\ Head(piReqs) = n
              \/ q.reqs[n].type = "WRITE" /\ q.reqs[n].left > 0
    BY <1>1, <1>5, <2>1 DEF RespInv, OnWay
  <2> QED BY <1>4, <2>1, <2>2, QueueFields
<1>7. /\ Q \subseteq Ids /\ S \subseteq Ids /\ D \subseteq Ids
      /\ Q \cap S = {} /\ Q \cap D = {} /\ S \cap D = {} /\ L \subseteq Ids
      /\ DOMAIN q.reqs = Q \cup S \cup D
  BY <1>6, Partition
<1>8. /\ a.links = Unlink(l, n) /\ a.again = (q.again \/ q.reqs[n].st = "done")
      /\ DOMAIN a.reqs = DOMAIN q.reqs /\ a.reqs[n].st = "done"
      /\ \A i \in DOMAIN q.reqs : i # n => a.reqs[i] = q.reqs[i]
  <2>1. /\ a.links = Unlink(l, n) /\ a.again = (q.again \/ q.reqs[n].st = "done")
        /\ DOMAIN a.reqs = DOMAIN q.reqs /\ a.reqs[n] = Marked(q.reqs[n], "done")
        /\ \A i \in DOMAIN q.reqs : i # n => a.reqs[i] = q.reqs[i]
    BY <1>3, <1>4, <1>6, AnsweredIs
  <2>2. q.reqs[n] \in Request
    BY <1>6, QueueFields
  <2> QED BY <2>1, <2>2, MarkedIs
<1>9. n \in S \cup D /\ (q.reqs[n].st = "done" <=> n \in D)
  <2>1. n \notin Q
    BY <1>6 DEF Queued
  <2> QED BY <1>6, <1>7, <2>1 DEF DoneOf
<1>10. Queued(a) = Q /\ SentOf(a) = S \ {n} /\ DoneOf(a) = D \cup {n}
  BY <1>6, <1>8 DEF Queued, SentOf, DoneOf
<1>11. \A i : InResponse(i) <=> i = n
  BY <1>1, <1>5 DEF InResponse
<1>12. (\A i : ~ InResponse(i)') /\ (\A i : OnWay(i)' <=> OnWay(i))
  BY <1>5 DEF InResponse, OnWay
<1>13. n \in L /\ M \subseteq L /\ (n \in M => n \in V)
  <2>1. n \in L
    BY <1>6, <1>11 DEF Live
  <2>2. M \subseteq L
    BY <1>2, <1>12 DEF Live
  <2>3. n \in M => n \in V
    <3> SUFFICES ASSUME n \in M
                 PROVE  n \in V
      OBVIOUS
    <3>1. OnWay(n)
      BY <1>2, <1>6, <1>12 DEF Live
    <3>2. n \in Due'
      BY <1>5, <1>6, <3>1 DEF Due
    <3> QED BY <1>2, <3>2
  <2> QED BY <2>1, <2>2, <2>3
<1>14. PICK U, B : U = Due /\ B = Ordered
  OBVIOUS
<1>15. n \in U /\ U \subseteq {n} /\ \A y : <<y, n>> \notin B
  <2>1. U = {n}
    BY <1>5, <1>6, <1>11, <1>14 DEF Due
  <2>2. \A y : <<y, n>> \notin B
    BY <1>11, <1>14 DEF Ordered, Before
  <2> QED BY <2>1, <2>2
<1>16. ASSUME NEW x \in M, NEW y \in S, y # n, <<y, x>> \in B
       PROVE  <<y, x>> \in C
  <2>1. x \in Ids /\ y \in Ids /\ Before(y, x)
    BY <1>7, <1>14, <1>16 DEF Ordered
  <2>2. ~ InResponse(y)
    BY <1>11, <1>16
  <2>3. Before(y, x)'
    BY <1>5, <1>12, <2>1, <2>2 DEF Before
  <2> QED BY <1>2, <2>1, <2>3 DEF Ordered
<1>17. /\ Links(l, REQ, Q) /\ Shape(l, S, D, L, U, B)
       /\ q.again \/ Links(l, SENT, S)
  BY <1>4, <1>14 DEF ListInv, ListsOK, Listed
<1> HIDE DEF Q, S, D, L
<1>18. LET m == Unlink(l, n)
       IN  /\ m \in Lists /\ Links(m, REQ, Q)
           /\ Shape(m, S \ {n}, D \cup {n}, L, U, B)
           /\ Links(l, SENT, S) /\ n \in S => Links(m, SENT, S \ {n})
  BY ONLY <1>6, <1>7, <1>9, <1>13, <1>15, <1>17, ShapeAnswered
<1>19. Listed(a, M, V, C)
  <2>1. /\ M \in SUBSET L /\ \A x \in M : x \in U => x \in V
        /\ \A x \in M : \A y \in S \ {n} : <<y, x>> \in B => <<y, x>> \in C \/ y \notin M
    BY <1>13, <1>15, <1>16
  <2>2. Shape(a.links, S \ {n}, D \cup {n}, M, V, C)
    BY <1>8, <1>18, <2>1, ShapeMoves
  <2>3. a.again \/ Links(a.links, SENT, S \ {n})
    BY <1>8, <1>9, <1>17, <1>18
  <2> QED BY <1>8, <1>10, <1>18, <2>2, <2>3 DEF Listed
<1>20. resp.req \in DOMAIN q.reqs /\ resp.req \in DoneOf(Answered(resp.req))
  BY <1>1, <1>3, <1>6, <1>10
<1> QED BY <1>1, <1>2, <1>3, <1>19, <1>20

LEMMA ListAsked ==
    ASSUME TypeInv, LineInv, ListInv, NEW v \in Vols, NEW p \in Pkts, Ask(p, v)
    PROVE  ListInv'
<1>1. PICK s : s = EnqueuesAll(q, Asked(p))
  OBVIOUS
<1>2. /\ q' = s \/ q' = Orphaned(s, p)
      /\ UNCHANGED <<piReqs, resp>>
  BY <1>1 DEF Ask, GetDosPacket, EnqueuesAll, lineVars, readVars
<1>3. ListsOK(s)
  <2> DEFINE n == IF pkt[p].type = "WRITE" THEN pkt[p].chunks ELSE 1
  <2>1. /\ n \in Nat /\ DOMAIN Asked(p) = 1..n /\ Len(Asked(p)) = n
        /\ \A j \in 1..n : Asked(p)[j] \in Request /\ Asked(p)[j].st = "queued"
    <3>1. pkt \in [Pkts -> Packet] /\ p \in Pkts
      BY DEF TypeInv, PktsOK
    <3> QED BY ONLY <3>1, AskedIs
  <2>2. n <= Cardinality(FreeIds(q))
    BY <2>1 DEF Ask
  <2>3. q \in Queues /\ ListsOK(q) /\ Settled(q)
    BY SettledIs DEF TypeInv, ListInv
  <2> HIDE DEF n
  <2>4. PICK rs : rs = Asked(p)
    OBVIOUS
  <2>5. /\ DOMAIN rs = 1..n /\ n \in Nat /\ n <= Cardinality(FreeIds(q))
        /\ \A j \in 1..n : rs[j] \in Request /\ rs[j].st = "queued"
    BY <2>1, <2>2, <2>4
  <2>6. ListsOK(EnqueuesAll(q, rs))
    BY ONLY <2>3, <2>5, AllInOrder
  <2> QED BY <1>1, <2>4, <2>6
<1>4. s \in Queues
  <2>1. \E m : AskedBy(p, s, m)
    <3>1. q \in Queues /\ pkt \in [Pkts -> Packet] /\ Linked /\ Len(Asked(p)) <= Cardinality(FreeIds(q))
      BY DEF TypeInv, PktsOK, Ask, GetDosPacket
    <3> QED BY <1>1, <3>1, AskIs
  <2> QED BY <2>1 DEF AskedBy
<1>5. ListsOK(Orphaned(s, p))
  <2>1. PICK L, U, B : L = Live(s) /\ U = Due /\ B = Ordered
    OBVIOUS
  <2>2. Listed(Orphaned(s, p), L, U, B)
    BY <1>3, <1>4, <2>1, OrphansAside DEF ListsOK
  <2>3. Live(Orphaned(s, p)) = L
    BY <1>4, <2>1, OrphanedIs DEF Live
  <2> QED BY <2>1, <2>2, <2>3 DEF ListsOK
<1> QED BY <1>2, <1>3, <1>5, ListSent

LEMMA ListSendNext ==
    ASSUME TypeInv, LineInv, ListInv, WriterBack
    PROVE  ListInv'
<1>1. /\ GetRemoteMsg("writer") /\ q' = SendNext /\ UNCHANGED <<piReqs, resp>>
  BY DEF WriterBack, GetRemoteMsg, lineVars
<1>2. q.writer = 0
  BY <1>1, BackTaken
<1>3. PICK s : s = [q EXCEPT !.ready = TRUE]
  OBVIOUS
<1>4. /\ s \in Queues /\ s.links = q.links /\ s.reqs = q.reqs /\ s.writer = 0
      /\ s.again = q.again
  BY <1>2, <1>3 DEF TypeInv, Queues
<1>5. /\ Queued(s) = Queued(q) /\ SentOf(s) = SentOf(q) /\ DoneOf(s) = DoneOf(q)
      /\ Live(s) = Live(q)
  BY <1>2, <1>4 DEF Queued, SentOf, DoneOf, Live
<1>6. ListsOK(s)
  BY <1>4, <1>5 DEF ListInv, ListsOK, Listed
<1>7. Settled(s)
  BY <1>4, <1>5, SettledIs DEF Settled
<1>8. ListsOK(FS_SendReq(s))
  BY <1>4, <1>6, <1>7, SendsInOrder
<1>9. q' = FS_SendReq(s)
  BY <1>1, <1>3 DEF SendNext
<1> QED BY <1>1, <1>8, <1>9, ListSent

LEMMA ListInvNext ==
    ASSUME TypeInv, LineInv, ListInv, [Next]_vars
    PROVE  ListInv'
<1>1. ASSUME UNCHANGED <<q, piReqs, resp>>
      PROVE  ListInv'
  BY <1>1, ListSent DEF ListInv
<1>2. CASE UNCHANGED vars
  BY <1>1, <1>2 DEF vars, lineVars, readVars
<1>3. CASE Wait \/ NoMoreDos \/ NoMoreRemote \/ Break \/ BreakSeen
  <2>1. UNCHANGED lineVars /\ UNCHANGED readVars /\ UNCHANGED q
    BY <1>3 DEF Wait, NoMoreDos, NoMoreRemote, Break, BreakSeen
  <2> QED BY <1>1, <2>1 DEF lineVars, readVars
<1>4. ASSUME NEW v \in Vols, NEW p \in ToSet(port[v]),
             ReplyAtOnce(p, v) \/ ActionCopyDir(p, v) \/ OutOfRequests(p, v)
      PROVE  ListInv'
  <2>1. UNCHANGED lineVars /\ UNCHANGED readVars /\ UNCHANGED q
    BY <1>4 DEF ReplyAtOnce, ActionCopyDir, OutOfRequests, GetDosPacket
  <2> QED BY <1>1, <2>1 DEF lineVars, readVars
<1>5. ASSUME NEW v \in Vols, NEW p \in ToSet(port[v]), Ask(p, v)
      PROVE  ListInv'
  <2>1. GetDosPacket(p, v)
    BY <1>5 DEF Ask
  <2>2. p \in Pkts
    BY <2>1, PortTaken DEF TypeInv
  <2> QED BY <1>5, <2>2, ListAsked
<1>6. CASE WriterBack
  BY <1>6, ListSendNext
<1>7. CASE ReaderError
  BY <1>1, <1>7 DEF ReaderError, GetRemoteMsg, lineVars
<1>8. ASSUME NEW key, key # "request", Response(key), UNCHANGED q
      PROVE  ListInv'
  <2>1. /\ resp.key # "request" /\ resp'.key = "none" /\ UNCHANGED piReqs
    BY <1>8, MessagesAre DEF Response, GetRemoteMsg, lineVars
  <2> QED BY <1>8, <2>1, ListHeard
<1>9. CASE HandleMountVolume \/ HandleUnmountVolume
  BY <1>8, <1>9 DEF HandleMountVolume, HandleUnmountVolume
<1>10. CASE AnsweredTwice \/ AnsweredInPart
  <2>1. Response("request") /\ q' = Answered(resp.req)
    BY <1>10 DEF AnsweredTwice, AnsweredInPart
  <2>2. q'.writer = q.writer
    BY <2>1, PartDoes
  <2>3. \E M, V, C : /\ M = Live(q)' /\ V = Due' /\ C = Ordered'
                     /\ Listed(Answered(resp.req), M, V, C)
    BY <2>1, <2>2, ListAnswered
  <2> QED BY <2>1, <2>3, ListInvIs
<1>11. CASE AnsweredWhole
  <2>1. PICK n, a : n = resp.req /\ a = Answered(n)
    OBVIOUS
  <2>2. PICK p : p = q.reqs[n].pkt
    OBVIOUS
  <2>3. Response("request") /\ q' = FreeRequest(Orphaned(Answered(resp.req), p), resp.req)
    BY <1>11, <2>1, <2>2 DEF AnsweredWhole
  <2>4. q'.writer = q.writer
    BY <2>3, WholeDoes
  <2>5. /\ n \in DOMAIN q.reqs /\ n \in DoneOf(a)
        /\ \E M, V, C : M = Live(q)' /\ V = Due' /\ C = Ordered' /\ Listed(a, M, V, C)
    BY <2>1, <2>3, <2>4, ListAnswered
  <2>6. PICK M, V, C : M = Live(q)' /\ V = Due' /\ C = Ordered' /\ Listed(a, M, V, C)
    BY <2>5
  <2>7. a \in Queues
    BY <2>1, <2>5, AnsweredIs DEF TypeInv
  <2>8. PICK o : o = Orphaned(a, p)
    OBVIOUS
  <2>9. o \in Queues /\ Listed(o, M, V, C) /\ n \in DoneOf(o)
    <3>1. /\ o \in Queues /\ DOMAIN o.reqs = DOMAIN a.reqs
          /\ \A i \in DOMAIN a.reqs : o.reqs[i] = OrphanOf(a.reqs[i], p)
      BY <2>7, <2>8, OrphanedIs
    <3>2. \A i \in DOMAIN a.reqs : a.reqs[i] \in Request
      BY <2>7, QueueFields
    <3>3. n \in DoneOf(o)
      BY <2>5, <3>1, <3>2, OrphanOfIs DEF DoneOf
    <3> QED BY <2>6, <2>7, <2>8, <3>1, <3>3, OrphansAside
  <2>10. Listed(FreeRequest(o, n), M, V, C)
    BY <2>9, FreesAside
  <2>11. q' = FreeRequest(o, n)
    BY <2>1, <2>3, <2>8
  <2> QED BY <2>6, <2>10, <2>11, ListInvIs
<1>12. CASE WriteDone
  BY <1>12, ListWritten
<1>13. CASE PiAnswers
  BY <1>13, ListAnswers
<1>14. CASE PiSkipsEnd
  BY <1>14, ListSkips
<1>15. ASSUME NEW m, m.key # "request", ReadDone(m), UNCHANGED piReqs
       PROVE  ListInv'
  <2>1. resp.key = "none" /\ resp' = m /\ UNCHANGED q
    BY <1>15 DEF ReadDone, LineInv, RespInv
  <2> QED BY <1>15, <2>1, ListHeard
<1>16. ASSUME NEW key \in {"mount", "unmount"}, NEW v \in Vols, PiMounts(key, v)
       PROVE  ListInv'
  <2> DEFINE m == [key |-> key, vol |-> v]
  <2>1. m.key # "request" /\ ReadDone(m) /\ UNCHANGED piReqs
    BY <1>16 DEF PiMounts, lineVars
  <2> QED BY <1>15, <2>1
<1>17. CASE LoseConnection
  <2> DEFINE m == [key |-> "error"]
  <2>1. m.key # "request" /\ ReadDone(m) /\ UNCHANGED piReqs
    BY <1>17 DEF LoseConnection
  <2> QED BY <1>15, <2>1
<1>18. ASSUME NEW type \in Types, NEW v \in ToSet(vols), NEW root \in BOOLEAN,
              NEW chunks \in Chunks \cup {0}, Send(type, v, root, chunks)
       PROVE  ListInv'
  <2>1. UNCHANGED lineVars /\ UNCHANGED readVars /\ UNCHANGED q
    BY <1>18 DEF Send
  <2> QED BY <1>1, <2>1 DEF lineVars, readVars
<1> QED
  BY <1>2, <1>3, <1>4, <1>5, <1>6, <1>7, <1>9, <1>10, <1>11, <1>12, <1>13, <1>14, <1>16, <1>17,
     <1>18 DEF Next, Handler, Environment

-----------------------------------------------------------------------------
(* The theorems.                                                           *)

FsInv == TypeInv /\ LineInv /\ PortInv /\ AnswerInv /\ LockInv /\ ListInv

LEMMA FsInvAlways == Spec => []FsInv
<1>1. Init => FsInv
  BY TypeInvInit, LineInvInit, PortInvInit, AnswerInvInit, LockInvInit, ListInvInit
  DEF FsInv
<1>2. FsInv /\ [Next]_vars => FsInv'
  <2> SUFFICES ASSUME FsInv, [Next]_vars
               PROVE  FsInv'
    OBVIOUS
  <2>1. TypeInv /\ LineInv /\ PortInv /\ AnswerInv /\ LockInv /\ ListInv
    BY DEF FsInv
  <2>2. TypeInv'
    BY <2>1, TypeInvNext
  <2>3. LineInv'
    BY <2>1, LineInvNext
  <2>4. PortInv'
    BY <2>1, PortInvNext
  <2>5. AnswerInv'
    BY <2>1, AnswerInvNext
  <2>6. LockInv'
    BY <2>1, <2>2, LockInvNext
  <2>7. ListInv'
    BY <2>1, ListInvNext
  <2> QED BY <2>2, <2>3, <2>4, <2>5, <2>6, <2>7 DEF FsInv
<1> QED BY <1>1, <1>2, PTL DEF Spec

\* What the handler keeps has the types of its structures; the requests with the
\* writer and with the Pi are in use, and there are never more locks than OT_LOCK
\* allows, nor fewer than none (ApbFs/device.c, request.c, volume.c).
THEOREM TypeCorrect == Spec => []TypeOK
<1>1. FsInv => TypeOK
  <2> SUFFICES ASSUME FsInv
               PROVE  TypeOK
    OBVIOUS
  <2>1. PktsOK /\ LocksOK /\ VolsOK /\ LineOK /\ RunOK /\ q \in Queues /\ LineInv /\ LockInv
    BY DEF FsInv, TypeInv
  <2>2. /\ at \in [Pkts -> {"client", "port", "handler"}] /\ port \in [Vols -> Seq(Pkts)]
        /\ \A p \in Pkts : pkt[p] \in [type : PktTypes, vol : Vols, root : BOOLEAN, chunks : Chunks \cup {0}]
    BY <2>1 DEF PktsOK, Packet
  <2>3. locks \in 0..MaxLocks
    <3>1. Borrowed \in [Vols -> Nat]
      BY <2>1, OutIs DEF Accounts
    <3>2. Sum(Borrowed) \in Nat
      <4>1. (CHOOSE v \in Vols : TRUE) \in Vols
        BY ApbFsAssumption
      <4> QED BY <3>1, <4>1, SumChanges
    <3>3. locks = Sum(Borrowed) /\ locks <= MaxLocks /\ MaxLocks \in Nat
      BY <2>1, ApbFsAssumption DEF LockInv, LocksOK
    <3> QED BY <3>2, <3>3
  <2>4. /\ q.links \in [succ : [Nodes -> Nodes], pred : [Nodes -> Nodes]]
        /\ DOMAIN q.reqs \subseteq Ids /\ {q.ready, q.again} \subseteq BOOLEAN
        /\ \A i \in DOMAIN q.reqs : q.reqs[i] \in Request
    BY <2>1, QueueFields DEF Lists
  <2>5. Range(q.reqs) \subseteq Request
    BY <2>4 DEF Range
  <2>6. q.writer \in DOMAIN q.reqs \cup {0}
    BY <2>1 DEF LineInv, WriterInv
  <2>7. ToSet(piReqs) \subseteq DOMAIN q.reqs
    BY <2>1 DEF LineInv, SentInv, ToSet
  <2>8. /\ own \in [Vols -> [BOOLEAN -> Nat]] /\ leaked \in [Vols -> Nat]
        /\ lockCount \in [Vols -> Int]
    BY <2>1 DEF LocksOK
  <2>9. /\ vols \in Seq(Vols) /\ IsInjective(vols)
        /\ mounted \subseteq ToSet(vols) /\ remounted \subseteq Vols
    BY <2>1 DEF VolsOK
  <2>10. /\ remotePort \in Seq({"reader", "writer"}) /\ reading \in BOOLEAN
         /\ pc \in {"run", "stopped", "wild", "dead"}
         /\ sig \cup got \subseteq Vols \cup {REMOTE, BREAK}
    BY <2>1 DEF LineOK, RunOK
  <2> QED BY <2>2, <2>3, <2>4, <2>5, <2>6, <2>7, <2>8, <2>9, <2>10 DEF TypeOK
<1> QED BY <1>1, FsInvAlways, PTL

\* A packet the handler has taken is always asked for with the Pi, and no response
\* comes for one that has been given back, save for END and WRITE: each packet has
\* one request, a WRITE aside, and the last request of a packet stays expected from
\* FS_EnqueueRequest to FS_ReceiveRemoteMessage (ApbFs/device.c, volume.c).
THEOREM PacketsAnsweredOnce == Spec => []AnsweredOnce
<1>1. FsInv => AnsweredOnce
  <2> SUFFICES ASSUME FsInv
               PROVE  AnsweredOnce
    OBVIOUS
  <2>1. HandledInv /\ OwnerInv /\ DeadInv
    BY DEF FsInv, AnswerInv
  <2>2. ASSUME NEW p \in Pkts, at[p] = "handler"
        PROVE  \/ pkt[p].type = "WRITE" /\ pkt[p].chunks = 0
               \/ \E i \in DOMAIN q.reqs : q.reqs[i].pkt = p /\ ~ q.reqs[i].orphan /\ Expected(i)
    BY <2>1, <2>2 DEF HandledInv, AskedFor
  <2>3. \A i \in DOMAIN q.reqs :
           LET r == q.reqs[i]
           IN  IF r.orphan THEN r.type \in {"END", "WRITE"}
               ELSE at[r.pkt] = "handler" /\ pkt[r.pkt].type = r.type
    BY <2>1 DEF OwnerInv
  <2>4. pc = "dead" /\ Enough => \E i \in DOMAIN q.reqs : q.reqs[i].type \in {"END", "WRITE"}
    BY <2>1 DEF DeadInv
  <2> QED BY <2>2, <2>3, <2>4 DEF AnsweredOnce
<1> QED BY <1>1, FsInvAlways, PTL

\* Every lock object is lent to a program, on its way back in a packet, or one of
\* those FREE_LOCK of a null key and FH_FROM_LOCK leave behind; v_LockCount counts
\* those of its volume, so that FS_CanQuit lets the handler stop only when no
\* program has a lock; neither holds of a volume mounted again (ApbFs/volume.c,
\* device.c).
THEOREM LocksAccounted == Spec => []LocksKept
<1>1. FsInv => LocksKept
  <2> SUFFICES ASSUME FsInv
               PROVE  LocksKept
    OBVIOUS
  <2>1. LocksOK /\ LockInv
    BY DEF FsInv, TypeInv
  <2>2. /\ Borrowed \in [Vols -> Nat]
        /\ \A v \in Vols : /\ Out(v) \in Nat /\ leaked[v] \in Nat
                           /\ Borrowed[v] = Out(v) + leaked[v]
    BY <2>1, OutIs DEF Accounts
  <2>3. /\ locks = Sum(Borrowed)
        /\ \A v \in Vols \ remounted :
              lockCount[v] = Borrowed[v] /\ (pc = "stopped" => Out(v) = 0)
    BY <2>1 DEF LockInv
  <2> HIDE DEF Borrowed
  <2>4. LocksOut = Sum(Borrowed)
    BY <2>2, LocksSum
  <2>5. locks = LocksOut
    BY <2>3, <2>4
  <2>6. \A v \in Vols \ remounted :
           /\ lockCount[v] = Out(v) + leaked[v]
           /\ pc = "stopped" => Out(v) = 0
    BY <2>2, <2>3
  <2>7. LocksKept = /\ locks = LocksOut
                     /\ \A v \in Vols \ remounted :
                           /\ lockCount[v] = Out(v) + leaked[v]
                           /\ pc = "stopped" => Out(v) = 0
    BY DEF LocksKept, LocksOut, FoldSet, MapThenFoldSet
  <2> QED BY <2>5, <2>6, <2>7
<1> QED BY <1>1, FsInvAlways, PTL

\* fs_Reqs always links the requests that wait, and fs_SentReqs those that have been
\* sent, until a READ answered in part is removed from it again; and not even that
\* breaks fs_Reqs (FS_SendReq and FS_ReceiveResponse, ApbFs/device.c).
THEOREM ListsHold == Spec => []ListsIntact
<1>1. FsInv => ListsIntact
  <2> SUFFICES ASSUME FsInv
               PROVE  ListsIntact
    OBVIOUS
  <2>1. /\ Links(q.links, REQ, Queued(q))
        /\ q.again \/ Links(q.links, SENT, SentOf(q))
    BY DEF FsInv, ListInv, ListsOK, Listed
  <2>2. Queued(q) = In("queued") /\ SentOf(q) = In("sent")
    BY DEF Queued, SentOf, In
  <2> QED BY <2>1, <2>2 DEF ListsIntact, Linked
<1> QED BY <1>1, FsInvAlways, PTL

===========================================================================
