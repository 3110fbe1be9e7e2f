---------------------------- MODULE Sorting_proofs ----------------------------
(***************************************************************************)
(* Lemmas about sorting, and the induction over the naturals that they and *)
(* the proofs about the components share.                                  *)
(***************************************************************************)
EXTENDS Sorting, Integers, FiniteSetTheorems, NaturalsInduction, WellFoundedInduction, TLAPS

-----------------------------------------------------------------------------
(***************************************************************************)
(* Induction over the naturals, with sets in place of predicates: the      *)
(* provers cannot instantiate an operator.                                 *)
(***************************************************************************)
LEMMA LeastNumber ==
    ASSUME NEW S \in SUBSET Nat, S # {}
    PROVE  \E m \in S : \A n \in S : m <= n
  <1> DEFINE LessThan == OpToRel(<, Nat)
  <1>1. IsWellFoundedOn(LessThan, Nat)
    BY NatLessThanWellFounded
  <1>2. \A m, n \in Nat : <<m, n>> \in LessThan <=> m < n
    BY Zenon DEF OpToRel
  <1> HIDE DEF LessThan
  <1>3. PICK m \in S : \A n \in S : ~(<<n, m>> \in LessThan)
    BY <1>1, WFMin, Zenon
  <1>4. \A n \in S : ~(n < m)
    BY <1>2, <1>3
  <1> QED
    BY <1>4

LEMMA NatIsInductive ==
    ASSUME NEW S, 0 \in S, \A n \in Nat : n \in S => n + 1 \in S
    PROVE  Nat \subseteq S
  <1> SUFFICES ASSUME Nat \ S # {}
               PROVE  FALSE
    OBVIOUS
  <1>1. PICK m \in Nat \ S : \A n \in Nat \ S : m <= n
    BY LeastNumber
  <1>2. m # 0 /\ m - 1 \in Nat /\ m - 1 \in S
    BY <1>1
  <1> QED
    BY <1>1, <1>2

LEMMA LastNumber ==
    ASSUME NEW n \in Nat, NEW S \in SUBSET (1..n), S # {}
    PROVE  \E m \in S : \A i \in S : i <= m
  <1> DEFINE gaps == {k \in Nat : n - k \in S}
  <1>1. PICK i \in S : TRUE
    OBVIOUS
  <1>2. n - i \in gaps
    BY <1>1
  <1>3. PICK k \in gaps : \A j \in gaps : k <= j
    BY <1>2, LeastNumber
  <1>4. ASSUME NEW j \in S
        PROVE  j <= n - k
    <2>1. n - j \in gaps /\ j \in Int /\ k \in Int
      BY <1>3
    <2> HIDE DEF gaps
    <2>2. k <= n - j
      BY <1>3, <2>1
    <2> QED
      BY <2>1, <2>2
  <1>5. n - k \in S
    BY <1>3
  <1> QED
    BY <1>4, <1>5

LEMMA InductionBetween ==
    ASSUME NEW m \in Nat, NEW n \in Nat, NEW S, m \in S,
           \A i \in m..n : i # m /\ i - 1 \in S => i \in S
    PROVE  m..n \subseteq S
  <1> DEFINE N == {k \in Nat : \A i \in m..n : i <= k => i \in S}
  <1>1. 0 \in N
    <2>1. ASSUME NEW i \in m..n, i <= 0
          PROVE  i = m
      BY <2>1
    <2> QED
      BY <2>1
  <1>2. ASSUME NEW k \in Nat, k \in N
        PROVE  k + 1 \in N
    <2>1. ASSUME NEW i \in m..n, i <= k + 1, i # m
          PROVE  i \in S
      <3>1. i - 1 \in m..n /\ i - 1 <= k
        BY <2>1
      <3> QED
        BY <1>2, <2>1, <3>1
    <2> QED
      BY <2>1
  <1> HIDE DEF N
  <1>3. n \in N
    BY <1>1, <1>2, NatIsInductive
  <1> QED
    BY <1>3 DEF N

-----------------------------------------------------------------------------
(***************************************************************************)
(* Sorting.  What is in order by a strict total order of its places comes  *)
(* out in that order, each item once.                                      *)
(***************************************************************************)
Orders(before, D) ==
    /\ \A i \in D : <<i, i>> \notin before
    /\ \A i, j \in D : i = j \/ <<i, j>> \in before \/ <<j, i>> \in before
    /\ \A i, j, k \in D : <<i, j>> \in before /\ <<j, k>> \in before => <<i, k>> \in before

Below(before, D, i) == {j \in D : <<j, i>> \in before}

LEMMA LaterHasMoreBelow ==
    ASSUME NEW D, IsFiniteSet(D), NEW before, Orders(before, D),
           NEW i \in D, NEW j \in D, <<i, j>> \in before
    PROVE  /\ Cardinality(Below(before, D, i)) \in Nat
           /\ Cardinality(Below(before, D, j)) \in Nat
           /\ Cardinality(Below(before, D, i)) < Cardinality(Below(before, D, j))
  <1> DEFINE L == Below(before, D, i)
             U == Below(before, D, j)
  <1>1. L \in SUBSET U /\ U \in SUBSET D
    BY DEF Orders, Below
  <1>2. i \in U /\ i \notin L
    BY DEF Orders, Below
  <1> HIDE DEF L, U
  <1>3. IsFiniteSet(U)
    BY <1>1, FS_Subset
  <1>4. IsFiniteSet(L) /\ Cardinality(L) <= Cardinality(U) /\ Cardinality(L) # Cardinality(U)
    BY <1>1, <1>2, <1>3, FS_Subset
  <1>5. Cardinality(L) \in Nat /\ Cardinality(U) \in Nat
    BY <1>3, <1>4, FS_CardinalityType
  <1> QED
    BY <1>4, <1>5 DEF L, U

LEMMA RanksAreBijective ==
    ASSUME NEW D, IsFiniteSet(D), NEW before, Orders(before, D),
           NEW rank, rank = [i \in D |-> 1 + Cardinality(Below(before, D, i))]
    PROVE  /\ Cardinality(D) \in Nat
           /\ rank \in [D -> 1..Cardinality(D)]
           /\ \A i, j \in D : rank[i] < rank[j] <=> <<i, j>> \in before
           /\ \A k \in 1..Cardinality(D) : \E i \in D : rank[i] = k
  <1> DEFINE n == Cardinality(D)
  <1>1. n \in Nat
    BY FS_CardinalityType
  <1>2. ASSUME NEW i \in D
        PROVE  rank[i] \in 1..n
    <2> DEFINE L == Below(before, D, i)
    <2>1. L \in SUBSET D /\ i \notin L
      BY DEF Below, Orders
    <2> HIDE DEF L
    <2>2. IsFiniteSet(L) /\ Cardinality(L) <= n /\ Cardinality(L) # n
      BY <2>1, FS_Subset
    <2>3. Cardinality(L) \in Nat
      BY <2>2, FS_CardinalityType
    <2>4. rank[i] = 1 + Cardinality(L)
      BY DEF L
    <2> HIDE DEF n
    <2> QED
      BY <1>1, <2>2, <2>3, <2>4
  <1>3. ASSUME NEW i \in D, NEW j \in D, <<i, j>> \in before
        PROVE  rank[i] < rank[j]
    BY <1>3, LaterHasMoreBelow
  <1>4. \A i \in D : rank[i] \in Nat
    BY <1>2
  <1>5. ASSUME NEW i \in D, NEW j \in D, rank[i] < rank[j]
        PROVE  <<i, j>> \in before
    <2>1. i # j /\ ~(rank[j] < rank[i])
      BY <1>4, <1>5
    <2> QED
      BY <1>3, <2>1 DEF Orders
  <1>6. rank \in [D -> 1..n]
    BY <1>2
  <1>7. \A i, j \in D : rank[i] = rank[j] => i = j
    <2> SUFFICES ASSUME NEW i \in D, NEW j \in D, rank[i] = rank[j], i # j
                 PROVE  FALSE
      OBVIOUS
    <2>1. rank[i] < rank[j] \/ rank[j] < rank[i]
      BY <1>3 DEF Orders
    <2> QED
      BY <1>4, <2>1
  <1>8. rank \in Injection(D, 1..n)
    BY <1>6, <1>7 DEF Injection, IsInjective
  <1>9. IsFiniteSet(1..n) /\ Cardinality(1..n) = n
    BY <1>1, FS_Interval
  <1> HIDE DEF n
  <1>10. rank \in Surjection(D, 1..n)
    BY <1>8, <1>9, FS_Injection DEF n
  <1>11. \A k \in 1..n : \E i \in D : rank[i] = k
    BY <1>10 DEF Surjection
  <1> QED
    BY <1>1, <1>3, <1>5, <1>6, <1>11 DEF n

\* at are the places in that order.
Sorts(at, before, D) ==
    /\ at \in [1..Cardinality(D) -> D]
    /\ \A i \in D : \E k \in 1..Cardinality(D) : at[k] = i
    /\ \A k, l \in 1..Cardinality(D) : k < l <=> <<at[k], at[l]>> \in before

Arranges(s, items, before) ==
    /\ Cardinality(DOMAIN items) \in Nat
    /\ \E at : /\ Sorts(at, before, DOMAIN items)
               /\ s = [k \in 1..Cardinality(DOMAIN items) |-> items[at[k]]]

LEMMA InOrderIsInOrder ==
    ASSUME NEW items, IsFiniteSet(DOMAIN items), NEW before, Orders(before, DOMAIN items)
    PROVE  Arranges(InOrder(items, before), items, before)
  <1> DEFINE D == DOMAIN items
             n == Cardinality(D)
             rank == [i \in D |-> 1 + Cardinality({j \in D : <<j, i>> \in before})]
             at == [k \in 1..n |-> CHOOSE i \in D : rank[i] = k]
  <1>1. rank = [i \in D |-> 1 + Cardinality(Below(before, D, i))]
    BY DEF Below
  <1>2. InOrder(items, before) = [k \in 1..n |-> items[at[k]]]
    BY DEF InOrder
  <1> HIDE DEF rank, D
  <1>3. /\ n \in Nat
        /\ rank \in [D -> 1..n]
        /\ \A i, j \in D : rank[i] < rank[j] <=> <<i, j>> \in before
        /\ \A k \in 1..n : \E i \in D : rank[i] = k
    <2>1. IsFiniteSet(D) /\ Orders(before, D)
      BY DEF D
    <2> QED
      BY <1>1, <2>1, RanksAreBijective
  <1>4. \A k \in 1..n : at[k] \in D /\ rank[at[k]] = k
    BY <1>3
  <1>5. \A i \in D : \E k \in 1..n : at[k] = i
    <2> TAKE i \in D
    <2>1. rank[i] \in 1..n
      BY <1>3
    <2>2. at[rank[i]] \in D /\ rank[at[rank[i]]] = rank[i]
      BY <1>4, <2>1
    <2>3. <<i, at[rank[i]]>> \notin before /\ <<at[rank[i]], i>> \notin before
      BY <1>3, <2>1, <2>2
    <2>4. at[rank[i]] = i
      BY <2>2, <2>3 DEF Orders, D
    <2> QED
      BY <2>1, <2>4
  <1>6. Sorts(at, before, D)
    BY <1>3, <1>4, <1>5 DEF Sorts
  <1> QED
    BY <1>2, <1>3, <1>6 DEF D, Arranges

\* A key that orders its items, but for some that are equal, breaks ties by place.
LEMMA StableOrders ==
    ASSUME NEW D \in SUBSET Nat, NEW lesser,
           \A i, j \in D : <<i, j>> \in lesser => <<j, i>> \notin lesser,
           \A i, j, k \in D : <<i, k>> \in lesser =>
                               <<i, j>> \in lesser \/ <<j, k>> \in lesser
    PROVE  Orders(Stable(D, lesser), D)
  <1> DEFINE before == Stable(D, lesser)
  <1>1. \A i, j \in D : <<i, j>> \in before <=>
           IF i < j THEN <<j, i>> \notin lesser ELSE <<i, j>> \in lesser
    BY DEF Stable
  <1> HIDE DEF before
  <1>2. \A i \in D : <<i, i>> \notin before
    BY <1>1
  <1>3. ASSUME NEW i \in D, NEW j \in D, i # j, <<i, j>> \notin before
        PROVE  <<j, i>> \in before
    <2>1. i < j \/ j < i
      BY <1>3
    <2> QED
      BY <1>1, <1>3, <2>1
  <1>4. ASSUME NEW i \in D, NEW j \in D, <<i, j>> \in before
        PROVE  <<j, i>> \notin lesser /\ (i < j \/ <<i, j>> \in lesser)
    BY <1>1, <1>4
  <1>5. ASSUME NEW i \in D, NEW j \in D, NEW k \in D,
               <<i, j>> \in before, <<j, k>> \in before
        PROVE  <<i, k>> \in before
    <2>1. <<j, i>> \notin lesser /\ <<k, j>> \notin lesser /\ <<k, i>> \notin lesser
      BY <1>4, <1>5
    <2>2. CASE i < k
      BY <1>1, <2>1, <2>2
    <2>3. CASE ~(i < k)
      <3>1. ~(i < j) \/ ~(j < k)
        BY <2>3
      <3>2. <<i, j>> \in lesser \/ <<j, k>> \in lesser
        BY <1>4, <1>5, <3>1
      <3>3. <<i, k>> \in lesser
        BY <2>1, <3>2
      <3> QED
        BY <1>1, <2>3, <3>3
    <2> QED
      BY <2>2, <2>3
  <1> QED
    BY <1>2, <1>3, <1>5 DEF before, Orders
=============================================================================
