----------------------------- MODULE Cache_proofs -----------------------------
(***************************************************************************)
(* Proofs about Cache.  The model counts bytes and forgets a prefix with   *)
(* folds, and the abstract cache sums over sets, so the module first says  *)
(* what these compute, by the induction over sets of numbers that it       *)
(* shares with the proofs about sorting.  Then come what becomes of a      *)
(* sequence of entries when it is cut up, what each operation makes of a   *)
(* cache that is in step, and the theorems.                                *)
(***************************************************************************)
EXTENDS Cache, Sorting_proofs, SequenceTheorems

-----------------------------------------------------------------------------
(***************************************************************************)
(* The greatest of some positions.                                         *)
(***************************************************************************)
LEMMA MaxOfNumbers ==
    ASSUME NEW n \in Nat, NEW S \in SUBSET (1..n), S # {}
    PROVE  /\ Max(S) \in S
           /\ \A i \in S : i <= Max(S)
  <1>1. \E m \in S : \A i \in S : m >= i
    BY LastNumber
  <1> QED
    BY <1>1, Zenon DEF Max

LEMMA LargestIsMax ==
    ASSUME NEW n \in Nat, NEW S \in SUBSET (1..n), n \in S
    PROVE  Max(S) = n
  <1>1. Max(S) \in S /\ n <= Max(S)
    BY MaxOfNumbers
  <1>2. Max(S) \in 1..n
    BY <1>1
  <1> QED
    BY <1>1, <1>2

-----------------------------------------------------------------------------
(***************************************************************************)
(* Folds over the positions of a sequence, the last one first.             *)
(***************************************************************************)
SizeAt(s, i) == SizeOf[s[i].content]

\* f[S] is what a fold over the positions in S comes to, for every S up to n.
Folds(step, base, s, n, f) ==
    f = [S \in SUBSET (1..n) |->
            IF S = {} THEN base ELSE step[<<f[S \ {Max(S)}], s[Max(S)]>>]]

LEMMA FoldExists ==
    ASSUME NEW step, NEW base, NEW s
    PROVE  \A n \in Nat : \E f : Folds(step, base, s, n, f)
  <1> DEFINE N == {n \in Nat : \E f : Folds(step, base, s, n, f)}
  <1>1. 0 \in N
    <2>1. Folds(step, base, s, 0, [S \in SUBSET (1..0) |-> base])
      BY DEF Folds
    <2> QED
      BY <2>1
  <1>2. ASSUME NEW n \in Nat, n \in N
        PROVE  n + 1 \in N
    <2>1. PICK f : Folds(step, base, s, n, f)
      BY <1>2
    <2> DEFINE g == [S \in SUBSET (1..(n + 1)) |->
                        IF S \subseteq 1..n THEN f[S]
                        ELSE step[<<f[S \ {n + 1}], s[n + 1]>>]]
    <2>2. ASSUME NEW S \in SUBSET (1..(n + 1))
          PROVE  g[S] = IF S = {} THEN base ELSE step[<<g[S \ {Max(S)}], s[Max(S)]>>]
      <3>1. CASE S = {}
        BY <2>1, <3>1 DEF Folds
      <3>2. CASE S # {} /\ S \subseteq 1..n
        <4>1. S \ {Max(S)} \in SUBSET (1..n) /\ S \ {Max(S)} \in SUBSET (1..(n + 1))
          BY <3>2
        <4>2. f[S] = step[<<f[S \ {Max(S)}], s[Max(S)]>>]
          BY <2>1, <3>2 DEF Folds
        <4>3. g[S] = f[S] /\ g[S \ {Max(S)}] = f[S \ {Max(S)}]
          BY <3>2, <4>1
        <4> QED
          BY <3>2, <4>2, <4>3
      <3>3. CASE ~(S \subseteq 1..n)
        <4>1. n + 1 \in S /\ S # {}
          BY <3>3
        <4>2. Max(S) = n + 1
          <5>1. n + 1 \in Nat /\ S \in SUBSET (1..(n + 1))
            OBVIOUS
          <5> QED
            BY <4>1, <5>1, LargestIsMax
        <4>3. S \ {n + 1} \in SUBSET (1..n) /\ S \ {n + 1} \in SUBSET (1..(n + 1))
          OBVIOUS
        <4>4. g[S] = step[<<f[S \ {n + 1}], s[n + 1]>>] /\ g[S \ {n + 1}] = f[S \ {n + 1}]
          BY <3>3, <4>3
        <4> QED
          BY <4>1, <4>2, <4>4
      <3> QED
        BY <3>1, <3>2, <3>3
    <2> HIDE DEF g
    <2>3. Folds(step, base, s, n + 1, g)
      BY <2>2 DEF Folds, g
    <2> QED
      BY <2>3
  <1> QED
    BY <1>1, <1>2, NatIsInductive

LEMMA FoldStaysIn ==
    ASSUME NEW T, NEW E, NEW step \in [T \X E -> T], NEW base \in T,
           NEW s \in Seq(E), NEW f, Folds(step, base, s, Len(s), f)
    PROVE  \A S \in SUBSET (1..Len(s)) : f[S] \in T
  <1> DEFINE N == {k \in Nat : \A S \in SUBSET (1..Len(s)) : S \subseteq 1..k => f[S] \in T}
  <1>0. Len(s) \in Nat /\ \A i \in 1..Len(s) : s[i] \in E
    OBVIOUS
  <1>1. \A S \in SUBSET (1..Len(s)) :
           f[S] = IF S = {} THEN base ELSE step[<<f[S \ {Max(S)}], s[Max(S)]>>]
    BY DEF Folds
  <1>2. 0 \in N
    <2>1. f[{}] = base
      BY <1>1
    <2>2. \A S : S \subseteq 1..0 => S = {}
      OBVIOUS
    <2> QED
      BY <2>1, <2>2
  <1>3. ASSUME NEW k \in Nat, k \in N
        PROVE  k + 1 \in N
    <2>1. ASSUME NEW S \in SUBSET (1..Len(s)), S \subseteq 1..(k + 1), S # {}
          PROVE  f[S] \in T
      <3>1. Max(S) \in S /\ \A i \in S : i <= Max(S)
        BY <1>0, <2>1, MaxOfNumbers
      <3>2. S \ {Max(S)} \subseteq 1..k
        <4> SUFFICES ASSUME NEW i \in S, i # Max(S)
                     PROVE  i \in 1..k
          OBVIOUS
        <4>1. i \in 1..(k + 1) /\ Max(S) \in 1..(k + 1) /\ i <= Max(S)
          BY <2>1, <3>1
        <4> QED
          BY <4>1
      <3>3. f[S \ {Max(S)}] \in T
        BY <1>3, <3>2
      <3>4. s[Max(S)] \in E
        BY <1>0, <3>1
      <3> HIDE DEF N
      <3>5. step[<<f[S \ {Max(S)}], s[Max(S)]>>] \in T
        BY <3>3, <3>4
      <3> QED
        BY <1>1, <2>1, <3>5
    <2>2. f[{}] \in T
      BY <1>1
    <2>3. \A S \in SUBSET (1..Len(s)) : S \subseteq 1..(k + 1) => f[S] \in T
      BY <2>1, <2>2
    <2> QED
      BY <2>3
  <1> HIDE DEF N
  <1>4. Len(s) \in N
    BY <1>0, <1>2, <1>3, NatIsInductive
  <1> QED
    BY <1>4 DEF N

-----------------------------------------------------------------------------
(***************************************************************************)
(* Bytes is such a fold.                                                   *)
(***************************************************************************)
Entries == {[object |-> m.object, content |-> m.content] : m \in Catalogue}

LEMMA EntrySize ==
    ASSUME NEW e \in Entries
    PROVE  SizeOf[e.content] \in Nat
  BY CacheAssumption DEF Entries

\* The bytes of a sequence are the last of its partial sums.
LEMMA BytesAreSums ==
    ASSUME NEW s \in Seq(Entries)
    PROVE  \E sum : /\ sum \in [0..Len(s) -> Nat]
                    /\ sum[0] = 0
                    /\ \A k \in 1..Len(s) : sum[k] = sum[k - 1] + SizeAt(s, k)
                    /\ Bytes(s) = sum[Len(s)]
  <1> DEFINE Sums(g) == g = [S \in SUBSET (1..Len(s)) |->
                               IF S = {} THEN 0 ELSE g[S \ {Max(S)}] + SizeAt(s, Max(S))]
             add == [x \in Nat \X Entries |-> x[1] + SizeOf[x[2].content]]
             f == CHOOSE g : Sums(g)
             sum == [k \in 0..Len(s) |-> f[1..k]]
  <1>0. Len(s) \in Nat /\ DOMAIN s = 1..Len(s) /\ \A i \in 1..Len(s) : s[i] \in Entries
    OBVIOUS
  <1>1. Bytes(s) = f[1..Len(s)]
    BY <1>0 DEF Bytes, FoldLeft, MapThenFoldSet, SizeAt
  <1>2. add \in [Nat \X Entries -> Nat]
    BY EntrySize
  <1>3. \A a \in Nat, e \in Entries : add[<<a, e>>] = a + SizeOf[e.content]
    OBVIOUS
  <1> HIDE DEF add, Sums
  <1>4. Sums(f)
    <2>1. PICK g : Folds(add, 0, s, Len(s), g)
      BY <1>0, FoldExists
    <2>2. \A S \in SUBSET (1..Len(s)) : g[S] \in Nat
      BY <1>2, <2>1, FoldStaysIn
    <2>3. ASSUME NEW S \in SUBSET (1..Len(s)), S # {}
          PROVE  add[<<g[S \ {Max(S)}], s[Max(S)]>>] = g[S \ {Max(S)}] + SizeAt(s, Max(S))
      <3>1. Max(S) \in 1..Len(s)
        BY <1>0, <2>3, MaxOfNumbers
      <3>2. s[Max(S)] \in Entries /\ g[S \ {Max(S)}] \in Nat
        BY <1>0, <2>2, <3>1
      <3> QED
        BY <1>3, <3>2 DEF SizeAt
    <2>4. Sums(g)
      BY <2>1, <2>3 DEF Sums, Folds
    <2> QED
      BY <2>4
  <1> HIDE DEF f
  <1>5. \A k \in 0..Len(s) : 1..k \in SUBSET (1..Len(s)) /\ sum[k] = f[1..k]
    BY <1>0
  <1>6. \A S \in SUBSET (1..Len(s)) :
           f[S] = IF S = {} THEN 0 ELSE f[S \ {Max(S)}] + SizeAt(s, Max(S))
    BY <1>4 DEF Sums
  <1>7. sum[0] = 0
    <2>1. 1..0 = {} /\ {} \in SUBSET (1..Len(s))
      OBVIOUS
    <2>2. f[{}] = 0
      BY <1>6, <2>1, Zenon
    <2> QED
      BY <1>0, <2>1, <2>2
  <1>8. ASSUME NEW k \in 1..Len(s)
        PROVE  sum[k] = sum[k - 1] + SizeAt(s, k)
    <2>1. /\ k \in Nat /\ k \in 1..k /\ 1..k \in SUBSET (1..Len(s))
          /\ k \in 0..Len(s) /\ k - 1 \in 0..Len(s)
      BY <1>0
    <2>2. (1..k) \ {k} = 1..(k - 1)
      BY <2>1
    <2>3. Max(1..k) = k
      BY <2>1, LargestIsMax
    <2> QED
      BY <1>5, <1>6, <2>1, <2>2, <2>3
  <1>9. sum \in [0..Len(s) -> Nat]
    <2>1. \A k \in 1..Len(s) : SizeAt(s, k) \in Nat
      BY <1>0, EntrySize DEF SizeAt
    <2> DEFINE N == {k \in Nat : k \in 0..Len(s) => sum[k] \in Nat}
    <2>2. 0 \in N
      BY <1>7
    <2>3. ASSUME NEW k \in Nat, k \in N
          PROVE  k + 1 \in N
      <3> SUFFICES ASSUME k + 1 \in 0..Len(s)
                   PROVE  sum[k + 1] \in Nat
        OBVIOUS
      <3>1. k \in 0..Len(s) /\ k + 1 \in 1..Len(s) /\ (k + 1) - 1 = k
        BY <1>0
      <3>2. sum[k + 1] = sum[k] + SizeAt(s, k + 1)
        BY <1>8, <3>1
      <3> QED
        BY <2>1, <2>3, <3>1, <3>2
    <2>4. \A k \in 0..Len(s) : sum[k] \in Nat
      <3> HIDE DEF sum
      <3>1. Nat \subseteq N
        BY <2>2, <2>3, NatIsInductive
      <3> QED
        BY <1>0, <3>1
    <2> QED
      BY <2>4
  <1>10. Bytes(s) = sum[Len(s)]
    BY <1>0, <1>1
  <1> QED
    BY <1>7, <1>8, <1>9, <1>10

LEMMA BytesOfNone == Bytes(<< >>) = 0
  <1>1. << >> \in Seq(Entries) /\ Len(<< >>) = 0
    OBVIOUS
  <1> QED
    BY <1>1, BytesAreSums

LEMMA BytesNatural ==
    ASSUME NEW s \in Seq(Entries)
    PROVE  Bytes(s) \in Nat
  BY BytesAreSums

LEMMA BytesOfConcatenation ==
    ASSUME NEW s \in Seq(Entries), NEW t \in Seq(Entries)
    PROVE  Bytes(s \o t) = Bytes(s) + Bytes(t)
  <1> DEFINE st == s \o t
  <1>0. /\ st \in Seq(Entries) /\ Len(st) = Len(s) + Len(t)
        /\ Len(s) \in Nat /\ Len(t) \in Nat
        /\ \A k \in 1..Len(st) : st[k] = IF k <= Len(s) THEN s[k] ELSE t[k - Len(s)]
    OBVIOUS
  <1> HIDE DEF st
  <1>1. PICK f : /\ f \in [0..Len(s) -> Nat]
                 /\ f[0] = 0
                 /\ \A k \in 1..Len(s) : f[k] = f[k - 1] + SizeAt(s, k)
                 /\ Bytes(s) = f[Len(s)]
    BY BytesAreSums
  <1>2. PICK g : /\ g \in [0..Len(t) -> Nat]
                 /\ g[0] = 0
                 /\ \A k \in 1..Len(t) : g[k] = g[k - 1] + SizeAt(t, k)
                 /\ Bytes(t) = g[Len(t)]
    BY BytesAreSums
  <1>3. PICK h : /\ h \in [0..Len(st) -> Nat]
                 /\ h[0] = 0
                 /\ \A k \in 1..Len(st) : h[k] = h[k - 1] + SizeAt(st, k)
                 /\ Bytes(st) = h[Len(st)]
    BY <1>0, BytesAreSums
  <1>4. \A k \in Nat : k <= Len(s) => h[k] = f[k]
    <2> DEFINE N == {k \in Nat : k <= Len(s) => h[k] = f[k]}
    <2>1. 0 \in N
      BY <1>1, <1>3
    <2>2. ASSUME NEW k \in Nat, k \in N
          PROVE  k + 1 \in N
      <3> SUFFICES ASSUME k + 1 <= Len(s)
                   PROVE  h[k + 1] = f[k + 1]
        OBVIOUS
      <3>1. k + 1 \in 1..Len(s) /\ k + 1 \in 1..Len(st) /\ (k + 1) - 1 = k
        BY <1>0
      <3>2. SizeAt(st, k + 1) = SizeAt(s, k + 1)
        BY <1>0, <3>1 DEF SizeAt
      <3> QED
        BY <1>0, <1>1, <1>3, <2>2, <3>1, <3>2
    <2> QED
      BY <2>1, <2>2, NatIsInductive
  <1>5. \A k \in Nat : k <= Len(t) => h[Len(s) + k] = Bytes(s) + g[k]
    <2> DEFINE N == {k \in Nat : k <= Len(t) => h[Len(s) + k] = Bytes(s) + g[k]}
    <2>1. 0 \in N
      <3>1. h[Len(s)] = f[Len(s)]
        BY <1>0, <1>4
      <3>2. h[Len(s)] = Bytes(s) /\ Bytes(s) \in Nat
        BY <1>1, <3>1, BytesNatural
      <3> QED
        BY <1>0, <1>2, <3>2
    <2>2. ASSUME NEW k \in Nat, k \in N
          PROVE  k + 1 \in N
      <3> SUFFICES ASSUME k + 1 <= Len(t)
                   PROVE  h[Len(s) + (k + 1)] = Bytes(s) + g[k + 1]
        OBVIOUS
      <3> DEFINE i == Len(s) + (k + 1)
      <3>1. /\ k + 1 \in 1..Len(t) /\ i \in 1..Len(st) /\ (k + 1) - 1 = k
            /\ i - 1 = Len(s) + k /\ ~(i <= Len(s)) /\ i - Len(s) = k + 1
        BY <1>0
      <3>2. SizeAt(st, i) = SizeAt(t, k + 1)
        BY <1>0, <3>1 DEF SizeAt
      <3>3. h[i] = h[Len(s) + k] + SizeAt(st, i)
        BY <1>3, <3>1
      <3>4. g[k + 1] = g[k] + SizeAt(t, k + 1)
        BY <1>2, <3>1
      <3>5. h[Len(s) + k] = Bytes(s) + g[k]
        BY <1>0, <2>2
      <3>6. g[k] \in Nat /\ Bytes(s) \in Nat /\ SizeAt(t, k + 1) \in Nat
        <4>1. k \in 0..Len(t) /\ t[k + 1] \in Entries
          BY <1>0, <3>1
        <4> QED
          BY <1>2, <4>1, BytesNatural, EntrySize DEF SizeAt
      <3> QED
        BY <3>2, <3>3, <3>4, <3>5, <3>6
    <2> QED
      BY <2>1, <2>2, NatIsInductive
  <1>6. Bytes(st) = Bytes(s) + Bytes(t)
    BY <1>0, <1>2, <1>3, <1>5
  <1> QED
    BY <1>6 DEF st

LEMMA BytesOfOne ==
    ASSUME NEW e \in Entries
    PROVE  Bytes(<<e>>) = SizeOf[e.content]
  <1>1. <<e>> \in Seq(Entries) /\ Len(<<e>>) = 1 /\ <<e>>[1] = e
    OBVIOUS
  <1>2. PICK f : /\ f[0] = 0
                 /\ \A k \in 1..1 : f[k] = f[k - 1] + SizeAt(<<e>>, k)
                 /\ Bytes(<<e>>) = f[1]
    BY <1>1, BytesAreSums
  <1> QED
    BY <1>1, <1>2, EntrySize DEF SizeAt

-----------------------------------------------------------------------------
(***************************************************************************)
(* What becomes of a sequence of entries, each of another object, when one *)
(* is taken out, the oldest are, or a new one is added.                    *)
(***************************************************************************)
Distinct(s) == \A i, j \in DOMAIN s : s[i].object = s[j].object => i = j

LEMMA KeysAreObjects ==
    ASSUME NEW s \in Seq(Entries)
    PROVE  /\ Keys(s) = {s[i].object : i \in 1..Len(s)}
           /\ Keys(s) \subseteq Objects
           /\ Len(s) \in Nat /\ DOMAIN s = 1..Len(s)
           /\ \A i \in 1..Len(s) : s[i] \in Entries
  <1>1. Keys(s) = {s[i].object : i \in 1..Len(s)}
    BY DEF Keys, ToSet
  <1>2. \A i \in 1..Len(s) : s[i] \in Entries /\ s[i].object \in Objects
    BY CacheAssumption DEF Entries
  <1> QED
    BY <1>1, <1>2

LEMMA TakenOut ==
    ASSUME NEW s \in Seq(Entries), NEW i \in 1..Len(s)
    PROVE  /\ RemoveAt(s, i) \in Seq(Entries)
           /\ Len(RemoveAt(s, i)) = Len(s) - 1
           /\ \A j \in 1..(Len(s) - 1) :
                 RemoveAt(s, i)[j] = IF j < i THEN s[j] ELSE s[j + 1]
           /\ Bytes(RemoveAt(s, i)) = Bytes(s) - SizeAt(s, i)
  <1> DEFINE a == SubSeq(s, 1, i - 1)
             b == SubSeq(s, i + 1, Len(s))
  <1>0. Len(s) \in Nat /\ i \in Nat /\ s[i] \in Entries
    OBVIOUS
  <1>1. /\ a \in Seq(Entries) /\ Len(a) = i - 1
        /\ \A j \in 1..(i - 1) : a[j] = s[j]
    <2>1. \A j \in 1..(i - 1) : s[j] \in Entries
      BY <1>0
    <2> QED
      BY <1>0, <2>1, SubSeqProperties
  <1>2. /\ b \in Seq(Entries) /\ Len(b) = Len(s) - i
        /\ \A j \in 1..(Len(s) - i) : b[j] = s[i + j]
    <2>1. \A j \in (i + 1)..Len(s) : s[j] \in Entries
      BY <1>0
    <2> QED
      BY <1>0, <2>1, SubSeqProperties
  <1> HIDE DEF a, b
  <1>3. /\ a \o b \in Seq(Entries) /\ Len(a \o b) = Len(s) - 1
        /\ \A j \in 1..(Len(s) - 1) : (a \o b)[j] = IF j < i THEN s[j] ELSE s[j + 1]
    <2> DEFINE c == a \o b
    <2>1. /\ c \in Seq(Entries) /\ Len(c) = Len(a) + Len(b)
          /\ \A j \in 1..(Len(a) + Len(b)) :
                c[j] = IF j <= Len(a) THEN a[j] ELSE b[j - Len(a)]
      BY <1>1, <1>2, ConcatProperties
    <2> HIDE DEF c
    <2>2. Len(c) = Len(s) - 1
      BY <1>0, <1>1, <1>2, <2>1
    <2>3. ASSUME NEW j \in 1..(Len(s) - 1)
          PROVE  c[j] = IF j < i THEN s[j] ELSE s[j + 1]
      <3>1. c[j] = IF j <= i - 1 THEN a[j] ELSE b[j - (i - 1)]
        BY <1>0, <1>1, <1>2, <2>1
      <3>2. CASE j < i
        <4>1. j \in 1..(i - 1) /\ j <= i - 1
          BY <1>0, <3>2
        <4> QED
          BY <1>1, <3>1, <3>2, <4>1
      <3>3. CASE ~(j < i)
        <4>1. /\ j - (i - 1) \in 1..(Len(s) - i) /\ ~(j <= i - 1)
              /\ i + (j - (i - 1)) = j + 1
          BY <1>0, <3>3
        <4> QED
          BY <1>2, <3>1, <3>3, <4>1
      <3> QED
        BY <3>2, <3>3
    <2> QED
      BY <2>1, <2>2, <2>3 DEF c
  <1>4. s = a \o (<<s[i]>> \o b)
    <2> DEFINE t == <<s[i]>> \o b
    <2>1. /\ t \in Seq(Entries) /\ Len(t) = Len(s) - i + 1 /\ t[1] = s[i]
          /\ \A j \in 2..(Len(s) - i + 1) : t[j] = b[j - 1]
      <3>1. /\ <<s[i]>> \in Seq(Entries) /\ Len(<<s[i]>>) = 1 /\ <<s[i]>>[1] = s[i]
            /\ b \in Seq(Entries) /\ Len(b) = Len(s) - i
        BY <1>0, <1>2
      <3>2. /\ t \in Seq(Entries) /\ Len(t) = 1 + (Len(s) - i)
            /\ \A j \in 1..(1 + (Len(s) - i)) : t[j] = IF j <= 1 THEN <<s[i]>>[j] ELSE b[j - 1]
        BY <1>0, <3>1
      <3>3. t[1] = s[i]
        <4>1. 1 \in 1..(1 + (Len(s) - i))
          BY <1>0
        <4> QED
          BY <3>1, <3>2, <4>1
      <3>4. \A j \in 2..(Len(s) - i + 1) : t[j] = b[j - 1]
        BY <1>0, <3>2
      <3> QED
        BY <1>0, <3>2, <3>3, <3>4
    <2> HIDE DEF t
    <2>2. /\ a \o t \in Seq(Entries) /\ Len(a \o t) = Len(s)
          /\ \A j \in 1..Len(s) : (a \o t)[j] = IF j < i THEN a[j] ELSE t[j - i + 1]
      BY <1>0, <1>1, <2>1
    <2>3. \A j \in 1..Len(s) : (a \o t)[j] = s[j]
      <3> TAKE j \in 1..Len(s)
      <3>1. CASE j < i
        BY <1>1, <2>2, <3>1
      <3>2. CASE j = i
        BY <1>0, <2>1, <2>2, <3>2
      <3>3. CASE j > i
        <4>1. j - i + 1 \in 2..(Len(s) - i + 1) /\ j - i \in 1..(Len(s) - i)
          BY <1>0, <3>3
        <4>2. t[j - i + 1] = b[(j - i + 1) - 1] /\ b[j - i] = s[i + (j - i)]
          BY <1>2, <2>1, <4>1
        <4>3. (j - i + 1) - 1 = j - i /\ i + (j - i) = j
          BY <1>0
        <4>4. t[j - i + 1] = s[j]
          BY <4>2, <4>3
        <4> QED
          BY <1>0, <2>2, <3>3, <4>4
      <3>4. j < i \/ j = i \/ j > i
        BY <1>0
      <3> QED
        BY <3>1, <3>2, <3>3, <3>4
    <2>4. a \o t = s
      BY <2>2, <2>3, SeqEqual
    <2> QED
      BY <2>4 DEF t
  <1>5. Bytes(s) = Bytes(a) + (SizeAt(s, i) + Bytes(b))
    <2>1. <<s[i]>> \in Seq(Entries) /\ <<s[i]>> \o b \in Seq(Entries)
      BY <1>0, <1>2
    <2>2. Bytes(<<s[i]>> \o b) = SizeAt(s, i) + Bytes(b)
      BY <1>0, <1>2, <2>1, BytesOfConcatenation, BytesOfOne DEF SizeAt
    <2> QED
      BY <1>1, <1>4, <2>1, <2>2, BytesOfConcatenation
  <1>6. Bytes(a \o b) = Bytes(a) + Bytes(b)
    BY <1>1, <1>2, BytesOfConcatenation
  <1>7. Bytes(a \o b) = Bytes(s) - SizeAt(s, i)
    BY <1>0, <1>1, <1>2, <1>5, <1>6, BytesNatural, EntrySize DEF SizeAt
  <1> QED
    BY <1>3, <1>7 DEF RemoveAt, a, b

LEMMA OrderIsByPosition ==
    ASSUME NEW s \in Seq(Entries)
    PROVE  /\ Order(s) \subseteq Keys(s) \X Keys(s)
           /\ \A a, b : <<a, b>> \in Order(s) <=>
                 \E i, j \in 1..Len(s) : i < j /\ s[i].object = a /\ s[j].object = b
  <1>1. DOMAIN s = 1..Len(s) /\ Keys(s) = {s[i].object : i \in 1..Len(s)}
    BY KeysAreObjects
  <1>2. ASSUME NEW ij \in (DOMAIN s) \X (DOMAIN s)
        PROVE  ij = <<ij[1], ij[2]>> /\ ij[1] \in DOMAIN s /\ ij[2] \in DOMAIN s
    OBVIOUS
  <1>3. ASSUME NEW a, NEW b
        PROVE  <<a, b>> \in Order(s) <=>
                 \E i, j \in 1..Len(s) : i < j /\ s[i].object = a /\ s[j].object = b
    <2>1. ASSUME <<a, b>> \in Order(s)
          PROVE  \E i, j \in 1..Len(s) : i < j /\ s[i].object = a /\ s[j].object = b
      <3>1. PICK ij \in (DOMAIN s) \X (DOMAIN s) :
                    ij[1] < ij[2] /\ <<a, b>> = <<s[ij[1]].object, s[ij[2]].object>>
        BY <2>1 DEF Order
      <3> QED
        BY <1>1, <1>2, <3>1
    <2>2. ASSUME NEW i \in 1..Len(s), NEW j \in 1..Len(s),
                 i < j, s[i].object = a, s[j].object = b
          PROVE  <<a, b>> \in Order(s)
      <3>1. /\ <<i, j>> \in (DOMAIN s) \X (DOMAIN s)
            /\ <<i, j>>[1] = i /\ <<i, j>>[2] = j
        BY <1>1
      <3> QED
        BY <2>2, <3>1 DEF Order
    <2> QED
      BY <2>1, <2>2
  <1>4. Order(s) \subseteq Keys(s) \X Keys(s)
    BY <1>1, <1>2 DEF Order
  <1> QED
    BY <1>3, <1>4

\* f says where in s the elements of r are, in the order of s.
Embeds(f, r, s) ==
    /\ f \in [1..Len(r) -> 1..Len(s)]
    /\ \A j \in 1..Len(r) : r[j] = s[f[j]]
    /\ \A j, k \in 1..Len(r) : j < k => f[j] < f[k]

LEMMA Subsequence ==
    ASSUME NEW s \in Seq(Entries), NEW r \in Seq(Entries), Distinct(s),
           NEW f, Embeds(f, r, s)
    PROVE  /\ Distinct(r)
           /\ Keys(r) \subseteq Keys(s)
           /\ ToSet(r) \subseteq ToSet(s)
           /\ Order(r) = Order(s) \cap (Keys(r) \X Keys(r))
  <1>0. /\ DOMAIN r = 1..Len(r) /\ DOMAIN s = 1..Len(s)
        /\ Keys(r) = {r[j].object : j \in 1..Len(r)}
        /\ Keys(s) = {s[j].object : j \in 1..Len(s)}
        /\ Len(r) \in Nat /\ Len(s) \in Nat
    BY KeysAreObjects
  <1>1. \A j, k \in 1..Len(r) : f[j] = f[k] => j = k
    <2> TAKE j, k \in 1..Len(r)
    <2>1. f[j] \in 1..Len(s) /\ f[k] \in 1..Len(s)
      BY DEF Embeds
    <2>2. (j < k => f[j] < f[k]) /\ (k < j => f[k] < f[j])
      BY DEF Embeds
    <2> QED
      BY <1>0, <2>1, <2>2
  <1>2. \A j, k \in 1..Len(r) : r[j].object = r[k].object => j = k
    <2> TAKE j, k \in 1..Len(r)
    <2>1. /\ f[j] \in 1..Len(s) /\ f[k] \in 1..Len(s)
          /\ r[j] = s[f[j]] /\ r[k] = s[f[k]]
      BY DEF Embeds
    <2>2. s[f[j]].object = s[f[k]].object => f[j] = f[k]
      BY <1>0, <2>1 DEF Distinct
    <2> QED
      BY <1>1, <2>1, <2>2
  <1>a. \A a, b : <<a, b>> \in Order(r) <=>
           \E i, j \in 1..Len(r) : i < j /\ r[i].object = a /\ r[j].object = b
    BY OrderIsByPosition
  <1>b. \A a, b : <<a, b>> \in Order(s) <=>
           \E i, j \in 1..Len(s) : i < j /\ s[i].object = a /\ s[j].object = b
    BY OrderIsByPosition
  <1>3. ToSet(r) \subseteq ToSet(s)
    BY <1>0 DEF ToSet, Embeds
  <1>4. Keys(r) \subseteq Keys(s)
    BY <1>3 DEF Keys
  <1>5. ASSUME NEW a, NEW b
        PROVE  <<a, b>> \in Order(r) <=>
                  <<a, b>> \in Order(s) /\ a \in Keys(r) /\ b \in Keys(r)
    <2>1. ASSUME <<a, b>> \in Order(r)
          PROVE  <<a, b>> \in Order(s) /\ a \in Keys(r) /\ b \in Keys(r)
      <3>1. PICK i, j \in 1..Len(r) : i < j /\ r[i].object = a /\ r[j].object = b
        BY <1>a, <2>1
      <3>2. /\ f[i] \in 1..Len(s) /\ f[j] \in 1..Len(s) /\ f[i] < f[j]
            /\ s[f[i]].object = a /\ s[f[j]].object = b
        BY <3>1 DEF Embeds
      <3>3. <<a, b>> \in Order(s)
        BY <1>b, <3>2
      <3> QED
        BY <1>0, <3>1, <3>3
    <2>2. ASSUME <<a, b>> \in Order(s), a \in Keys(r), b \in Keys(r)
          PROVE  <<a, b>> \in Order(r)
      <3>1. PICK k, l \in 1..Len(s) : k < l /\ s[k].object = a /\ s[l].object = b
        BY <1>b, <2>2
      <3>2. PICK i \in 1..Len(r) : r[i].object = a
        BY <1>0, <2>2
      <3>3. PICK j \in 1..Len(r) : r[j].object = b
        BY <1>0, <2>2
      <3>4. f[i] = k /\ f[j] = l
        <4>1. /\ f[i] \in 1..Len(s) /\ f[j] \in 1..Len(s)
              /\ r[i] = s[f[i]] /\ r[j] = s[f[j]]
          BY DEF Embeds
        <4> QED
          BY <1>0, <3>1, <3>2, <3>3, <4>1 DEF Distinct
      <3>5. i < j
        <4>1. j < i => f[j] < f[i]
          BY DEF Embeds
        <4>2. i # j /\ ~(j < i)
          BY <1>0, <3>1, <3>4, <4>1
        <4> QED
          BY <4>2
      <3> QED
        BY <1>a, <3>2, <3>3, <3>5
    <2> QED
      BY <2>1, <2>2
  <1>6. Order(r) = Order(s) \cap (Keys(r) \X Keys(r))
    <2>1. Order(r) \subseteq Keys(r) \X Keys(r) /\ Order(s) \subseteq Keys(s) \X Keys(s)
      BY OrderIsByPosition
    <2>2. ASSUME NEW p
          PROVE  p \in Order(r) <=> p \in Order(s) \cap (Keys(r) \X Keys(r))
      <3>1. CASE p \in Keys(r) \X Keys(r)
        <4>1. PICK a \in Keys(r), b \in Keys(r) : p = <<a, b>>
          BY <3>1
        <4> QED
          BY <1>5, <4>1
      <3>2. CASE p \notin Keys(r) \X Keys(r)
        BY <2>1, <3>2
      <3> QED
        BY <3>1, <3>2
    <2> QED
      BY <2>2
  <1> QED
    BY <1>0, <1>2, <1>3, <1>4, <1>6 DEF Distinct

LEMMA KeysTakenOut ==
    ASSUME NEW s \in Seq(Entries), NEW i \in 1..Len(s), Distinct(s)
    PROVE  /\ Distinct(RemoveAt(s, i))
           /\ Keys(RemoveAt(s, i)) = Keys(s) \ {s[i].object}
           /\ ToSet(RemoveAt(s, i)) \subseteq ToSet(s)
           /\ Order(RemoveAt(s, i)) =
                 Order(s) \cap (Keys(RemoveAt(s, i)) \X Keys(RemoveAt(s, i)))
  <1> DEFINE r == RemoveAt(s, i)
             f == [j \in 1..Len(r) |-> IF j < i THEN j ELSE j + 1]
  <1>0. /\ r \in Seq(Entries) /\ Len(r) = Len(s) - 1
        /\ \A j \in 1..(Len(s) - 1) : r[j] = IF j < i THEN s[j] ELSE s[j + 1]
    BY TakenOut, Zenon
  <1>1. Len(s) \in Nat
    BY KeysAreObjects
  <1> HIDE DEF r
  <1>2. /\ f \in [1..Len(r) -> 1..Len(s)]
        /\ \A j \in 1..Len(r) : f[j] # i
        /\ \A j, k \in 1..Len(r) : j < k => f[j] < f[k]
    BY <1>0, <1>1
  <1>3. \A j \in 1..Len(r) : r[j] = s[f[j]]
    BY <1>0
  <1>4. \A k \in 1..Len(s) : k # i => \E j \in 1..Len(r) : k = f[j]
    <2> TAKE k \in 1..Len(s)
    <2>1. CASE k < i
      <3>1. k \in 1..Len(r) /\ f[k] = k
        BY <1>0, <1>1, <2>1
      <3> QED
        BY <3>1
    <2>2. CASE k > i
      <3>1. k - 1 \in 1..Len(r) /\ f[k - 1] = k
        BY <1>0, <1>1, <2>2
      <3> QED
        BY <3>1
    <2> QED
      BY <2>1, <2>2
  <1> HIDE DEF f
  <1>5. /\ Distinct(r) /\ ToSet(r) \subseteq ToSet(s)
        /\ Order(r) = Order(s) \cap (Keys(r) \X Keys(r))
    BY <1>0, <1>2, <1>3, Subsequence DEF Embeds
  <1>6. Keys(r) = Keys(s) \ {s[i].object}
    <2>1. ASSUME NEW j \in 1..Len(r)
          PROVE  r[j].object \in Keys(s) \ {s[i].object}
      BY <1>2, <1>3, KeysAreObjects DEF Distinct
    <2>2. ASSUME NEW k \in 1..Len(s), s[k].object # s[i].object
          PROVE  s[k].object \in Keys(r)
      <3>1. PICK j \in 1..Len(r) : k = f[j]
        BY <1>4, <2>2
      <3>2. r[j].object = s[k].object
        BY <1>3, <3>1
      <3> QED
        BY <1>0, <3>2, KeysAreObjects
    <2> QED
      BY <1>0, <2>1, <2>2, KeysAreObjects
  <1> QED
    BY <1>5, <1>6 DEF r

LEMMA PartsOfSequence ==
    ASSUME NEW s \in Seq(Entries), NEW k \in 0..Len(s)
    PROVE  LET p == SubSeq(s, 1, k)
               t == SubSeq(s, k + 1, Len(s))
           IN  /\ p \in Seq(Entries) /\ Len(p) = k
               /\ \A j \in 1..k : p[j] = s[j]
               /\ t \in Seq(Entries) /\ Len(t) = Len(s) - k
               /\ \A j \in 1..(Len(s) - k) : t[j] = s[k + j]
               /\ Keys(p) = {s[j].object : j \in 1..k}
               /\ Keys(t) = {s[j].object : j \in (k + 1)..Len(s)}
  <1> DEFINE p == SubSeq(s, 1, k)
             t == SubSeq(s, k + 1, Len(s))
  <1>0. /\ Len(s) \in Nat /\ k \in Nat /\ DOMAIN s = 1..Len(s)
        /\ Keys(s) = {s[j].object : j \in 1..Len(s)}
        /\ \A j \in 1..Len(s) : s[j] \in Entries
    BY KeysAreObjects
  <1>1. /\ p \in Seq(Entries) /\ Len(p) = k
        /\ \A j \in 1..k : p[j] = s[j]
    <2>1. \A j \in 1..k : s[j] \in Entries
      BY <1>0
    <2> QED
      BY <1>0, <2>1, SubSeqProperties
  <1>2. /\ t \in Seq(Entries) /\ Len(t) = Len(s) - k
        /\ \A j \in 1..(Len(s) - k) : t[j] = s[k + j]
    <2>1. \A j \in (k + 1)..Len(s) : s[j] \in Entries
      BY <1>0
    <2>2. /\ t \in Seq(Entries)
          /\ Len(t) = IF k + 1 <= Len(s) THEN Len(s) - (k + 1) + 1 ELSE 0
          /\ \A j \in 1..(Len(s) - (k + 1) + 1) : t[j] = s[(k + 1) + j - 1]
      BY <1>0, <2>1, SubSeqProperties
    <2> HIDE DEF t
    <2>3. \A j \in 1..(Len(s) - k) : j \in 1..(Len(s) - (k + 1) + 1) /\ (k + 1) + j - 1 = k + j
      BY <1>0
    <2>4. Len(t) = Len(s) - k
      <3>1. CASE k + 1 <= Len(s)
        BY <1>0, <2>2, <3>1
      <3>2. CASE ~(k + 1 <= Len(s))
        <4>1. k = Len(s)
          <5>1. Len(s) \in Nat
            BY <1>0
          <5> QED
            BY <3>2, <5>1
        <4> QED
          BY <1>0, <2>2, <3>2, <4>1
      <3> QED
        BY <3>1, <3>2
    <2>5. \A j \in 1..(Len(s) - k) : t[j] = s[k + j]
      BY <2>2, <2>3
    <2> QED
      BY <2>2, <2>4, <2>5
  <1> HIDE DEF p, t
  <1>3. /\ Keys(p) = {s[j].object : j \in 1..k}
        /\ Keys(t) = {s[j].object : j \in (k + 1)..Len(s)}
    <2>1. Keys(p) = {p[j].object : j \in 1..k} /\ Keys(t) = {t[j].object : j \in 1..(Len(s) - k)}
      BY <1>1, <1>2, KeysAreObjects
    <2>2. \A j \in (k + 1)..Len(s) : j - k \in 1..(Len(s) - k) /\ t[j - k] = s[j]
      BY <1>0, <1>2
    <2>3. \A j \in 1..(Len(s) - k) : k + j \in (k + 1)..Len(s) /\ t[j] = s[k + j]
      BY <1>0, <1>2
    <2>4. Keys(p) = {s[j].object : j \in 1..k}
      BY <1>1, <2>1
    <2>5. Keys(t) \subseteq {s[j].object : j \in (k + 1)..Len(s)}
      BY <2>1, <2>3
    <2>6. {s[j].object : j \in (k + 1)..Len(s)} \subseteq Keys(t)
      BY <2>1, <2>2
    <2> QED
      BY <2>4, <2>5, <2>6
  <1> QED
    BY <1>1, <1>2, <1>3 DEF p, t

LEMMA KeysOfParts ==
    ASSUME NEW s \in Seq(Entries), NEW k \in 0..Len(s)
    PROVE  /\ Keys(SubSeq(s, 1, k)) = {s[j].object : j \in 1..k}
           /\ Keys(SubSeq(s, k + 1, Len(s))) = {s[j].object : j \in (k + 1)..Len(s)}
  BY PartsOfSequence

LEMMA OldestTakenOut ==
    ASSUME NEW s \in Seq(Entries), Distinct(s), NEW k \in 0..Len(s)
    PROVE  LET oldest == SubSeq(s, 1, k)
               rest   == SubSeq(s, k + 1, Len(s))
           IN  /\ oldest \in Seq(Entries) /\ rest \in Seq(Entries)
               /\ Bytes(s) = Bytes(oldest) + Bytes(rest)
               /\ Distinct(oldest) /\ Distinct(rest)
               /\ Keys(s) = Keys(oldest) \cup Keys(rest)
               /\ Keys(oldest) \cap Keys(rest) = {}
               /\ ToSet(rest) \subseteq ToSet(s)
               /\ Order(rest) = Order(s) \cap (Keys(rest) \X Keys(rest))
               /\ Keys(oldest) \X Keys(rest) \subseteq Order(s)
  <1> DEFINE p == SubSeq(s, 1, k)
             t == SubSeq(s, k + 1, Len(s))
             f == [j \in 1..Len(p) |-> j]
             g == [j \in 1..Len(t) |-> k + j]
  <1>0. /\ Len(s) \in Nat /\ k \in Nat /\ DOMAIN s = 1..Len(s)
        /\ Keys(s) = {s[j].object : j \in 1..Len(s)}
        /\ \A j \in 1..Len(s) : s[j] \in Entries
    BY KeysAreObjects
  <1>1. /\ p \in Seq(Entries) /\ Len(p) = k
        /\ \A j \in 1..k : p[j] = s[j]
    BY PartsOfSequence
  <1>2. /\ t \in Seq(Entries) /\ Len(t) = Len(s) - k
        /\ \A j \in 1..(Len(s) - k) : t[j] = s[k + j]
    BY PartsOfSequence
  <1> HIDE DEF p, t
  <1>3. /\ Distinct(p) /\ Keys(p) \subseteq Keys(s)
    <2>1. /\ f \in [1..Len(p) -> 1..Len(s)]
          /\ \A j \in 1..Len(p) : p[j] = s[f[j]]
          /\ \A i, j \in 1..Len(p) : i < j => f[i] < f[j]
      BY <1>0, <1>1
    <2> QED
      BY <1>1, <2>1, Subsequence DEF Embeds
  <1>4. /\ Distinct(t) /\ Keys(t) \subseteq Keys(s) /\ ToSet(t) \subseteq ToSet(s)
        /\ Order(t) = Order(s) \cap (Keys(t) \X Keys(t))
    <2>1. g \in [1..Len(t) -> 1..Len(s)]
      BY <1>0, <1>2
    <2>2. \A j \in 1..Len(t) : t[j] = s[g[j]]
      BY <1>2
    <2>3. \A i, j \in 1..Len(t) : i < j => g[i] < g[j]
      BY <1>0, <1>2
    <2> HIDE DEF g
    <2> QED
      BY <1>2, <2>1, <2>2, <2>3, Subsequence DEF Embeds
  <1>5. /\ Keys(p) = {s[j].object : j \in 1..k}
        /\ Keys(t) = {s[j].object : j \in (k + 1)..Len(s)}
    BY KeysOfParts DEF p, t
  <1>6. Keys(s) = Keys(p) \cup Keys(t)
    <2>1. 1..Len(s) = (1..k) \cup ((k + 1)..Len(s))
      BY <1>0
    <2> QED
      BY <1>0, <1>5, <2>1
  <1>7. \A i \in 1..k, j \in (k + 1)..Len(s) :
           i \in 1..Len(s) /\ j \in 1..Len(s) /\ i < j
    BY <1>0
  <1>8. Keys(p) \cap Keys(t) = {}
    <2> SUFFICES ASSUME NEW i \in 1..k, NEW j \in (k + 1)..Len(s),
                        s[i].object = s[j].object
                 PROVE  FALSE
      BY <1>5
    <2> QED
      BY <1>0, <1>7 DEF Distinct
  <1>9. Keys(p) \X Keys(t) \subseteq Order(s)
    <2> SUFFICES ASSUME NEW i \in 1..k, NEW j \in (k + 1)..Len(s)
                 PROVE  <<s[i].object, s[j].object>> \in Order(s)
      BY <1>5
    <2> QED
      BY <1>7, OrderIsByPosition
  <1>10. Bytes(s) = Bytes(p) + Bytes(t)
    <2>0. /\ p \o t \in Seq(Entries) /\ Len(p \o t) = Len(p) + Len(t)
          /\ \A j \in 1..(Len(p) + Len(t)) :
                (p \o t)[j] = IF j <= Len(p) THEN p[j] ELSE t[j - Len(p)]
      BY <1>1, <1>2
    <2>1. /\ p \o t \in Seq(Entries) /\ Len(p \o t) = Len(s)
          /\ \A j \in 1..Len(s) : (p \o t)[j] = IF j <= k THEN p[j] ELSE t[j - k]
      <3>1. Len(p) = k /\ Len(p) + Len(t) = Len(s)
        BY <1>0, <1>1, <1>2
      <3> QED
        BY <2>0, <3>1
    <2>2. \A j \in 1..Len(s) : (p \o t)[j] = s[j]
      <3> TAKE j \in 1..Len(s)
      <3>1. CASE j <= k
        BY <1>0, <1>1, <2>1, <3>1
      <3>2. CASE ~(j <= k)
        <4>1. j - k \in 1..(Len(s) - k) /\ k + (j - k) = j
          BY <1>0, <3>2
        <4> QED
          BY <1>2, <2>1, <3>2, <4>1
      <3> QED
        BY <3>1, <3>2
    <2>3. p \o t = s
      BY <2>1, <2>2, SeqEqual
    <2> QED
      BY <1>1, <1>2, <2>3, BytesOfConcatenation
  <1> QED
    BY <1>1, <1>2, <1>3, <1>4, <1>6, <1>8, <1>9, <1>10 DEF p, t

LEMMA Added ==
    ASSUME NEW s \in Seq(Entries), NEW e \in Entries
    PROVE  /\ Append(s, e) \in Seq(Entries)
           /\ Keys(Append(s, e)) = Keys(s) \cup {e.object}
           /\ ToSet(Append(s, e)) = ToSet(s) \cup {e}
           /\ Bytes(Append(s, e)) = Bytes(s) + SizeOf[e.content]
           /\ Order(Append(s, e)) = Order(s) \cup (Keys(s) \X {e.object})
           /\ Distinct(s) /\ e.object \notin Keys(s) => Distinct(Append(s, e))
  <1> DEFINE t == Append(s, e)
  <1>1. /\ t \in Seq(Entries) /\ Len(t) = Len(s) + 1 /\ t[Len(s) + 1] = e
        /\ \A i \in 1..Len(s) : t[i] = s[i]
        /\ Len(s) \in Nat
    OBVIOUS
  <1>2. Bytes(t) = Bytes(s) + SizeOf[e.content]
    <2>1. t = s \o <<e>> /\ <<e>> \in Seq(Entries)
      BY AppendIsConcat
    <2> QED
      BY <2>1, BytesOfConcatenation, BytesOfOne
  <1> HIDE DEF t
  <1>3. Keys(t) = Keys(s) \cup {e.object}
    <2>1. 1..Len(t) = (1..Len(s)) \cup {Len(s) + 1}
      BY <1>1
    <2> QED
      BY <1>1, <2>1, KeysAreObjects
  <1>4. Distinct(s) /\ e.object \notin Keys(s) => Distinct(t)
    BY <1>1, KeysAreObjects DEF Distinct
  <1>5. ToSet(t) = ToSet(s) \cup {e}
    <2>1. 1..Len(t) = (1..Len(s)) \cup {Len(s) + 1}
      BY <1>1
    <2>2. DOMAIN t = 1..Len(t) /\ DOMAIN s = 1..Len(s)
      BY <1>1
    <2> QED
      BY <1>1, <2>1, <2>2 DEF ToSet
  <1>6. Order(t) = Order(s) \cup (Keys(s) \X {e.object})
    <2>1. /\ Order(t) \subseteq Keys(t) \X Keys(t)
          /\ Order(s) \cup (Keys(s) \X {e.object}) \subseteq Keys(t) \X Keys(t)
      BY <1>1, <1>3, OrderIsByPosition
    <2>a. \A a, b : <<a, b>> \in Order(t) <=>
             \E i, j \in 1..Len(t) : i < j /\ t[i].object = a /\ t[j].object = b
      BY <1>1, OrderIsByPosition
    <2>b. \A a, b : <<a, b>> \in Order(s) <=>
             \E i, j \in 1..Len(s) : i < j /\ s[i].object = a /\ s[j].object = b
      BY OrderIsByPosition
    <2>2. ASSUME NEW a, NEW b
          PROVE  <<a, b>> \in Order(t) <=>
                    <<a, b>> \in Order(s) \/ (a \in Keys(s) /\ b = e.object)
      <3>1. ASSUME <<a, b>> \in Order(t)
            PROVE  <<a, b>> \in Order(s) \/ (a \in Keys(s) /\ b = e.object)
        <4>1. PICK i, j \in 1..Len(t) : i < j /\ t[i].object = a /\ t[j].object = b
          BY <2>a, <3>1
        <4>2. i \in 1..Len(s) /\ (j \in 1..Len(s) \/ j = Len(s) + 1)
          BY <1>1, <4>1
        <4> QED
          BY <1>1, <2>b, <4>1, <4>2, KeysAreObjects
      <3>2. ASSUME <<a, b>> \in Order(s)
            PROVE  <<a, b>> \in Order(t)
        <4>1. PICK i, j \in 1..Len(s) : i < j /\ s[i].object = a /\ s[j].object = b
          BY <2>b, <3>2
        <4>2. i \in 1..Len(t) /\ j \in 1..Len(t) /\ t[i] = s[i] /\ t[j] = s[j]
          BY <1>1
        <4> QED
          BY <2>a, <4>1, <4>2
      <3>3. ASSUME a \in Keys(s), b = e.object
            PROVE  <<a, b>> \in Order(t)
        <4>1. PICK i \in 1..Len(s) : s[i].object = a
          BY <3>3, KeysAreObjects
        <4>2. i \in 1..Len(t) /\ Len(s) + 1 \in 1..Len(t) /\ i < Len(s) + 1 /\ t[i] = s[i]
          BY <1>1
        <4> QED
          BY <1>1, <2>a, <3>3, <4>1, <4>2
      <3> QED
        BY <3>1, <3>2, <3>3
    <2>3. ASSUME NEW p \in Keys(t) \X Keys(t)
          PROVE  p \in Order(t) <=> p \in Order(s) \cup (Keys(s) \X {e.object})
      <3>1. PICK a \in Keys(t), b \in Keys(t) : p = <<a, b>>
        OBVIOUS
      <3> QED
        BY <2>2, <3>1
    <2> QED
      BY <2>1, <2>3
  <1> QED
    BY <1>1, <1>2, <1>3, <1>4, <1>5, <1>6 DEF t

LEMMA FewestEvictions ==
    ASSUME NEW s \in Seq(Entries), NEW used, NEW size
    PROVE  LET k      == Evictions(s, used, size)
               Fits(i) == used - Bytes(SubSeq(s, 1, i)) + size <= Capacity
           IN  /\ k \in 0..Len(s)
               /\ Fits(k) \/ k = Len(s)
               /\ \A i \in 0..Len(s) : i < k => ~Fits(i)
  <1> DEFINE Fits(i) == used - Bytes(SubSeq(s, 1, i)) + size <= Capacity
             enough == {i \in 0..Len(s) : Fits(i) \/ i = Len(s)}
             k == Evictions(s, used, size)
  <1>1. Len(s) \in Nat
    BY KeysAreObjects
  <1> HIDE DEF Fits
  <1>2. enough \in SUBSET Nat /\ Len(s) \in enough
    BY <1>1
  <1>3. PICK i \in enough : \A j \in enough : i <= j
    BY <1>2, LeastNumber
  <1>4. k = Min(enough)
    BY DEF Evictions, Fits
  <1> HIDE DEF enough, k
  <1>5. k \in enough /\ \A j \in enough : k <= j
    BY <1>3, <1>4 DEF Min
  <1>6. k \in 0..Len(s) /\ (Fits(k) \/ k = Len(s))
    BY <1>5 DEF enough
  <1>7. \A j \in 0..Len(s) : j < k => ~Fits(j)
    <2> SUFFICES ASSUME NEW j \in 0..Len(s), j < k, Fits(j)
                 PROVE  FALSE
      OBVIOUS
    <2>1. k <= j
      BY <1>5 DEF enough
    <2> QED
      BY <1>1, <1>6, <2>1
  <1> QED
    BY <1>6, <1>7 DEF Fits, k

-----------------------------------------------------------------------------
(***************************************************************************)
(* The inductive invariant: the caches whose two dictionaries and count    *)
(* are in step.  Each operation is a step from one of them to another, and *)
(* what it does is said in terms of the metadata and of the order of use.  *)
(***************************************************************************)
Stores == UNION {[D -> Catalogue] : D \in SUBSET Objects}

Matches(c) ==
    /\ Distinct(c.storage)
    /\ DOMAIN c.metadata = Stored(c)
    /\ \A e \in ToSet(c.storage) :
          /\ c.metadata[e.object].object = e.object
          /\ c.metadata[e.object].content = e.content
    /\ c.used = Bytes(c.storage)

Caches ==
    {c \in [storage : Seq(Entries), metadata : Stores, used : 0..Capacity] : Matches(c)}

\* d is c without some objects.
Remains(d, c) ==
    /\ DOMAIN d.metadata \subseteq DOMAIN c.metadata
    /\ d.metadata = [o \in DOMAIN d.metadata |-> c.metadata[o]]
    /\ Order(d.storage) =
          Order(c.storage) \cap ((DOMAIN d.metadata) \X (DOMAIN d.metadata))

LEMMA PartsOfCaches ==
    ASSUME NEW c \in Caches
    PROVE  /\ c = [storage |-> c.storage, metadata |-> c.metadata, used |-> c.used]
           /\ c.storage \in Seq(Entries)
           /\ Distinct(c.storage)
           /\ Stored(c) = Keys(c.storage)
           /\ Stored(c) \subseteq Objects
           /\ DOMAIN c.metadata = Stored(c)
           /\ c.metadata \in [Stored(c) -> Catalogue]
           /\ c.used \in 0..Capacity
           /\ c.used = Bytes(c.storage)
           /\ \A e \in ToSet(c.storage) :
                 /\ e \in Entries
                 /\ c.metadata[e.object].object = e.object
                 /\ c.metadata[e.object].content = e.content
  <1>1. /\ c \in [storage : Seq(Entries), metadata : Stores, used : 0..Capacity]
        /\ Matches(c)
    BY DEF Caches
  <1>2. /\ c = [storage |-> c.storage, metadata |-> c.metadata, used |-> c.used]
        /\ c.storage \in Seq(Entries) /\ c.metadata \in Stores /\ c.used \in 0..Capacity
    BY <1>1
  <1>3. Stored(c) = Keys(c.storage) /\ Stored(c) \subseteq Objects
    BY <1>2, KeysAreObjects DEF Stored
  <1>4. c.metadata \in [DOMAIN c.metadata -> Catalogue]
    BY <1>2 DEF Stores
  <1>5. \A e \in ToSet(c.storage) : e \in Entries
    BY <1>2 DEF ToSet
  <1> QED
    BY <1>1, <1>2, <1>3, <1>4, <1>5 DEF Matches

LEMMA OthersOfCache ==
    ASSUME NEW c \in Caches, NEW o
    PROVE  /\ Others(c, o) \in Seq(Entries)
           /\ Distinct(Others(c, o))
           /\ Keys(Others(c, o)) = Stored(c) \ {o}
           /\ ToSet(Others(c, o)) \subseteq ToSet(c.storage)
           /\ Bytes(Others(c, o)) = c.used - SizeIn(c, o)
           /\ SizeIn(c, o) \in Nat
           /\ Order(Others(c, o)) =
                 Order(c.storage) \cap ((Stored(c) \ {o}) \X (Stored(c) \ {o}))
           /\ o \in Stored(c) => /\ Entry(c, o) \in ToSet(c.storage)
                                 /\ Entry(c, o) \in Entries
                                 /\ Entry(c, o).object = o
                                 /\ Entry(c, o).content = c.metadata[o].content
                                 /\ SizeIn(c, o) = SizeOf[Entry(c, o).content]
  <1> DEFINE s == c.storage
  <1>0. /\ s \in Seq(Entries) /\ Distinct(s) /\ Stored(c) = Keys(s)
        /\ DOMAIN s = 1..Len(s) /\ Keys(s) = {s[i].object : i \in 1..Len(s)}
        /\ \A i \in 1..Len(s) : s[i] \in Entries
        /\ c.used = Bytes(s) /\ Bytes(s) \in Nat
        /\ ToSet(s) = {s[i] : i \in 1..Len(s)}
    BY PartsOfCaches, KeysAreObjects, BytesNatural DEF ToSet
  <1>1. CASE o \in Stored(c)
    <2> DEFINE i == CHOOSE i \in DOMAIN s : s[i].object = o
    <2>1. i \in 1..Len(s) /\ s[i].object = o
      <3>1. \E j \in DOMAIN s : s[j].object = o
        BY <1>0, <1>1
      <3> QED
        BY <1>0, <3>1
    <2>2. Others(c, o) = RemoveAt(s, i)
      BY <1>1 DEF Others
    <2> HIDE DEF i
    <2>3. Entry(c, o) = s[i]
      <3>1. Entry(c, o) \in ToSet(s) /\ Entry(c, o).object = o
        <4>1. \E e \in ToSet(s) : e.object = o
          BY <1>0, <2>1
        <4> QED
          BY <4>1 DEF Entry
      <3>2. PICK j \in 1..Len(s) : Entry(c, o) = s[j]
        BY <1>0, <3>1
      <3>3. j = i
        BY <1>0, <2>1, <3>1, <3>2 DEF Distinct
      <3> QED
        BY <3>2, <3>3
    <2>4. SizeIn(c, o) = SizeAt(s, i) /\ SizeIn(c, o) = SizeOf[Entry(c, o).content]
      BY <1>1, <2>3 DEF SizeIn, SizeAt
    <2>5. /\ s[i] \in Entries /\ s[i] \in ToSet(s)
          /\ SizeIn(c, o) \in Nat
          /\ s[i].content = c.metadata[o].content
      <3>1. s[i] \in Entries /\ s[i] \in ToSet(s)
        BY <1>0, <2>1
      <3> QED
        BY <2>1, <2>3, <2>4, <3>1, EntrySize, PartsOfCaches
    <2>6. /\ RemoveAt(s, i) \in Seq(Entries)
          /\ Bytes(RemoveAt(s, i)) = Bytes(s) - SizeAt(s, i)
      BY <1>0, <2>1, TakenOut
    <2>7. /\ Distinct(RemoveAt(s, i))
          /\ Keys(RemoveAt(s, i)) = Keys(s) \ {o}
          /\ ToSet(RemoveAt(s, i)) \subseteq ToSet(s)
          /\ Order(RemoveAt(s, i)) =
                Order(s) \cap (Keys(RemoveAt(s, i)) \X Keys(RemoveAt(s, i)))
      BY <1>0, <2>1, KeysTakenOut
    <2> QED
      BY <1>0, <2>1, <2>2, <2>3, <2>4, <2>5, <2>6, <2>7
  <1>2. CASE o \notin Stored(c)
    <2>1. Others(c, o) = s /\ SizeIn(c, o) = 0 /\ Stored(c) \ {o} = Keys(s)
      BY <1>0, <1>2 DEF Others, SizeIn
    <2>2. Order(s) = Order(s) \cap (Keys(s) \X Keys(s))
      BY <1>0, OrderIsByPosition
    <2> QED
      BY <1>0, <1>2, <2>1, <2>2
  <1> QED
    BY <1>1, <1>2

LEMMA InvalidatedRemains ==
    ASSUME NEW c \in Caches, NEW o
    PROVE  /\ Invalidated(c, o) \in Caches
           /\ DOMAIN Invalidated(c, o).metadata = (DOMAIN c.metadata) \ {o}
           /\ Remains(Invalidated(c, o), c)
  <1> DEFINE d == Invalidated(c, o)
             left == Stored(c) \ {o}
  <1>1. /\ d = [storage  |-> Others(c, o),
                metadata |-> Dropped(c.metadata, {o}),
                used     |-> c.used - SizeIn(c, o)]
        /\ d.storage = Others(c, o)
        /\ d.metadata = Dropped(c.metadata, {o})
        /\ d.used = c.used - SizeIn(c, o)
    BY DEF Invalidated
  <1>2. /\ c.metadata \in [Stored(c) -> Catalogue] /\ DOMAIN c.metadata = Stored(c)
        /\ Stored(c) \subseteq Objects
        /\ c.used \in 0..Capacity
    BY PartsOfCaches
  <1>3. /\ d.metadata = [x \in left |-> c.metadata[x]]
        /\ DOMAIN d.metadata = left
        /\ d.metadata \in [left -> Catalogue]
    BY <1>1, <1>2 DEF Dropped, Restrict
  <1> HIDE DEF d
  <1>4. /\ d.storage \in Seq(Entries) /\ Distinct(d.storage) /\ Stored(d) = left
        /\ ToSet(d.storage) \subseteq ToSet(c.storage)
        /\ d.used = Bytes(d.storage)
        /\ Order(d.storage) = Order(c.storage) \cap (left \X left)
        /\ SizeIn(c, o) \in Nat
    BY <1>1, OthersOfCache DEF Stored
  <1>5. d.used \in 0..Capacity
    <2>1. d.used \in Nat
      BY <1>4, BytesNatural
    <2> QED
      BY <1>1, <1>2, <1>4, <2>1, CacheAssumption
  <1>6. \A e \in ToSet(d.storage) :
           /\ d.metadata[e.object].object = e.object
           /\ d.metadata[e.object].content = e.content
    <2> TAKE e \in ToSet(d.storage)
    <2>1. e \in ToSet(c.storage) /\ e.object \in left
      BY <1>4 DEF Stored, Keys
    <2>2. d.metadata[e.object] = c.metadata[e.object]
      BY <1>3, <2>1
    <2> QED
      BY <2>1, <2>2, PartsOfCaches
  <1>7. Matches(d)
    BY <1>3, <1>4, <1>6 DEF Matches
  <1>8. d \in Caches
    <2>1. d.metadata \in Stores
      BY <1>2, <1>3 DEF Stores
    <2>2. d \in [storage : Seq(Entries), metadata : Stores, used : 0..Capacity]
      BY <1>1, <1>4, <1>5, <2>1
    <2> QED
      BY <1>7, <2>2 DEF Caches
  <1>9. Remains(d, c)
    BY <1>2, <1>3, <1>4 DEF Remains
  <1> QED
    BY <1>2, <1>3, <1>8, <1>9 DEF d

LEMMA TouchedIsLatest ==
    ASSUME NEW c \in Caches, NEW o \in Stored(c)
    PROVE  LET others == Stored(c) \ {o}
           IN  /\ Touched(c, o) \in Caches
               /\ Touched(c, o).metadata = c.metadata
               /\ Order(Touched(c, o).storage) =
                     (Order(c.storage) \cap (others \X others)) \cup (others \X {o})
  <1> DEFINE d == Touched(c, o)
             others == Stored(c) \ {o}
             e == Entry(c, o)
  <1>1. /\ d = [storage |-> Append(Others(c, o), e), metadata |-> c.metadata, used |-> c.used]
        /\ d.storage = Append(Others(c, o), e)
        /\ d.metadata = c.metadata /\ d.used = c.used
    <2>1. c = [storage |-> c.storage, metadata |-> c.metadata, used |-> c.used]
      BY PartsOfCaches
    <2>2. d = [c EXCEPT !.storage = Append(Others(c, o), e)]
      BY DEF Touched
    <2> HIDE DEF d
    <2> QED
      BY <2>1, <2>2
  <1> HIDE DEF d
  <1>2. /\ Others(c, o) \in Seq(Entries) /\ Distinct(Others(c, o))
        /\ Keys(Others(c, o)) = others
        /\ ToSet(Others(c, o)) \subseteq ToSet(c.storage)
        /\ Bytes(Others(c, o)) = c.used - SizeIn(c, o)
        /\ SizeIn(c, o) \in Nat
        /\ Order(Others(c, o)) = Order(c.storage) \cap (others \X others)
        /\ e \in ToSet(c.storage) /\ e \in Entries /\ e.object = o
        /\ SizeIn(c, o) = SizeOf[e.content]
    BY OthersOfCache
  <1> HIDE DEF e
  <1>3. /\ d.storage \in Seq(Entries)
        /\ Keys(d.storage) = others \cup {o}
        /\ ToSet(d.storage) = ToSet(Others(c, o)) \cup {e}
        /\ Bytes(d.storage) = Bytes(Others(c, o)) + SizeOf[e.content]
        /\ Order(d.storage) = Order(Others(c, o)) \cup (others \X {o})
        /\ Distinct(d.storage)
    BY <1>1, <1>2, Added
  <1>4. /\ c.metadata \in Stores /\ DOMAIN c.metadata = Stored(c)
        /\ c.used \in 0..Capacity
    BY PartsOfCaches DEF Caches
  <1>5. Bytes(d.storage) = c.used
    BY <1>2, <1>3, <1>4
  <1>6. \A x \in ToSet(d.storage) : x \in ToSet(c.storage)
    BY <1>2, <1>3
  <1>7. Matches(d)
    BY <1>1, <1>3, <1>4, <1>5, <1>6, PartsOfCaches DEF Matches, Stored
  <1>8. d \in Caches
    BY <1>1, <1>3, <1>4, <1>7 DEF Caches
  <1> QED
    BY <1>1, <1>2, <1>3, <1>8 DEF d

Evicting(c, m) ==
    Evictions(Others(c, m.object), c.used - SizeIn(c, m.object), SizeOf[m.content])

Evicted(c, m) == SubSeq(Others(c, m.object), 1, Evicting(c, m))

Left(c, m) ==
    SubSeq(Others(c, m.object), Evicting(c, m) + 1, Len(Others(c, m.object)))

LEMMA MakesRoom ==
    ASSUME NEW c \in Caches, NEW m \in Catalogue, ~Rejected(m)
    PROVE  /\ Evicted(c, m) \in Seq(Entries) /\ Left(c, m) \in Seq(Entries)
           /\ Distinct(Left(c, m))
           /\ ToSet(Left(c, m)) \subseteq ToSet(c.storage)
           /\ Keys(Evicted(c, m)) \subseteq Stored(c) \ {m.object}
           /\ Keys(Left(c, m)) = Stored(c) \ (Keys(Evicted(c, m)) \cup {m.object})
           /\ Keys(Evicted(c, m)) \X Keys(Left(c, m)) \subseteq Order(c.storage)
           /\ Order(Left(c, m)) =
                 Order(c.storage) \cap (Keys(Left(c, m)) \X Keys(Left(c, m)))
           /\ c.used - SizeIn(c, m.object) - Bytes(Evicted(c, m)) = Bytes(Left(c, m))
           /\ SizeOf[m.content] \in Nat
           /\ Bytes(Left(c, m)) + SizeOf[m.content] <= Capacity
  <1> DEFINE s == Others(c, m.object)
             k == Evicting(c, m)
             size == SizeOf[m.content]
             used == c.used - SizeIn(c, m.object)
             others == Stored(c) \ {m.object}
  <1>1. /\ s \in Seq(Entries) /\ Distinct(s) /\ Keys(s) = others
        /\ ToSet(s) \subseteq ToSet(c.storage)
        /\ Bytes(s) = used
        /\ Order(s) = Order(c.storage) \cap (others \X others)
        /\ Len(s) \in Nat /\ Bytes(s) \in Nat
    BY OthersOfCache, KeysAreObjects, BytesNatural
  <1>2. k = Evictions(s, used, size)
    BY DEF Evicting
  <1>3. Evicted(c, m) = SubSeq(s, 1, k) /\ Left(c, m) = SubSeq(s, k + 1, Len(s))
    BY DEF Evicted, Left
  <1> HIDE DEF s, used, k
  <1>4. /\ k \in 0..Len(s)
        /\ used - Bytes(SubSeq(s, 1, k)) + size <= Capacity \/ k = Len(s)
    BY <1>1, <1>2, FewestEvictions
  <1> DEFINE p == SubSeq(s, 1, k)
             t == SubSeq(s, k + 1, Len(s))
  <1>5. /\ p \in Seq(Entries) /\ t \in Seq(Entries)
        /\ Bytes(s) = Bytes(p) + Bytes(t)
        /\ Distinct(p) /\ Distinct(t)
        /\ Keys(s) = Keys(p) \cup Keys(t)
        /\ Keys(p) \cap Keys(t) = {}
        /\ ToSet(t) \subseteq ToSet(s)
        /\ Order(t) = Order(s) \cap (Keys(t) \X Keys(t))
        /\ Keys(p) \X Keys(t) \subseteq Order(s)
    BY <1>1, <1>4, OldestTakenOut
  <1>6. size \in Nat /\ size <= Capacity /\ Capacity \in Nat
    BY CacheAssumption DEF Rejected
  <1>7. k = Len(s) => Bytes(t) = 0
    <2>1. k = Len(s) => t = << >>
      BY <1>1, SubSeqEmpty
    <2> QED
      BY <2>1, BytesOfNone
  <1> HIDE DEF p, t
  <1>8. used - Bytes(p) = Bytes(t) /\ Bytes(t) \in Nat
    BY <1>1, <1>5, BytesNatural
  <1>9. Bytes(t) + size <= Capacity
    BY <1>4, <1>6, <1>7, <1>8 DEF p
  <1>10. Evicted(c, m) = p /\ Left(c, m) = t
    BY <1>3 DEF p, t
  <1>11. Order(t) = Order(c.storage) \cap (Keys(t) \X Keys(t))
    BY <1>1, <1>5
  <1>12. Keys(p) \subseteq others /\ Keys(t) = Stored(c) \ (Keys(p) \cup {m.object})
    BY <1>1, <1>5
  <1>13. Keys(p) \X Keys(t) \subseteq Order(c.storage)
    BY <1>1, <1>5
  <1> QED
    BY <1>1, <1>5, <1>6, <1>8, <1>9, <1>10, <1>11, <1>12, <1>13 DEF used

LEMMA WrittenIsLatest ==
    ASSUME NEW c \in Caches, NEW m \in Catalogue, ~Rejected(m)
    PROVE  LET d    == AfterPut(c, m)
               o    == m.object
               kept == Stored(c) \ (Keys(Evicted(c, m)) \cup {o})
           IN  /\ d \in Caches
               /\ d.metadata = [x \in kept \cup {o} |-> IF x = o THEN m ELSE c.metadata[x]]
               /\ Order(d.storage) =
                     (Order(c.storage) \cap (kept \X kept)) \cup (kept \X {o})
  <1> DEFINE d == AfterPut(c, m)
             o == m.object
             t == Left(c, m)
             e == [object |-> o, content |-> m.content]
             kept == Stored(c) \ (Keys(Evicted(c, m)) \cup {o})
             size == SizeOf[m.content]
             md == [x \in kept \cup {o} |-> IF x = o THEN m ELSE c.metadata[x]]
  <1>1. /\ t \in Seq(Entries) /\ Distinct(t) /\ ToSet(t) \subseteq ToSet(c.storage)
        /\ Keys(Evicted(c, m)) \subseteq Stored(c) \ {o}
        /\ Keys(t) = kept
        /\ Order(t) = Order(c.storage) \cap (kept \X kept)
        /\ c.used - SizeIn(c, o) - Bytes(Evicted(c, m)) = Bytes(t)
        /\ size \in Nat /\ Bytes(t) + size <= Capacity
        /\ Bytes(t) \in Nat
    BY MakesRoom, BytesNatural
  <1>2. /\ c.metadata \in [Stored(c) -> Catalogue] /\ DOMAIN c.metadata = Stored(c)
        /\ Stored(c) \subseteq Objects
    BY PartsOfCaches
  <1>3. /\ d.storage = Append(t, e)
        /\ d.used = Bytes(t) + size
        /\ d.metadata = [x \in (DOMAIN c.metadata \ Keys(Evicted(c, m))) \cup {o} |->
                            IF x = o THEN m ELSE c.metadata[x]]
        /\ d = [storage |-> d.storage, metadata |-> d.metadata, used |-> d.used]
    BY <1>1 DEF AfterPut, Left, Evicted, Evicting
  <1>4. e \in Entries /\ e.object = o /\ e.content = m.content /\ o \in Objects
    BY CacheAssumption DEF Entries
  <1> HIDE DEF d, t, e
  <1>5. d.metadata = md
    <2>1. (DOMAIN c.metadata \ Keys(Evicted(c, m))) \cup {o} = kept \cup {o}
      BY <1>2
    <2> QED
      BY <1>3, <2>1
  <1>6. /\ d.storage \in Seq(Entries)
        /\ Keys(d.storage) = kept \cup {o}
        /\ ToSet(d.storage) = ToSet(t) \cup {e}
        /\ Bytes(d.storage) = Bytes(t) + size
        /\ Order(d.storage) = Order(t) \cup (kept \X {o})
        /\ Distinct(d.storage)
    <2>1. e.object \notin Keys(t)
      BY <1>1, <1>4
    <2> QED
      BY <1>1, <1>3, <1>4, <2>1, Added
  <1>7. /\ DOMAIN md = kept \cup {o} /\ md \in [kept \cup {o} -> Catalogue]
        /\ md[o] = m /\ \A x \in kept : md[x] = c.metadata[x]
    BY <1>2
  <1> HIDE DEF md
  <1>8. \A x \in ToSet(d.storage) :
           /\ md[x.object].object = x.object
           /\ md[x.object].content = x.content
    <2>1. ASSUME NEW x \in ToSet(t)
          PROVE  /\ md[x.object].object = x.object
                 /\ md[x.object].content = x.content
      <3>1. x \in ToSet(c.storage) /\ x.object \in kept
        BY <1>1 DEF Keys
      <3>2. md[x.object] = c.metadata[x.object]
        BY <1>7, <3>1
      <3> QED
        BY <3>1, <3>2, PartsOfCaches
    <2>2. md[e.object].object = e.object /\ md[e.object].content = e.content
      BY <1>4, <1>7
    <2> QED
      BY <1>6, <2>1, <2>2
  <1>9. d.used \in 0..Capacity
    BY <1>1, <1>3, CacheAssumption
  <1>10. Matches(d)
    BY <1>3, <1>5, <1>6, <1>7, <1>8 DEF Matches, Stored
  <1>11. d \in Caches
    <2>1. d.metadata \in Stores
      BY <1>2, <1>4, <1>5, <1>7 DEF Stores
    <2>2. d \in [storage : Seq(Entries), metadata : Stores, used : 0..Capacity]
      BY <1>3, <1>6, <1>9, <2>1
    <2> QED
      BY <1>10, <2>2 DEF Caches
  <1> QED
    BY <1>1, <1>5, <1>6, <1>11 DEF d, md

\* The caches that are c without some objects.
Remainders(c) == {d \in Caches : Remains(d, c)}

LEMMA RemainsIsTransitive ==
    ASSUME NEW a, NEW b, NEW c, Remains(b, a), Remains(c, b)
    PROVE  Remains(c, a)
  <1>1. DOMAIN c.metadata \subseteq DOMAIN b.metadata
        /\ DOMAIN b.metadata \subseteq DOMAIN a.metadata
    BY DEF Remains
  <1>2. \A o \in DOMAIN c.metadata : c.metadata[o] = a.metadata[o]
    <2> TAKE o \in DOMAIN c.metadata
    <2>1. c.metadata[o] = b.metadata[o]
      BY DEF Remains
    <2>2. b.metadata[o] = a.metadata[o]
      BY <1>1 DEF Remains
    <2> QED
      BY <2>1, <2>2
  <1>3. c.metadata = [o \in DOMAIN c.metadata |-> a.metadata[o]]
    BY <1>2 DEF Remains
  <1>4. Order(c.storage) =
          Order(a.storage) \cap ((DOMAIN c.metadata) \X (DOMAIN c.metadata))
    BY <1>1 DEF Remains
  <1> QED
    BY <1>1, <1>3, <1>4 DEF Remains

LEMMA CacheRemains ==
    ASSUME NEW c \in Caches
    PROVE  c \in Remainders(c)
  <1>1. /\ c.storage \in Seq(Entries) /\ c.metadata \in [Stored(c) -> Catalogue]
        /\ DOMAIN c.metadata = Stored(c) /\ Stored(c) = Keys(c.storage)
    BY PartsOfCaches
  <1>2. Order(c.storage) = Order(c.storage) \cap ((DOMAIN c.metadata) \X (DOMAIN c.metadata))
    BY <1>1, OrderIsByPosition
  <1> QED
    BY <1>1, <1>2 DEF Remainders, Remains

\* The loop over the keys, which changes the storage it walks through a copy of,
\* leaves the cache without the objects of the prefix and with all others.
LEMMA PrefixInvalidatedRemains ==
    ASSUME NEW c \in Caches, NEW objects
    PROVE  /\ PrefixInvalidated(c, objects) \in Remainders(c)
           /\ DOMAIN PrefixInvalidated(c, objects).metadata = DOMAIN c.metadata \ objects
  <1> DEFINE s == c.storage
             After(d, e) == IF e.object \in objects THEN Invalidated(d, e.object) ELSE d
             step == [x \in Remainders(c) \X Entries |-> After(x[1], x[2])]
             Removes(g) == g = [S \in SUBSET (1..Len(s)) |->
                                  IF S = {} THEN c ELSE After(g[S \ {Max(S)}], s[Max(S)])]
             f == CHOOSE g : Removes(g)
  <1>0. s \in Seq(Entries) /\ Len(s) \in Nat /\ DOMAIN s = 1..Len(s)
    BY PartsOfCaches, KeysAreObjects
  <1>1. PrefixInvalidated(c, objects) = f[1..Len(s)]
    BY <1>0 DEF PrefixInvalidated, FoldLeft, MapThenFoldSet
  <1>2. ASSUME NEW d \in Remainders(c), NEW e
        PROVE  After(d, e) \in Remainders(c)
    <2>1. d \in Caches /\ Remains(d, c)
      BY DEF Remainders
    <2>2. Invalidated(d, e.object) \in Caches /\ Remains(Invalidated(d, e.object), d)
      BY <2>1, InvalidatedRemains
    <2>3. Remains(Invalidated(d, e.object), c)
      BY <2>1, <2>2, RemainsIsTransitive
    <2> QED
      BY <2>2, <2>3 DEF Remainders
  <1> HIDE DEF After
  <1>3. /\ step \in [Remainders(c) \X Entries -> Remainders(c)]
        /\ \A d \in Remainders(c), e \in Entries : step[<<d, e>>] = After(d, e)
    BY <1>2
  <1>4. c \in Remainders(c)
    BY CacheRemains
  <1> HIDE DEF step, Removes
  <1>5. PICK g : Folds(step, c, s, Len(s), g)
    BY <1>0, FoldExists
  <1>6. \A S \in SUBSET (1..Len(s)) : g[S] \in Remainders(c)
    BY <1>0, <1>3, <1>4, <1>5, FoldStaysIn
  <1>7. Removes(g)
    <2>1. ASSUME NEW S \in SUBSET (1..Len(s)), S # {}
          PROVE  step[<<g[S \ {Max(S)}], s[Max(S)]>>] = After(g[S \ {Max(S)}], s[Max(S)])
      <3>1. Max(S) \in 1..Len(s)
        BY <1>0, <2>1, MaxOfNumbers
      <3>2. s[Max(S)] \in Entries /\ g[S \ {Max(S)}] \in Remainders(c)
        BY <1>0, <1>6, <3>1
      <3> QED
        BY <1>3, <3>2
    <2> QED
      BY <1>5, <2>1 DEF Removes, Folds
  <1>8. Removes(f)
    BY <1>7
  <1> HIDE DEF f
  <1>9. \A S \in SUBSET (1..Len(s)) :
           f[S] = IF S = {} THEN c ELSE After(f[S \ {Max(S)}], s[Max(S)])
    BY <1>8 DEF Removes
  <1> DEFINE Seen(k) == {s[i].object : i \in 1..k}
             Right(d, k) == /\ d \in Remainders(c)
                            /\ DOMAIN d.metadata = DOMAIN c.metadata \ (objects \cap Seen(k))
             N == {k \in Nat : k <= Len(s) => Right(f[1..k], k)}
  <1>10. 0 \in N
    <2>1. 1..0 = {} /\ {} \in SUBSET (1..Len(s)) /\ Seen(0) = {}
      OBVIOUS
    <2>2. f[{}] = c
      BY <1>9, <2>1, Zenon
    <2> HIDE DEF Seen
    <2> QED
      BY <1>4, <2>1, <2>2
  <1>11. ASSUME NEW k \in Nat, k \in N
         PROVE  k + 1 \in N
    <2> DEFINE S == 1..(k + 1)
    <2>0. /\ S \ {k + 1} = 1..k /\ S # {}
          /\ k + 1 <= Len(s) => S \in SUBSET (1..Len(s)) /\ k <= Len(s)
      <3>1. S \ {k + 1} = 1..k
        OBVIOUS
      <3>2. k + 1 \in S
        OBVIOUS
      <3>3. ASSUME k + 1 <= Len(s)
            PROVE  S \in SUBSET (1..Len(s)) /\ k <= Len(s)
        BY <1>0, <3>3
      <3> QED
        BY <3>1, <3>2, <3>3
    <2>1. Max(S) = k + 1
      BY LargestIsMax
    <2>2. Seen(k + 1) = Seen(k) \cup {s[k + 1].object}
      OBVIOUS
    <2> HIDE DEF S, Seen
    <2> SUFFICES ASSUME k + 1 <= Len(s)
                 PROVE  Right(f[S], k + 1)
      BY DEF S
    <2> DEFINE d == f[1..k]
               o == s[k + 1].object
    <2>3. f[S] = After(d, s[k + 1])
      BY <1>9, <2>0, <2>1
    <2>4. Right(d, k)
      BY <1>11, <2>0
    <2>5. f[S] \in Remainders(c)
      BY <1>2, <2>3, <2>4
    <2> HIDE DEF N, d
    <2>6. DOMAIN After(d, s[k + 1]).metadata = DOMAIN c.metadata \ (objects \cap Seen(k + 1))
      <3>1. CASE o \in objects
        <4>1. d \in Caches
          BY <2>4 DEF Remainders
        <4>2. DOMAIN Invalidated(d, o).metadata = (DOMAIN d.metadata) \ {o}
          BY <4>1, InvalidatedRemains
        <4> QED
          BY <2>2, <2>4, <3>1, <4>2 DEF After
      <3>2. CASE o \notin objects
        BY <2>2, <2>4, <3>2 DEF After
      <3> QED
        BY <3>1, <3>2
    <2> QED
      BY <2>3, <2>5, <2>6
  <1>12. Right(f[1..Len(s)], Len(s))
    <2> HIDE DEF N, Right
    <2>1. Len(s) \in N
      BY <1>0, <1>10, <1>11, NatIsInductive
    <2> QED
      BY <1>0, <2>1 DEF N
  <1>13. DOMAIN c.metadata \subseteq Seen(Len(s))
    BY PartsOfCaches, KeysAreObjects
  <1> HIDE DEF Seen
  <1>14. DOMAIN c.metadata \ (objects \cap Seen(Len(s))) = DOMAIN c.metadata \ objects
    BY <1>13
  <1> QED
    BY <1>1, <1>12, <1>14

-----------------------------------------------------------------------------
(***************************************************************************)
(* The invariant is inductive.                                             *)
(***************************************************************************)
CacheInv ==
    /\ cache \in Caches
    /\ answer.object \in Objects \cup {NoContent}
    /\ now \in 0..MaxNow

LEMMA EmptyIsCache == EmptyCache \in Caches
  <1>1. /\ EmptyCache.storage = << >> /\ EmptyCache.used = 0
        /\ EmptyCache.metadata = [o \in {} |-> o]
        /\ EmptyCache = [storage |-> << >>, metadata |-> [o \in {} |-> o], used |-> 0]
    BY DEF EmptyCache
  <1>2. /\ << >> \in Seq(Entries) /\ Distinct(<< >>)
        /\ ToSet(<< >>) = {} /\ Keys(<< >>) = {}
    BY DEF Distinct, ToSet, Keys
  <1>3. [o \in {} |-> o] \in Stores /\ DOMAIN [o \in {} |-> o] = {}
    <2>1. [o \in {} |-> o] \in [{} -> Catalogue] /\ {} \in SUBSET Objects
      OBVIOUS
    <2> QED
      BY <2>1 DEF Stores
  <1>4. Matches(EmptyCache)
    BY <1>1, <1>2, <1>3, BytesOfNone DEF Matches, Stored
  <1>5. 0 \in 0..Capacity
    BY CacheAssumption
  <1>6. EmptyCache \in [storage : Seq(Entries), metadata : Stores, used : 0..Capacity]
    BY <1>1, <1>2, <1>3, <1>5
  <1> QED
    BY <1>4, <1>6 DEF Caches

LEMMA TouchedIsCache ==
    ASSUME NEW c \in Caches, NEW o
    PROVE  Touched(c, o) \in Caches
  <1>1. CASE o \in Stored(c)
    BY <1>1, TouchedIsLatest
  <1>2. CASE o \notin Stored(c)
    BY <1>2 DEF Touched
  <1> QED
    BY <1>1, <1>2

LEMMA CacheInvInductive ==
    /\ Init => CacheInv
    /\ CacheInv /\ [Next]_cacheVars => CacheInv'
  <1>1. Init => CacheInv
    BY EmptyIsCache, CacheAssumption DEF Init, CacheInv, Answer
  <1>2. CacheInv /\ [Next]_cacheVars => CacheInv'
    <2> SUFFICES ASSUME CacheInv, [Next]_cacheVars
                 PROVE  CacheInv'
      OBVIOUS
    <2>1. cache \in Caches /\ now \in 0..MaxNow /\ answer.object \in Objects \cup {NoContent}
      BY DEF CacheInv
    <2>2. ASSUME NEW m \in Catalogue, Put(m)
          PROVE  CacheInv'
      <3>1. cache' = AfterPut(cache, m) /\ now' = now /\ answer'.object = m.object
        BY <2>2 DEF Put, Answer
      <3>2. AfterPut(cache, m) \in Caches
        <4>1. CASE Rejected(m)
          BY <2>1, <4>1 DEF AfterPut
        <4>2. CASE ~Rejected(m)
          BY <2>1, <4>2, WrittenIsLatest
        <4> QED
          BY <4>1, <4>2
      <3> QED
        BY <2>1, <3>1, <3>2, CacheAssumption DEF CacheInv
    <2>3. ASSUME NEW o \in Objects, Get(o)
          PROVE  CacheInv'
      <3>1. cache' = AfterGet(cache, o, now) /\ now' = now /\ answer'.object = o
        BY <2>3 DEF Get, Answer
      <3>2. AfterGet(cache, o, now) \in Caches
        BY <2>1, InvalidatedRemains, TouchedIsCache DEF AfterGet
      <3> QED
        BY <2>1, <3>1, <3>2 DEF CacheInv
    <2>4. ASSUME NEW o \in Objects, GetMetadata(o)
          PROVE  CacheInv'
      <3>1. cache' = AfterGetMetadata(cache, o, now) /\ now' = now /\ answer'.object = o
        BY <2>4 DEF GetMetadata, Answer
      <3>2. AfterGetMetadata(cache, o, now) \in Caches
        BY <2>1, InvalidatedRemains, TouchedIsCache DEF AfterGetMetadata
      <3> QED
        BY <2>1, <3>1, <3>2 DEF CacheInv
    <2>5. ASSUME NEW o \in Objects, Invalidate(o)
          PROVE  CacheInv'
      BY <2>1, <2>5, InvalidatedRemains DEF Invalidate, CacheInv
    <2>6. ASSUME NEW objects \in PrefixSets, InvalidatePrefix(objects)
          PROVE  CacheInv'
      <3>1. PrefixInvalidated(cache, objects) \in Caches
        BY <2>1, PrefixInvalidatedRemains DEF Remainders
      <3> QED
        BY <2>1, <2>6, <3>1 DEF InvalidatePrefix, CacheInv
    <2>7. CASE PassTime
      BY <2>1, <2>7, CacheAssumption DEF PassTime, CacheInv
    <2>8. CASE UNCHANGED cacheVars
      BY <2>1, <2>8 DEF cacheVars, CacheInv
    <2> QED
      BY <2>2, <2>3, <2>4, <2>5, <2>6, <2>7, <2>8 DEF Next
  <1> QED
    BY <1>1, <1>2

LEMMA CacheAlwaysMatches == Spec => []CacheInv
  BY CacheInvInductive, PTL DEF Spec

\* Whatever is written, read, evicted and invalidated, the cache holds objects of
\* the catalogue and never more bytes than its capacity.
THEOREM CacheTypeCorrect == Spec => []CacheTypeOK
  <1>1. CacheInv => CacheTypeOK
    <2> SUFFICES ASSUME CacheInv
                 PROVE  CacheTypeOK
      OBVIOUS
    <2>1. /\ cache \in Caches /\ now \in 0..MaxNow
          /\ answer.object \in Objects \cup {NoContent}
      BY DEF CacheInv
    <2>2. /\ Stored(cache) \subseteq Objects /\ DOMAIN cache.metadata = Stored(cache)
          /\ cache.metadata \in [Stored(cache) -> Catalogue]
          /\ cache.used \in 0..Capacity
      BY <2>1, PartsOfCaches
    <2> QED
      BY <2>1, <2>2 DEF CacheTypeOK
  <1> QED
    BY <1>1, CacheAlwaysMatches, PTL

LEMMA DistinctAreCounted ==
    ASSUME NEW s \in Seq(Entries), Distinct(s)
    PROVE  IsFiniteSet(Keys(s)) /\ Cardinality(Keys(s)) = Len(s)
  <1> DEFINE f == [i \in 1..Len(s) |-> s[i].object]
  <1>1. Len(s) \in Nat /\ DOMAIN s = 1..Len(s) /\ Keys(s) = {s[i].object : i \in 1..Len(s)}
    BY KeysAreObjects
  <1>2. f \in Bijection(1..Len(s), Keys(s))
    BY <1>1 DEF Distinct, Bijection, Injection, Surjection, IsInjective
  <1>3. ExistsBijection(1..Len(s), Keys(s))
    BY <1>2 DEF ExistsBijection
  <1> QED
    BY <1>1, <1>3, FS_CountingElements, FS_NatBijection

\* The two dictionaries and the running count of bytes stay in step through any
\* sequence of writes, evictions, expiries and invalidations.
THEOREM CacheConsistent == Spec => []CacheIsConsistent
  <1>1. CacheInv => CacheIsConsistent
    <2> SUFFICES ASSUME CacheInv
                 PROVE  CacheIsConsistent
      OBVIOUS
    <2>1. cache \in Caches
      BY DEF CacheInv
    <2>2. cache.used = Bytes(cache.storage)
      BY <2>1, PartsOfCaches
    <2>3. Cardinality(Stored(cache)) = Len(cache.storage)
      BY <2>1, PartsOfCaches, DistinctAreCounted
    <2>4. DOMAIN cache.metadata = Stored(cache)
      BY <2>1, PartsOfCaches
    <2>5. \A e \in ToSet(cache.storage) :
             /\ cache.metadata[e.object].object = e.object
             /\ cache.metadata[e.object].content = e.content
      BY <2>1, PartsOfCaches
    <2> QED
      BY <2>2, <2>3, <2>4, <2>5
         DEF CacheIsConsistent, EntriesMatchMetadata, AccountsForBytes
  <1> QED
    BY <1>1, CacheAlwaysMatches, PTL

-----------------------------------------------------------------------------
(***************************************************************************)
(* The abstract cache sums the sizes of a set of objects, in whichever     *)
(* order CHOOSE takes them; the detailed one sums along the sequence.      *)
(***************************************************************************)
Pick(T) == CHOOSE x \in T : TRUE

Weight(md, x) == SizeOf[md[x].content]

\* f[T] is the weight of the objects in T, for every T in D.
Weighs(md, f, D) ==
    f = [T \in D |-> IF T = {} THEN 0 ELSE Weight(md, Pick(T)) + f[T \ {Pick(T)}]]

LEMMA PickIsMember ==
    ASSUME NEW T, T # {}
    PROVE  Pick(T) \in T
  BY DEF Pick

LEMMA WeightsExist ==
    ASSUME NEW md, NEW S, IsFiniteSet(S)
    PROVE  \E f : Weighs(md, f, SUBSET S)
  <1> DEFINE Upto(n) == {T \in SUBSET S : Cardinality(T) <= n}
             N == {n \in Nat : \E f : Weighs(md, f, Upto(n))}
  <1>0. \A T \in SUBSET S : /\ IsFiniteSet(T) /\ Cardinality(T) \in Nat
                            /\ Cardinality(T) <= Cardinality(S)
    BY FS_Subset, FS_CardinalityType
  <1>1. 0 \in N
    <2>1. \A T \in Upto(0) : T = {}
      BY <1>0, FS_EmptySet
    <2>2. Weighs(md, [T \in Upto(0) |-> 0], Upto(0))
      BY <2>1 DEF Weighs
    <2> QED
      BY <2>2
  <1>2. ASSUME NEW n \in Nat, n \in N
        PROVE  n + 1 \in N
    <2>1. PICK f : Weighs(md, f, Upto(n))
      BY <1>2
    <2> DEFINE g == [T \in Upto(n + 1) |->
                        IF T \in Upto(n) THEN f[T]
                        ELSE Weight(md, Pick(T)) + f[T \ {Pick(T)}]]
    <2>2. ASSUME NEW T \in Upto(n + 1), T # {}
          PROVE  /\ T \ {Pick(T)} \in Upto(n)
                 /\ T \ {Pick(T)} \in Upto(n + 1)
      <3>1. Pick(T) \in T
        BY <2>2, PickIsMember
      <3>2. Cardinality(T \ {Pick(T)}) = Cardinality(T) - 1
        BY <1>0, <3>1, FS_RemoveElement
      <3> QED
        BY <1>0, <3>2
    <2>3. \A T \in Upto(n) : T \in Upto(n + 1)
      BY <1>0
    <2>4. {} \in Upto(n) /\ f[{}] = 0
      <3>1. {} \in Upto(n)
        BY FS_EmptySet
      <3> QED
        BY <2>1, <3>1 DEF Weighs
    <2> HIDE DEF Upto
    <2>5. ASSUME NEW T \in Upto(n + 1)
          PROVE  g[T] = IF T = {} THEN 0 ELSE Weight(md, Pick(T)) + g[T \ {Pick(T)}]
      <3>1. CASE T = {}
        BY <2>4, <3>1
      <3>2. CASE T # {}
        <4>1. g[T \ {Pick(T)}] = f[T \ {Pick(T)}]
          BY <2>2, <3>2
        <4>2. T \in Upto(n) => f[T] = Weight(md, Pick(T)) + f[T \ {Pick(T)}]
          BY <2>1, <3>2 DEF Weighs
        <4> QED
          BY <3>2, <4>1, <4>2
      <3> QED
        BY <3>1, <3>2
    <2> HIDE DEF g
    <2>6. Weighs(md, g, Upto(n + 1))
      BY <2>5 DEF Weighs, g
    <2> QED
      BY <2>6
  <1>3. Cardinality(S) \in N
    <2> HIDE DEF N
    <2> QED
      BY <1>0, <1>1, <1>2, NatIsInductive
  <1>4. Upto(Cardinality(S)) = SUBSET S
    BY <1>0
  <1> QED
    BY <1>3, <1>4

LEMMA SmallerSubsets ==
    ASSUME NEW S, IsFiniteSet(S), NEW T \in SUBSET S
    PROVE  /\ Cardinality(T) \in Nat
           /\ Cardinality(T) = 0 <=> T = {}
           /\ \A x \in T : /\ T \ {x} \in SUBSET S
                           /\ Cardinality(T \ {x}) = Cardinality(T) - 1
  <1>1. IsFiniteSet(T) /\ Cardinality(T) \in Nat
    BY FS_Subset, FS_CardinalityType
  <1>2. Cardinality(T) = 0 <=> T = {}
    BY <1>1, FS_EmptySet
  <1>3. \A x \in T : Cardinality(T \ {x}) = Cardinality(T) - 1
    BY <1>1, FS_RemoveElement
  <1> QED
    BY <1>1, <1>2, <1>3

LEMMA WeightsAreNatural ==
    ASSUME NEW md, NEW S, IsFiniteSet(S), \A x \in S : Weight(md, x) \in Nat,
           NEW f, Weighs(md, f, SUBSET S)
    PROVE  \A T \in SUBSET S : f[T] \in Nat
  <1> DEFINE N == {n \in Nat : \A T \in SUBSET S : Cardinality(T) = n => f[T] \in Nat}
  <1>1. f[{}] = 0 /\ \A T \in SUBSET S : T # {} =>
                        f[T] = Weight(md, Pick(T)) + f[T \ {Pick(T)}]
    BY DEF Weighs
  <1>2. 0 \in N
    <2>1. ASSUME NEW T \in SUBSET S, Cardinality(T) = 0
          PROVE  f[T] \in Nat
      <3>1. T = {}
        BY <2>1, SmallerSubsets
      <3>2. f[T] = 0
        BY <1>1, <3>1, Zenon
      <3> QED
        BY <3>2
    <2>2. \A T \in SUBSET S : Cardinality(T) = 0 => f[T] \in Nat
      BY <2>1
    <2> QED
      BY <2>2
  <1>3. ASSUME NEW n \in Nat, n \in N
        PROVE  n + 1 \in N
    <2>0. \A T \in SUBSET S : Cardinality(T) = n => f[T] \in Nat
      BY <1>3
    <2>1. ASSUME NEW T \in SUBSET S, Cardinality(T) = n + 1
          PROVE  f[T] \in Nat
      <3>1. T # {}
        <4>1. Cardinality(T) # 0
          BY <2>1
        <4> QED
          BY <4>1, SmallerSubsets
      <3>2. Pick(T) \in T /\ Pick(T) \in S
        BY <3>1, PickIsMember
      <3>3. T \ {Pick(T)} \in SUBSET S /\ Cardinality(T \ {Pick(T)}) = Cardinality(T) - 1
        BY <3>2, SmallerSubsets
      <3>4. f[T \ {Pick(T)}] \in Nat
        BY <2>0, <2>1, <3>3
      <3> QED
        BY <1>1, <3>1, <3>2, <3>4
    <2> QED
      BY <2>1
  <1> HIDE DEF N
  <1>4. ASSUME NEW T \in SUBSET S
        PROVE  f[T] \in Nat
    <2>1. Cardinality(T) \in N
      BY <1>2, <1>3, NatIsInductive, SmallerSubsets
    <2> QED
      BY <2>1 DEF N
  <1> QED
    BY <1>4

\* Whichever object is taken first.
LEMMA WeightsAddUp ==
    ASSUME NEW md, NEW S, IsFiniteSet(S), \A x \in S : Weight(md, x) \in Nat,
           NEW f, Weighs(md, f, SUBSET S)
    PROVE  /\ f[{}] = 0
           /\ \A T \in SUBSET S : \A x \in T : f[T] = Weight(md, x) + f[T \ {x}]
  <1> DEFINE Adds(T) == \A x \in T : f[T] = Weight(md, x) + f[T \ {x}]
             N == {n \in Nat : \A T \in SUBSET S : Cardinality(T) = n => Adds(T)}
  <1>1. f[{}] = 0 /\ \A T \in SUBSET S : T # {} =>
                        f[T] = Weight(md, Pick(T)) + f[T \ {Pick(T)}]
    BY DEF Weighs
  <1>2. \A T \in SUBSET S : f[T] \in Nat
    BY WeightsAreNatural
  <1>3. 0 \in N
    <2>1. \A T \in SUBSET S : Cardinality(T) = 0 => T = {}
      BY SmallerSubsets
    <2>2. Adds({})
      OBVIOUS
    <2> HIDE DEF Adds
    <2>3. \A T \in SUBSET S : Cardinality(T) = 0 => Adds(T)
      BY <2>1, <2>2
    <2> QED
      BY <2>3
  <1>4. ASSUME NEW n \in Nat, n \in N
        PROVE  n + 1 \in N
    <2>0. \A T \in SUBSET S : Cardinality(T) = n => Adds(T)
      BY <1>4
    <2> HIDE DEF N
    <2>1. ASSUME NEW T \in SUBSET S, Cardinality(T) = n + 1, NEW x \in T
          PROVE  f[T] = Weight(md, x) + f[T \ {x}]
      <3> DEFINE y == Pick(T)
      <3>1. T # {} /\ y \in T
        BY PickIsMember
      <3>2. f[T] = Weight(md, y) + f[T \ {y}]
        BY <1>1, <3>1
      <3> HIDE DEF y
      <3>3. /\ T \ {x} \in SUBSET S /\ Cardinality(T \ {x}) = Cardinality(T) - 1
            /\ T \ {y} \in SUBSET S /\ Cardinality(T \ {y}) = Cardinality(T) - 1
        BY <3>1, SmallerSubsets
      <3>4. Cardinality(T) - 1 = n
        BY <2>1
      <3>5. Adds(T \ {x}) /\ Adds(T \ {y})
        BY <2>0, <3>3, <3>4
      <3>6. CASE x = y
        BY <3>2, <3>6
      <3>7. CASE x # y
        <4> DEFINE rest == (T \ {x}) \ {y}
        <4>1. rest = (T \ {y}) \ {x} /\ rest \in SUBSET S
              /\ x \in T \ {y} /\ y \in T \ {x} /\ x \in S /\ y \in S
          BY <3>1, <3>7
        <4>2. f[T \ {y}] = Weight(md, x) + f[rest]
          BY <3>5, <4>1
        <4>3. f[T \ {x}] = Weight(md, y) + f[rest]
          BY <3>5, <4>1
        <4> HIDE DEF rest
        <4>4. f[rest] \in Nat
          BY <1>2, <4>1
        <4>5. Weight(md, x) \in Nat /\ Weight(md, y) \in Nat
          BY <4>1
        <4> QED
          BY <3>2, <4>2, <4>3, <4>4, <4>5
      <3> QED
        BY <3>6, <3>7
    <2>2. \A T \in SUBSET S : Cardinality(T) = n + 1 => Adds(T)
      BY <2>1
    <2> HIDE DEF Adds
    <2> QED
      BY <2>2 DEF N
  <1>5. ASSUME NEW T \in SUBSET S
        PROVE  Adds(T)
    <2> HIDE DEF N, Adds
    <2>1. Cardinality(T) \in N
      BY <1>3, <1>4, NatIsInductive, SmallerSubsets
    <2> QED
      BY <2>1 DEF N
  <1> QED
    BY <1>1, <1>5

LEMMA WeightIsBytes ==
    ASSUME NEW md, NEW t \in Seq(Entries), Distinct(t),
           \A i \in 1..Len(t) : Weight(md, t[i].object) = SizeAt(t, i),
           NEW f, Weighs(md, f, SUBSET Keys(t))
    PROVE  f[Keys(t)] = Bytes(t)
  <1> DEFINE S == Keys(t)
             K(k) == {t[i].object : i \in 1..k}
  <1>0. /\ Len(t) \in Nat /\ S = K(Len(t)) /\ DOMAIN t = 1..Len(t)
        /\ \A i \in 1..Len(t) : t[i] \in Entries
    BY KeysAreObjects
  <1>2. \A i \in 1..Len(t) : /\ Weight(md, t[i].object) = SizeAt(t, i)
                             /\ SizeAt(t, i) \in Nat
    BY <1>0, EntrySize DEF SizeAt
  <1>3. IsFiniteSet(S)
    BY DistinctAreCounted
  <1>4. \A x \in S : Weight(md, x) \in Nat
    BY <1>0, <1>2
  <1> HIDE DEF S
  <1>5. f[{}] = 0 /\ \A T \in SUBSET S : \A x \in T : f[T] = Weight(md, x) + f[T \ {x}]
    <2> HIDE DEF K
    <2>1. Weighs(md, f, SUBSET S)
      BY DEF S
    <2> QED
      BY <1>3, <1>4, <2>1, WeightsAddUp
  <1>6. PICK sum : /\ sum \in [0..Len(t) -> Nat]
                   /\ sum[0] = 0
                   /\ \A k \in 1..Len(t) : sum[k] = sum[k - 1] + SizeAt(t, k)
                   /\ Bytes(t) = sum[Len(t)]
    BY BytesAreSums
  <1> DEFINE N == {k \in Nat : k <= Len(t) => f[K(k)] = sum[k]}
  <1>7. 0 \in N
    <2>1. K(0) = {}
      OBVIOUS
    <2> HIDE DEF K
    <2> QED
      BY <1>5, <1>6, <2>1
  <1>8. ASSUME NEW k \in Nat, k \in N
        PROVE  k + 1 \in N
    <2> SUFFICES ASSUME k + 1 <= Len(t)
                 PROVE  f[K(k + 1)] = sum[k + 1]
      OBVIOUS
    <2> DEFINE x == t[k + 1].object
    <2>1. k <= Len(t) /\ k + 1 \in 1..Len(t) /\ (k + 1) - 1 = k /\ k \in 0..Len(t)
      BY <1>0
    <2>2. f[K(k)] = sum[k]
      BY <1>8, <2>1
    <2>3. K(k + 1) = K(k) \cup {x}
      OBVIOUS
    <2>4. x \notin K(k)
      <3> SUFFICES ASSUME NEW i \in 1..k, t[i].object = x
                   PROVE  FALSE
        OBVIOUS
      <3>1. i \in 1..Len(t) /\ i # k + 1
        BY <1>0, <2>1
      <3> QED
        BY <1>0, <2>1, <3>1 DEF Distinct
    <2>5. K(k + 1) \in SUBSET S
      <3>1. \A i \in 1..(k + 1) : i \in 1..Len(t)
        BY <1>0
      <3> QED
        BY <1>0, <3>1
    <2> HIDE DEF N, K, x
    <2>6. K(k + 1) \ {x} = K(k) /\ x \in K(k + 1)
      BY <2>3, <2>4
    <2>7. f[K(k + 1)] = Weight(md, x) + f[K(k)]
      BY <1>5, <2>5, <2>6
    <2>8. sum[k + 1] = sum[k] + SizeAt(t, k + 1) /\ sum[k] \in Nat
      BY <1>6, <2>1
    <2>9. Weight(md, x) = SizeAt(t, k + 1) /\ SizeAt(t, k + 1) \in Nat
      BY <1>2, <2>1 DEF x
    <2> QED
      BY <2>2, <2>7, <2>8, <2>9
  <1>9. f[S] = sum[Len(t)]
    <2>1. Len(t) \in N
      <3> HIDE DEF N
      <3> QED
        BY <1>0, <1>7, <1>8, NatIsInductive
    <2> QED
      BY <1>0, <2>1
  <1> QED
    BY <1>6, <1>9 DEF S

\* What the abstract cache holds of the objects of some entries.
LEMMA HeldIsBytes ==
    ASSUME cache \in Caches, NEW t \in Seq(Entries), Distinct(t),
           ToSet(t) \subseteq ToSet(cache.storage)
    PROVE  L!Held(Keys(t)) = Bytes(t)
  <1> DEFINE md == cache.metadata
             S == Keys(t)
             f == CHOOSE g : Weighs(md, g, SUBSET S)
  <1>1. L!Held(S) = f[S]
    BY DEF L!Held, L!Size, L!MapThenSumSet, L!MapThenFoldSet, Weighs, Weight, Pick
  <1>2. \A i \in 1..Len(t) : Weight(md, t[i].object) = SizeAt(t, i)
    <2> TAKE i \in 1..Len(t)
    <2>1. t[i] \in ToSet(cache.storage)
      BY KeysAreObjects DEF ToSet
    <2>2. md[t[i].object].content = t[i].content
      BY <2>1, PartsOfCaches
    <2> QED
      BY <2>2 DEF Weight, SizeAt
  <1> HIDE DEF md, S
  <1>3. IsFiniteSet(S)
    BY DistinctAreCounted DEF S
  <1>4. Weighs(md, f, SUBSET S)
    BY <1>3, WeightsExist
  <1> HIDE DEF f
  <1>5. f[S] = Bytes(t)
    BY <1>2, <1>4, WeightIsBytes DEF S
  <1> QED
    BY <1>1, <1>5 DEF S

-----------------------------------------------------------------------------
(***************************************************************************)
(* Every step of the cache is a step of LeastRecentlyUsed, or none.        *)
(***************************************************************************)
LEMMA NoMoreThanItMust ==
    ASSUME cache \in Caches, NEW m \in Catalogue, ~Rejected(m),
           NEW g \in Keys(Evicted(cache, m))
    PROVE  L!Held(Keys(Left(cache, m)) \cup
                     {x \in Keys(Evicted(cache, m)) :
                         x = g \/ <<g, x>> \in Order(cache.storage)})
              + SizeOf[m.content] > Capacity
  <1> DEFINE s == Others(cache, m.object)
             k == Evicting(cache, m)
             size == SizeOf[m.content]
             used == cache.used - SizeIn(cache, m.object)
             others == Stored(cache) \ {m.object}
             n == Len(s)
  <1>1. /\ s \in Seq(Entries) /\ Distinct(s) /\ Keys(s) = others
        /\ ToSet(s) \subseteq ToSet(cache.storage)
        /\ Bytes(s) = used
        /\ Order(s) = Order(cache.storage) \cap (others \X others)
        /\ n \in Nat /\ DOMAIN s = 1..n
        /\ \A i \in 1..n : s[i] \in Entries
    BY OthersOfCache, KeysAreObjects
  <1>2. k = Evictions(s, used, size)
    BY DEF Evicting
  <1>3. Evicted(cache, m) = SubSeq(s, 1, k) /\ Left(cache, m) = SubSeq(s, k + 1, n)
    BY DEF Evicted, Left
  <1> HIDE DEF s, used, k, n, others
  <1>4. k \in 0..n /\ \A i \in 0..n :
           i < k => ~(used - Bytes(SubSeq(s, 1, i)) + size <= Capacity)
    BY <1>1, <1>2, FewestEvictions DEF n
  <1>5. /\ Keys(Evicted(cache, m)) = {s[j].object : j \in 1..k}
        /\ Keys(Left(cache, m)) = {s[j].object : j \in (k + 1)..n}
    BY <1>1, <1>3, <1>4, KeysOfParts DEF n
  <1>6. PICK i \in 1..k : s[i].object = g
    BY <1>5
  <1>7. i \in 1..n /\ i - 1 \in 0..n /\ i - 1 < k /\ (i - 1) + 1 = i /\ i \in Nat /\ k \in Nat
    BY <1>1, <1>4
  <1> DEFINE t == SubSeq(s, (i - 1) + 1, n)
             later == {x \in Keys(Evicted(cache, m)) :
                         x = g \/ <<g, x>> \in Order(cache.storage)}
  <1>8. /\ t \in Seq(Entries) /\ Distinct(t) /\ ToSet(t) \subseteq ToSet(s)
        /\ SubSeq(s, 1, i - 1) \in Seq(Entries)
        /\ Bytes(s) = Bytes(SubSeq(s, 1, i - 1)) + Bytes(t)
    BY <1>1, <1>7, OldestTakenOut DEF n
  <1>9. Keys(t) = {s[j].object : j \in i..n}
    BY <1>1, <1>7, KeysOfParts DEF n
  <1> HIDE DEF t
  <1>10. Bytes(t) + size > Capacity
    <2>1. ~(used - Bytes(SubSeq(s, 1, i - 1)) + size <= Capacity)
      BY <1>4, <1>7
    <2>2. /\ Bytes(s) \in Nat /\ Bytes(t) \in Nat /\ Bytes(SubSeq(s, 1, i - 1)) \in Nat
          /\ size \in Nat /\ Capacity \in Nat
      BY <1>1, <1>8, BytesNatural, CacheAssumption
    <2> HIDE DEF size
    <2> QED
      BY <1>1, <1>8, <2>1, <2>2
  <1>11. Keys(Left(cache, m)) \cup later = Keys(t)
    <2>0. \A a, b \in others : <<a, b>> \in Order(cache.storage) <=> <<a, b>> \in Order(s)
      BY <1>1
    <2>1. ASSUME NEW x \in later
          PROVE  x \in Keys(t)
      <3>1. PICK j \in 1..k : s[j].object = x
        BY <1>5
      <3>2. j \in 1..n
        BY <1>1, <1>4
      <3>3. j >= i
        <4>1. CASE x = g
          <5>1. j = i
            BY <1>1, <1>6, <1>7, <3>1, <3>2, <4>1 DEF Distinct
          <5> QED
            BY <1>7, <5>1
        <4>2. CASE <<g, x>> \in Order(cache.storage)
          <5>1. g \in others /\ x \in others
            BY <1>1, <1>6, <1>7, <3>1, <3>2, KeysAreObjects
          <5>2. <<g, x>> \in Order(s)
            BY <2>0, <4>2, <5>1
          <5>3. PICK a, b \in 1..n : a < b /\ s[a].object = g /\ s[b].object = x
            BY <1>1, <5>2, OrderIsByPosition DEF n
          <5>4. a = i /\ b = j
            BY <1>1, <1>6, <1>7, <3>1, <3>2, <5>3 DEF Distinct
          <5> QED
            BY <5>3, <5>4
        <4> QED
          BY <4>1, <4>2
      <3>4. j \in i..n
        BY <3>2, <3>3, <1>7
      <3> QED
        BY <1>9, <3>1, <3>4
    <2>2. Keys(Left(cache, m)) \subseteq Keys(t)
      <3>1. \A j \in (k + 1)..n : j \in i..n
        BY <1>1, <1>7
      <3> QED
        BY <1>5, <1>9, <3>1
    <2>3. ASSUME NEW j \in i..n
          PROVE  s[j].object \in Keys(Left(cache, m)) \cup later
      <3>1. CASE j > k
        <4>1. j \in (k + 1)..n
          BY <1>1, <1>7, <3>1
        <4> QED
          BY <1>5, <4>1
      <3>2. CASE j <= k
        <4>1. j \in 1..k /\ j \in 1..n
          BY <1>1, <1>7, <3>2
        <4>2. s[j].object \in Keys(Evicted(cache, m))
          BY <1>5, <4>1
        <4>3. CASE j = i
          BY <1>6, <4>2, <4>3
        <4>4. CASE j # i
          <5>1. i < j
            BY <1>7, <4>4
          <5>2. <<g, s[j].object>> \in Order(s)
            BY <1>1, <1>6, <1>7, <4>1, <5>1, OrderIsByPosition DEF n
          <5> QED
            BY <1>1, <4>2, <5>2
        <4> QED
          BY <4>3, <4>4
      <3>3. j > k \/ j <= k
        BY <1>7
      <3> QED
        BY <3>1, <3>2, <3>3
    <2> QED
      BY <1>9, <2>1, <2>2, <2>3
  <1>12. L!Held(Keys(t)) = Bytes(t)
    BY <1>1, <1>8, HeldIsBytes
  <1> QED
    BY <1>10, <1>11, <1>12

LEMMA StoresLatest ==
    ASSUME cache \in Caches, NEW m \in Catalogue, ~Rejected(m), Put(m)
    PROVE  \E gone \in SUBSET DOMAIN cache.metadata : L!Store(m, gone)
  <1> DEFINE o == m.object
             gone == Keys(Evicted(cache, m))
             kept == Keys(Left(cache, m))
             size == SizeOf[m.content]
             older == Order(cache.storage)
  <1>1. /\ gone \subseteq Stored(cache) \ {o}
        /\ kept = Stored(cache) \ (gone \cup {o})
        /\ gone \X kept \subseteq older
        /\ Left(cache, m) \in Seq(Entries) /\ Distinct(Left(cache, m))
        /\ ToSet(Left(cache, m)) \subseteq ToSet(cache.storage)
        /\ Bytes(Left(cache, m)) + size <= Capacity
    BY MakesRoom
  <1>2. DOMAIN cache.metadata = Stored(cache)
    BY PartsOfCaches
  <1>3. L!Held(kept) + size <= Capacity
    BY <1>1, HeldIsBytes
  <1>4. \A g \in gone :
           L!Held(kept \cup {x \in gone : x = g \/ <<g, x>> \in older}) + size > Capacity
    BY NoMoreThanItMust
  <1>5. /\ cache'.metadata = [x \in kept \cup {o} |-> IF x = o THEN m ELSE cache.metadata[x]]
        /\ Order(cache'.storage) = (older \cap (kept \X kept)) \cup (kept \X {o})
        /\ answer' = [object |-> o, content |-> m.content]
        /\ now' = now
    <2>1. cache' = AfterPut(cache, m)
      BY DEF Put
    <2>2. answer' = [object |-> o, content |-> m.content] /\ now' = now
      BY DEF Put, Answer
    <2> QED
      BY <1>1, <2>1, <2>2, WrittenIsLatest
  <1> HIDE DEF gone, kept, older
  <1>6. /\ o \notin gone /\ o \notin kept
        /\ kept = DOMAIN cache.metadata \ (gone \cup {o})
        /\ (kept \cup {o}) \ {o} = kept
    BY <1>1, <1>2
  <1>7. Order(cache.storage)' = L!LatestUsed(o, kept \cup {o})
    BY <1>5, <1>6 DEF L!LatestUsed, L!Among, older
  <1>8. \A g \in gone, x \in kept : <<g, x>> \in older
    BY <1>1
  <1>9. L!Store(m, gone)
    BY <1>3, <1>4, <1>5, <1>6, <1>7, <1>8 DEF L!Store, L!Answer, older
  <1> QED
    BY <1>1, <1>2, <1>9

LEMMA DropsWhatIsGone ==
    ASSUME NEW objects, Remains(cache', cache),
           DOMAIN cache'.metadata = DOMAIN cache.metadata \ objects
    PROVE  L!Drop(objects)
  BY DEF Remains, L!Drop, L!Among

LEMMA FreshIsNotStale ==
    ASSUME cache \in Caches, now \in Nat, NEW o
    PROVE  o \in L!Readable <=> Hits(cache, o, now)
  <1>1. DOMAIN cache.metadata = Stored(cache) /\ cache.metadata \in [Stored(cache) -> Catalogue]
    BY PartsOfCaches
  <1>2. CASE o \in Stored(cache)
    <2> DEFINE md == cache.metadata[o]
    <2>1. md.expires \in Nat \cup {NoTime}
      BY <1>1, <1>2, CacheAssumption
    <2>2. (md.expires # NoTime /\ now < md.expires) <=>
             (md.expires # NoTime /\ ~(now >= md.expires))
      <3> HIDE DEF md
      <3> QED
        BY <2>1
    <2>3. L!Fresh(o) <=> ~IsStale(cache, o, now)
      BY <1>1, <1>2, <2>2 DEF L!Fresh, IsStale
    <2> QED
      BY <1>1, <1>2, <2>3 DEF L!Readable, Hits
  <1>3. CASE o \notin Stored(cache)
    BY <1>1, <1>3 DEF L!Readable, Hits
  <1> QED
    BY <1>2, <1>3

LEMMA ReadsOrMisses ==
    ASSUME cache \in Caches, now \in Nat, NEW o, cache' = AfterGet(cache, o, now), now' = now,
           answer' = Answer(o, IF Hits(cache, o, now) THEN cache.metadata[o].content
                               ELSE NoContent)
    PROVE  L!Read(o) \/ L!Miss(o)
  <1>1. DOMAIN cache.metadata = Stored(cache)
    BY PartsOfCaches
  <1>2. CASE Hits(cache, o, now)
    <2>1. o \in L!Readable
      BY <1>2, FreshIsNotStale
    <2>2. o \in Stored(cache) /\ cache' = Touched(cache, o)
      BY <1>2 DEF Hits, AfterGet
    <2>3. /\ cache'.metadata = cache.metadata
          /\ Order(cache'.storage) =
                (Order(cache.storage) \cap ((Stored(cache) \ {o}) \X (Stored(cache) \ {o})))
                   \cup ((Stored(cache) \ {o}) \X {o})
      BY <2>2, TouchedIsLatest
    <2>4. Order(cache.storage)' = L!LatestUsed(o, DOMAIN cache.metadata)
      BY <1>1, <2>3 DEF L!LatestUsed, L!Among
    <2> QED
      BY <1>2, <2>1, <2>3, <2>4 DEF L!Read, L!Answer, Answer
  <1>3. CASE ~Hits(cache, o, now)
    <2>1. o \notin L!Readable
      BY <1>3, FreshIsNotStale
    <2>2. Remains(cache', cache) /\ DOMAIN cache'.metadata = DOMAIN cache.metadata \ {o}
      <3>1. CASE IsStale(cache, o, now)
        BY <3>1, InvalidatedRemains DEF AfterGet
      <3>2. CASE ~IsStale(cache, o, now)
        <4>1. o \notin Stored(cache) /\ cache' = cache
          BY <1>3, <3>2 DEF Hits, AfterGet, Touched
        <4> QED
          BY <1>1, <4>1, CacheRemains DEF Remainders
      <3> QED
        BY <3>1, <3>2
    <2>3. L!Drop({o})
      BY <2>2, DropsWhatIsGone
    <2> QED
      BY <1>3, <2>1, <2>3 DEF L!Miss, L!Answer, Answer
  <1> QED
    BY <1>2, <1>3

ForgetsPrefix ==
    \A objects \in PrefixSets : InvalidatePrefix(objects) =>
        /\ Stored(cache)' = Stored(cache) \ objects
        /\ Order(cache.storage)' =
              Order(cache.storage) \cap (Stored(cache)' \X Stored(cache)')

\* The loop of invalidate_prefix removes from the storage whose keys it walks, and
\* yet leaves no entry of the prefix behind and the others in their order.
THEOREM PrefixIsForgotten == Spec => [][ForgetsPrefix]_cacheVars
  <1>1. ASSUME CacheInv, NEW objects \in PrefixSets, InvalidatePrefix(objects)
        PROVE  /\ Stored(cache)' = Stored(cache) \ objects
               /\ Order(cache.storage)' = Order(cache.storage)
                     \cap (Stored(cache)' \X Stored(cache)')
    <2> DEFINE d == PrefixInvalidated(cache, objects)
    <2>1. cache \in Caches /\ cache' = d
      BY <1>1 DEF CacheInv, InvalidatePrefix
    <2>2. /\ d \in Caches /\ Remains(d, cache)
          /\ DOMAIN d.metadata = DOMAIN cache.metadata \ objects
      BY <2>1, PrefixInvalidatedRemains DEF Remainders
    <2>3. DOMAIN cache.metadata = Stored(cache) /\ DOMAIN d.metadata = Stored(d)
      BY <2>1, <2>2, PartsOfCaches
    <2> HIDE DEF d
    <2>4. Stored(cache)' = Stored(d)
      BY <2>1 DEF Stored
    <2> QED
      BY <2>1, <2>2, <2>3, <2>4 DEF Remains
  <1>2. CacheInv => ForgetsPrefix
    BY <1>1 DEF ForgetsPrefix
  <1> QED
    BY <1>2, CacheAlwaysMatches, PTL

\* The OrderedDict with its running count is a cache that evicts the least
\* recently used, and only when it must: it answers, renews, drops and refuses as
\* LeastRecentlyUsed allows.
THEOREM CacheRefines == Spec => ImplementsLeastRecentlyUsed
  <1>1. Init => L!LruInit
    <2> SUFFICES ASSUME Init
                 PROVE  L!LruInit
      OBVIOUS
    <2>1. cache.metadata = [o \in {} |-> o] /\ cache.storage = << >>
      BY DEF Init, EmptyCache
    <2>2. Order(<< >>) = {}
      BY DEF Order
    <2> QED
      BY <2>1, <2>2 DEF Init, Answer, L!LruInit, L!Answer
  <1>2. CacheInv /\ [Next]_cacheVars => [L!LruNext]_(L!lruVars)
    <2> SUFFICES ASSUME CacheInv, [Next]_cacheVars
                 PROVE  [L!LruNext]_(L!lruVars)
      OBVIOUS
    <2>1. cache \in Caches /\ now \in Nat
      BY CacheAssumption DEF CacheInv
    <2>2. /\ DOMAIN cache.metadata = Stored(cache) /\ Stored(cache) \subseteq Objects
      BY <2>1, PartsOfCaches
    <2>3. ASSUME NEW m \in Catalogue, Put(m)
          PROVE  L!LruNext
      <3>1. CASE Rejected(m)
        <4>1. L!Refuse(m)
          BY <2>3, <3>1 DEF Put, AfterPut, Answer, Rejected, L!Refuse, L!Answer
        <4> QED
          BY <4>1 DEF L!LruNext
      <3>2. CASE ~Rejected(m)
        BY <2>1, <2>3, <3>2, StoresLatest DEF L!LruNext
      <3> QED
        BY <3>1, <3>2
    <2>4. ASSUME NEW o \in Objects, Get(o)
          PROVE  L!LruNext
      <3>1. Hits(cache, o, now) => Data(cache, o) = cache.metadata[o].content
        BY <2>1, OthersOfCache DEF Hits, Data
      <3>2. /\ cache' = AfterGet(cache, o, now) /\ now' = now
            /\ answer' = Answer(o, IF Hits(cache, o, now) THEN cache.metadata[o].content
                                   ELSE NoContent)
        BY <2>4, <3>1 DEF Get
      <3>3. L!Read(o) \/ L!Miss(o)
        BY <2>1, <3>2, ReadsOrMisses
      <3> QED
        BY <3>3 DEF L!LruNext
    <2>5. ASSUME NEW o \in Objects, GetMetadata(o)
          PROVE  L!LruNext
      <3>1. Knows(cache, o, now) <=> Hits(cache, o, now)
        BY <2>2 DEF Knows, Hits
      <3>2. AfterGetMetadata(cache, o, now) = AfterGet(cache, o, now)
        BY <2>2 DEF AfterGetMetadata, AfterGet, Touched
      <3>3. /\ cache' = AfterGet(cache, o, now) /\ now' = now
            /\ answer' = Answer(o, IF Hits(cache, o, now) THEN cache.metadata[o].content
                                   ELSE NoContent)
        BY <2>5, <3>1, <3>2 DEF GetMetadata
      <3>4. L!Read(o) \/ L!Miss(o)
        BY <2>1, <3>3, ReadsOrMisses
      <3> QED
        BY <3>4 DEF L!LruNext
    <2>6. ASSUME NEW o \in Objects, Invalidate(o)
          PROVE  L!LruNext
      <3>1. L!Drop({o})
        BY <2>1, <2>6, InvalidatedRemains, DropsWhatIsGone DEF Invalidate
      <3>2. L!Forget({o}) /\ {o} \in SUBSET Objects
        BY <2>6, <3>1 DEF Invalidate, L!Forget
      <3> QED
        BY <3>2 DEF L!LruNext
    <2>7. ASSUME NEW objects \in PrefixSets, InvalidatePrefix(objects)
          PROVE  L!LruNext
      <3> DEFINE gone == objects \cap DOMAIN cache.metadata
      <3>1. Remains(cache', cache)
        BY <2>1, <2>7, PrefixInvalidatedRemains DEF InvalidatePrefix, Remainders
      <3>2. DOMAIN cache'.metadata = DOMAIN cache.metadata \ gone
        BY <2>1, <2>7, PrefixInvalidatedRemains DEF InvalidatePrefix
      <3>3. gone \in SUBSET Objects
        BY <2>2
      <3> HIDE DEF gone
      <3>4. L!Drop(gone)
        BY <3>1, <3>2, DropsWhatIsGone
      <3>5. L!Forget(gone)
        BY <2>7, <3>4 DEF InvalidatePrefix, L!Forget
      <3> QED
        BY <3>3, <3>5 DEF L!LruNext
    <2>8. CASE PassTime
      BY <2>8 DEF PassTime, L!Tick, L!LruNext
    <2>9. CASE UNCHANGED cacheVars
      BY <2>9 DEF cacheVars, L!lruVars
    <2> QED
      BY <2>3, <2>4, <2>5, <2>6, <2>7, <2>8, <2>9 DEF Next
  <1> QED
    BY <1>1, <1>2, CacheAlwaysMatches, PTL DEF Spec, ImplementsLeastRecentlyUsed, L!LruSpec
=============================================================================
