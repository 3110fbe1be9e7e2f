---------------------------- MODULE Runner_proofs ----------------------------
(***************************************************************************)
(* Theorems about the experiment runner, for any services, specifications  *)
(* and latencies.  First comes what the operators of Workload make of      *)
(* their arguments: totals, sorted sequences, the plan of a scenario, the  *)
(* summary; then the runner's invariant, action by action.                 *)
(***************************************************************************)
EXTENDS Runner, Sorting_proofs, SequenceTheorems

-----------------------------------------------------------------------------
(***************************************************************************)
(* Recursion over the naturals, with functions in place of operators.      *)
(***************************************************************************)
\* f is computed from base at m, by step from the value and the position before.
Recurs(f, step, base, m, n) ==
    f = [i \in m..n |-> IF i = m THEN base ELSE step[<<f[i - 1], i>>]]

LEMMA RecursionExists ==
    ASSUME NEW m \in Nat, NEW step, NEW base
    PROVE  \A n \in Nat : \E f : Recurs(f, step, base, m, n)
  <1> DEFINE N == {n \in Nat : \E f : Recurs(f, step, base, m, n)}
  <1>1. 0 \in N
    <2>1. Recurs([i \in m..0 |-> base], step, base, m, 0)
      BY DEF Recurs
    <2> QED
      BY <2>1
  <1>2. ASSUME NEW n \in Nat, n \in N
        PROVE  n + 1 \in N
    <2>1. PICK f : Recurs(f, step, base, m, n)
      BY <1>2
    <2> DEFINE g == [i \in m..(n + 1) |-> IF i = m THEN base
                                          ELSE IF i = n + 1 THEN step[<<f[n], i>>]
                                          ELSE f[i]]
    <2>2. ASSUME NEW i \in m..(n + 1), i # m
          PROVE  g[i] = step[<<g[i - 1], i>>]
      <3>1. i - 1 \in m..n /\ i - 1 \in m..(n + 1) /\ i - 1 # n + 1
        BY <2>2
      <3>2. f[i - 1] = g[i - 1]
        BY <2>1, <3>1 DEF Recurs
      <3>3. CASE i = n + 1
        BY <2>2, <3>2, <3>3
      <3>4. CASE i # n + 1
        <4>1. i \in m..n /\ f[i] = step[<<f[i - 1], i>>]
          BY <2>1, <2>2, <3>4 DEF Recurs
        <4> QED
          BY <2>2, <3>2, <3>4, <4>1
      <3> QED
        BY <3>3, <3>4
    <2>3. g = [i \in m..(n + 1) |-> IF i = m THEN base ELSE step[<<g[i - 1], i>>]]
      <3>1. \A i \in m..(n + 1) : i = m => g[i] = base
        OBVIOUS
      <3>2. DOMAIN g = m..(n + 1) /\ g = [i \in m..(n + 1) |-> g[i]]
        OBVIOUS
      <3> HIDE DEF g
      <3> QED
        BY <2>2, <3>1, <3>2
    <2> HIDE DEF g
    <2>4. Recurs(g, step, base, m, n + 1)
      BY <2>3 DEF Recurs
    <2> QED
      BY <2>4
  <1> HIDE DEF N
  <1>3. Nat \subseteq N
    BY <1>1, <1>2, NatIsInductive
  <1> QED
    BY <1>3 DEF N

-----------------------------------------------------------------------------
(***************************************************************************)
(* Totals and concatenations.                                              *)
(***************************************************************************)
LEMMA RunningTotals ==
    ASSUME NEW s \in Seq(Nat)
    PROVE  /\ RunningTotal(s) \in [0..Len(s) -> Nat]
           /\ RunningTotal(s)[0] = 0
           /\ \A i \in 1..Len(s) : RunningTotal(s)[i] = RunningTotal(s)[i - 1] + s[i]
  <1> DEFINE Totals(g) == g = [n \in 0..Len(s) |-> IF n = 0 THEN 0 ELSE g[n - 1] + s[n]]
             total == CHOOSE g : Totals(g)
             add == [x \in Int \X (0..Len(s)) |-> x[1] + s[x[2]]]
             Typed(g) == {n \in 0..Len(s) : g[n] \in Nat}
  <1>1. RunningTotal(s) = total
    BY DEF RunningTotal
  <1>2. Len(s) \in Nat /\ \A i \in 1..Len(s) : s[i] \in Nat
    OBVIOUS
  <1>3. \A a \in Int, n \in 0..Len(s) : add[<<a, n>>] = a + s[n]
    OBVIOUS
  <1> HIDE DEF add
  <1>4. PICK f : Recurs(f, add, 0, 0, Len(s))
    BY <1>2, RecursionExists
  <1>5. 0..Len(s) \subseteq Typed(f)
    <2>1. ASSUME NEW i \in 0..Len(s), i # 0, i - 1 \in Typed(f)
          PROVE  i \in Typed(f)
      <3>1. f[i] = add[<<f[i - 1], i>>] /\ i \in 1..Len(s) /\ f[i - 1] \in Int
        BY <1>2, <1>4, <2>1 DEF Recurs
      <3>2. f[i] = f[i - 1] + s[i]
        BY <1>3, <2>1, <3>1
      <3> QED
        BY <1>2, <2>1, <3>1, <3>2
    <2>2. 0 \in Typed(f)
      BY <1>2, <1>4 DEF Recurs
    <2> HIDE DEF Typed
    <2> QED
      BY <1>2, <2>1, <2>2, InductionBetween
  <1>6. Totals(f)
    <2>1. ASSUME NEW n \in 0..Len(s), n # 0
          PROVE  add[<<f[n - 1], n>>] = f[n - 1] + s[n]
      <3>1. n - 1 \in 0..Len(s)
        BY <1>2, <2>1
      <3> QED
        BY <1>3, <1>5, <3>1
    <2> QED
      BY <1>4, <2>1 DEF Recurs
  <1> HIDE DEF Totals
  <1>7. Totals(total)
    BY <1>6
  <1> HIDE DEF total
  <1>8. total = [n \in 0..Len(s) |-> IF n = 0 THEN 0 ELSE total[n - 1] + s[n]]
    BY <1>7 DEF Totals
  <1>9. total[0] = 0 /\ \A i \in 1..Len(s) : total[i] = total[i - 1] + s[i]
    BY <1>2, <1>8
  <1>10. 0..Len(s) \subseteq Typed(total)
    <2>1. ASSUME NEW i \in 0..Len(s), i # 0, i - 1 \in Typed(total)
          PROVE  i \in Typed(total)
      <3>1. i \in 1..Len(s) /\ total[i - 1] \in Nat
        BY <1>2, <2>1
      <3> QED
        BY <1>2, <1>9, <3>1
    <2>2. 0 \in Typed(total)
      BY <1>2, <1>9
    <2> HIDE DEF Typed
    <2> QED
      BY <1>2, <2>1, <2>2, InductionBetween
  <1>11. total \in [0..Len(s) -> Nat]
    <2>1. total = [n \in 0..Len(s) |-> total[n]]
      BY <1>8
    <2> QED
      BY <1>10, <2>1
  <1> QED
    BY <1>1, <1>9, <1>11

LEMMA FlattenedSeq ==
    ASSUME NEW E, NEW seqs \in Seq(Seq(E))
    PROVE  FlattenSeq(seqs) \in Seq(E)
  <1> DEFINE Flattens(g) == g = [i \in 1..Len(seqs) |->
                                   IF i = 1 THEN seqs[i] ELSE g[i - 1] \o seqs[i]]
             flat == CHOOSE g : Flattens(g)
             Typed(g) == {i \in 1..Len(seqs) : g[i] \in Seq(E)}
             join == [x \in Seq(E) \X (1..Len(seqs)) |-> x[1] \o seqs[x[2]]]
  <1>1. CASE Len(seqs) = 0
    BY <1>1 DEF FlattenSeq
  <1>2. CASE Len(seqs) # 0
    <2>1. FlattenSeq(seqs) = flat[Len(seqs)]
      BY <1>2 DEF FlattenSeq
    <2>2. /\ Len(seqs) \in Nat /\ 1 \in 1..Len(seqs) /\ Len(seqs) \in 1..Len(seqs)
          /\ \A i \in 1..Len(seqs) : seqs[i] \in Seq(E)
      BY <1>2
    <2>3. \A s \in Seq(E), n \in 1..Len(seqs) : join[<<s, n>>] = s \o seqs[n]
      OBVIOUS
    <2> HIDE DEF join
    <2>4. PICK f : Recurs(f, join, seqs[1], 1, Len(seqs))
      BY <2>2, RecursionExists
    <2>5. 1..Len(seqs) \subseteq Typed(f)
      <3>1. ASSUME NEW i \in 1..Len(seqs), i # 1, i - 1 \in Typed(f)
            PROVE  i \in Typed(f)
        <4>1. f[i] = join[<<f[i - 1], i>>]
          BY <2>4, <3>1 DEF Recurs
        <4>2. f[i - 1] \in Seq(E) /\ seqs[i] \in Seq(E)
          BY <2>2, <3>1
        <4>3. join[<<f[i - 1], i>>] = f[i - 1] \o seqs[i]
          BY <2>3, <4>2
        <4>4. f[i - 1] \o seqs[i] \in Seq(E)
          BY <4>2
        <4> QED
          BY <4>1, <4>3, <4>4
      <3>2. 1 \in Typed(f)
        BY <2>2, <2>4 DEF Recurs
      <3> HIDE DEF Typed
      <3> QED
        BY <2>2, <3>1, <3>2, InductionBetween
    <2>6. Flattens(f)
      <3>1. ASSUME NEW i \in 1..Len(seqs), i # 1
            PROVE  join[<<f[i - 1], i>>] = f[i - 1] \o seqs[i]
        <4>1. i - 1 \in 1..Len(seqs)
          BY <2>2, <3>1
        <4> QED
          BY <2>3, <2>5, <4>1
      <3> QED
        BY <2>4, <3>1 DEF Recurs
    <2> HIDE DEF Flattens
    <2>7. Flattens(flat)
      BY <2>6
    <2> HIDE DEF flat
    <2>8. \A i \in 1..Len(seqs) : flat[i] = IF i = 1 THEN seqs[i] ELSE flat[i - 1] \o seqs[i]
      BY <2>7 DEF Flattens
    <2>9. 1..Len(seqs) \subseteq Typed(flat)
      <3>1. ASSUME NEW i \in 1..Len(seqs), i # 1, i - 1 \in Typed(flat)
            PROVE  i \in Typed(flat)
        <4>1. flat[i] = flat[i - 1] \o seqs[i]
          BY <2>8, <3>1
        <4>2. flat[i - 1] \in Seq(E) /\ seqs[i] \in Seq(E)
          BY <2>2, <3>1
        <4>3. flat[i] \in Seq(E)
          BY <4>1, <4>2
        <4> QED
          BY <4>3
      <3>2. 1 \in Typed(flat)
        BY <2>2, <2>8
      <3> HIDE DEF Typed
      <3> QED
        BY <2>2, <3>1, <3>2, InductionBetween
    <2> QED
      BY <2>1, <2>2, <2>9
  <1> QED
    BY <1>1, <1>2

-----------------------------------------------------------------------------
LEMMA PriorityIsNumber ==
    ASSUME NEW action
    PROVE  Priority(action) \in Nat
  BY DEF Priority

LEMMA SortedIsSorted ==
    ASSUME NEW events, DOMAIN events \in SUBSET Nat, IsFiniteSet(DOMAIN events),
           \A i \in DOMAIN events : events[i].at \in Nat
    PROVE  Arranges(Sorted(events), events, Stable(DOMAIN events, Lesser(events)))
  <1> DEFINE D == DOMAIN events
             lesser == Lesser(events)
  <1>1. \A i, j \in D : <<i, j>> \in lesser <=> Earlier(events[i], events[j])
    BY DEF Lesser
  <1> HIDE DEF lesser
  <1>2. ASSUME NEW i \in D, NEW j \in D, <<i, j>> \in lesser
        PROVE  <<j, i>> \notin lesser
    BY <1>1, <1>2, PriorityIsNumber DEF Earlier
  <1>3. ASSUME NEW i \in D, NEW j \in D, NEW k \in D, <<i, k>> \in lesser
        PROVE  <<i, j>> \in lesser \/ <<j, k>> \in lesser
    <2>1. /\ Priority(events[i].action) \in Nat
          /\ Priority(events[j].action) \in Nat
          /\ Priority(events[k].action) \in Nat
      BY PriorityIsNumber
    <2> QED
      BY <1>1, <1>3, <2>1 DEF Earlier
  <1>4. Orders(Stable(D, lesser), D)
    BY <1>2, <1>3, StableOrders
  <1>5. Sorted(events) = InOrder(events, Stable(D, lesser))
    BY DEF Sorted, lesser
  <1> QED
    BY <1>4, <1>5, InOrderIsInOrder DEF lesser

-----------------------------------------------------------------------------
(***************************************************************************)
(* The plan of a script.                                                   *)
(***************************************************************************)
ScriptSteps == [action : Actions \cup {"wait"}, target : Services, seconds : Nat]

LEMMA CursorIsTotal ==
    ASSUME NEW steps \in Seq(ScriptSteps)
    PROVE  /\ Len(steps) \in Nat /\ DOMAIN steps = 1..Len(steps)
           /\ \A i \in 1..Len(steps) : steps[i] \in ScriptSteps
           /\ \A i \in 0..Len(steps) : Cursor(steps)[i] \in Nat
           /\ \A i \in 1..Len(steps) :
                 /\ Waited(steps[i]) \in Nat
                 /\ Cursor(steps)[i] = Cursor(steps)[i - 1] + Waited(steps[i])
  <1> DEFINE waits == [i \in DOMAIN steps |-> Waited(steps[i])]
  <1>1. /\ Len(steps) \in Nat /\ DOMAIN steps = 1..Len(steps)
        /\ \A i \in 1..Len(steps) : steps[i] \in ScriptSteps
    OBVIOUS
  <1>2. \A i \in 1..Len(steps) : Waited(steps[i]) \in Nat
    BY <1>1 DEF Waited, ScriptSteps
  <1>3. waits \in Seq(Nat) /\ Len(waits) = Len(steps)
    BY <1>1, <1>2
  <1>4. \A i \in 1..Len(steps) : waits[i] = Waited(steps[i])
    BY <1>1
  <1>5. Cursor(steps) = RunningTotal(waits)
    BY DEF Cursor
  <1> HIDE DEF waits
  <1>6. /\ RunningTotal(waits) \in [0..Len(steps) -> Nat]
        /\ \A i \in 1..Len(steps) :
              RunningTotal(waits)[i] = RunningTotal(waits)[i - 1] + waits[i]
    BY <1>3, RunningTotals
  <1> QED
    BY <1>1, <1>2, <1>4, <1>5, <1>6

\* The cursor never goes back, and goes on where there is something to wait for.
LEMMA CursorGoesOn ==
    ASSUME NEW steps \in Seq(ScriptSteps), NEW i \in 0..Len(steps), NEW j \in 0..Len(steps),
           i <= j
    PROVE  Cursor(steps)[i] <= Cursor(steps)[j]
  <1> DEFINE Reached == {k \in i..Len(steps) : Cursor(steps)[i] <= Cursor(steps)[k]}
  <1>1. Len(steps) \in Nat /\ \A k \in 0..Len(steps) : Cursor(steps)[k] \in Nat
    BY CursorIsTotal
  <1>2. i \in Reached
    BY <1>1
  <1>3. ASSUME NEW k \in i..Len(steps), k # i, k - 1 \in Reached
        PROVE  k \in Reached
    <2>1. k \in 1..Len(steps) /\ k - 1 \in 0..Len(steps) /\ k \in 0..Len(steps)
      BY <1>1, <1>3
    <2>2. Waited(steps[k]) \in Nat /\ Cursor(steps)[k] = Cursor(steps)[k - 1] + Waited(steps[k])
      BY <2>1, CursorIsTotal
    <2>3. Cursor(steps)[k - 1] \in Nat /\ Cursor(steps)[i] \in Nat
      BY <1>1, <2>1
    <2> QED
      BY <1>3, <2>2, <2>3
  <1> HIDE DEF Reached
  <1>4. i..Len(steps) \subseteq Reached
    <2>1. i \in Nat
      OBVIOUS
    <2> QED
      BY <2>1, <1>1, <1>2, <1>3, InductionBetween
  <1> QED
    BY <1>1, <1>4 DEF Reached

Waits(steps, d, e) == \E k \in d..e : steps[k].action = "wait" /\ steps[k].seconds > 0

LEMMA WaitingMovesOn ==
    ASSUME NEW steps \in Seq(ScriptSteps), NEW d \in 1..Len(steps), NEW e \in 1..Len(steps),
           steps[e].action # "wait", Waits(steps, d, e)
    PROVE  Cursor(steps)[d - 1] < Cursor(steps)[e - 1]
  <1>1. /\ Len(steps) \in Nat
        /\ \A i \in 0..Len(steps) : Cursor(steps)[i] \in Nat
        /\ \A i \in 1..Len(steps) :
                 /\ Waited(steps[i]) \in Nat
                 /\ Cursor(steps)[i] = Cursor(steps)[i - 1] + Waited(steps[i])
    BY CursorIsTotal
  <1>2. PICK k \in d..e : steps[k].action = "wait" /\ steps[k].seconds > 0
    BY DEF Waits
  <1>3. k \in 1..Len(steps) /\ k # e /\ Waited(steps[k]) > 0
    BY <1>1, <1>2 DEF Waited
  <1>4. /\ d - 1 \in 0..Len(steps) /\ k - 1 \in 0..Len(steps)
        /\ k \in 0..Len(steps) /\ e - 1 \in 0..Len(steps)
        /\ d - 1 <= k - 1 /\ k <= e - 1
    BY <1>1, <1>3
  <1>5. /\ Cursor(steps)[d - 1] <= Cursor(steps)[k - 1]
        /\ Cursor(steps)[k] <= Cursor(steps)[e - 1]
    BY <1>4, CursorGoesOn
  <1>6. Cursor(steps)[k] = Cursor(steps)[k - 1] + Waited(steps[k]) /\ Waited(steps[k]) \in Nat
    BY <1>1, <1>3
  <1>7. /\ Cursor(steps)[d - 1] \in Nat /\ Cursor(steps)[k - 1] \in Nat
        /\ Cursor(steps)[k] \in Nat /\ Cursor(steps)[e - 1] \in Nat
    BY <1>1, <1>4
  <1> QED
    BY <1>3, <1>5, <1>6, <1>7

KeepsScript(steps, events) ==
    /\ \A k \in DOMAIN steps : steps[k].action # "wait" =>
          Cardinality({i \in DOMAIN events : events[i].step = k}) = 1
    /\ \A i, j \in DOMAIN events :
          i < j /\ events[j].step < events[i].step =>
              /\ ~Waits(steps, events[j].step, events[i].step)
              /\ Priority(events[i].action) < Priority(events[j].action)

LEMMA ScriptIsKept ==
    ASSUME NEW steps \in Seq(ScriptSteps)
    PROVE  KeepsScript(steps, Sorted(ExplicitEvents(steps)))
  <1> DEFINE D == {i \in DOMAIN steps : steps[i].action # "wait"}
             events == ExplicitEvents(steps)
             before == Stable(D, Lesser(events))
             n == Cardinality(D)
             plan0 == Sorted(events)
  <1>1. /\ Len(steps) \in Nat /\ DOMAIN steps = 1..Len(steps)
        /\ \A i \in 0..Len(steps) : Cursor(steps)[i] \in Nat
    BY CursorIsTotal
  <1>2. /\ DOMAIN events = D
        /\ \A i \in D : /\ events[i].at = Cursor(steps)[i - 1]
                        /\ events[i].action = steps[i].action
                        /\ events[i].step = i
    BY DEF ExplicitEvents, At
  <1>3. D \in SUBSET (1..Len(steps)) /\ D \in SUBSET Nat
    BY <1>1
  <1>4. IsFiniteSet(D)
    <2>1. IsFiniteSet(1..Len(steps))
      BY <1>1, FS_Interval
    <2> HIDE DEF D
    <2> QED
      BY <1>3, <2>1, FS_Subset
  <1>5. \A i \in D : events[i].at \in Nat
    <2> TAKE i \in D
    <2>1. i - 1 \in 0..Len(steps)
      BY <1>1, <1>3
    <2> QED
      BY <1>1, <1>2, <2>1
  <1> HIDE DEF D, events
  <1>6. /\ n \in Nat
        /\ \E at : Sorts(at, before, D) /\ plan0 = [k \in 1..n |-> events[at[k]]]
    <2>1. /\ DOMAIN events \in SUBSET Nat /\ IsFiniteSet(DOMAIN events)
          /\ \A i \in DOMAIN events : events[i].at \in Nat
      BY <1>2, <1>3, <1>4, <1>5
    <2>2. Arranges(plan0, events, before)
      BY <1>2, <2>1, SortedIsSorted
    <2> QED
      BY <1>2, <2>2 DEF Arranges
  <1>7. PICK at : Sorts(at, before, D) /\ plan0 = [k \in 1..n |-> events[at[k]]]
    BY <1>6
  <1> HIDE DEF plan0, before
  <1>8. /\ DOMAIN plan0 = 1..n
        /\ \A k \in 1..n : /\ at[k] \in D
                           /\ plan0[k].step = at[k]
                           /\ plan0[k].action = steps[at[k]].action
        /\ \A i \in D : \E k \in 1..n : at[k] = i
        /\ \A k, l \in 1..n : k < l <=> <<at[k], at[l]>> \in before
    BY <1>2, <1>7 DEF Sorts
  <1>9. \A k, l \in 1..n : at[k] = at[l] => k = l
    <2> SUFFICES ASSUME NEW k \in 1..n, NEW l \in 1..n, at[k] = at[l], k # l
                 PROVE  FALSE
      OBVIOUS
    <2>1. <<at[k], at[k]>> \in before /\ (k < l \/ l < k)
      BY <1>6, <1>8
    <2> QED
      BY <1>6, <1>8, <2>1
  <1>10. ASSUME NEW k \in DOMAIN steps, steps[k].action # "wait"
         PROVE  Cardinality({i \in DOMAIN plan0 : plan0[i].step = k}) = 1
    <2>1. PICK i \in 1..n : at[i] = k
      BY <1>8, <1>10 DEF D
    <2>2. {l \in DOMAIN plan0 : plan0[l].step = k} = {i}
      BY <1>8, <1>9, <2>1
    <2> QED
      BY <2>2, FS_Singleton
  <1>11. ASSUME NEW i \in DOMAIN plan0, NEW j \in DOMAIN plan0,
                i < j, plan0[j].step < plan0[i].step
         PROVE  /\ ~Waits(steps, plan0[j].step, plan0[i].step)
                /\ Priority(plan0[i].action) < Priority(plan0[j].action)
    <2> DEFINE d == at[j]
               e == at[i]
    <2>1. /\ d \in D /\ e \in D /\ d < e
          /\ plan0[j].step = d /\ plan0[i].step = e
          /\ plan0[i].action = steps[e].action /\ plan0[j].action = steps[d].action
          /\ <<e, d>> \in before
      BY <1>8, <1>11
    <2> HIDE DEF d, e
    <2>2. d \in 1..Len(steps) /\ e \in 1..Len(steps) /\ steps[e].action # "wait"
      BY <1>1, <2>1 DEF D
    <2>3. Earlier(events[e], events[d])
      BY <1>2, <1>3, <2>1 DEF before, Stable, Lesser
    <2>4. /\ events[e].at = Cursor(steps)[e - 1] /\ events[d].at = Cursor(steps)[d - 1]
          /\ events[e].action = steps[e].action /\ events[d].action = steps[d].action
      BY <1>2, <2>1
    <2>5. d - 1 \in 0..Len(steps) /\ e - 1 \in 0..Len(steps) /\ d - 1 <= e - 1
      BY <1>1, <2>1, <2>2
    <2>6. Cursor(steps)[d - 1] <= Cursor(steps)[e - 1]
      BY <2>5, CursorGoesOn
    <2>7. Cursor(steps)[d - 1] \in Nat /\ Cursor(steps)[e - 1] \in Nat
      BY <1>1, <2>5
    <2>8. /\ Cursor(steps)[d - 1] = Cursor(steps)[e - 1]
          /\ Priority(steps[e].action) < Priority(steps[d].action)
      BY <2>3, <2>4, <2>6, <2>7 DEF Earlier
    <2>9. ~Waits(steps, d, e)
      BY <2>2, <2>7, <2>8, WaitingMovesOn
    <2> QED
      BY <2>1, <2>8, <2>9
  <1> QED
    BY <1>10, <1>11 DEF KeepsScript, plan0, events

-----------------------------------------------------------------------------
(***************************************************************************)
(* The events of a plan are those that a specification may ask for.        *)
(***************************************************************************)
Events == [at : Nat, action : Actions, target : Services, step : Nat]

LEMMA AtIsEvent ==
    ASSUME NEW time \in Nat, NEW action \in Actions, NEW target \in Services, NEW step \in Nat
    PROVE  At(time, action, target, step) \in Events
  BY DEF At, Events

LEMMA SortedEvents ==
    ASSUME NEW events, DOMAIN events \in SUBSET Nat, IsFiniteSet(DOMAIN events),
           \A i \in DOMAIN events : events[i] \in Events
    PROVE  Sorted(events) \in Seq(Events)
  <1> DEFINE n == Cardinality(DOMAIN events)
  <1>1. \A i \in DOMAIN events : events[i].at \in Nat
    BY DEF Events
  <1>2. Arranges(Sorted(events), events, Stable(DOMAIN events, Lesser(events)))
    BY <1>1, SortedIsSorted
  <1>3. PICK at : /\ Sorts(at, Stable(DOMAIN events, Lesser(events)), DOMAIN events)
                  /\ Sorted(events) = [k \in 1..n |-> events[at[k]]]
    BY <1>2 DEF Arranges
  <1>4. n \in Nat /\ \A k \in 1..n : at[k] \in DOMAIN events
    BY <1>2, <1>3 DEF Arranges, Sorts
  <1>5. \A k \in 1..n : events[at[k]] \in Events
    BY <1>4
  <1> HIDE DEF n
  <1>6. [k \in 1..n |-> events[at[k]]] \in Seq(Events)
    BY <1>4, <1>5
  <1> QED
    BY <1>3, <1>6

LEMMA SequencesAreSorted ==
    ASSUME NEW events \in Seq(Events)
    PROVE  Sorted(events) \in Seq(Events)
  <1>1. Len(events) \in Nat /\ DOMAIN events = 1..Len(events)
    OBVIOUS
  <1>2. IsFiniteSet(DOMAIN events) /\ DOMAIN events \in SUBSET Nat
    BY <1>1, FS_Interval
  <1>3. \A i \in DOMAIN events : events[i] \in Events
    BY <1>1
  <1> QED
    BY <1>2, <1>3, SortedEvents

LEMMA ExplicitAreEvents ==
    ASSUME NEW steps \in Seq(ScriptSteps)
    PROVE  Sorted(ExplicitEvents(steps)) \in Seq(Events)
  <1> DEFINE D == {i \in DOMAIN steps : steps[i].action # "wait"}
             events == ExplicitEvents(steps)
  <1>1. /\ Len(steps) \in Nat /\ DOMAIN steps = 1..Len(steps)
        /\ \A i \in 1..Len(steps) : steps[i] \in ScriptSteps
        /\ \A i \in 0..Len(steps) : Cursor(steps)[i] \in Nat
    BY CursorIsTotal
  <1>2. /\ DOMAIN events = D
        /\ \A i \in D : events[i] =
               At(Cursor(steps)[i - 1], steps[i].action, steps[i].target, i)
    BY DEF ExplicitEvents
  <1>3. D \in SUBSET (1..Len(steps)) /\ D \in SUBSET Nat /\ IsFiniteSet(1..Len(steps))
    BY <1>1, FS_Interval
  <1>4. ASSUME NEW i \in D
        PROVE  events[i] \in Events
    <2>1. i \in 1..Len(steps) /\ i - 1 \in 0..Len(steps) /\ i \in Nat
      BY <1>1, <1>3
    <2>2. steps[i].action \in Actions /\ steps[i].target \in Services
      BY <1>1, <2>1 DEF ScriptSteps
    <2>3. Cursor(steps)[i - 1] \in Nat
      BY <1>1, <2>1
    <2> HIDE DEF D, events
    <2> QED
      BY <1>2, <2>1, <2>2, <2>3, AtIsEvent
  <1> HIDE DEF D, events
  <1>5. IsFiniteSet(D)
    BY <1>3, FS_Subset
  <1>6. Sorted(events) \in Seq(Events)
    BY <1>2, <1>3, <1>4, <1>5, SortedEvents
  <1> QED
    BY <1>6 DEF events

LEMMA OutageIsEvents ==
    ASSUME NEW peer \in Peers, NEW down \in Nat, NEW downtime \in Nat
    PROVE  Outage(peer, down, downtime) \in Seq(Events)
  <1>1. /\ At(down, "kill", peer, 0) \in Events
        /\ At(down + downtime, "restart", peer, 0) \in Events
    BY AtIsEvent DEF Actions, Services
  <1> QED
    BY <1>1 DEF Outage

RequestProfiles == [count : Nat, peers : SUBSET Peers, start : Nat, end : Nat]

IndependentProfiles == [kind : {"independent"}, count : Nat, peers : SUBSET Peers,
                        start : Nat, end : Nat, downtime : Nat]

Exits == [at : Nat, peers : Seq(Peers), downtime : Nat]

CorrelatedProfiles == [kind : {"correlated"}, events : Seq(Exits)]

LEMMA RequestsAreEvents ==
    ASSUME NEW profile \in RequestProfiles
    PROVE  RequestEvents(profile) \subseteq Seq(Events)
  <1> DEFINE n == profile.count
             times == RequestTimes(profile)
             choices == [1..n -> times \X profile.peers]
  <1>1. /\ n \in Nat /\ times \subseteq Nat /\ profile.peers \subseteq Services
        /\ "fetch" \in Actions
    BY DEF RequestProfiles, RequestTimes, Services, Actions
  <1> HIDE DEF n, times
  <1>2. ASSUME NEW c \in choices
        PROVE  [k \in 1..n |-> At(c[k][1], "fetch", c[k][2], 0)] \in Seq(Events)
    <2>1. \A k \in 1..n : c[k][1] \in Nat /\ c[k][2] \in Services
      BY <1>1
    <2>2. \A k \in 1..n : At(c[k][1], "fetch", c[k][2], 0) \in Events
      BY <1>1, <2>1, AtIsEvent
    <2> QED
      BY <1>1, <2>2
  <1> QED
    BY <1>2 DEF RequestEvents, n, times

LEMMA IndependentAreEvents ==
    ASSUME NEW profile \in IndependentProfiles
    PROVE  IndependentChurn(profile) \subseteq Seq(Events)
  <1> DEFINE n == IF profile.count < Cardinality(profile.peers)
                  THEN profile.count ELSE Cardinality(profile.peers)
             times == RequestTimes(profile)
             samples == {s \in [1..n -> profile.peers] :
                            \A i, j \in 1..n : s[i] = s[j] => i = j}
             outages(s, t) == [k \in 1..n |-> Outage(s[k], t[k], profile.downtime)]
  <1>1. /\ times \subseteq Nat /\ profile.downtime \in Nat
        /\ profile.count \in Nat /\ profile.peers \in SUBSET Peers
    BY DEF IndependentProfiles, RequestTimes
  <1>2. n \in Nat
    <2>1. IsFiniteSet(profile.peers)
      BY <1>1, RunnerAssumption, FS_Subset
    <2> QED
      BY <1>1, <2>1, FS_CardinalityType
  <1> HIDE DEF n, times
  <1>3. ASSUME NEW s \in samples, NEW t \in [1..n -> times]
        PROVE  FlattenSeq(outages(s, t)) \in Seq(Events)
    <2>1. \A k \in 1..n : s[k] \in Peers /\ t[k] \in Nat
      BY <1>1
    <2>2. \A k \in 1..n : Outage(s[k], t[k], profile.downtime) \in Seq(Events)
      BY <1>1, <2>1, OutageIsEvents
    <2>3. outages(s, t) \in Seq(Seq(Events))
      BY <1>2, <2>2
    <2> HIDE DEF outages, samples
    <2> QED
      BY <2>3, FlattenedSeq
  <1>4. IndependentChurn(profile) =
            {FlattenSeq(outages(s, t)) : s \in samples, t \in [1..n -> times]}
    BY DEF IndependentChurn, n, times
  <1> HIDE DEF samples, outages
  <1> QED
    BY <1>3, <1>4

LEMMA CorrelatedAreEvents ==
    ASSUME NEW profile \in CorrelatedProfiles
    PROVE  CorrelatedChurn(profile) \in Seq(Events)
  <1> DEFINE exits == profile.events
             outages(e) == [k \in DOMAIN e.peers |-> Outage(e.peers[k], e.at, e.downtime)]
             all == [i \in DOMAIN exits |-> FlattenSeq(outages(exits[i]))]
  <1>1. exits \in Seq(Exits)
    BY DEF CorrelatedProfiles
  <1> HIDE DEF exits
  <1>2. ASSUME NEW e \in Exits
        PROVE  FlattenSeq(outages(e)) \in Seq(Events)
    <2>1. e.at \in Nat /\ e.downtime \in Nat /\ e.peers \in Seq(Peers)
      BY DEF Exits
    <2>2. /\ Len(e.peers) \in Nat /\ DOMAIN e.peers = 1..Len(e.peers)
          /\ \A k \in 1..Len(e.peers) : e.peers[k] \in Peers
      BY <2>1
    <2>3. \A k \in 1..Len(e.peers) : Outage(e.peers[k], e.at, e.downtime) \in Seq(Events)
      BY <2>1, <2>2, OutageIsEvents
    <2>4. outages(e) \in Seq(Seq(Events))
      BY <2>2, <2>3
    <2> HIDE DEF outages
    <2> QED
      BY <2>4, FlattenedSeq
  <1> HIDE DEF outages
  <1>3. all \in Seq(Seq(Events))
    <2>1. /\ Len(exits) \in Nat /\ DOMAIN exits = 1..Len(exits)
          /\ \A k \in 1..Len(exits) : exits[k] \in Exits
      BY <1>1
    <2>2. \A k \in 1..Len(exits) : FlattenSeq(outages(exits[k])) \in Seq(Events)
      BY <1>2, <2>1
    <2> QED
      BY <2>1, <2>2
  <1>4. CorrelatedChurn(profile) = FlattenSeq(all)
    BY DEF CorrelatedChurn, outages, exits
  <1> HIDE DEF all
  <1> QED
    BY <1>3, <1>4, FlattenedSeq

LEMMA ChainedAreEvents ==
    ASSUME NEW choices \in Seq(SUBSET Seq(Events))
    PROVE  Chained(choices) \subseteq Seq(Events)
  <1> DEFINE all == UNION {choices[k] : k \in DOMAIN choices}
  <1>1. /\ Len(choices) \in Nat /\ DOMAIN choices = 1..Len(choices)
        /\ \A k \in 1..Len(choices) : choices[k] \subseteq Seq(Events)
    OBVIOUS
  <1>2. all \subseteq Seq(Events)
    BY <1>1
  <1> HIDE DEF all
  <1>3. ASSUME NEW c \in [DOMAIN choices -> all]
        PROVE  FlattenSeq(c) \in Seq(Events)
    <2>1. \A k \in 1..Len(choices) : c[k] \in Seq(Events)
      BY <1>1, <1>2
    <2>2. c \in Seq(Seq(Events))
      BY <1>1, <2>1
    <2> QED
      BY <2>2, FlattenedSeq
  <1> QED
    BY <1>3 DEF Chained, all

LEMMA ScenarioParts ==
    ASSUME NEW s \in Scenarios
    PROVE  /\ s.reset \in BOOLEAN
           /\ s.steps \in Seq(ScriptSteps)
           /\ s.requests \in Seq(RequestProfiles)
           /\ s.churn \in Seq(IndependentProfiles \cup CorrelatedProfiles)
  BY DEF Scenarios, ScriptSteps, RequestProfiles, IndependentProfiles, CorrelatedProfiles,
         Exits

LEMMA PlansAreEvents ==
    ASSUME NEW s \in Scenarios
    PROVE  Plans(s) \subseteq Seq(Events)
  <1> DEFINE requests == [k \in DOMAIN s.requests |-> RequestEvents(s.requests[k])]
             churn == [k \in DOMAIN s.churn |-> Churn(s.churn[k])]
             chained == Chained(requests \o churn)
  <1>1. requests \in Seq(SUBSET Seq(Events))
    <2>1. s.requests \in Seq(RequestProfiles)
      BY ScenarioParts
    <2>2. /\ Len(s.requests) \in Nat /\ DOMAIN s.requests = 1..Len(s.requests)
          /\ \A k \in 1..Len(s.requests) : s.requests[k] \in RequestProfiles
      BY <2>1
    <2>3. \A k \in 1..Len(s.requests) : RequestEvents(s.requests[k]) \in SUBSET Seq(Events)
      BY <2>2, RequestsAreEvents
    <2> QED
      BY <2>2, <2>3
  <1>2. churn \in Seq(SUBSET Seq(Events))
    <2>1. s.churn \in Seq(IndependentProfiles \cup CorrelatedProfiles)
      BY ScenarioParts
    <2>2. /\ Len(s.churn) \in Nat /\ DOMAIN s.churn = 1..Len(s.churn)
          /\ \A k \in 1..Len(s.churn) :
                s.churn[k] \in IndependentProfiles \cup CorrelatedProfiles
      BY <2>1
    <2>3. ASSUME NEW p \in IndependentProfiles \cup CorrelatedProfiles
          PROVE  Churn(p) \in SUBSET Seq(Events)
      <3>1. CASE p \in IndependentProfiles
        <4>1. p.kind = "independent"
          BY <3>1 DEF IndependentProfiles
        <4> QED
          BY <3>1, <4>1, IndependentAreEvents DEF Churn
      <3>2. CASE p \in CorrelatedProfiles
        <4>1. p.kind = "correlated"
          BY <3>2 DEF CorrelatedProfiles
        <4>2. CorrelatedChurn(p) \in Seq(Events)
          BY <3>2, CorrelatedAreEvents
        <4> QED
          BY <4>1, <4>2 DEF Churn
      <3> QED
        BY <3>1, <3>2
    <2>4. \A k \in 1..Len(s.churn) : Churn(s.churn[k]) \in SUBSET Seq(Events)
      BY <2>2, <2>3
    <2> QED
      BY <2>2, <2>4
  <1> HIDE DEF requests, churn
  <1>3. requests \o churn \in Seq(SUBSET Seq(Events))
    BY <1>1, <1>2
  <1>4. chained \subseteq Seq(Events)
    BY <1>3, ChainedAreEvents
  <1> HIDE DEF chained
  <1>5. \A events \in chained : Sorted(events) \in Seq(Events)
    BY <1>4, SequencesAreSorted
  <1>6. Sorted(ExplicitEvents(s.steps)) \in Seq(Events)
    BY ScenarioParts, ExplicitAreEvents
  <1>7. Plans(s) = IF s.steps # <<>> THEN {Sorted(ExplicitEvents(s.steps))}
                   ELSE {Sorted(events) : events \in chained}
    BY DEF Plans, chained, requests, churn
  <1> QED
    BY <1>5, <1>6, <1>7

-----------------------------------------------------------------------------
(***************************************************************************)
(* The summary.                                                            *)
(***************************************************************************)
Ascends(v) == \A k, l \in DOMAIN v : k <= l => v[k] <= v[l]

LEMMA OrderedAscends ==
    ASSUME NEW values, DOMAIN values \in SUBSET Nat, IsFiniteSet(DOMAIN values),
           \A i \in DOMAIN values : values[i] \in Nat
    PROVE  /\ Ordered(values) \in Seq(Nat)
           /\ Len(Ordered(values)) = Cardinality(DOMAIN values)
           /\ Ascends(Ordered(values))
  <1> DEFINE D == DOMAIN values
             n == Cardinality(D)
             lesser == {ij \in D \X D : values[ij[1]] < values[ij[2]]}
             before == Stable(D, lesser)
             ordered == Ordered(values)
  <1>1. \A i, j \in D : <<i, j>> \in lesser <=> values[i] < values[j]
    OBVIOUS
  <1> HIDE DEF lesser
  <1>2. \A i, j \in D : <<i, j>> \in lesser => <<j, i>> \notin lesser
    BY <1>1
  <1>3. \A i, j, k \in D : <<i, k>> \in lesser => <<i, j>> \in lesser \/ <<j, k>> \in lesser
    BY <1>1
  <1>4. Orders(before, D)
    BY <1>2, <1>3, StableOrders
  <1>5. ordered = InOrder(values, before)
    BY DEF Ordered, lesser
  <1>6. Arranges(ordered, values, before)
    BY <1>4, <1>5, InOrderIsInOrder
  <1>7. PICK at : Sorts(at, before, D) /\ ordered = [k \in 1..n |-> values[at[k]]]
    BY <1>6 DEF Arranges
  <1>8. /\ n \in Nat
        /\ \A k \in 1..n : at[k] \in D /\ values[at[k]] \in Nat
        /\ \A k, l \in 1..n : k < l <=> <<at[k], at[l]>> \in before
    BY <1>6, <1>7 DEF Arranges, Sorts
  <1> HIDE DEF n, ordered
  <1>9. ordered \in Seq(Nat) /\ Len(ordered) = n
    BY <1>7, <1>8
  <1>10. ASSUME NEW k \in 1..n, NEW l \in 1..n, k < l
         PROVE  values[at[k]] <= values[at[l]]
    <2>1. <<at[k], at[l]>> \in before
      BY <1>8, <1>10
    <2>2. <<at[l], at[k]>> \notin lesser \/ <<at[k], at[l]>> \in lesser
      BY <2>1 DEF Stable
    <2>3. ~(values[at[l]] < values[at[k]]) \/ values[at[k]] < values[at[l]]
      BY <1>1, <1>8, <2>2
    <2> QED
      BY <1>8, <2>3
  <1>11. Ascends(ordered)
    <2> SUFFICES ASSUME NEW k \in 1..n, NEW l \in 1..n, k <= l
                 PROVE  values[at[k]] <= values[at[l]]
      BY <1>7, <1>8 DEF Ascends
    <2>1. CASE k = l
      BY <1>8, <2>1
    <2>2. CASE k < l
      BY <1>10, <2>2
    <2> QED
      BY <1>8, <2>1, <2>2
  <1> QED
    BY <1>9, <1>11 DEF ordered, n

LEMMA ProductGrows ==
    ASSUME NEW d \in Nat, NEW r \in Nat, NEW s \in Nat, r <= s
    PROVE  d * r \in Nat /\ d * s \in Nat /\ d * r <= d * s
  <1>1. d * (s - r) \in Nat
    OBVIOUS
  <1>2. d * s = d * r + d * (s - r)
    OBVIOUS
  <1> QED
    BY <1>1, <1>2

\* What lies between two numbers, r hundredths of the way from the first.
Between(a, b, r) == 100 * a + (b - a) * r

LEMMA BetweenTheTwo ==
    ASSUME NEW a \in Nat, NEW b \in Nat, a <= b, NEW r \in 0..100, NEW s \in 0..100, r <= s
    PROVE  /\ Between(a, b, r) \in Nat
           /\ 100 * a <= Between(a, b, r)
           /\ Between(a, b, r) <= Between(a, b, s)
           /\ Between(a, b, s) <= 100 * b
  <1> DEFINE d == b - a
  <1>1. d \in Nat /\ b = a + d /\ r \in Nat /\ s \in Nat /\ 100 \in Nat /\ s <= 100
    OBVIOUS
  <1> HIDE DEF d
  <1>2. d * r \in Nat /\ d * s \in Nat /\ d * r <= d * s
    BY <1>1, ProductGrows
  <1>3. d * s <= d * 100
    BY <1>1, ProductGrows
  <1> QED
    BY <1>1, <1>2, <1>3 DEF Between, d

Lower(n, p) == 1 + (((n - 1) * p) \div 100)

Upper(n, p) == IF Lower(n, p) < n THEN Lower(n, p) + 1 ELSE Lower(n, p)

Rest(n, p) == ((n - 1) * p) % 100

LEMMA PercentileIsBetween ==
    ASSUME NEW v \in Seq(Nat), NEW p
    PROVE  Percentile(v, p) = Between(v[Lower(Len(v), p)], v[Upper(Len(v), p)], Rest(Len(v), p))
  BY DEF Percentile, Between, Lower, Upper, Rest

LEMMA PercentilePlace ==
    ASSUME NEW n \in Nat, n # 0, NEW p \in Nat, p = 50 \/ p = 95
    PROVE  /\ Lower(n, p) \in 1..n /\ Upper(n, p) \in 1..n
           /\ Lower(n, p) <= Upper(n, p)
           /\ Rest(n, p) \in 0..100
  <1>1. Lower(n, p) \in 1..n /\ Rest(n, p) \in 0..100
    <2>1. CASE p = 50
      BY <2>1 DEF Lower, Rest
    <2>2. CASE p = 95
      BY <2>2 DEF Lower, Rest
    <2> QED
      BY <2>1, <2>2
  <1> QED
    BY <1>1 DEF Upper

LEMMA PercentilePlaces ==
    ASSUME NEW n \in Nat \ {0}
    PROVE  \/ /\ Lower(n, 50) = Lower(n, 95) /\ Upper(n, 50) = Upper(n, 95)
              /\ Rest(n, 50) <= Rest(n, 95)
           \/ Upper(n, 50) <= Lower(n, 95)
  <1>1. /\ Lower(n, 50) \in 1..n /\ Rest(n, 50) \in 0..99
        /\ (n - 1) * 50 = 100 * (Lower(n, 50) - 1) + Rest(n, 50)
    BY DEF Lower, Rest
  <1>2. /\ Lower(n, 95) \in 1..n /\ Rest(n, 95) \in 0..99
        /\ (n - 1) * 95 = 100 * (Lower(n, 95) - 1) + Rest(n, 95)
    BY DEF Lower, Rest
  <1>3. /\ Upper(n, 50) = IF Lower(n, 50) < n THEN Lower(n, 50) + 1 ELSE Lower(n, 50)
        /\ Upper(n, 95) = IF Lower(n, 95) < n THEN Lower(n, 95) + 1 ELSE Lower(n, 95)
    BY DEF Upper
  <1>4. \/ Lower(n, 50) = Lower(n, 95) /\ Rest(n, 50) <= Rest(n, 95)
        \/ Lower(n, 50) < Lower(n, 95)
    <2> DEFINE a == Lower(n, 50) - 1
               b == Lower(n, 95) - 1
               r == Rest(n, 50)
               s == Rest(n, 95)
    <2>1. a \in Nat /\ b \in Nat /\ r \in 0..99 /\ s \in 0..99
      BY <1>1, <1>2
    <2>2. 100 * a + r <= 100 * b + s
      BY <1>1, <1>2
    <2>3. Lower(n, 50) = a + 1 /\ Lower(n, 95) = b + 1
      BY <1>1, <1>2
    <2> HIDE DEF a, b, r, s
    <2>4. a < b \/ (a = b /\ r <= s)
      BY <2>1, <2>2
    <2> QED
      BY <2>1, <2>3, <2>4 DEF r, s
  <1> QED
    BY <1>1, <1>2, <1>3, <1>4

\* The median is the fiftieth percentile, and no more than the ninety-fifth.
LEMMA PercentilesInOrder ==
    ASSUME NEW v \in Seq(Nat), v # <<>>, Ascends(v)
    PROVE  /\ Percentile(v, 50) = Median(v)
           /\ Percentile(v, 50) \in Nat /\ Percentile(v, 95) \in Nat
           /\ v[1] \in Nat /\ v[Len(v)] \in Nat
           /\ 100 * v[1] <= Percentile(v, 50)
           /\ Percentile(v, 50) <= Percentile(v, 95)
           /\ Percentile(v, 95) <= 100 * v[Len(v)]
  <1> DEFINE n == Len(v)
  <1>1. n \in Nat \ {0} /\ DOMAIN v = 1..n /\ \A k \in 1..n : v[k] \in Nat
    OBVIOUS
  <1>2. \A k, l \in 1..n : k <= l => v[k] <= v[l]
    BY <1>1 DEF Ascends
  <1> DEFINE lo(p) == v[Lower(n, p)]
             hi(p) == v[Upper(n, p)]
  <1>3. \A p : Percentile(v, p) = Between(lo(p), hi(p), Rest(n, p))
    BY PercentileIsBetween
  <1> HIDE DEF n
  <1>4. ASSUME NEW p \in {50, 95}
        PROVE  /\ Lower(n, p) \in 1..n /\ Upper(n, p) \in 1..n
               /\ Lower(n, p) <= Upper(n, p)
               /\ Rest(n, p) \in 0..100
    <2>1. n \in Nat /\ n # 0 /\ p \in Nat /\ (p = 50 \/ p = 95)
      BY <1>1
    <2> QED
      BY ONLY <2>1, PercentilePlace
  <1>5. ASSUME NEW p \in {50, 95}
        PROVE  /\ lo(p) \in Nat /\ hi(p) \in Nat /\ lo(p) <= hi(p)
               /\ v[1] \in Nat /\ v[n] \in Nat /\ v[1] <= lo(p) /\ hi(p) <= v[n]
    <2>1. 1 \in 1..n /\ n \in 1..n
      BY <1>1
    <2> QED
      BY <1>1, <1>2, <1>4, <2>1
  <1>6. ASSUME NEW p \in {50, 95}
        PROVE  /\ Percentile(v, p) \in Nat
               /\ 100 * lo(p) <= Percentile(v, p)
               /\ Percentile(v, p) <= 100 * hi(p)
    <2> DEFINE a == lo(p)
               b == hi(p)
               r == Rest(n, p)
    <2>1. r \in 0..100 /\ a \in Nat /\ b \in Nat /\ a <= b
      BY <1>4, <1>5
    <2>2. Percentile(v, p) = Between(a, b, r)
      BY <1>3
    <2> HIDE DEF a, b, r
    <2>3. r <= r
      BY <2>1
    <2>4. Between(a, b, r) \in Nat /\ 100 * a <= Between(a, b, r) /\ Between(a, b, r) <= 100 * b
      BY <2>1, <2>3, BetweenTheTwo
    <2> QED
      BY <2>2, <2>4 DEF a, b
  <1>7. Percentile(v, 50) <= Percentile(v, 95)
    <2>1. CASE /\ Lower(n, 50) = Lower(n, 95) /\ Upper(n, 50) = Upper(n, 95)
               /\ Rest(n, 50) <= Rest(n, 95)
      <3> DEFINE a == lo(50)
                 b == hi(50)
                 r == Rest(n, 50)
                 s == Rest(n, 95)
      <3>1. /\ a \in Nat /\ b \in Nat /\ a <= b
            /\ r \in 0..100 /\ s \in 0..100 /\ r <= s
        BY <1>4, <1>5, <2>1
      <3>2. Percentile(v, 50) = Between(a, b, r) /\ Percentile(v, 95) = Between(a, b, s)
        BY <1>3, <2>1
      <3> HIDE DEF a, b, r, s
      <3>3. Between(a, b, r) <= Between(a, b, s)
        BY <3>1, BetweenTheTwo
      <3> QED
        BY <3>2, <3>3
    <2>2. CASE Upper(n, 50) <= Lower(n, 95)
      <3>1. hi(50) <= lo(95)
        BY <1>2, <1>4, <2>2
      <3>2. Percentile(v, 50) <= 100 * hi(50) /\ 100 * lo(95) <= Percentile(v, 95)
        BY <1>6
      <3>3. /\ hi(50) \in Nat /\ lo(95) \in Nat
            /\ Percentile(v, 50) \in Nat /\ Percentile(v, 95) \in Nat
        BY <1>5, <1>6
      <3> QED
        BY <3>1, <3>2, <3>3
    <2> QED
      BY <1>1, <2>1, <2>2, PercentilePlaces
  <1>8. 100 * v[1] <= Percentile(v, 50) /\ Percentile(v, 95) <= 100 * v[n]
    <2>1. /\ v[1] \in Nat /\ v[n] \in Nat /\ lo(50) \in Nat /\ hi(95) \in Nat
          /\ v[1] <= lo(50) /\ hi(95) <= v[n]
      BY <1>5
    <2>2. /\ Percentile(v, 50) \in Nat /\ Percentile(v, 95) \in Nat
          /\ 100 * lo(50) <= Percentile(v, 50) /\ Percentile(v, 95) <= 100 * hi(95)
      BY <1>6
    <2> HIDE DEF lo, hi
    <2>3. /\ \A a, b, c \in Nat : a <= b /\ 100 * b <= c => 100 * a <= c
          /\ \A a, b, c \in Nat : a <= b /\ c <= 100 * a => c <= 100 * b
      OBVIOUS
    <2> QED
      BY <2>1, <2>2, <2>3, Zenon
  <1>9. Percentile(v, 50) = Median(v)
    <2>1. CASE n % 2 = 1
      <3>1. Lower(n, 50) = (n + 1) \div 2 /\ Rest(n, 50) = 0
        BY <1>1, <2>1 DEF Lower, Rest
      <3>2. Median(v) = 100 * lo(50)
        BY <2>1, <3>1 DEF Median, n
      <3>3. lo(50) \in Nat /\ hi(50) \in Nat /\ Percentile(v, 50) = Between(lo(50), hi(50), 0)
        BY <1>3, <1>5, <3>1
      <3> HIDE DEF lo, hi
      <3> QED
        BY <3>2, <3>3 DEF Between
    <2>2. CASE n % 2 # 1
      <3>1. /\ Lower(n, 50) = n \div 2 /\ Rest(n, 50) = 50
            /\ Upper(n, 50) = n \div 2 + 1
        BY <1>1, <2>2 DEF Lower, Rest, Upper
      <3>2. Median(v) = 50 * (lo(50) + hi(50))
        BY <2>2, <3>1 DEF Median, n
      <3>3. lo(50) \in Nat /\ hi(50) \in Nat /\ Percentile(v, 50) = Between(lo(50), hi(50), 50)
        BY <1>3, <1>5, <3>1
      <3> HIDE DEF lo, hi
      <3> QED
        BY <3>2, <3>3 DEF Between
    <2> QED
      BY <2>1, <2>2
  <1> QED
    BY <1>5, <1>6, <1>7, <1>8, <1>9 DEF n

LEMMA DisjointAddUp ==
    ASSUME NEW S, NEW T, IsFiniteSet(S), IsFiniteSet(T), S \cap T = {}
    PROVE  /\ IsFiniteSet(S \cup T)
           /\ Cardinality(S \cup T) = Cardinality(S) + Cardinality(T)
  <1>1. Cardinality(S) \in Nat /\ Cardinality(T) \in Nat /\ Cardinality(S \cap T) = 0
    BY FS_CardinalityType, FS_EmptySet
  <1>2. /\ IsFiniteSet(S \cup T)
        /\ Cardinality(S \cup T) = Cardinality(S) + Cardinality(T) - Cardinality(S \cap T)
    BY FS_Union, Zenon
  <1> QED
    BY <1>1, <1>2

LEMMA MeanIsNumber ==
    ASSUME NEW v \in Seq(Nat), v # <<>>
    PROVE  Mean(v) \in Nat
  <1> DEFINE total == RunningTotal(v)[Len(v)]
             n == Len(v)
  <1>1. n \in Nat \ {0}
    OBVIOUS
  <1>2. total \in Nat
    BY <1>1, RunningTotals
  <1>3. Mean(v) = (100 * total) \div n
    BY DEF Mean
  <1> HIDE DEF total, n
  <1>4. 100 * total \in Nat
    BY <1>2
  <1>5. \A a \in Nat, b \in Nat \ {0} : a \div b \in Nat
    OBVIOUS
  <1> QED
    BY <1>1, <1>3, <1>4, <1>5

LEMMA LatencySummaries ==
    ASSUME NEW values, DOMAIN values \in SUBSET Nat, IsFiniteSet(DOMAIN values),
           \A i \in DOMAIN values : values[i] \in Nat
    PROVE  /\ LatencySummary(values) \in Statistics
           /\ LatencySummary(values).min <= LatencySummary(values).median
           /\ LatencySummary(values).median <= LatencySummary(values).p95
           /\ LatencySummary(values).p95 <= LatencySummary(values).max
           /\ Ordered(values) # <<>> =>
                 Percentile(Ordered(values), 50) = LatencySummary(values).median
  <1> DEFINE v == Ordered(values)
             summary == LatencySummary(values)
  <1>1. v \in Seq(Nat) /\ Ascends(v)
    BY OrderedAscends
  <1>2. summary = IF v = <<>> THEN NoLatencies
                  ELSE [min |-> 100 * v[1], mean |-> Mean(v), median |-> Median(v),
                        p95 |-> Percentile(v, 95), max |-> 100 * v[Len(v)]]
    BY DEF LatencySummary
  <1> HIDE DEF v, summary
  <1>3. CASE v = <<>>
    BY <1>2, <1>3 DEF NoLatencies, Statistics, v, summary
  <1>4. CASE v # <<>>
    <2>1. /\ Percentile(v, 50) = Median(v)
          /\ Percentile(v, 50) \in Nat /\ Percentile(v, 95) \in Nat
          /\ v[1] \in Nat /\ v[Len(v)] \in Nat
          /\ 100 * v[1] <= Percentile(v, 50)
          /\ Percentile(v, 50) <= Percentile(v, 95)
          /\ Percentile(v, 95) <= 100 * v[Len(v)]
      BY <1>1, <1>4, PercentilesInOrder
    <2>2. Mean(v) \in Nat
      BY <1>1, <1>4, MeanIsNumber
    <2>3. /\ summary \in Statistics
          /\ summary.min = 100 * v[1] /\ summary.median = Median(v)
          /\ summary.p95 = Percentile(v, 95) /\ summary.max = 100 * v[Len(v)]
      BY <1>2, <1>4, <2>1, <2>2 DEF Statistics
    <2> QED
      BY <2>1, <2>3 DEF v, summary
  <1> QED
    BY <1>3, <1>4

\* Only a fetch succeeds, and then it says what served it.
Results ==
    {r \in [event : Events, status : {"success", "failed", "done"},
            source : Sources \cup {"none"}, latency : Nat] :
        r.status = "success" => r.event.action = "fetch" /\ r.source \in Sources}

LEMMA SummariesAddUp ==
    ASSUME NEW r \in Seq(Results)
    PROVE  /\ Summary(r) \in Summaries
           /\ Summary(r).fetches = Summary(r).successes + Summary(r).failures
           /\ Summary(r).successes = Summary(r).sources["cache"] + Summary(r).sources["peer"]
                                         + Summary(r).sources["origin"]
           /\ LET ordered == Ordered([i \in {i \in DOMAIN r : r[i].status = "success"} |->
                                         r[i].latency])
                  statistics == Summary(r).latencies
              IN  /\ statistics.min <= statistics.median
                  /\ statistics.median <= statistics.p95
                  /\ statistics.p95 <= statistics.max
                  /\ ordered # <<>> => Percentile(ordered, 50) = statistics.median
  <1> DEFINE F == {i \in DOMAIN r : r[i].event.action = "fetch"}
             S == {i \in F : r[i].status = "success"}
             From(s) == {i \in S : r[i].source = s}
             latencies == [i \in S |-> r[i].latency]
             summary == Summary(r)
  <1>1. summary = [fetches |-> Cardinality(F), successes |-> Cardinality(S),
                   failures |-> Cardinality(F) - Cardinality(S),
                   sources |-> [s \in Sources |-> Cardinality(From(s))],
                   latencies |-> LatencySummary(latencies)]
    BY DEF Summary
  <1>2. /\ Len(r) \in Nat /\ DOMAIN r = 1..Len(r)
        /\ \A i \in 1..Len(r) : r[i] \in Results
    OBVIOUS
  <1>3. /\ F \in SUBSET (1..Len(r)) /\ S \in SUBSET F /\ S \in SUBSET Nat
        /\ \A s : From(s) \in SUBSET S
    BY <1>2
  <1>4. S = {i \in DOMAIN r : r[i].status = "success"}
    BY <1>2 DEF Results
  <1>5. S = (From("cache") \cup From("peer")) \cup From("origin")
    BY <1>2, <1>3 DEF Results, Sources
  <1>6. /\ From("cache") \cap From("peer") = {}
        /\ (From("cache") \cup From("peer")) \cap From("origin") = {}
    OBVIOUS
  <1>7. \A i \in S : r[i].latency \in Nat
    BY <1>2, <1>3 DEF Results
  <1>8. /\ DOMAIN latencies = S /\ \A i \in S : latencies[i] \in Nat
        /\ latencies = [i \in {i \in DOMAIN r : r[i].status = "success"} |-> r[i].latency]
    BY <1>4, <1>7
  <1> HIDE DEF F, S, From, latencies, summary
  <1>9. IsFiniteSet(1..Len(r))
    BY <1>2, FS_Interval
  <1>10. /\ IsFiniteSet(F) /\ Cardinality(F) \in Nat
         /\ IsFiniteSet(S) /\ Cardinality(S) \in Nat
         /\ Cardinality(S) <= Cardinality(F)
    <2>1. IsFiniteSet(F)
      BY <1>3, <1>9, FS_Subset
    <2>2. IsFiniteSet(S) /\ Cardinality(S) <= Cardinality(F)
      BY <1>3, <2>1, FS_Subset
    <2> QED
      BY <2>1, <2>2, FS_CardinalityType
  <1>11. \A s : IsFiniteSet(From(s)) /\ Cardinality(From(s)) \in Nat
    BY <1>3, <1>10, FS_Subset, FS_CardinalityType
  <1>12. Cardinality(S) = Cardinality(From("cache")) + Cardinality(From("peer"))
                              + Cardinality(From("origin"))
    <2>1. /\ IsFiniteSet(From("cache") \cup From("peer"))
          /\ Cardinality(From("cache") \cup From("peer")) =
                Cardinality(From("cache")) + Cardinality(From("peer"))
      BY <1>6, <1>11, DisjointAddUp
    <2> QED
      BY <1>5, <1>6, <1>11, <2>1, DisjointAddUp
  <1>13. DOMAIN latencies \in SUBSET Nat /\ IsFiniteSet(DOMAIN latencies)
    BY <1>3, <1>8, <1>10
  <1>14. /\ LatencySummary(latencies) \in Statistics
         /\ LatencySummary(latencies).min <= LatencySummary(latencies).median
         /\ LatencySummary(latencies).median <= LatencySummary(latencies).p95
         /\ LatencySummary(latencies).p95 <= LatencySummary(latencies).max
         /\ Ordered(latencies) # <<>> =>
               Percentile(Ordered(latencies), 50) = LatencySummary(latencies).median
    BY <1>8, <1>13, LatencySummaries
  <1>15. summary \in Summaries
    BY <1>1, <1>10, <1>11, <1>14 DEF Summaries
  <1>16. /\ summary.fetches = Cardinality(F) /\ summary.successes = Cardinality(S)
         /\ summary.failures = Cardinality(F) - Cardinality(S)
         /\ summary.sources["cache"] = Cardinality(From("cache"))
         /\ summary.sources["peer"] = Cardinality(From("peer"))
         /\ summary.sources["origin"] = Cardinality(From("origin"))
         /\ summary.latencies = LatencySummary(latencies)
    BY <1>1 DEF Sources
  <1>17. summary.fetches = summary.successes + summary.failures
    BY <1>10, <1>16
  <1> QED
    BY <1>8, <1>12, <1>14, <1>15, <1>16, <1>17 DEF summary

-----------------------------------------------------------------------------
(***************************************************************************)
(* The types of the stack and of the runner's records.                     *)
(***************************************************************************)
StackTyped ==
    /\ orchestrator \in Orchestrators
    /\ authorised \in BOOLEAN
    /\ place \in Places
    /\ todo \subseteq Services
    /\ up \in [Services -> BOOLEAN]
    /\ attached \in [Services -> BOOLEAN]
    /\ qdisc \in [Services -> {"none", "loss", "delay"}]
    /\ leaving \subseteq Services /\ missed \subseteq Services
    /\ live \subseteq Services /\ stray \subseteq Services /\ disturbed \subseteq Services
    /\ faults \in 0..MaxFaults

Files == [summary : Summaries, stats : SUBSET Peers]

\* Of what is executed there is one result each, in order.
LogTyped ==
    /\ ahead \in Seq(Scenarios) /\ scenario \in Scenarios
    /\ plan \in Seq(Events) /\ results \in Seq(Results) /\ files \in Seq(Files)
    /\ place \in {"stopping", "starting", "waiting", "planning"} => results = <<>>
    /\ place = "events" =>
          /\ plan \in Plans(scenario)
          /\ Len(results) <= Len(plan)
          /\ \A i \in DOMAIN results : results[i].event = plan[i]

LEMMA ForwardsAreServices ==
    ASSUME StackTyped, NEW upNow \in [Services -> BOOLEAN], NEW leavingNow \in SUBSET Services,
           StartForwards(upNow, leavingNow) \/ RestartForwards(upNow, leavingNow)
    PROVE  live' \subseteq Services /\ stray' \subseteq Services
  <1>1. \A held \in SUBSET leavingNow : UpAmong(upNow) \cup held \subseteq Services
    BY DEF UpAmong
  <1>2. live' = live \/ \E held \in SUBSET leavingNow : live' = UpAmong(upNow) \cup held
    BY DEF StartForwards, RestartForwards, Forwarded, forwardVars
  <1>3. stray' = stray
    BY DEF StartForwards, RestartForwards, forwardVars
  <1> QED
    BY <1>1, <1>2, <1>3 DEF StackTyped

LEMMA AbortTyped ==
    ASSUME StackTyped, Abort, UNCHANGED <<orchestrator, authorised, disturbed>>,
           Fault \/ UNCHANGED faults
    PROVE  StackTyped'
  BY RunnerAssumption DEF StackTyped, Abort, Fault, stackVars, Places

\* What stopping and starting a service does to the stack.
StackMoves ==
    /\ up' \in [Services -> BOOLEAN]
    /\ attached' = attached
    /\ qdisc' \in [Services -> {"none", "loss", "delay"}]
    /\ leaving' \subseteq Services
    /\ missed' = missed
    /\ RestartForwards(up', leaving')

LEMMA StopsMove ==
    ASSUME StackTyped, NEW s \in Services, Stop(s)
    PROVE  StackMoves
  BY DEF StackTyped, StackMoves, Stop

LEMMA GoesMove ==
    ASSUME StackTyped, NEW s \in Services, Go(s)
    PROVE  StackMoves
  <1>1. up' = [x \in Services |-> up[x] \/ x \in Starts(s)]
    BY DEF Go
  <1>2. up' \in [Services -> BOOLEAN]
    BY <1>1
  <1> QED
    BY <1>2 DEF StackTyped, StackMoves, Go

LEMMA MovesStayTyped ==
    ASSUME StackTyped, StackMoves, place' \in Places, todo' \subseteq Services,
           UNCHANGED <<orchestrator, authorised, disturbed, faults>>
    PROVE  StackTyped'
  <1>1. live' \subseteq Services /\ stray' \subseteq Services
    <2>1. up' \in [Services -> BOOLEAN] /\ leaving' \in SUBSET Services
      BY DEF StackMoves
    <2>2. /\ live' = live \/ \E held \in SUBSET leaving' : live' = UpAmong(up') \cup held
          /\ stray' = stray
      BY DEF StackMoves, RestartForwards, Forwarded, forwardVars
    <2> QED
      BY <2>1, <2>2 DEF StackTyped, UpAmong
  <1> QED
    BY <1>1 DEF StackTyped, StackMoves

LEMMA ShapedTyped ==
    ASSUME StackTyped, NEW discipline \in {"none", "loss", "delay"}, Shape(discipline),
           NEW actions, Executing(actions), place' \in Places, UNCHANGED <<todo, faults>>
    PROVE  StackTyped'
  <1>1. /\ qdisc' = [qdisc EXCEPT ![Target] = discipline] \/ qdisc' = qdisc
        /\ missed' = missed \/ missed' = missed \cup (leaving \cap {Target})
        /\ UNCHANGED <<up, attached, leaving, live, stray>>
    BY DEF Shape, forwardVars
  <1> QED
    BY <1>1 DEF StackTyped, Executing, AtPlace

LEMMA TargetIsService ==
    ASSUME LogTyped, NEW actions, Executing(actions)
    PROVE  Target \in Services
  <1>1. /\ plan \in Seq(Events) /\ Len(results) \in Nat /\ Len(plan) \in Nat
        /\ Len(results) < Len(plan)
    BY DEF LogTyped, Executing
  <1>2. Current \in Events
    BY <1>1 DEF Current
  <1> QED
    BY <1>2 DEF Target, Events

LEMMA StackStaysTyped ==
    ASSUME StackTyped, LogTyped, Next
    PROVE  StackTyped'
  <1>1. CASE Preflight
    BY <1>1, ForwardsAreServices DEF Preflight, AtPlace, StackTyped, stackVars, Places
  <1>2. CASE Checked
    BY <1>2 DEF Checked, AtPlace, StackTyped, stackVars, forwardVars, Places
  <1>3. CASE Refused
    BY <1>3, AbortTyped DEF Refused, AtPlace
  <1>4. CASE End
    BY <1>4, AbortTyped DEF End, AtPlace
  <1>5. CASE Begin
    <2>1. /\ place' \in Places /\ todo' \subseteq Services /\ live' \subseteq Services
          /\ UNCHANGED <<orchestrator, authorised, disturbed, stackVars, stray, faults>>
      BY <1>5 DEF Begin, AtPlace, StackTyped, stackVars, Places
    <2> QED
      BY <2>1 DEF StackTyped, stackVars
  <1>6. ASSUME NEW s \in Services, ResetPod(s)
        PROVE  StackTyped'
    <2>1. /\ StackMoves
          /\ UNCHANGED <<orchestrator, authorised, disturbed, faults>>
      BY <1>6, StopsMove, GoesMove DEF ResetPod, AtPlace
    <2>2. todo' \subseteq Services /\ place' \in Places
      BY <1>6 DEF ResetPod, AtPlace, StackTyped, Places
    <2> QED
      BY <2>1, <2>2, MovesStayTyped
  <1>7. CASE ResetCompose
    BY <1>7 DEF ResetCompose, AtPlace, StackTyped, forwardVars, Places
  <1>8. CASE ResetFailed
    BY <1>8, AbortTyped DEF ResetFailed, AtPlace
  <1>9. CASE StackReady
    <2>1. CASE Abort
      BY <1>9, <2>1, AbortTyped DEF StackReady, AtPlace
    <2>2. CASE place' = "planning" /\ StartForwards(up, leaving) /\ UNCHANGED <<todo, stackVars>>
      BY <1>9, <2>2, ForwardsAreServices
         DEF StackReady, AtPlace, StackTyped, stackVars, Places
    <2> QED
      BY <1>9, <2>1, <2>2 DEF StackReady
  <1>10. CASE Plan
    BY <1>10 DEF Plan, AtPlace, StackTyped, stackVars, forwardVars, Places
  <1>11. CASE Fetch
    BY <1>11 DEF Fetch, Executing, AtPlace, Record, StackTyped, stackVars, forwardVars
  <1>12. CASE Invalidate
    <2>1. CASE Abort
      BY <1>12, <2>1, AbortTyped DEF Invalidate, Executing, AtPlace
    <2>2. CASE Record(Result("done")) /\ UNCHANGED <<stackVars, forwardVars>>
      BY <1>12, <2>2
         DEF Invalidate, Executing, AtPlace, Record, StackTyped, stackVars, forwardVars
    <2> QED
      BY <1>12, <2>1, <2>2 DEF Invalidate
  <1>13. CASE Sleep
    BY <1>13 DEF Sleep, Executing, AtPlace, Record, StackTyped, stackVars, forwardVars
  <1>14. CASE Kill
    <2>1. CASE Stop(Target)
      <3>1. /\ UNCHANGED <<orchestrator, authorised, disturbed, faults, todo, place>>
            /\ place' \in Places /\ todo' \subseteq Services
        BY <1>14 DEF Kill, Executing, AtPlace, Record, StackTyped
      <3>2. StackMoves
        BY <1>14, <2>1, TargetIsService, StopsMove DEF Kill
      <3> QED
        BY <3>1, <3>2, MovesStayTyped
    <2>2. CASE UNCHANGED <<stackVars, forwardVars>>
      BY <1>14, <2>2 DEF Kill, Executing, AtPlace, Record, StackTyped, stackVars, forwardVars
    <2> QED
      BY <1>14, <2>1, <2>2 DEF Kill
  <1>15. CASE Restart
    <2>1. /\ place' \in Places /\ todo' \subseteq Services
          /\ UNCHANGED <<orchestrator, authorised, disturbed, faults>>
          /\ Executing({"restart"}) /\ Go(Target)
      BY <1>15 DEF Restart, Executing, AtPlace, Record, StackTyped, Places
    <2> QED
      BY <2>1, TargetIsService, GoesMove, MovesStayTyped
  <1>16. CASE Disconnect
    <2>1. CASE Abort
      BY <1>16, <2>1, AbortTyped DEF Disconnect, Executing, AtPlace
    <2>2. CASE ~Abort
      <3>1. /\ Executing({"disconnect"}) /\ Record(Result("done")) /\ UNCHANGED faults
            /\ \/ Shape("loss")
               \/ /\ attached' = [attached EXCEPT ![Target] = FALSE]
                  /\ qdisc' = [qdisc EXCEPT ![Target] = "none"]
                  /\ UNCHANGED <<up, leaving, missed, forwardVars>>
        BY <1>16, <2>2 DEF Disconnect
      <3>2. CASE Shape("loss")
        BY <3>1, <3>2, ShapedTyped DEF Record, StackTyped
      <3>3. CASE ~Shape("loss")
        BY <3>1, <3>3 DEF Executing, AtPlace, Record, StackTyped, forwardVars
      <3> QED
        BY <3>2, <3>3
    <2> QED
      BY <2>1, <2>2
  <1>17. CASE Connect
    <2>1. /\ Executing({"connect"}) /\ UNCHANGED <<faults, todo>> /\ place' \in Places
          /\ \/ Shape("none")
             \/ /\ attached' = [attached EXCEPT ![Target] = @ \/ up[Target]]
                /\ UNCHANGED <<up, qdisc, leaving, missed, forwardVars>>
      BY <1>17 DEF Connect, Executing, AtPlace, Record, Places
    <2>2. CASE Shape("none")
      BY <2>1, <2>2, ShapedTyped
    <2>3. CASE ~Shape("none")
      BY <2>1, <2>3 DEF Executing, AtPlace, StackTyped, forwardVars
    <2> QED
      BY <2>2, <2>3
  <1>18. CASE Delay \/ ClearDelay
    <2>1. CASE Abort
      BY <1>18, <2>1, AbortTyped DEF Delay, ClearDelay, Executing, AtPlace
    <2>2. CASE ~Abort
      <3>1. /\ Executing({"delay", "clear_delay"}) /\ Record(Result("done"))
            /\ Shape("delay") \/ Shape("none")
            /\ UNCHANGED faults
        BY <1>18, <2>2 DEF Delay, ClearDelay, Executing
      <3> QED
        BY <3>1, ShapedTyped DEF Record, StackTyped
    <2> QED
      BY <2>1, <2>2
  <1>20. CASE EventFailed
    BY <1>20, AbortTyped DEF EventFailed, Executing, AtPlace
  <1>21. CASE Raised
    BY <1>21, AbortTyped DEF Raised, AtPlace
  <1>22. CASE Write
    BY <1>22 DEF Write, AtPlace, StackTyped, stackVars, forwardVars, Places
  <1>23. ASSUME NEW s \in Services, Lost(s)
         PROVE  StackTyped'
    BY <1>23, RunnerAssumption DEF Lost, Fault, StackTyped, Kubernetes
  <1>24. ASSUME NEW s \in Services, Gone(s)
         PROVE  StackTyped'
    <2>1. /\ leaving' = leaving \ {s} /\ live' \subseteq live
          /\ missed' = missed \/ missed' = missed \cup {s}
          /\ UNCHANGED <<orchestrator, authorised, place, todo, up, attached, qdisc, stray,
                         disturbed, faults>>
      BY <1>24 DEF Gone
    <2> QED
      BY <2>1 DEF StackTyped
  <1> QED
    BY <1>1, <1>2, <1>3, <1>4, <1>5, <1>6, <1>7, <1>8, <1>9, <1>10, <1>11, <1>12, <1>13,
       <1>14, <1>15, <1>16, <1>17, <1>18, <1>20, <1>21, <1>22, <1>23, <1>24
       DEF Next, RunnerStep

\* What no event and no step of a reset touches.
scriptVars == <<ahead, scenario, plan, results, files>>

LEMMA LogUntouched ==
    ASSUME LogTyped, UNCHANGED scriptVars,
           place' \in {"starting", "waiting", "planning", "stopping", "events"}
               => \/ place' = place
                  \/ /\ place' # "events"
                     /\ place \in {"stopping", "starting", "waiting", "planning"}
    PROVE  LogTyped'
  BY DEF LogTyped, scriptVars

LEMMA ResultIsResult ==
    ASSUME NEW status \in {"failed", "done"}, Current \in Events
    PROVE  Result(status) \in Results /\ Result(status).event = Current
  BY DEF Result, Outcome, Results

LEMMA RecordKeepsLog ==
    ASSUME LogTyped, place = "events", Len(results) < Len(plan),
           NEW r \in Results, r.event = Current, Record(r)
    PROVE  LogTyped'
  <1>1. /\ plan \in Seq(Events) /\ results \in Seq(Results)
        /\ Len(plan) \in Nat /\ Len(results) \in Nat /\ DOMAIN results = 1..Len(results)
    BY DEF LogTyped
  <1>2. /\ results' = Append(results, r)
        /\ UNCHANGED <<place, ahead, scenario, plan, files>>
    BY DEF Record
  <1>3. /\ results' \in Seq(Results) /\ Len(results') = Len(results) + 1
        /\ DOMAIN results' = 1..(Len(results) + 1)
        /\ results'[Len(results) + 1] = r
        /\ \A i \in 1..Len(results) : results'[i] = results[i]
    BY <1>1, <1>2
  <1>4. \A i \in DOMAIN results' : results'[i].event = plan[i]
    <2> TAKE i \in DOMAIN results'
    <2>1. CASE i = Len(results) + 1
      BY <1>3, <2>1 DEF Current
    <2>2. CASE i # Len(results) + 1
      <3>1. i \in 1..Len(results)
        BY <1>1, <1>3, <2>2
      <3> QED
        BY <1>1, <1>3, <3>1 DEF LogTyped
    <2> QED
      BY <2>1, <2>2
  <1>5. Len(results') <= Len(plan')
    BY <1>1, <1>2, <1>3
  <1> QED
    BY <1>2, <1>3, <1>4, <1>5 DEF LogTyped

LEMMA ExecutingFacts ==
    ASSUME LogTyped, NEW actions, Executing(actions)
    PROVE  /\ place = "events" /\ Len(results) < Len(plan)
           /\ Current \in Events /\ Current.action \in actions
           /\ UNCHANGED <<orchestrator, authorised, disturbed>>
  <1>1. /\ plan \in Seq(Events) /\ Len(results) \in Nat /\ Len(plan) \in Nat
        /\ Len(results) < Len(plan)
    BY DEF LogTyped, Executing
  <1> QED
    BY <1>1 DEF Executing, AtPlace, Current

\* An event is done and recorded, or leaves no result.
LEMMA EventKeepsLog ==
    ASSUME LogTyped, NEW actions, Executing(actions),
           NEW status \in {"failed", "done"},
           \/ Record(Result(status))
           \/ place' \in {"over", "closing"} /\ UNCHANGED scriptVars
    PROVE  LogTyped'
  <1>1. place = "events" /\ Len(results) < Len(plan) /\ Current \in Events
    BY ExecutingFacts
  <1>2. CASE Record(Result(status))
    <2>1. Result(status) \in Results /\ Result(status).event = Current
      BY <1>1, ResultIsResult
    <2> QED
      BY <1>1, <1>2, <2>1, RecordKeepsLog
  <1>3. CASE place' \in {"over", "closing"} /\ UNCHANGED scriptVars
    BY <1>3, LogUntouched
  <1> QED
    BY <1>2, <1>3

LEMMA AbortLeavesLog ==
    ASSUME Abort
    PROVE  place' \in {"over", "closing"} /\ UNCHANGED scriptVars
  BY DEF Abort, scriptVars

LEMMA LogStaysTyped ==
    ASSUME LogTyped, StackTyped, Next
    PROVE  LogTyped'
  <1>1. CASE Preflight
    BY <1>1, LogUntouched DEF Preflight, scriptVars
  <1>2. CASE Checked
    BY <1>2, LogUntouched DEF Checked, scriptVars
  <1>3. CASE Refused \/ End \/ ResetFailed \/ Raised \/ EventFailed
    <2>1. Abort
      BY <1>3 DEF Refused, End, ResetFailed, Raised, EventFailed
    <2> QED
      BY <2>1, AbortLeavesLog, LogUntouched
  <1>4. CASE Begin
    <2>1. /\ scenario' = Head(ahead) /\ ahead' = Tail(ahead) /\ results' = <<>>
          /\ place' \in {"stopping", "planning"} /\ UNCHANGED <<plan, files>>
          /\ ahead # <<>>
      BY <1>4 DEF Begin
    <2>2. Head(ahead) \in Scenarios /\ Tail(ahead) \in Seq(Scenarios)
      BY <2>1 DEF LogTyped
    <2> QED
      BY <2>1, <2>2 DEF LogTyped
  <1>5. ASSUME NEW s \in Services, ResetPod(s)
        PROVE  LogTyped'
    <2>1. /\ UNCHANGED scriptVars
          /\ \/ place = "stopping" /\ place' \in {"stopping", "starting"}
             \/ place = "starting" /\ place' \in {"starting", "waiting"}
      BY <1>5 DEF ResetPod, AtPlace, scriptVars
    <2> QED
      BY <2>1, LogUntouched
  <1>6. CASE ResetCompose
    BY <1>6, LogUntouched DEF ResetCompose, AtPlace, scriptVars
  <1>7. CASE StackReady
    <2>1. /\ UNCHANGED scriptVars
          /\ place = "waiting" /\ place' \in {"planning", "over"}
      BY <1>7 DEF StackReady, AtPlace, Abort, scriptVars
    <2> QED
      BY <2>1, LogUntouched
  <1>8. CASE Plan
    <2>1. /\ plan' \in Plans(scenario) /\ place = "planning" /\ place' = "events"
          /\ UNCHANGED <<ahead, scenario, results, files>>
      BY <1>8 DEF Plan, AtPlace
    <2>2. plan' \in Seq(Events)
      BY <2>1, PlansAreEvents DEF LogTyped
    <2>3. results = <<>> /\ Len(plan') \in Nat
      BY <2>1, <2>2 DEF LogTyped
    <2> QED
      BY <2>1, <2>2, <2>3 DEF LogTyped
  <1>9. CASE Fetch
    <2>1. Executing({"fetch"})
      BY <1>9 DEF Fetch
    <2>2. CASE Record(Result("failed"))
      BY <2>1, <2>2, EventKeepsLog
    <2>3. CASE \E source \in Sources, latency \in Latencies :
                  Record(Outcome("success", source, latency))
      <3>1. PICK source \in Sources, latency \in Latencies :
               Record(Outcome("success", source, latency))
        BY <2>3
      <3>2. /\ place = "events" /\ Len(results) < Len(plan)
            /\ Current \in Events /\ Current.action = "fetch"
        BY <2>1, ExecutingFacts
      <3>3. /\ Outcome("success", source, latency) \in Results
            /\ Outcome("success", source, latency).event = Current
        BY <3>2, RunnerAssumption DEF Results, Outcome
      <3> QED
        BY <3>1, <3>2, <3>3, RecordKeepsLog
    <2> QED
      BY <1>9, <2>2, <2>3 DEF Fetch
  <1>10. CASE Invalidate
    BY <1>10, AbortLeavesLog, EventKeepsLog DEF Invalidate
  <1>11. CASE Sleep
    BY <1>11, EventKeepsLog DEF Sleep
  <1>12. CASE Kill
    BY <1>12, EventKeepsLog DEF Kill
  <1>13. CASE Restart
    <2>1. \/ Record(Result("done"))
          \/ place' \in {"over", "closing"} /\ UNCHANGED scriptVars
      BY <1>13 DEF Restart, scriptVars
    <2> QED
      BY <1>13, <2>1, EventKeepsLog DEF Restart
  <1>14. CASE Disconnect
    BY <1>14, AbortLeavesLog, EventKeepsLog DEF Disconnect
  <1>15. CASE Connect
    <2>1. \/ Record(Result("done"))
          \/ place' \in {"over", "closing"} /\ UNCHANGED scriptVars
      BY <1>15 DEF Connect, scriptVars
    <2> QED
      BY <1>15, <2>1, EventKeepsLog DEF Connect
  <1>16. CASE Delay
    BY <1>16, AbortLeavesLog, EventKeepsLog DEF Delay
  <1>17. CASE ClearDelay
    BY <1>17, AbortLeavesLog, EventKeepsLog DEF ClearDelay
  <1>18. CASE Write
    <2> DEFINE f == [summary |-> Summary(results), stats |-> {p \in Peers : Served(p)}]
    <2>1. /\ files' = Append(files, f) /\ place' = "next"
          /\ UNCHANGED <<ahead, scenario, plan, results>>
      BY <1>18 DEF Write
    <2>2. Summary(results) \in Summaries
      BY SummariesAddUp DEF LogTyped
    <2>3. f \in Files
      BY <2>2 DEF Files
    <2> HIDE DEF f
    <2>4. files' \in Seq(Files)
      BY <2>1, <2>3 DEF LogTyped
    <2> QED
      BY <2>1, <2>4 DEF LogTyped
  <1>19. ASSUME NEW s \in Services, Lost(s) \/ Gone(s)
         PROVE  LogTyped'
    BY <1>19, LogUntouched DEF Lost, Gone, scriptVars
  <1> QED
    BY <1>1, <1>2, <1>3, <1>4, <1>5, <1>6, <1>7, <1>8, <1>9, <1>10, <1>11, <1>12, <1>13,
       <1>14, <1>15, <1>16, <1>17, <1>18, <1>19
       DEF Next, RunnerStep

-----------------------------------------------------------------------------
(***************************************************************************)
(* The port forwards.                                                      *)
(***************************************************************************)
\* None is ever lost track of, and none is alive before the first has been started
\* or after the run.
ForwardInv ==
    /\ stray = {}
    /\ place \in {"preflight", "over"} \/ ~Kubernetes => live = {}
    /\ UpIsForwarded

LEMMA AbortStopsForwards ==
    ASSUME ForwardInv, Abort
    PROVE  ForwardInv'
  BY DEF ForwardInv, Abort, UpIsForwarded

\* Each forward that has just been started leads to a pod, and no pod that is up is
\* without.
LEMMA ForwardedRun ==
    ASSUME StackTyped', live' \in Forwarded(up', leaving')
    PROVE  /\ UpAmong(up') \subseteq live'
           /\ \A s \in live' : Running(s)'
  <1>1. PICK held \in SUBSET leaving' : live' = UpAmong(up') \cup held
    BY DEF Forwarded
  <1>2. UpAmong(up') \subseteq live'
    BY <1>1
  <1>3. ASSUME NEW s \in live'
        PROVE  Running(s)'
    BY <1>1, <1>3 DEF UpAmong, Running
  <1> QED
    BY <1>2, <1>3

\* Wherever forwards have been started anew.
LEMMA RestartedForwards ==
    ASSUME ForwardInv, StackTyped', RestartForwards(up', leaving'), UNCHANGED orchestrator,
           place' \notin {"preflight", "over"}
    PROVE  ForwardInv'
  <1>1. Kubernetes' = Kubernetes
    BY DEF Kubernetes
  <1>2. CASE ~Kubernetes
    BY <1>1, <1>2 DEF ForwardInv, RestartForwards, UpIsForwarded, forwardVars
  <1>3. CASE Kubernetes
    <2>1. live' \in Forwarded(up', leaving') /\ stray' = stray
      BY <1>3 DEF RestartForwards
    <2>2. UpIsForwarded'
      BY <2>1, ForwardedRun DEF UpIsForwarded
    <2> QED
      BY <1>1, <1>3, <2>1, <2>2 DEF ForwardInv
  <1> QED
    BY <1>2, <1>3

\* Wherever they are started if none is alive.
LEMMA StartedForwards ==
    ASSUME ForwardInv, StackTyped', StartForwards(up, leaving),
           UNCHANGED <<stackVars, orchestrator, disturbed>>,
           live = {} \/ ~Kubernetes \/ place = "waiting",
           place' \in {"checking", "planning"}
    PROVE  ForwardInv'
  <1>1. Kubernetes' = Kubernetes /\ up' = up /\ leaving' = leaving /\ missed' = missed
    BY DEF Kubernetes, stackVars
  <1>2. CASE ~Kubernetes
    BY <1>1, <1>2 DEF ForwardInv, StartForwards, UpIsForwarded, forwardVars
  <1>3. CASE Kubernetes /\ live = {}
    <2>1. live' \in Forwarded(up', leaving') /\ stray' = stray
      BY <1>1, <1>3 DEF StartForwards
    <2>2. UpIsForwarded'
      BY <2>1, ForwardedRun DEF UpIsForwarded
    <2> QED
      BY <1>1, <1>3, <2>1, <2>2 DEF ForwardInv
  <1>4. CASE Kubernetes /\ live # {}
    <2>1. live' = live /\ stray' = stray /\ place = "waiting"
      BY <1>4 DEF StartForwards, forwardVars
    <2> QED
      BY <1>1, <1>4, <2>1 DEF ForwardInv, UpIsForwarded, UpAmong, Running
  <1> QED
    BY <1>2, <1>3, <1>4

\* An event may leave more services missed, and no fewer.
LEMMA ForwardsUntouched ==
    ASSUME ForwardInv, UNCHANGED <<up, leaving, live, stray, orchestrator, disturbed>>,
           missed \subseteq missed',
           \/ place' = place
           \/ place' \in {"stopping", "starting", "closing"}
           \/ /\ place \in {"checking", "next", "waiting", "planning", "events"}
              /\ place' \in {"checking", "next", "waiting", "planning", "events"}
           \/ ~Kubernetes /\ place' \in {"waiting"}
    PROVE  ForwardInv'
  BY DEF ForwardInv, UpIsForwarded, Kubernetes, UpAmong, Running

LEMMA ForwardInvStays ==
    ASSUME ForwardInv, StackTyped, LogTyped, Next
    PROVE  ForwardInv'
  <1>0. StackTyped'
    BY StackStaysTyped
  <1>1. CASE Preflight
    BY <1>0, <1>1, StartedForwards DEF Preflight, AtPlace, ForwardInv
  <1>2. CASE Checked
    BY <1>2, ForwardsUntouched DEF Checked, AtPlace, stackVars, forwardVars
  <1>3. CASE Refused \/ End \/ ResetFailed \/ Raised \/ EventFailed
    <2>1. Abort
      BY <1>3 DEF Refused, End, ResetFailed, Raised, EventFailed
    <2> QED
      BY <2>1, AbortStopsForwards
  <1>4. CASE Begin
    <2>1. /\ UNCHANGED <<orchestrator, disturbed, stray, up, leaving, missed>> /\ place = "next"
          /\ \/ live' = {} /\ place' = "stopping"
             \/ live' = live /\ place' = "planning"
      BY <1>4 DEF Begin, AtPlace, stackVars
    <2>2. CASE live' = {} /\ place' = "stopping"
      BY <2>1, <2>2 DEF ForwardInv, UpIsForwarded
    <2>3. CASE live' = live /\ place' = "planning"
      BY <2>1, <2>3, ForwardsUntouched
    <2> QED
      BY <2>1, <2>2, <2>3
  <1>5. ASSUME NEW s \in Services, ResetPod(s)
        PROVE  ForwardInv'
    <2>1. /\ RestartForwards(up', leaving') /\ UNCHANGED orchestrator
          /\ place' \in {"stopping", "starting", "waiting"}
      BY <1>5 DEF ResetPod, AtPlace, Stop, Go
    <2> QED
      BY <1>0, <2>1, RestartedForwards
  <1>6. CASE ResetCompose
    BY <1>6 DEF ResetCompose, AtPlace, ForwardInv, UpIsForwarded, Kubernetes, forwardVars
  <1>7. CASE StackReady
    <2>1. CASE Abort
      BY <2>1, AbortStopsForwards
    <2>2. CASE place' = "planning" /\ StartForwards(up, leaving) /\ UNCHANGED <<todo, stackVars>>
      BY <1>0, <1>7, <2>2, StartedForwards DEF StackReady, AtPlace
    <2> QED
      BY <1>7, <2>1, <2>2 DEF StackReady
  <1>8. CASE Plan
    BY <1>8, ForwardsUntouched DEF Plan, AtPlace, stackVars, forwardVars
  <1>9. CASE Fetch \/ Sleep
    BY <1>9, ForwardsUntouched
       DEF Fetch, Sleep, Executing, AtPlace, Record, stackVars, forwardVars
  <1>10. CASE Invalidate
    <2>1. CASE Abort
      BY <2>1, AbortStopsForwards
    <2>2. CASE Record(Result("done")) /\ UNCHANGED <<stackVars, forwardVars>>
      BY <1>10, <2>2, ForwardsUntouched
         DEF Invalidate, Executing, AtPlace, Record, stackVars, forwardVars
    <2> QED
      BY <1>10, <2>1, <2>2 DEF Invalidate
  <1>11. CASE Kill
    <2>1. CASE Stop(Target)
      BY <1>0, <1>11, <2>1, RestartedForwards DEF Kill, Executing, AtPlace, Record, Stop
    <2>2. CASE UNCHANGED <<stackVars, forwardVars>>
      BY <1>11, <2>2, ForwardsUntouched
         DEF Kill, Executing, AtPlace, Record, stackVars, forwardVars
    <2> QED
      BY <1>11, <2>1, <2>2 DEF Kill
  <1>12. CASE Restart
    <2>1. place' \in {"events", "closing"}
      BY <1>12 DEF Restart, Executing, AtPlace, Record
    <2>2. RestartForwards(up', leaving') /\ UNCHANGED orchestrator
      BY <1>12 DEF Restart, Executing, AtPlace, Go
    <2> QED
      BY <1>0, <2>1, <2>2, RestartedForwards
  <1>13. CASE Disconnect \/ Delay \/ ClearDelay
    <2>1. CASE Abort
      BY <2>1, AbortStopsForwards
    <2>2. CASE ~Abort
      <3>1. /\ UNCHANGED <<place, orchestrator, disturbed>>
            /\ \/ \E discipline \in {"none", "loss", "delay"} : Shape(discipline)
               \/ UNCHANGED <<up, leaving, missed, forwardVars>>
        BY <1>13, <2>2 DEF Disconnect, Delay, ClearDelay, Executing, AtPlace, Record
      <3>2. UNCHANGED <<up, leaving, live, stray>> /\ missed \subseteq missed'
        BY <3>1 DEF Shape, forwardVars
      <3> QED
        BY <3>1, <3>2, ForwardsUntouched
    <2> QED
      BY <2>1, <2>2
  <1>14. CASE Connect
    <2>1. /\ UNCHANGED <<up, leaving, live, stray, orchestrator, disturbed>>
          /\ missed \subseteq missed'
          /\ place' = place \/ place' = "closing"
      BY <1>14 DEF Connect, Executing, AtPlace, Record, Shape, forwardVars
    <2> QED
      BY <2>1, ForwardsUntouched
  <1>15. CASE Write
    BY <1>15, ForwardsUntouched DEF Write, AtPlace, stackVars, forwardVars
  <1>16. ASSUME NEW s \in Services, Lost(s)
         PROVE  ForwardInv'
    <2>1. /\ UNCHANGED <<orchestrator, stray, place>>
          /\ live' = live \ {s} /\ disturbed' = disturbed \cup {s}
          /\ up' = [up EXCEPT ![s] = Kubernetes]
      BY <1>16 DEF Lost
    <2>2. UpAmong(up') \ disturbed' = (UpAmong(up) \ disturbed) \ {s}
      BY <2>1 DEF StackTyped, UpAmong
    <2>3. \A x \in Services : x # s /\ Running(x) => Running(x)'
      BY <1>16, <2>1 DEF StackTyped, Running, Lost
    <2>4. missed' = missed /\ live \subseteq Services
      BY <1>16 DEF Lost, StackTyped
    <2> QED
      BY <2>1, <2>2, <2>3, <2>4 DEF ForwardInv, UpIsForwarded, Kubernetes
  <1>17. ASSUME NEW s \in Services, Gone(s)
         PROVE  ForwardInv'
    <2>1. /\ UNCHANGED <<orchestrator, stray, place, disturbed, up>>
          /\ leaving' = leaving \ {s}
          /\ \/ up[s] /\ live' = live /\ missed' = missed
             \/ /\ live' = live \ {s}
                /\ missed' = IF up[s] THEN missed \cup {s} ELSE missed
      BY <1>17 DEF Gone
    <2>2. \A x \in Services : (x # s \/ up[s]) /\ Running(x) => Running(x)'
      BY <2>1 DEF Running
    <2>3. UpAmong(up') = UpAmong(up) /\ (s \in UpAmong(up) <=> up[s]) /\ live \subseteq Services
      BY <2>1 DEF UpAmong, StackTyped
    <2> QED
      BY <2>1, <2>2, <2>3 DEF ForwardInv, UpIsForwarded, Kubernetes
  <1> QED
    BY <1>1, <1>2, <1>3, <1>4, <1>5, <1>6, <1>7, <1>8, <1>9, <1>10, <1>11, <1>12, <1>13,
       <1>14, <1>15, <1>16, <1>17 DEF Next, RunnerStep

-----------------------------------------------------------------------------
(***************************************************************************)
(* The stack, and the results that report on it.                           *)
(***************************************************************************)
\* What the results say by now.
Now(s, actions, undone) == Since(s, actions, undone, Len(results))

HeardNow(s) == Kubernetes \/ s \notin Peers \/ ~Now(s, {"disconnect"}, {"connect"})

LEMMA DoneAfter ==
    ASSUME LogTyped, NEW r \in Results, results' = Append(results, r),
           NEW n, n = Len(results), NEW s, NEW actions
    PROVE  /\ n \in Nat /\ Len(results') = n + 1
           /\ \A i \in 1..n : results'[i] = results[i]
           /\ results'[n + 1] = r
           /\ \A i \in 1..n : Done(s, actions, i)' <=> Done(s, actions, i)
           /\ Done(s, actions, n + 1)' <=> r.event.target = s /\ r.event.action \in actions
  <1>1. /\ n \in Nat /\ Len(results') = n + 1
        /\ \A i \in 1..n : results'[i] = results[i]
        /\ results'[n + 1] = r
    BY DEF LogTyped
  <1>2. \A i \in 1..n : Done(s, actions, i)' <=> Done(s, actions, i)
    BY <1>1 DEF Done
  <1>3. Done(s, actions, n + 1)' <=> r.event.target = s /\ r.event.action \in actions
    BY <1>1 DEF Done
  <1> QED
    BY <1>1, <1>2, <1>3

\* A result changes nothing of what was so by an earlier one.
LEMMA SinceKept ==
    ASSUME LogTyped, NEW r \in Results, results' = Append(results, r),
           NEW n, n = Len(results), NEW s, NEW actions, NEW undone, NEW k \in 0..n
    PROVE  Since(s, actions, undone, k)' <=> Since(s, actions, undone, k)
  <1>1. /\ n \in Nat
        /\ \A i \in 1..n : Done(s, actions, i)' <=> Done(s, actions, i)
        /\ \A i \in 1..n : Done(s, undone, i)' <=> Done(s, undone, i)
    BY DoneAfter
  <1>2. \A i \in 1..k : i \in 1..n /\ \A j \in (i + 1)..k : j \in 1..n
    BY <1>1
  <1> QED
    BY <1>1, <1>2 DEF Since

LEMMA NowAfter ==
    ASSUME LogTyped, NEW r \in Results, results' = Append(results, r),
           NEW s, NEW actions, NEW undone
    PROVE  Now(s, actions, undone)' <=>
              \/ r.event.target = s /\ r.event.action \in actions
              \/ /\ Now(s, actions, undone)
                 /\ ~(r.event.target = s /\ r.event.action \in undone)
  <1>1. PICK n : n = Len(results)
    OBVIOUS
  <1>2. /\ n \in Nat /\ Len(results') = n + 1
        /\ \A i \in 1..n : Done(s, actions, i)' <=> Done(s, actions, i)
        /\ \A i \in 1..n : Done(s, undone, i)' <=> Done(s, undone, i)
        /\ Done(s, actions, n + 1)' <=> r.event.target = s /\ r.event.action \in actions
        /\ Done(s, undone, n + 1)' <=> r.event.target = s /\ r.event.action \in undone
    BY <1>1, DoneAfter
  <1>3. Now(s, actions, undone) <=>
           \E i \in 1..n : /\ Done(s, actions, i)
                           /\ \A j \in (i + 1)..n : ~Done(s, undone, j)
    BY <1>1 DEF Now, Since
  <1>4. Now(s, actions, undone)' <=>
           \E i \in 1..(n + 1) : /\ Done(s, actions, i)'
                                 /\ \A j \in (i + 1)..(n + 1) : ~Done(s, undone, j)'
    BY <1>2 DEF Now, Since
  <1>5. 1..(n + 1) = (1..n) \cup {n + 1} /\ (n + 2)..(n + 1) = {}
    BY <1>2
  <1>6. \A i \in 1..n : (i + 1)..(n + 1) = ((i + 1)..n) \cup {n + 1} /\ (i + 1)..n \subseteq 1..n
    BY <1>2
  <1>7. CASE r.event.target = s /\ r.event.action \in actions
    <2>1. (n + 1) + 1 = n + 2 /\ n + 1 \in 1..(n + 1)
      BY <1>2
    <2>2. \A j \in ((n + 1) + 1)..(n + 1) : ~Done(s, undone, j)'
      BY <1>5, <2>1
    <2>3. Now(s, actions, undone)'
      BY <1>2, <1>4, <1>7, <2>1, <2>2
    <2> QED
      BY <1>7, <2>3
  <1>8. CASE ~(r.event.target = s /\ r.event.action \in actions)
    <2>1. Now(s, actions, undone)' <=>
             \E i \in 1..n : /\ Done(s, actions, i)
                             /\ \A j \in (i + 1)..n : ~Done(s, undone, j)
                             /\ ~Done(s, undone, n + 1)'
      BY <1>2, <1>4, <1>5, <1>6, <1>8
    <2> QED
      BY <1>2, <1>3, <1>8, <2>1
  <1> QED
    BY <1>7, <1>8

LEMMA KilledAfter ==
    ASSUME LogTyped, NEW r \in Results, results' = Append(results, r),
           UNCHANGED orchestrator, NEW s
    PROVE  Killed(s)' <=>
              \/ r.event.target = s /\ r.event.action = "kill" /\ HeardNow(s)
              \/ /\ Killed(s)
                 /\ ~(r.event.action = "restart" /\ s \in Starts(r.event.target))
  <1>1. PICK n : n = Len(results)
    OBVIOUS
  <1>2. /\ n \in Nat /\ Len(results') = n + 1
        /\ \A i \in 1..n : results'[i] = results[i]
        /\ results'[n + 1] = r
        /\ \A i \in 1..n : Done(s, {"kill"}, i)' <=> Done(s, {"kill"}, i)
        /\ Done(s, {"kill"}, n + 1)' <=> r.event.target = s /\ r.event.action = "kill"
    <2>1. /\ n \in Nat /\ Len(results') = n + 1
          /\ \A i \in 1..n : results'[i] = results[i]
          /\ results'[n + 1] = r
      BY <1>1 DEF LogTyped
    <2>2. /\ \A i \in 1..n : Done(s, {"kill"}, i)' <=> Done(s, {"kill"}, i)
          /\ Done(s, {"kill"}, n + 1)' <=> r.event.target = s /\ r.event.action \in {"kill"}
      BY <1>1, DoneAfter
    <2> QED
      BY <2>1, <2>2
  <1>3. Kubernetes' = Kubernetes
    BY DEF Kubernetes
  <1>4. \A x : Starts(x)' = Starts(x)
    BY <1>3 DEF Starts
  <1>5. /\ \A i \in 1..n : Started(s, i)' <=> Started(s, i)
        /\ Started(s, n + 1)' <=> r.event.action = "restart" /\ s \in Starts(r.event.target)
    BY <1>2, <1>4 DEF Started
  <1>6. \A i \in 1..n : Heard(s, i)' <=> Heard(s, i)
    <2>1. \A i \in 1..n : i \in 0..n
      BY <1>2
    <2>2. \A i \in 1..n : Since(s, {"disconnect"}, {"connect"}, i)'
                         <=> Since(s, {"disconnect"}, {"connect"}, i)
      BY <1>1, <2>1, SinceKept
    <2> QED
      BY ONLY <1>3, <2>2 DEF Heard
  <1>7. r.event.action = "kill" => (Heard(s, n + 1)' <=> HeardNow(s))
    <2> SUFFICES ASSUME r.event.action = "kill"
                 PROVE  Heard(s, n + 1)' <=> HeardNow(s)
      OBVIOUS
    <2>1. Now(s, {"disconnect"}, {"connect"})' <=> Now(s, {"disconnect"}, {"connect"})
      BY NowAfter
    <2>2. Since(s, {"disconnect"}, {"connect"}, n + 1)' <=> Now(s, {"disconnect"}, {"connect"})'
      BY <1>2 DEF Now
    <2> QED
      BY <1>3, <2>1, <2>2 DEF Heard, HeardNow
  <1>8. Killed(s) <=>
           \E i \in 1..n : /\ Done(s, {"kill"}, i) /\ Heard(s, i)
                           /\ \A j \in (i + 1)..n : ~Started(s, j)
    BY <1>1 DEF Killed
  <1>9. Killed(s)' <=>
           \E i \in 1..(n + 1) : /\ Done(s, {"kill"}, i)' /\ Heard(s, i)'
                                 /\ \A j \in (i + 1)..(n + 1) : ~Started(s, j)'
    BY <1>2 DEF Killed
  <1>10. 1..(n + 1) = (1..n) \cup {n + 1} /\ (n + 2)..(n + 1) = {}
    BY <1>2
  <1>11. \A i \in 1..n : (i + 1)..(n + 1) = ((i + 1)..n) \cup {n + 1} /\ (i + 1)..n \subseteq 1..n
    BY <1>2
  <1>12. CASE r.event.target = s /\ r.event.action = "kill" /\ HeardNow(s)
    <2>1. (n + 1) + 1 = n + 2 /\ n + 1 \in 1..(n + 1)
      BY <1>2
    <2>2. \A j \in ((n + 1) + 1)..(n + 1) : ~Started(s, j)'
      BY <1>10, <2>1
    <2>3. Killed(s)'
      BY <1>2, <1>7, <1>9, <1>12, <2>1, <2>2
    <2> QED
      BY <1>12, <2>3
  <1>13. CASE ~(r.event.target = s /\ r.event.action = "kill" /\ HeardNow(s))
    <2>1. ~(Done(s, {"kill"}, n + 1)' /\ Heard(s, n + 1)')
      BY <1>2, <1>7, <1>13
    <2>2. Killed(s)' <=>
             \E i \in 1..n : /\ Done(s, {"kill"}, i) /\ Heard(s, i)
                             /\ \A j \in (i + 1)..n : ~Started(s, j)
                             /\ ~Started(s, n + 1)'
      BY <1>2, <1>5, <1>6, <1>9, <1>10, <1>11, <2>1
    <2> QED
      BY <1>5, <1>8, <1>13, <2>2
  <1> QED
    BY <1>12, <1>13

\* What AsScripted compares the service with, once for each orchestrator.
PodCut(s) == Now(s, {"disconnect"}, {"connect", "delay", "clear_delay", "kill"})
ContainerCut(s) == Now(s, {"disconnect"}, {"connect"})
Slow(s) == Now(s, {"delay"}, {"clear_delay", "connect", "disconnect", "kill"})

Told(s) ==
    /\ up[s] <=> ~Killed(s)
    /\ Kubernetes => (Cut(s) <=> PodCut(s))
    /\ ~Kubernetes => (Cut(s) <=> ContainerCut(s))
    /\ qdisc[s] = "delay" <=> Slow(s)

LEMMA ToldIsAsScripted ==
    ASSUME NEW s
    PROVE  AsScripted(s) <=> Told(s)
  BY DEF Told, AsScripted, PodCut, ContainerCut, Slow, Now, Mending, Unslowing

LEMMA ToldIsAsScriptedNext ==
    ASSUME NEW s
    PROVE  AsScripted(s)' <=> Told(s)'
  BY DEF Told, AsScripted, PodCut, ContainerCut, Slow, Now, Mending, Unslowing, Kubernetes

\* What an event that leaves a result adds to what the results say.
LEMMA ToldAfter ==
    ASSUME LogTyped, NEW r \in Results, results' = Append(results, r),
           UNCHANGED orchestrator, NEW s
    PROVE  LET t == r.event.target = s
               a == r.event.action
           IN  /\ PodCut(s)' <=>
                     \/ t /\ a = "disconnect"
                     \/ PodCut(s) /\ ~(t /\ a \in {"connect", "delay", "clear_delay", "kill"})
               /\ ContainerCut(s)' <=>
                     \/ t /\ a = "disconnect"
                     \/ ContainerCut(s) /\ ~(t /\ a = "connect")
               /\ Slow(s)' <=>
                     \/ t /\ a = "delay"
                     \/ Slow(s) /\ ~(t /\ a \in {"clear_delay", "connect", "disconnect", "kill"})
               /\ Killed(s)' <=>
                     \/ t /\ a = "kill" /\ (Kubernetes \/ s \notin Peers \/ ~ContainerCut(s))
                     \/ Killed(s) /\ ~(a = "restart" /\ s \in Starts(r.event.target))
               /\ Kubernetes' = Kubernetes
  <1>1. PodCut(s)' <=>
           \/ r.event.target = s /\ r.event.action \in {"disconnect"}
           \/ PodCut(s) /\ ~(/\ r.event.target = s
                             /\ r.event.action \in {"connect", "delay", "clear_delay", "kill"})
    BY NowAfter DEF PodCut
  <1>2. ContainerCut(s)' <=>
           \/ r.event.target = s /\ r.event.action \in {"disconnect"}
           \/ ContainerCut(s) /\ ~(r.event.target = s /\ r.event.action \in {"connect"})
    BY NowAfter DEF ContainerCut
  <1>3. Slow(s)' <=>
           \/ r.event.target = s /\ r.event.action \in {"delay"}
           \/ Slow(s) /\ ~(/\ r.event.target = s
                           /\ r.event.action \in {"clear_delay", "connect", "disconnect", "kill"})
    BY NowAfter DEF Slow
  <1>4. Killed(s)' <=>
           \/ r.event.target = s /\ r.event.action = "kill" /\ HeardNow(s)
           \/ Killed(s) /\ ~(r.event.action = "restart" /\ s \in Starts(r.event.target))
    BY KilledAfter
  <1>5. HeardNow(s) <=> Kubernetes \/ s \notin Peers \/ ~ContainerCut(s)
    BY DEF HeardNow, ContainerCut
  <1>6. Kubernetes' = Kubernetes
    BY DEF Kubernetes
  <1> QED
    BY ONLY <1>1, <1>2, <1>3, <1>4, <1>5, <1>6

\* What an event tells of a service, given what it is.
LEMMA Marked ==
    ASSUME LogTyped, NEW actions, Executing(actions),
           NEW status \in {"failed", "done"}, Record(Result(status)), NEW s
    PROVE  /\ PodCut(s)' <=>
                 \/ Target = s /\ Current.action = "disconnect"
                 \/ /\ PodCut(s)
                    /\ ~(/\ Target = s
                         /\ Current.action \in {"connect", "delay", "clear_delay", "kill"})
           /\ ContainerCut(s)' <=>
                 \/ Target = s /\ Current.action = "disconnect"
                 \/ ContainerCut(s) /\ ~(Target = s /\ Current.action = "connect")
           /\ Slow(s)' <=>
                 \/ Target = s /\ Current.action = "delay"
                 \/ /\ Slow(s)
                    /\ ~(/\ Target = s
                         /\ Current.action \in {"clear_delay", "connect", "disconnect", "kill"})
           /\ Killed(s)' <=>
                 \/ /\ Target = s /\ Current.action = "kill"
                    /\ Kubernetes \/ s \notin Peers \/ ~ContainerCut(s)
                 \/ Killed(s) /\ ~(Current.action = "restart" /\ s \in Starts(Target))
           /\ Kubernetes' = Kubernetes
  <1>1. Current \in Events /\ UNCHANGED orchestrator
    BY ExecutingFacts
  <1>2. PICK r \in Results : r = Result(status) /\ r.event = Current
    BY <1>1, ResultIsResult
  <1>3. results' = Append(results, r)
    BY <1>2 DEF Record
  <1> QED
    BY <1>1, <1>2, <1>3, ToldAfter DEF Target

\* Each orchestrator has one way to cut a service off, and a service that is down or
\* has lost its interface is not shaped.
SoundAt(s) ==
    /\ Kubernetes => attached[s]
    /\ ~Kubernetes => /\ qdisc[s] # "loss" /\ s \notin leaving
                      /\ ~attached[s] => qdisc[s] = "none"
    /\ ~up[s] => qdisc[s] = "none"

StackIsSound == \A s \in Services : SoundAt(s)

\* As a reset leaves it.
Fresh == \A s \in Services :
            attached[s] /\ qdisc[s] = "none" /\ (s \notin disturbed => up[s])

StackInv ==
    /\ StackIsSound
    /\ place = "stopping" => \A s \in Services \ todo : qdisc[s] = "none"
    /\ place = "starting" =>
          /\ Kubernetes
          /\ \A s \in Services : qdisc[s] = "none" /\ (s \notin todo => up[s])
    /\ place = "waiting" \/ (place = "planning" /\ scenario.reset) => Fresh
    /\ StackIsAsScripted

\* A service that the events of a scripted run can be followed for.
Followed(s) == s \in Services /\ s \notin disturbed /\ s \notin missed

LEMMA BeforeEvent ==
    ASSUME StackInv, place = "events", scenario.reset, authorised, NEW s, Followed(s)
    PROVE  Told(s) /\ SoundAt(s)
  BY ToldIsAsScripted DEF StackInv, StackIsSound, StackIsAsScripted, Followed

LEMMA KillIsScripted ==
    ASSUME LogTyped, StackTyped, Kill, authorised,
           NEW s \in Services, s = Target, Told(s), SoundAt(s)
    PROVE  Told(s)'
  <1>1. Executing({"kill"}) /\ Record(Result("done")) /\ Current.action = "kill"
    BY DEF Kill, Executing
  <1>2. /\ ~PodCut(s)' /\ ~Slow(s)' /\ (ContainerCut(s)' <=> ContainerCut(s))
        /\ Killed(s)' <=> Kubernetes \/ s \notin Peers \/ ~ContainerCut(s) \/ Killed(s)
        /\ Kubernetes' = Kubernetes
    BY <1>1, Marked
  <1>3. CASE /\ Kubernetes \/ s \notin Peers \/ Served(s)
             /\ Stop(s)
    <2>1. ~(up[s])' /\ (qdisc[s])' = "none" /\ (attached[s])' = attached[s]
      BY <1>3 DEF Stop, StackTyped
    <2>2. Cut(s)' <=> ~attached[s]
      BY <2>1 DEF Cut
    <2>3. ~Kubernetes => (ContainerCut(s) <=> ~attached[s])
      BY DEF Told, SoundAt, Cut
    <2>4. Kubernetes \/ s \notin Peers \/ attached[s]
      BY <1>3 DEF Served, Reachable
    <2>5. Kubernetes => attached[s]
      BY DEF SoundAt
    <2>6. /\ Killed(s)'
          /\ Kubernetes => (Cut(s)' <=> PodCut(s)')
          /\ ~Kubernetes => (Cut(s)' <=> ContainerCut(s)')
      BY ONLY <1>2, <2>2, <2>3, <2>4, <2>5
    <2> QED
      BY <1>2, <2>1, <2>6 DEF Told
  <1>4. CASE ~Kubernetes /\ s \in Peers /\ ~Served(s) /\ UNCHANGED <<stackVars, forwardVars>>
    <2>1. ((up[s])' <=> up[s]) /\ (qdisc[s])' = qdisc[s] /\ (attached[s])' = attached[s]
      BY <1>4 DEF stackVars
    <2>2. ~up[s] \/ ~attached[s]
      BY <1>4 DEF Served, Reachable, Running
    <2>3. qdisc[s] = "none" /\ (ContainerCut(s) <=> ~attached[s]) /\ (up[s] <=> ~Killed(s))
      BY <1>4, <2>2 DEF Told, SoundAt, Cut
    <2>4. Cut(s)' <=> ~attached[s]
      BY <2>1, <2>3 DEF Cut
    <2>5. ((up[s])' <=> ~Killed(s)') /\ (Cut(s)' <=> ContainerCut(s)')
      BY ONLY <1>2, <1>4, <2>1, <2>2, <2>3, <2>4
    <2>6. ~((qdisc[s])' = "delay") /\ ~Kubernetes'
      BY <1>2, <1>4, <2>1, <2>3
    <2> QED
      BY <1>2, <2>5, <2>6 DEF Told
  <1> QED
    BY <1>3, <1>4 DEF Kill

\* A restart bears on what the service depends on, too.
LEMMA RestartIsScripted ==
    ASSUME LogTyped, StackTyped, Restart, Record(Result("done")),
           NEW s \in Services, Told(s)
    PROVE  Told(s)'
  <1>1. Executing({"restart"}) /\ Current.action = "restart"
    BY DEF Restart, Executing
  <1>2. /\ PodCut(s)' <=> PodCut(s)
        /\ Slow(s)' <=> Slow(s)
        /\ ContainerCut(s)' <=> ContainerCut(s)
        /\ Killed(s)' <=> Killed(s) /\ s \notin Starts(Target)
        /\ Kubernetes' = Kubernetes
    BY <1>1, Marked
  <1>3. /\ (up[s])' <=> up[s] \/ s \in Starts(Target)
        /\ (attached[s])' = attached[s] /\ (qdisc[s])' = qdisc[s]
    BY DEF Restart, Go, StackTyped
  <1>4. Cut(s)' <=> Cut(s)
    BY <1>3 DEF Cut
  <1> QED
    BY ONLY <1>2, <1>3, <1>4, Told(s) DEF Told

LEMMA DisconnectIsScripted ==
    ASSUME LogTyped, StackTyped, Disconnect, ~Abort,
           NEW s \in Services, s = Target, s \notin missed', Told(s), SoundAt(s)
    PROVE  Told(s)'
  <1>1. /\ Executing({"disconnect"}) /\ Record(Result("done")) /\ Current.action = "disconnect"
        /\ Running(s)
    BY DEF Disconnect, Executing
  <1>2. /\ PodCut(s)' /\ ~Slow(s)' /\ ContainerCut(s)' /\ (Killed(s)' <=> Killed(s))
        /\ Kubernetes' = Kubernetes
    BY <1>1, Marked
  <1>3. CASE Kubernetes
    <2>1. Shape("loss")
      BY <1>3 DEF Disconnect
    <2>2. (up[s])' = up[s] /\ (qdisc[s])' = "loss"
      BY <2>1 DEF Shape, StackTyped
    <2> QED
      BY <1>2, <1>3, <2>2 DEF Told, Cut
  <1>4. CASE ~Kubernetes
    <2>1. (up[s])' = up[s] /\ (qdisc[s])' = "none" /\ (attached[s])' = FALSE
      BY <1>4 DEF Disconnect, StackTyped
    <2> QED
      BY <1>2, <1>4, <2>1 DEF Told, Cut
  <1> QED
    BY <1>3, <1>4

LEMMA ConnectIsScripted ==
    ASSUME LogTyped, StackTyped, Connect, Record(Result("done")),
           NEW s \in Services, s = Target, s \notin missed', Told(s), SoundAt(s)
    PROVE  Told(s)'
  <1>1. Executing({"connect"}) /\ Current.action = "connect" /\ place = "events" /\ place' = place
    BY DEF Connect, Executing, AtPlace, Record
  <1>2. /\ ~PodCut(s)' /\ ~Slow(s)' /\ ~ContainerCut(s)' /\ (Killed(s)' <=> Killed(s))
        /\ Kubernetes' = Kubernetes
    BY <1>1, Marked
  <1>3. (up[s])' = up[s] /\ (attached[s])' /\ (qdisc[s])' = "none"
    <2>1. CASE Kubernetes
      <3>1. Shape("none")
        BY <2>1 DEF Connect
      <3> QED
        BY <2>1, <3>1 DEF Shape, StackTyped, SoundAt
    <2>2. CASE ~Kubernetes
      <3>1. up[s] /\ ~attached[s]
        BY <1>1, <2>2 DEF Connect
      <3> QED
        BY <2>2, <3>1 DEF Connect, StackTyped, SoundAt
    <2> QED
      BY <2>1, <2>2
  <1> QED
    BY <1>2, <1>3 DEF Told, Cut

LEMMA DelayIsScripted ==
    ASSUME LogTyped, StackTyped, Delay, ~Abort,
           NEW s \in Services, s = Target, s \notin missed', Told(s), SoundAt(s)
    PROVE  Told(s)'
  <1>1. /\ Executing({"delay"}) /\ Record(Result("done")) /\ Current.action = "delay"
        /\ attached[s] /\ Shape("delay")
    BY DEF Delay, Executing
  <1>2. /\ ~PodCut(s)' /\ Slow(s)' /\ (ContainerCut(s)' <=> ContainerCut(s))
        /\ (Killed(s)' <=> Killed(s)) /\ Kubernetes' = Kubernetes
    BY <1>1, Marked
  <1>3. (up[s])' = up[s] /\ (attached[s])' = TRUE /\ (qdisc[s])' = "delay"
    BY <1>1 DEF Shape, StackTyped
  <1>4. ~Kubernetes => ~ContainerCut(s)
    BY <1>1 DEF Told, SoundAt, Cut
  <1> QED
    BY <1>2, <1>3, <1>4 DEF Told, Cut

LEMMA ClearDelayIsScripted ==
    ASSUME LogTyped, StackTyped, ClearDelay, ~Abort,
           NEW s \in Services, s = Target, s \notin missed', Told(s), SoundAt(s)
    PROVE  Told(s)'
  <1>1. /\ Executing({"clear_delay"}) /\ Record(Result("done")) /\ Current.action = "clear_delay"
        /\ Shape("none")
    BY DEF ClearDelay, Executing
  <1>2. /\ ~PodCut(s)' /\ ~Slow(s)' /\ (ContainerCut(s)' <=> ContainerCut(s))
        /\ (Killed(s)' <=> Killed(s)) /\ Kubernetes' = Kubernetes
    BY <1>1, Marked
  <1>3. (up[s])' = up[s] /\ (attached[s])' = attached[s] /\ (qdisc[s])' = "none"
    BY <1>1 DEF Shape, StackTyped
  <1>4. ~Kubernetes => (ContainerCut(s) <=> ~attached[s])
    BY DEF Told, SoundAt, Cut
  <1>5. Kubernetes => attached[s]
    BY DEF SoundAt
  <1> QED
    BY <1>2, <1>3, <1>4, <1>5 DEF Told, Cut

\* What is done to another service bears on none but what a restart starts.
LEMMA OthersAreScripted ==
    ASSUME LogTyped, NEW r \in Results, results' = Append(results, r), UNCHANGED orchestrator,
           NEW s, Told(s),
           r.event.target # s \/ r.event.action \in {"fetch", "sleep", "invalidate"},
           r.event.action # "restart",
           UNCHANGED <<up[s], attached[s], qdisc[s]>>
    PROVE  Told(s)'
  <1>1. /\ PodCut(s)' <=> PodCut(s)
        /\ Slow(s)' <=> Slow(s)
        /\ ContainerCut(s)' <=> ContainerCut(s)
        /\ Killed(s)' <=> Killed(s)
        /\ Kubernetes' = Kubernetes
    BY ToldAfter
  <1>2. Cut(s)' <=> Cut(s)
    BY DEF Cut
  <1> QED
    BY <1>1, <1>2 DEF Told

\* Told of every service that can still be followed after the event.
EventIsScripted == \A s : Followed(s)' /\ authorised /\ Told(s) /\ SoundAt(s) => Told(s)'

TargetIsScripted ==
    \A s : s = Target /\ Followed(s)' /\ authorised /\ Told(s) /\ SoundAt(s) => Told(s)'

OnlyTargetMoves ==
    \A s \in Services : s # Target => UNCHANGED <<up[s], attached[s], qdisc[s]>>

LEMMA OneServiceEvent ==
    ASSUME LogTyped, NEW actions, Executing(actions), "restart" \notin actions,
           Record(Result("done")), OnlyTargetMoves, TargetIsScripted
    PROVE  EventIsScripted
  <1>1. Current \in Events /\ Current.action # "restart" /\ UNCHANGED orchestrator
    BY ExecutingFacts
  <1>2. PICK r \in Results : r = Result("done") /\ r.event = Current
    BY <1>1, ResultIsResult
  <1>3. results' = Append(results, r)
    BY <1>2 DEF Record
  <1>4. ASSUME NEW s, Followed(s)', authorised, Told(s), SoundAt(s)
        PROVE  Told(s)'
    <2>1. CASE s = Target
      BY <1>4, <2>1 DEF TargetIsScripted
    <2>2. CASE s # Target
      <3>1. s \in Services
        BY <1>4 DEF Followed, Services
      <3>2. UNCHANGED <<up[s], attached[s], qdisc[s]>>
        BY <2>2, <3>1 DEF OnlyTargetMoves
      <3>3. r.event.target # s /\ r.event.action # "restart"
        BY <1>1, <1>2, <2>2 DEF Target
      <3> QED
        BY <1>1, <1>3, <1>4, <3>2, <3>3, OthersAreScripted
    <2> QED
      BY <2>1, <2>2
  <1> QED
    BY <1>4 DEF EventIsScripted

LEMMA EventKeepsStack ==
    ASSUME StackInv, NEW actions, Executing(actions), NEW r, Record(r),
           missed \subseteq missed', EventIsScripted
    PROVE  StackIsAsScripted'
  <1>1. /\ place = "events" /\ UNCHANGED <<place, scenario, authorised, disturbed>>
    BY DEF Executing, AtPlace, Record
  <1>2. ASSUME NEW s \in Services \ (disturbed' \cup missed'), scenario.reset, authorised
        PROVE  AsScripted(s)'
    <2>1. Followed(s) /\ Followed(s)'
      BY <1>1, <1>2 DEF Followed, Services
    <2>2. Told(s) /\ SoundAt(s)
      BY <1>1, <1>2, <2>1, BeforeEvent
    <2>3. Told(s)'
      BY <1>2, <2>1, <2>2 DEF EventIsScripted
    <2> QED
      BY <2>3, ToldIsAsScriptedNext
  <1> QED
    BY <1>1, <1>2 DEF StackIsAsScripted, Services

\* The run is over, or about to be: no reset is under way and no event is next.
LEMMA StackOutOfPlay ==
    ASSUME StackIsSound', place' \in {"preflight", "checking", "next", "closing", "over"}
    PROVE  StackInv'
  BY DEF StackInv, StackIsAsScripted

LEMMA StackUntouched ==
    ASSUME StackInv, UNCHANGED <<stackVars, orchestrator>>
    PROVE  StackIsSound'
  BY DEF StackInv, StackIsSound, SoundAt, stackVars, Kubernetes

LEMMA AbortLeavesStack ==
    ASSUME StackInv, Abort, UNCHANGED orchestrator
    PROVE  StackInv'
  BY StackUntouched, StackOutOfPlay DEF Abort

LEMMA EventKeepsStackInv ==
    ASSUME StackInv, StackIsSound', NEW actions, Executing(actions), missed \subseteq missed',
           \/ Record(Result("done")) /\ EventIsScripted
           \/ place' \in {"closing", "over"}
    PROVE  StackInv'
  <1>1. CASE Record(Result("done")) /\ EventIsScripted
    <2>1. StackIsAsScripted'
      BY <1>1, EventKeepsStack
    <2>2. place' = "events"
      BY <1>1 DEF Executing, AtPlace, Record
    <2> QED
      BY <2>1, <2>2 DEF StackInv
  <1>2. CASE place' \in {"closing", "over"}
    BY <1>2, StackOutOfPlay
  <1> QED
    BY <1>1, <1>2

\* An event that is recorded and leaves every service as it was.
LEMMA QuietEvent ==
    ASSUME LogTyped, StackInv, NEW actions, Executing(actions),
           actions \subseteq {"fetch", "sleep", "invalidate"},
           NEW r \in Results, r.event = Current, Record(r), UNCHANGED stackVars
    PROVE  StackInv'
  <1>1. /\ UNCHANGED <<orchestrator, place>>
        /\ place = "events" /\ Current.action \in {"fetch", "sleep", "invalidate"}
        /\ results' = Append(results, r)
    BY DEF Executing, AtPlace, Record
  <1>2. StackIsSound'
    BY <1>1, StackUntouched
  <1>3. ASSUME NEW s, Told(s)
        PROVE  Told(s)'
    <2>1. UNCHANGED <<up[s], attached[s], qdisc[s]>>
      BY DEF stackVars
    <2> QED
      BY <1>1, <1>3, <2>1, OthersAreScripted
  <1>4. EventIsScripted
    BY <1>3 DEF EventIsScripted
  <1>5. StackIsAsScripted'
    BY <1>4, EventKeepsStack DEF stackVars
  <1> QED
    BY <1>1, <1>2, <1>5 DEF StackInv

\* Nothing is reported, and the service is as it was.
LEMMA ToldStays ==
    ASSUME UNCHANGED <<results, orchestrator>>, NEW s,
           UNCHANGED <<up[s], attached[s], qdisc[s]>>
    PROVE  Told(s)' <=> Told(s)
  <1>1. Kubernetes' = Kubernetes
    BY DEF Kubernetes
  <1>2. \A actions, undone, n : Since(s, actions, undone, n)' <=> Since(s, actions, undone, n)
    BY DEF Since, Done
  <1>3. \A actions, undone : Now(s, actions, undone)' <=> Now(s, actions, undone)
    BY <1>2 DEF Now
  <1>4. \A i : Heard(s, i)' <=> Heard(s, i)
    BY <1>1, <1>2 DEF Heard
  <1>5. \A i : Started(s, i)' <=> Started(s, i)
    BY <1>1 DEF Started, Starts
  <1>6. Killed(s)' <=> Killed(s)
    BY <1>4, <1>5 DEF Killed, Done
  <1>7. /\ PodCut(s)' <=> PodCut(s)
        /\ ContainerCut(s)' <=> ContainerCut(s)
        /\ Slow(s)' <=> Slow(s)
    BY <1>3 DEF PodCut, ContainerCut, Slow
  <1>8. Cut(s)' <=> Cut(s)
    BY DEF Cut
  <1> QED
    BY <1>1, <1>6, <1>7, <1>8 DEF Told

\* Between events the script says of a service what it said, if it can be followed yet.
LEMMA ScriptedStays ==
    ASSUME StackInv, UNCHANGED <<results, orchestrator, place, scenario, authorised>>,
           \A s : Followed(s)' => Followed(s) /\ UNCHANGED <<up[s], attached[s], qdisc[s]>>
    PROVE  StackIsAsScripted'
  <1>1. ASSUME NEW s \in Services \ (disturbed' \cup missed'),
               place = "events", scenario.reset, authorised
        PROVE  AsScripted(s)'
    <2>1. Followed(s)'
      BY <1>1 DEF Followed, Services
    <2>2. Followed(s) /\ UNCHANGED <<up[s], attached[s], qdisc[s]>>
      BY <2>1
    <2>3. Told(s)
      BY <1>1, <2>2, BeforeEvent
    <2>4. Told(s)'
      BY <2>2, <2>3, ToldStays
    <2> QED
      BY <2>4, ToldIsAsScriptedNext
  <1> QED
    BY <1>1 DEF StackIsAsScripted, Services

\* A plan begins on the stack that the reset has left.
LEMMA PlanBeginsScripted ==
    ASSUME LogTyped, StackInv, Plan
    PROVE  StackInv'
  <1>1. /\ place = "planning" /\ place' = "events" /\ results = <<>>
        /\ UNCHANGED <<orchestrator, disturbed, scenario, results, stackVars>>
    BY DEF Plan, AtPlace, LogTyped
  <1>2. StackIsSound'
    BY <1>1, StackUntouched
  <1>3. 1..Len(results') = {}
    BY <1>1
  <1>4. \A s, actions, undone : ~Now(s, actions, undone)'
    BY <1>3 DEF Now, Since
  <1>5. \A s : ~Killed(s)'
    BY <1>3 DEF Killed
  <1>6. ASSUME NEW s \in Services \ (disturbed' \cup missed'), scenario.reset
        PROVE  AsScripted(s)'
    <2>1. attached[s] /\ qdisc[s] = "none" /\ up[s]
      BY <1>1, <1>6 DEF StackInv, Fresh
    <2>2. (attached[s])' /\ (qdisc[s])' = "none" /\ (up[s])'
      BY <1>1, <2>1 DEF stackVars
    <2>3. ~Cut(s)' /\ ~PodCut(s)' /\ ~ContainerCut(s)' /\ ~Slow(s)'
      BY <1>4, <2>2 DEF Cut, PodCut, ContainerCut, Slow
    <2>4. Told(s)'
      BY <1>5, <2>2, <2>3 DEF Told
    <2> QED
      BY <2>4, ToldIsAsScriptedNext
  <1>7. StackIsAsScripted'
    BY <1>1, <1>6 DEF StackIsAsScripted, Services
  <1> QED
    BY <1>1, <1>2, <1>7 DEF StackInv

\* One more service is stopped, or started, by a reset.
LEMMA ResetKeepsStack ==
    ASSUME StackTyped, StackInv, NEW s \in Services, ResetPod(s)
    PROVE  StackInv'
  <1>1. /\ UNCHANGED <<orchestrator, disturbed, attached>> /\ Kubernetes /\ Kubernetes'
        /\ s \in todo
    BY DEF ResetPod, AtPlace, Stop, Go, Kubernetes
  <1>2. \A x \in Services : (attached[x])'
    BY <1>1 DEF StackInv, StackIsSound, SoundAt
  <1>3. CASE place = "stopping" /\ Stop(s)
    <2>1. /\ \A x \in Services : (qdisc[x])' = IF x = s THEN "none" ELSE qdisc[x]
          /\ \A x \in Services : (up[x])' = IF x = s THEN FALSE ELSE up[x]
      BY <1>3 DEF Stop, StackTyped
    <2>2. StackIsSound'
      BY <1>1, <1>2, <2>1 DEF StackInv, StackIsSound, SoundAt, Services
    <2>3. \/ todo = {s} /\ todo' = Services /\ place' = "starting"
          \/ todo' = todo \ {s} /\ place' = "stopping"
      BY <1>3 DEF ResetPod, AtPlace
    <2>4. \A x \in Services \ (todo \ {s}) : (qdisc[x])' = "none"
      BY <1>3, <2>1 DEF StackInv
    <2> QED
      BY <1>1, <2>2, <2>3, <2>4 DEF StackInv, StackIsAsScripted, Services
  <1>4. CASE place = "starting" /\ Go(s)
    <2>1. /\ \A x \in Services : (qdisc[x])' = "none"
          /\ \A x \in Services : up[x] => (up[x])'
          /\ (up[s])'
      BY <1>1, <1>4 DEF Go, Starts, StackTyped, StackInv
    <2>2. StackIsSound'
      BY <1>1, <1>2, <2>1 DEF StackIsSound, SoundAt, Services
    <2>3. /\ todo' = todo \ {s}
          /\ place' = IF todo = {s} THEN "waiting" ELSE "starting"
      BY <1>4 DEF ResetPod, AtPlace
    <2>4. \A x \in Services : x \notin todo' => (up[x])'
      BY <1>4, <2>1, <2>3 DEF StackInv
    <2>5. place' = "waiting" => Fresh'
      BY <1>2, <2>1, <2>3, <2>4 DEF Fresh, Services
    <2> QED
      BY <1>1, <2>1, <2>2, <2>3, <2>4, <2>5 DEF StackInv, StackIsAsScripted, Services
  <1> QED
    BY <1>3, <1>4 DEF ResetPod, AtPlace

\* A service that fails of itself is none of those the script speaks of.
LEMMA LossKeepsStack ==
    ASSUME StackTyped, StackInv, NEW s \in Services, Lost(s)
    PROVE  StackInv'
  <1>1. /\ UNCHANGED <<orchestrator, authorised, place, scenario, results, todo, leaving, missed>>
        /\ disturbed' = disturbed \cup {s} /\ Kubernetes' = Kubernetes
        /\ \A x \in Services : /\ (up[x])' = IF x = s THEN Kubernetes ELSE up[x]
                               /\ (qdisc[x])' = IF x = s THEN "none" ELSE qdisc[x]
                               /\ (attached[x])' = attached[x]
    BY DEF Lost, StackTyped, Kubernetes
  <1>2. StackIsSound'
    <2> SUFFICES ASSUME NEW x \in Services
                 PROVE  SoundAt(x)'
      BY DEF StackIsSound, Services
    <2>1. SoundAt(x)
      BY DEF StackInv, StackIsSound
    <2>2. /\ (attached[x])' = attached[x]
          /\ IF x = s THEN (up[x])' = Kubernetes /\ (qdisc[x])' = "none"
             ELSE (up[x])' = up[x] /\ (qdisc[x])' = qdisc[x]
      BY <1>1
    <2> QED
      BY <1>1, <2>1, <2>2 DEF SoundAt
  <1>3. place' = "stopping" => \A x \in (Services \ todo)' : (qdisc[x])' = "none"
    BY <1>1 DEF StackInv, Services
  <1>4. place' = "starting" =>
           /\ Kubernetes'
           /\ \A x \in Services : (qdisc[x])' = "none" /\ (x \notin todo' => (up[x])')
    BY <1>1 DEF StackInv
  <1>5. (place = "waiting" \/ (place = "planning" /\ scenario.reset))' => Fresh'
    BY <1>1 DEF StackInv, Fresh, Services
  <1>6. StackIsAsScripted'
    <2>1. ASSUME NEW x, Followed(x)'
          PROVE  Followed(x) /\ UNCHANGED <<up[x], attached[x], qdisc[x]>>
      <3>1. x \in Services /\ x # s /\ Followed(x)
        BY <1>1, <2>1 DEF Followed, Services
      <3> QED
        BY <1>1, <3>1
    <2> QED
      BY <1>1, <2>1, ScriptedStays
  <1> QED
    BY <1>2, <1>3, <1>4, <1>5, <1>6 DEF StackInv, Services

\* Nor is one whose new pod is left without its forward.
LEMMA GoneKeepsStack ==
    ASSUME StackInv, NEW s \in Services, Gone(s)
    PROVE  StackInv'
  <1>1. /\ UNCHANGED <<orchestrator, authorised, place, scenario, results, todo, disturbed>>
        /\ UNCHANGED <<up, attached, qdisc>>
        /\ leaving' \subseteq leaving /\ missed \subseteq missed' /\ Kubernetes' = Kubernetes
    BY DEF Gone, Kubernetes
  <1>2. StackIsSound'
    BY <1>1 DEF StackInv, StackIsSound, SoundAt, Services
  <1>3. Fresh' <=> Fresh
    BY <1>1 DEF Fresh, Services
  <1>4. StackIsAsScripted'
    <2>1. \A x : Followed(x)' => Followed(x) /\ UNCHANGED <<up[x], attached[x], qdisc[x]>>
      BY <1>1 DEF Followed, Services
    <2> QED
      BY <1>1, <2>1, ScriptedStays
  <1> QED
    BY <1>1, <1>2, <1>3, <1>4 DEF StackInv, Services

\* An event is sound if it leaves its own target so.
LEMMA SoundAfter ==
    ASSUME StackInv, UNCHANGED orchestrator, ~Kubernetes => leaving' = leaving, OnlyTargetMoves,
           \A s \in Services : s = Target =>
                 /\ Kubernetes => (attached[s])'
                 /\ ~Kubernetes => /\ (qdisc[s])' # "loss"
                                   /\ ~(attached[s])' => (qdisc[s])' = "none"
                 /\ ~(up[s])' => (qdisc[s])' = "none"
    PROVE  StackIsSound'
  <1> SUFFICES ASSUME NEW s \in Services
               PROVE  SoundAt(s)'
    BY DEF StackIsSound, Services
  <1>1. SoundAt(s) /\ Kubernetes' = Kubernetes
    BY DEF StackInv, StackIsSound, Kubernetes
  <1>2. CASE s = Target
    BY <1>1, <1>2 DEF SoundAt
  <1>3. CASE s # Target
    <2>1. UNCHANGED <<up[s], attached[s], qdisc[s]>>
      BY <1>3 DEF OnlyTargetMoves
    <2> QED
      BY <1>1, <2>1 DEF SoundAt
  <1> QED
    BY <1>2, <1>3

LEMMA KillKeepsStack ==
    ASSUME LogTyped, StackTyped, StackInv, Kill
    PROVE  StackInv'
  <1>1. /\ Executing({"kill"}) /\ Record(Result("done")) /\ UNCHANGED <<orchestrator, missed>>
        /\ Stop(Target) \/ UNCHANGED stackVars
    BY DEF Kill, Executing, AtPlace, Stop, stackVars
  <1>2. OnlyTargetMoves
    BY <1>1 DEF OnlyTargetMoves, Stop, StackTyped, stackVars
  <1>3. StackIsSound'
    <2>1. CASE UNCHANGED stackVars
      BY <1>1, <2>1, StackUntouched
    <2>2. CASE Stop(Target)
      <3>1. /\ \A s \in Services : s = Target => (qdisc[s])' = "none"
            /\ attached' = attached
            /\ ~Kubernetes => leaving' = leaving
        BY <2>2 DEF Stop, StackTyped
      <3>2. \A s \in Services : Kubernetes => (attached[s])'
        BY <3>1 DEF StackInv, StackIsSound, SoundAt
      <3> QED
        BY <1>1, <1>2, <3>1, <3>2, SoundAfter
    <2> QED
      BY <1>1, <2>1, <2>2
  <1>4. TargetIsScripted
    <2>1. ASSUME NEW s, s = Target, Followed(s)', authorised, Told(s), SoundAt(s)
          PROVE  Told(s)'
      <3>1. s \in Services
        BY <2>1 DEF Followed, Services
      <3> QED
        BY <2>1, <3>1, KillIsScripted
    <2> QED
      BY <2>1 DEF TargetIsScripted
  <1>5. EventIsScripted
    BY <1>1, <1>2, <1>4, OneServiceEvent
  <1> QED
    BY <1>1, <1>3, <1>5, EventKeepsStackInv

LEMMA RestartKeepsStack ==
    ASSUME LogTyped, StackTyped, StackInv, Restart
    PROVE  StackInv'
  <1>1. /\ Executing({"restart"}) /\ UNCHANGED <<orchestrator, missed, leaving, attached, qdisc>>
        /\ Record(Result("done")) \/ place' \in {"closing", "over"}
        /\ \A s \in Services : up[s] => (up[s])'
    BY DEF Restart, Executing, AtPlace, Go
  <1>2. StackIsSound'
    BY <1>1 DEF StackInv, StackIsSound, SoundAt, Services, Kubernetes
  <1>3. CASE Record(Result("done"))
    <2>1. ASSUME NEW s, Followed(s)', Told(s)
          PROVE  Told(s)'
      <3>1. s \in Services
        BY <2>1 DEF Followed, Services
      <3> QED
        BY <1>3, <2>1, <3>1, RestartIsScripted
    <2>2. EventIsScripted
      BY <2>1 DEF EventIsScripted
    <2> QED
      BY <1>1, <1>2, <1>3, <2>2, EventKeepsStackInv
  <1>4. CASE place' \in {"closing", "over"}
    BY <1>2, <1>4, StackOutOfPlay
  <1> QED
    BY <1>1, <1>3, <1>4

\* What a command leaves of the services, wherever it runs.
ShapedOrCut ==
    \/ Kubernetes /\ \E d \in {"none", "loss", "delay"} : Shape(d) /\ (d # "none" => Running(Target))
    \/ ~Kubernetes /\ Shape("none")
    \/ ~Kubernetes /\ Shape("delay") /\ up[Target] /\ attached[Target]
    \/ /\ ~Kubernetes /\ attached' = [attached EXCEPT ![Target] = FALSE]
       /\ qdisc' = [qdisc EXCEPT ![Target] = "none"]
       /\ UNCHANGED <<up, leaving, missed>>
    \/ /\ ~Kubernetes /\ attached' = [attached EXCEPT ![Target] = @ \/ up[Target]]
       /\ UNCHANGED <<up, qdisc, leaving, missed>>

LEMMA ShapingIsSound ==
    ASSUME StackTyped, StackInv, UNCHANGED orchestrator, ShapedOrCut
    PROVE  /\ StackIsSound' /\ OnlyTargetMoves /\ missed \subseteq missed'
  <1>1. OnlyTargetMoves /\ missed \subseteq missed' /\ leaving' = leaving /\ up' = up
    BY DEF ShapedOrCut, OnlyTargetMoves, Shape, StackTyped
  <1>2. ASSUME NEW s \in Services, s = Target
        PROVE  /\ Kubernetes => (attached[s])'
               /\ ~Kubernetes => /\ (qdisc[s])' # "loss"
                                 /\ ~(attached[s])' => (qdisc[s])' = "none"
               /\ ~(up[s])' => (qdisc[s])' = "none"
    <2>1. SoundAt(s)
      BY DEF StackInv, StackIsSound
    <2>2. CASE \E d \in {"none", "loss", "delay"} :
                  Kubernetes /\ Shape(d) /\ (d # "none" => Running(Target))
      BY <1>2, <2>1, <2>2 DEF SoundAt, Shape, Running, StackTyped
    <2>3. CASE ~Kubernetes /\ Shape("none")
      BY <1>2, <2>1, <2>3 DEF SoundAt, Shape, StackTyped
    <2>4. CASE ~Kubernetes /\ Shape("delay") /\ up[Target] /\ attached[Target]
      BY <1>2, <2>1, <2>4 DEF SoundAt, Shape, StackTyped
    <2>5. CASE /\ ~Kubernetes /\ attached' = [attached EXCEPT ![Target] = FALSE]
               /\ qdisc' = [qdisc EXCEPT ![Target] = "none"]
               /\ UNCHANGED <<up, leaving, missed>>
      BY <1>2, <2>1, <2>5 DEF SoundAt, StackTyped
    <2>6. CASE /\ ~Kubernetes /\ attached' = [attached EXCEPT ![Target] = @ \/ up[Target]]
               /\ UNCHANGED <<up, qdisc, leaving, missed>>
      BY <1>2, <2>1, <2>6 DEF SoundAt, StackTyped
    <2> QED
      BY <2>2, <2>3, <2>4, <2>5, <2>6 DEF ShapedOrCut
  <1>3. StackIsSound'
    BY <1>1, <1>2, SoundAfter
  <1> QED
    BY <1>1, <1>3

LEMMA CommandKeepsStack ==
    ASSUME LogTyped, StackTyped, StackInv,
           NEW actions, Executing(actions), "restart" \notin actions, ShapedOrCut,
           \/ Record(Result("done")) /\ TargetIsScripted
           \/ place' \in {"closing", "over"}
    PROVE  StackInv'
  <1>1. UNCHANGED orchestrator
    BY DEF Executing, AtPlace
  <1>2. /\ StackIsSound' /\ OnlyTargetMoves /\ missed \subseteq missed'
    BY <1>1, ShapingIsSound
  <1>3. CASE Record(Result("done")) /\ TargetIsScripted
    <2>1. EventIsScripted
      BY <1>2, <1>3, OneServiceEvent
    <2> QED
      BY <1>2, <1>3, <2>1, EventKeepsStackInv
  <1>4. CASE place' \in {"closing", "over"}
    BY <1>2, <1>4, StackOutOfPlay
  <1> QED
    BY <1>3, <1>4

LEMMA DisconnectKeepsStack ==
    ASSUME LogTyped, StackTyped, StackInv, Disconnect, ~Abort
    PROVE  StackInv'
  <1>1. Executing({"disconnect"}) /\ Record(Result("done"))
    BY DEF Disconnect
  <1>2. ShapedOrCut
    <2>1. CASE Kubernetes
      BY <2>1 DEF Disconnect, ShapedOrCut
    <2>2. CASE ~Kubernetes
      BY <2>2 DEF Disconnect, ShapedOrCut
    <2> QED
      BY <2>1, <2>2
  <1>3. TargetIsScripted
    <2>1. ASSUME NEW s, s = Target, Followed(s)', Told(s), SoundAt(s)
          PROVE  Told(s)'
      BY <2>1, DisconnectIsScripted DEF Followed, Services
    <2> QED
      BY <2>1 DEF TargetIsScripted
  <1> QED
    BY <1>1, <1>2, <1>3, CommandKeepsStack

LEMMA ConnectKeepsStack ==
    ASSUME LogTyped, StackTyped, StackInv, Connect
    PROVE  StackInv'
  <1>1. /\ Executing({"connect"})
        /\ Record(Result("done")) \/ place' \in {"closing", "over"}
    BY DEF Connect
  <1>2. ShapedOrCut
    <2>1. CASE Kubernetes
      BY <2>1 DEF Connect, ShapedOrCut
    <2>2. CASE ~Kubernetes
      BY <2>2 DEF Connect, ShapedOrCut
    <2> QED
      BY <2>1, <2>2
  <1>3. CASE Record(Result("done"))
    <2>1. ASSUME NEW s, s = Target, Followed(s)', Told(s), SoundAt(s)
          PROVE  Told(s)'
      BY <1>3, <2>1, ConnectIsScripted DEF Followed, Services
    <2>2. TargetIsScripted
      BY <2>1 DEF TargetIsScripted
    <2> QED
      BY <1>1, <1>2, <1>3, <2>2, CommandKeepsStack
  <1>4. CASE place' \in {"closing", "over"}
    BY <1>1, <1>2, <1>4, CommandKeepsStack
  <1> QED
    BY <1>1, <1>3, <1>4

LEMMA DelayKeepsStack ==
    ASSUME LogTyped, StackTyped, StackInv, Delay, ~Abort
    PROVE  StackInv'
  <1>1. Executing({"delay"}) /\ Record(Result("done"))
    BY DEF Delay
  <1>2. Shape("delay") /\ Running(Target) /\ attached[Target]
    BY DEF Delay
  <1>3. ~Kubernetes => up[Target]
    <2>1. Target \in Services
      BY <1>1, ExecutingFacts DEF Events, Target
    <2> QED
      BY <1>2, <2>1 DEF Running, StackInv, StackIsSound, SoundAt
  <1>4. ShapedOrCut
    BY <1>2, <1>3 DEF ShapedOrCut
  <1>5. TargetIsScripted
    <2>1. ASSUME NEW s, s = Target, Followed(s)', Told(s), SoundAt(s)
          PROVE  Told(s)'
      BY <2>1, DelayIsScripted DEF Followed, Services
    <2> QED
      BY <2>1 DEF TargetIsScripted
  <1> QED
    BY <1>1, <1>4, <1>5, CommandKeepsStack

LEMMA ClearDelayKeepsStack ==
    ASSUME LogTyped, StackTyped, StackInv, ClearDelay, ~Abort
    PROVE  StackInv'
  <1>1. Executing({"clear_delay"}) /\ Record(Result("done")) /\ Shape("none")
    BY DEF ClearDelay
  <1>2. ShapedOrCut
    BY <1>1 DEF ShapedOrCut
  <1>3. TargetIsScripted
    <2>1. ASSUME NEW s, s = Target, Followed(s)', Told(s), SoundAt(s)
          PROVE  Told(s)'
      BY <2>1, ClearDelayIsScripted DEF Followed, Services
    <2> QED
      BY <2>1 DEF TargetIsScripted
  <1> QED
    BY <1>1, <1>2, <1>3, CommandKeepsStack

LEMMA StackInvStays ==
    ASSUME LogTyped, StackTyped, StackInv, Next
    PROVE  StackInv'
  <1>1. CASE Preflight
    BY <1>1, StackUntouched, StackOutOfPlay DEF Preflight, AtPlace
  <1>2. CASE Checked
    BY <1>2, StackUntouched, StackOutOfPlay DEF Checked, AtPlace
  <1>3. CASE Refused \/ End \/ ResetFailed \/ Raised \/ EventFailed
    <2>1. Abort /\ UNCHANGED orchestrator
      BY <1>3 DEF Refused, End, ResetFailed, Raised, EventFailed, Executing, AtPlace
    <2> QED
      BY <2>1, AbortLeavesStack
  <1>4. CASE Begin
    <2>1. /\ \/ place' = "stopping" /\ todo' = Services
             \/ place' = "planning" /\ scenario'.reset # TRUE
          /\ UNCHANGED <<stackVars, orchestrator>>
      BY <1>4 DEF Begin, AtPlace
    <2>2. StackIsSound'
      BY <2>1, StackUntouched
    <2> QED
      BY <2>1, <2>2 DEF StackInv, StackIsAsScripted, Services
  <1>5. ASSUME NEW s \in Services, ResetPod(s)
        PROVE  StackInv'
    BY <1>5, ResetKeepsStack
  <1>6. CASE ResetCompose
    <2>1. /\ place' = "waiting" /\ Kubernetes' = Kubernetes /\ ~Kubernetes /\ leaving' = leaving
          /\ \A x \in Services : (up[x])' /\ (attached[x])' /\ (qdisc[x])' = "none"
      BY <1>6 DEF ResetCompose, AtPlace, Kubernetes
    <2>2. StackIsSound' /\ Fresh'
      BY <2>1 DEF StackInv, StackIsSound, SoundAt, Fresh, Services
    <2> QED
      BY <2>1, <2>2 DEF StackInv, StackIsAsScripted
  <1>7. CASE StackReady
    <2>1. CASE Abort
      BY <1>7, <2>1, AbortLeavesStack DEF StackReady, AtPlace
    <2>2. CASE place' = "planning" /\ UNCHANGED stackVars
      <3>1. place = "waiting" /\ UNCHANGED <<stackVars, orchestrator, disturbed>>
        BY <1>7, <2>2 DEF StackReady, AtPlace
      <3>2. StackIsSound'
        BY <3>1, StackUntouched
      <3>3. Fresh'
        BY <3>1 DEF StackInv, Fresh, stackVars, Services
      <3> QED
        BY <2>2, <3>2, <3>3 DEF StackInv, StackIsAsScripted
    <2> QED
      BY <1>7, <2>1, <2>2 DEF StackReady
  <1>8. CASE Plan
    BY <1>8, PlanBeginsScripted
  <1>9. CASE Fetch
    <2>1. Executing({"fetch"}) /\ UNCHANGED stackVars
      BY <1>9 DEF Fetch
    <2>2. Current \in Events /\ Current.action = "fetch"
      BY <2>1, ExecutingFacts
    <2>3. CASE Record(Result("failed"))
      <3>1. Result("failed") \in Results /\ Result("failed").event = Current
        BY <2>2, ResultIsResult
      <3> QED
        BY <2>1, <2>3, <3>1, QuietEvent
    <2>4. CASE \E source \in Sources, latency \in Latencies :
                  Record(Outcome("success", source, latency))
      <3>1. PICK source \in Sources, latency \in Latencies :
               Record(Outcome("success", source, latency))
        BY <2>4
      <3>2. /\ Outcome("success", source, latency) \in Results
            /\ Outcome("success", source, latency).event = Current
        BY <2>2, RunnerAssumption DEF Results, Outcome
      <3> QED
        BY <2>1, <3>1, <3>2, QuietEvent
    <2> QED
      BY <1>9, <2>3, <2>4 DEF Fetch
  <1>10. CASE Invalidate \/ Sleep
    <2>1. CASE Abort
      BY <1>10, <2>1, AbortLeavesStack DEF Invalidate, Sleep, Executing, AtPlace
    <2>2. CASE Record(Result("done")) /\ UNCHANGED <<stackVars, forwardVars>>
      <3>1. Executing({"invalidate", "sleep"})
        BY <1>10 DEF Invalidate, Sleep, Executing
      <3>2. Result("done") \in Results /\ Result("done").event = Current
        BY <3>1, ExecutingFacts, ResultIsResult
      <3> QED
        BY <2>2, <3>1, <3>2, QuietEvent
    <2> QED
      BY <1>10, <2>1, <2>2 DEF Invalidate, Sleep
  <1>11. CASE Kill
    BY <1>11, KillKeepsStack
  <1>12. CASE Restart
    BY <1>12, RestartKeepsStack
  <1>13. CASE (Disconnect \/ Delay \/ ClearDelay) /\ Abort
    BY <1>13, AbortLeavesStack DEF Disconnect, Delay, ClearDelay, Executing, AtPlace
  <1>14. CASE (Disconnect \/ Delay \/ ClearDelay) /\ ~Abort
    BY <1>14, DisconnectKeepsStack, DelayKeepsStack, ClearDelayKeepsStack
  <1>15. CASE Connect
    BY <1>15, ConnectKeepsStack
  <1>16. CASE Write
    BY <1>16, StackUntouched, StackOutOfPlay DEF Write, AtPlace
  <1>17. ASSUME NEW s \in Services, Lost(s)
         PROVE  StackInv'
    BY <1>17, LossKeepsStack
  <1>18. ASSUME NEW s \in Services, Gone(s)
         PROVE  StackInv'
    BY <1>18, GoneKeepsStack
  <1> QED
    BY <1>1, <1>2, <1>3, <1>4, <1>5, <1>6, <1>7, <1>8, <1>9, <1>10, <1>11, <1>12, <1>13,
       <1>14, <1>15, <1>16, <1>17, <1>18 DEF Next, RunnerStep

-----------------------------------------------------------------------------
RunnerInv == StackTyped /\ LogTyped /\ ForwardInv /\ StackInv

THEOREM RunnerInvariant == Spec => []RunnerInv
  <1>1. Init => RunnerInv
    <2> SUFFICES ASSUME Init
                 PROVE  RunnerInv
      OBVIOUS
    <2>1. /\ orchestrator \in Orchestrators /\ authorised \in BOOLEAN
          /\ place = "preflight" /\ ahead \in Specs /\ scenario = NoScenario
          /\ plan = <<>> /\ results = <<>> /\ files = <<>> /\ todo = {} /\ faults = 0
          /\ live = {} /\ stray = {} /\ disturbed = {} /\ leaving = {} /\ missed = {}
          /\ attached = [s \in Services |-> TRUE] /\ qdisc = [s \in Services |-> "none"]
      BY DEF Init
    <2>2. up \in [Services -> BOOLEAN]
      BY DEF Init
    <2>3. StackTyped
      BY <2>1, <2>2, RunnerAssumption DEF StackTyped, Places
    <2>4. NoScenario \in Scenarios
      BY DEF NoScenario, Scenarios
    <2>5. LogTyped
      BY <2>1, <2>4, RunnerAssumption DEF LogTyped
    <2>6. ForwardInv
      BY <2>1 DEF ForwardInv, UpIsForwarded
    <2>7. StackInv
      BY <2>1 DEF StackInv, StackIsSound, SoundAt, StackIsAsScripted
    <2> QED
      BY <2>3, <2>5, <2>6, <2>7 DEF RunnerInv
  <1>2. RunnerInv /\ [Next]_vars => RunnerInv'
    <2> SUFFICES ASSUME RunnerInv, [Next]_vars
                 PROVE  RunnerInv'
      OBVIOUS
    <2>1. CASE Next
      BY <2>1, StackStaysTyped, LogStaysTyped, ForwardInvStays, StackInvStays DEF RunnerInv
    <2>2. CASE UNCHANGED vars
      <3>1. StackTyped' /\ ForwardInv'
        BY <2>2 DEF vars, stackVars, RunnerInv, StackTyped, ForwardInv, UpIsForwarded,
                    Kubernetes, UpAmong, Running
      <3>2. LogTyped'
        BY <2>2, LogUntouched DEF vars, scriptVars, RunnerInv
      <3>3. StackInv'
        <4>1. StackInv /\ UNCHANGED <<stackVars, orchestrator>>
          BY <2>2 DEF vars, stackVars, RunnerInv
        <4>2. StackIsSound'
          BY <4>1, StackUntouched
        <4>3. Fresh' <=> Fresh
          BY <2>2 DEF vars, stackVars, Fresh, Services
        <4>4. StackIsAsScripted'
          <5>1. \A s : Followed(s)' => Followed(s) /\ UNCHANGED <<up[s], attached[s], qdisc[s]>>
            BY <2>2 DEF vars, stackVars, Followed, Services
          <5>2. UNCHANGED <<results, orchestrator, place, scenario, authorised>>
            BY <2>2 DEF vars
          <5> QED
            BY <4>1, <5>1, <5>2, ScriptedStays
        <4> QED
          BY <2>2, <4>1, <4>2, <4>3, <4>4 DEF vars, stackVars, StackInv, Kubernetes, Services
      <3> QED
        BY <3>1, <3>2, <3>3 DEF RunnerInv
    <2> QED
      BY <2>1, <2>2
  <1> QED
    BY <1>1, <1>2, PTL DEF Spec

\* The runner, its plan, its results, its files and the services stay well typed, and
\* each result is that of the event in its place (runner.py:115-215).
THEOREM RunnerTypeCorrect == Spec => []RunnerTypeOK
  <1>1. RunnerInv => RunnerTypeOK
    <2> SUFFICES ASSUME RunnerInv
                 PROVE  RunnerTypeOK
      OBVIOUS
    <2>1. StackTyped /\ LogTyped
      BY DEF RunnerInv
    <2>2. \A i \in DOMAIN ahead : ahead[i].reset \in BOOLEAN
      <3>1. \A i \in DOMAIN ahead : ahead[i] \in Scenarios
        BY <2>1 DEF LogTyped
      <3> QED
        BY <3>1 DEF Scenarios
    <2>3. \A i \in DOMAIN files :
             files[i].summary \in Summaries /\ files[i].stats \subseteq Peers
      <3>1. \A i \in DOMAIN files : files[i] \in Files
        BY <2>1 DEF LogTyped
      <3> QED
        BY <3>1 DEF Files
    <2>4. place = "events" =>
             /\ Len(results) <= Len(plan)
             /\ \A i \in DOMAIN results : results[i].event = plan[i]
      BY <2>1 DEF LogTyped
    <2> QED
      BY <2>1, <2>2, <2>3, <2>4 DEF StackTyped, RunnerTypeOK
  <1> QED
    BY <1>1, RunnerInvariant, PTL

\* For any script, the plan has each of its steps once, in the order they are written
\* in unless no time passes between them and the later one has priority
\* (runner.py:209-223, 1012-1025).
THEOREM PlanKept == Spec => []PlanKeepsScript
  <1>1. RunnerInv => PlanKeepsScript
    <2> SUFFICES ASSUME RunnerInv, place = "events", scenario.steps # <<>>
                 PROVE  KeepsScript(scenario.steps, plan)
      BY DEF PlanKeepsScript, KeepsScript, Waits
    <2>1. scenario \in Scenarios /\ plan \in Plans(scenario)
      BY DEF RunnerInv, LogTyped
    <2>2. plan = Sorted(ExplicitEvents(scenario.steps))
      BY <2>1 DEF Plans
    <2>3. scenario.steps \in Seq(ScriptSteps)
      BY <2>1, ScenarioParts
    <2> QED
      BY <2>2, <2>3, ScriptIsKept
  <1> QED
    BY <1>1, RunnerInvariant, PTL

\* After every event of any script that began with a reset, in whatever order services
\* are killed, restarted, cut off, connected, slowed and unslowed, the results so far tell
\* what each service is, under either orchestrator.  Only of one that failed of itself, or
\* whose pod on its way out took what was meant for its successor, they may not
\* (runner.py:494-659, 699-725, 773-812).
THEOREM StackScripted == Spec => []StackIsAsScripted
  <1>1. RunnerInv => StackIsAsScripted
    BY DEF RunnerInv, StackInv
  <1> QED
    BY <1>1, RunnerInvariant, PTL

\* Between events every forward leads to a pod, and every service that is up has one,
\* unless it failed of itself or lost it with the pod that left (runner.py:712-725, 828-872).
THEOREM UpForwarded == Spec => []UpIsForwarded
  <1>1. RunnerInv => UpIsForwarded
    BY DEF RunnerInv, ForwardInv
  <1> QED
    BY <1>1, RunnerInvariant, PTL

\* However a run ends, none of the forwards it started is left
\* (runner.py:115-125, 834-872).
THEOREM ForwardsStopped == Spec => []ForwardsAreStopped
  <1>1. RunnerInv => ForwardsAreStopped
    BY DEF RunnerInv, ForwardInv, ForwardsAreStopped
  <1> QED
    BY <1>1, RunnerInvariant, PTL

\* For results of any length and latencies of any size, the counts of a summary add
\* up and its latencies are in order (runner.py:934-991).
THEOREM SummaryCoherent == Spec => []SummaryIsCoherent
  <1>1. RunnerInv => SummaryIsCoherent
    <2> SUFFICES ASSUME RunnerInv
                 PROVE  SummaryIsCoherent
      OBVIOUS
    <2>1. results \in Seq(Results)
      BY DEF RunnerInv, LogTyped
    <2> QED
      BY <2>1, SummariesAddUp DEF SummaryIsCoherent
  <1> QED
    BY <1>1, RunnerInvariant, PTL
=============================================================================
