-------------------------- MODULE Membership_proofs --------------------------
(***************************************************************************)
(* The state of a peer's tasks is well typed, for any set of objects and   *)
(* any bounds.  That the republish loop always waits for the publish of an *)
(* object takes the lock, which one task at a time holds.                  *)
(***************************************************************************)
EXTENDS Membership, FiniteSetTheorems, TLAPS

USE MembershipAssumption

Calls == {Register} \cup {Publish(o) : o \in Objects}

Walks == [size : 0..Cardinality(Objects), left : SUBSET Objects,
          at : Objects \cup {NoObject}, moved : BOOLEAN]

\* One task at most is in the section that _register_lock guards.
LockIsExclusive == \A t, u \in Tasks : Holding(t) /\ Holding(u) => t = u

\* The call that a republish loop waits for is the publish of an object.
WalkIsAtObject == \A t \in Tasks : pc[t] = "republishing" => walk.at \in Objects

MemInv == MemTypeOK /\ LockIsExclusive /\ WalkIsAtObject

LEMMA CountBounded ==
    ASSUME NEW S \in SUBSET Objects
    PROVE  Cardinality(S) \in 0..Cardinality(Objects)
  BY FS_Subset, FS_CardinalityType

LEMMA WalkShape ==
    /\ NoWalk \in Walks
    /\ \A w \in Walks, left \in SUBSET Objects :
          /\ [w EXCEPT !.left = left, !.moved = TRUE] \in Walks
          /\ [w EXCEPT !.left = left, !.moved = TRUE].at = w.at
    /\ \A w \in Walks, o \in Objects :
          /\ [w EXCEPT !.at = o, !.left = @ \ {o}] \in Walks
          /\ [w EXCEPT !.at = o, !.left = @ \ {o}].at = o
    /\ \A w \in Walks : w.left \subseteq Objects
  <1>1. NoWalk \in Walks
    <2>1. 0 \in 0..Cardinality(Objects)
      BY FS_CardinalityType
    <2> QED
      BY <2>1 DEF Walks, NoWalk
  <1>2. ASSUME NEW w \in Walks, NEW left \in SUBSET Objects
        PROVE  /\ [w EXCEPT !.left = left, !.moved = TRUE] \in Walks
               /\ [w EXCEPT !.left = left, !.moved = TRUE].at = w.at
    BY DEF Walks
  <1>3. ASSUME NEW w \in Walks, NEW o \in Objects
        PROVE  /\ [w EXCEPT !.at = o, !.left = @ \ {o}] \in Walks
               /\ [w EXCEPT !.at = o, !.left = @ \ {o}].at = o
    BY DEF Walks
  <1>4. \A w \in Walks : w.left \subseteq Objects
    BY DEF Walks
  <1> QED
    BY <1>1, <1>2, <1>3, <1>4

LEMMA NewWalkShape == MemTypeOK => NewWalk \in Walks
  BY CountBounded DEF MemTypeOK, NewWalk, Walks

LEMMA CallsTyped ==
    /\ Register \in Calls
    /\ \A o \in Objects : Publish(o) \in Calls
    /\ \A t \in Tasks : Call(t) \subseteq Calls
  BY DEF Calls, Call

\* A task that goes on to where the lock is not needed, the walk as it was.
LEMMA GoKeeps ==
    ASSUME MemInv, NEW t \in Tasks, NEW where \in Places \ {"registering", "republishing"},
           Go(t, where), walk' = walk
    PROVE  /\ pc' \in [Tasks -> Places] /\ walk' \in Walks
           /\ LockIsExclusive' /\ WalkIsAtObject'
  BY DEF MemInv, MemTypeOK, Walks, Go, LockIsExclusive, WalkIsAtObject, Holding

\* The turn of the loop, of the task that holds the lock.
LEMMA TurnKeeps ==
    ASSUME MemInv, NEW t \in Tasks, Holding(t), NEW w \in Walks, Turn(t, w)
    PROVE  /\ pc' \in [Tasks -> Places] /\ walk' \in Walks
           /\ LockIsExclusive' /\ WalkIsAtObject'
  <1>0. pc \in [Tasks -> Places] /\ \A u \in Tasks \ {t} : ~Holding(u)
    BY DEF MemInv, MemTypeOK, LockIsExclusive
  <1>1. CASE Raised(t) \/ Finished(t)
    <2>1. PICK where \in {"dead", "idle", "retrying"} : Go(t, where) /\ walk' = NoWalk
      BY <1>1 DEF Raised, Finished
    <2>2. \A u \in Tasks : pc'[u] \notin {"registering", "republishing"}
      BY <1>0, <2>1 DEF Go, Holding
    <2> QED
      BY <1>0, <2>1, <2>2, WalkShape
         DEF Go, Places, LockIsExclusive, WalkIsAtObject, Holding
  <1>2. CASE \E o \in w.left \ Timed :
                /\ walk' = [w EXCEPT !.at = o, !.left = @ \ {o}]
                /\ Go(t, "republishing")
    <2>1. PICK o \in Objects : /\ walk' = [w EXCEPT !.at = o, !.left = @ \ {o}]
                               /\ Go(t, "republishing")
      BY <1>2, WalkShape
    <2>2. walk' \in Walks /\ walk'.at \in Objects
      BY <2>1, WalkShape
    <2>3. /\ pc' \in [Tasks -> Places]
          /\ \A u \in Tasks \ {t} : pc'[u] \notin {"registering", "republishing"}
      BY <1>0, <2>1 DEF Go, Holding, Places
    <2> QED
      BY <2>2, <2>3 DEF LockIsExclusive, WalkIsAtObject, Holding
  <1> QED
    BY <1>1, <1>2 DEF Turn

\* What a change of the cache does to the walk keeps it at its object.
LEMMA MovedKeeps ==
    ASSUME MemInv, NEW left \in SUBSET Objects, Moved(left) \/ UNCHANGED walk
    PROVE  walk' \in Walks /\ walk'.at = walk.at
  <1>1. walk \in Walks
    BY DEF MemInv, MemTypeOK, Walks
  <1>2. CASE walk' = walk
    BY <1>1, <1>2
  <1>3. CASE walk' = [walk EXCEPT !.left = left, !.moved = TRUE]
    BY <1>1, <1>3, WalkShape
  <1> QED
    BY <1>2, <1>3 DEF Moved

-----------------------------------------------------------------------------
\* What is left to check of a step, once tasks and walk are known to be kept.
LEMMA RestKeeps ==
    ASSUME MemInv,
           pc' \in [Tasks -> Places], walk' \in Walks, LockIsExclusive', WalkIsAtObject',
           registered' \in BOOLEAN, listed' \subseteq Objects, up' \in BOOLEAN,
           cached' \subseteq Objects, late' \subseteq Calls,
           faults' \in 0..MaxFaults, restarts' \in 0..MaxRestarts
    PROVE  MemInv'
  BY DEF MemInv, MemTypeOK, Walks, Calls

LEMMA AnswerKeeps ==
    ASSUME MemInv,
           \/ UNCHANGED coordVars
           \/ ApplyRegister
           \/ \E o \in Objects : ApplyPublish(o)
    PROVE  registered' \in BOOLEAN /\ listed' \subseteq Objects
  BY DEF MemInv, MemTypeOK, coordVars, ApplyRegister, ApplyPublish

LEMMA CallKeeps ==
    ASSUME MemInv, NEW calls \in SUBSET Calls, Answered \/ Lost(calls)
    PROVE  /\ late' \subseteq Calls
           /\ faults' \in 0..MaxFaults /\ restarts' \in 0..MaxRestarts
  BY DEF MemInv, MemTypeOK, Calls, Answered, Lost, counters

LEMMA AskKeeps ==
    ASSUME MemInv, NEW t \in Tasks, Ask(t)
    PROVE  MemInv'
  <1>1. /\ pc' \in [Tasks -> Places] /\ walk' \in Walks
        /\ LockIsExclusive' /\ WalkIsAtObject'
    BY GoKeeps DEF Ask, Places
  <1>2. UNCHANGED <<registered, listed, up, cached, late, faults, restarts>>
    BY DEF Ask, coordVars, counters
  <1> QED
    BY <1>1, <1>2 DEF MemInv, MemTypeOK, Walks

\* The lock is taken when nobody has it.
LEMMA AcquireKeeps ==
    ASSUME MemInv, NEW t \in Tasks, Acquire(t)
    PROVE  MemInv'
  <1>0. pc \in [Tasks -> Places]
    BY DEF MemInv, MemTypeOK
  <1>1. /\ pc' = [pc EXCEPT ![t] = "registering"] /\ walk' = walk
        /\ \A u \in Tasks : pc[u] \notin {"registering", "republishing"}
        /\ UNCHANGED <<registered, listed, up, cached, late, faults, restarts>>
    BY DEF Acquire, Go, Holding, coordVars, counters
  <1>2. pc' \in [Tasks -> Places]
    BY <1>0, <1>1 DEF Places
  <1>3. \A u \in Tasks \ {t} : pc'[u] \notin {"registering", "republishing"}
    BY <1>0, <1>1
  <1>4. LockIsExclusive' /\ WalkIsAtObject'
    BY <1>0, <1>1, <1>3 DEF LockIsExclusive, WalkIsAtObject, Holding
  <1> QED
    BY <1>1, <1>2, <1>4 DEF MemInv, MemTypeOK

\* The answers, and failures, of the calls outside the lock.
LEMMA OutsideKeeps ==
    ASSUME MemInv, NEW t \in Tasks,
           AskAnswered(t) \/ AskLost(t) \/ RetryAnswered(t) \/ RetryLost(t)
    PROVE  MemInv'
  <1>1. PICK where \in {"idle", "waiting"} : Go(t, where) /\ walk' = walk
    BY DEF AskAnswered, AskLost, RetryAnswered, RetryLost
  <1>2. /\ pc' \in [Tasks -> Places] /\ walk' \in Walks
        /\ LockIsExclusive' /\ WalkIsAtObject'
    BY <1>1, GoKeeps DEF Places
  <1>3. Answered \/ Lost(Call(t))
    BY DEF AskAnswered, AskLost, RetryAnswered, RetryLost
  <1>4. UNCHANGED coordVars \/ \E o \in Objects : ApplyPublish(o)
    BY DEF AskAnswered, AskLost, RetryAnswered, RetryLost, Apply, Lost
  <1>5. UNCHANGED <<up, cached>>
    BY DEF AskAnswered, AskLost, RetryAnswered, RetryLost
  <1>6. registered' \in BOOLEAN /\ listed' \subseteq Objects
    BY <1>4, AnswerKeeps
  <1>7. /\ late' \subseteq Calls
        /\ faults' \in 0..MaxFaults /\ restarts' \in 0..MaxRestarts
    BY <1>3, CallsTyped, CallKeeps
  <1> QED
    BY <1>2, <1>5, <1>6, <1>7, RestKeeps DEF MemInv, MemTypeOK

\* The answers, and failures, of the calls under the lock.
LEMMA InsideKeeps ==
    ASSUME MemInv, NEW t \in Tasks,
           \/ RegisterAnswered(t) \/ RegisterLost(t)
           \/ RepublishAnswered(t) \/ RepublishLost(t)
    PROVE  MemInv'
  <1>0. walk \in Walks /\ NewWalk \in Walks
    BY NewWalkShape DEF MemInv, MemTypeOK, Walks
  <1>1. Holding(t) /\ UNCHANGED <<up, cached>>
    BY DEF RegisterAnswered, RegisterLost, RepublishAnswered, RepublishLost, Holding
  <1>2. PICK w \in Walks : Turn(t, w)
    BY <1>0 DEF RegisterAnswered, RegisterLost, RepublishAnswered, RepublishLost
  <1>3. /\ pc' \in [Tasks -> Places] /\ walk' \in Walks
        /\ LockIsExclusive' /\ WalkIsAtObject'
    BY <1>1, <1>2, TurnKeeps
  <1>4. pc[t] = "republishing" => walk.at \in Objects
    BY DEF MemInv, WalkIsAtObject
  <1>5. PICK calls \in SUBSET Calls : Answered \/ Lost(calls)
    <2>1. {Register} \in SUBSET Calls
      BY CallsTyped
    <2>2. pc[t] = "republishing" => {Publish(walk.at)} \in SUBSET Calls
      BY <1>4, CallsTyped
    <2> QED
      BY <2>1, <2>2 DEF RegisterAnswered, RegisterLost, RepublishAnswered, RepublishLost
  <1>6. \/ UNCHANGED coordVars \/ ApplyRegister
        \/ \E o \in Objects : ApplyPublish(o)
    BY <1>4 DEF RegisterAnswered, RegisterLost, RepublishAnswered, RepublishLost, Lost
  <1>7. registered' \in BOOLEAN /\ listed' \subseteq Objects
    BY <1>6, AnswerKeeps
  <1>8. /\ late' \subseteq Calls
        /\ faults' \in 0..MaxFaults /\ restarts' \in 0..MaxRestarts
    BY <1>5, CallKeeps
  <1> QED
    BY <1>1, <1>3, <1>7, <1>8, RestKeeps DEF MemInv, MemTypeOK

\* The cache changes.
LEMMA CacheKeeps ==
    ASSUME MemInv, NEW o \in Objects, Store(o) \/ Drop(o)
    PROVE  MemInv'
  <1>0. /\ pc \in [Tasks -> Places] /\ o \in Tasks
        /\ walk \in Walks /\ walk.left \subseteq Objects
    BY WalkShape DEF MemInv, MemTypeOK, Tasks, Walks
  <1>1. PICK left \in SUBSET Objects : Moved(left) \/ UNCHANGED walk
    BY <1>0 DEF Store, Drop
  <1>2. walk' \in Walks /\ walk'.at = walk.at
    BY <1>1, MovedKeeps
  <1>3. pc' = [pc EXCEPT ![o] = "announcing"] \/ pc' = pc
    BY DEF Store, Drop, Go
  <1>4. /\ pc' \in [Tasks -> Places]
        /\ \A t \in Tasks : pc'[t] \in {pc[t], "announcing"}
    BY <1>0, <1>3 DEF Places
  <1>5. LockIsExclusive' /\ WalkIsAtObject'
    BY <1>2, <1>4 DEF MemInv, LockIsExclusive, WalkIsAtObject, Holding
  <1>6. cached' \subseteq Objects
    BY DEF Store, Drop, MemInv, MemTypeOK
  <1>7. UNCHANGED <<registered, listed, up, late, faults, restarts>>
    BY DEF Store, Drop, coordVars, counters
  <1> QED
    BY <1>2, <1>4, <1>5, <1>6, <1>7 DEF MemInv, MemTypeOK, Walks

\* The peer goes down and comes up.
LEMMA LifeKeeps ==
    ASSUME MemInv, Crash \/ Boot \/ Booted
    PROVE  MemInv'
  <1>0. heart \in Tasks
    BY DEF Tasks
  <1>1. CASE Crash
    <2>1. Pending \subseteq Calls
      <3>1. \A S \in SUBSET Tasks : UNION {Call(t) : t \in S} \subseteq Calls
        BY CallsTyped
      <3>2. UNION {Call(t) : t \in {u \in Tasks : pc[u] \in {"asking", "retrying"}}} \subseteq Calls
        BY <3>1
      <3>3. \A t \in Tasks : pc[t] = "republishing" => Publish(walk.at) \in Calls
        BY CallsTyped DEF MemInv, WalkIsAtObject
      <3> QED
        BY <3>2, <3>3, CallsTyped DEF Pending
    <2>2. /\ pc' = [t \in Tasks |-> "idle"] /\ walk' = NoWalk
          /\ \A t \in Tasks : pc'[t] = "idle"
      BY <1>1 DEF Crash
    <2>3. /\ pc' \in [Tasks -> Places] /\ walk' \in Walks
          /\ LockIsExclusive' /\ WalkIsAtObject'
      BY <2>2, WalkShape DEF Places, LockIsExclusive, WalkIsAtObject, Holding
    <2>4. late' \subseteq Calls
      BY <1>1, <2>1 DEF Crash, MemInv, MemTypeOK, Calls
    <2>5. restarts' \in 0..MaxRestarts
      BY <1>1 DEF Crash, MemInv, MemTypeOK
    <2>6. /\ up' \in BOOLEAN /\ cached' \subseteq Objects
          /\ UNCHANGED <<registered, listed, faults>>
      BY <1>1 DEF Crash, coordVars
    <2>7. /\ registered' \in BOOLEAN /\ listed' \subseteq Objects
          /\ faults' \in 0..MaxFaults
      BY <2>6 DEF MemInv, MemTypeOK
    <2> QED
      BY <2>3, <2>4, <2>5, <2>6, <2>7, RestKeeps
  <1>2. CASE Boot
    <2>1. /\ pc' \in [Tasks -> Places] /\ walk' \in Walks
          /\ LockIsExclusive' /\ WalkIsAtObject'
      BY <1>0, <1>2, GoKeeps DEF Boot, Places
    <2>2. up' \in BOOLEAN /\ UNCHANGED <<registered, listed, cached, late, faults, restarts>>
      BY <1>2 DEF Boot, coordVars, counters
    <2> QED
      BY <2>1, <2>2 DEF MemInv, MemTypeOK, Walks
  <1>3. CASE Booted
    <2>1. /\ pc' \in [Tasks -> Places] /\ walk' \in Walks
          /\ LockIsExclusive' /\ WalkIsAtObject'
      BY <1>0, <1>3, GoKeeps DEF Booted, BootAnswered, BootLost, Places
    <2>2. UNCHANGED coordVars \/ ApplyRegister
      BY <1>3 DEF Booted, BootAnswered, BootLost, Lost
    <2>3. registered' \in BOOLEAN /\ listed' \subseteq Objects
      BY <2>2, AnswerKeeps
    <2>4. {Register} \in SUBSET Calls /\ (Answered \/ Lost({Register}))
      BY <1>3, CallsTyped DEF Booted, BootAnswered, BootLost
    <2>5. /\ late' \subseteq Calls
          /\ faults' \in 0..MaxFaults /\ restarts' \in 0..MaxRestarts
      BY <2>4, CallKeeps
    <2>6. UNCHANGED <<up, cached>>
      BY <1>3 DEF Booted, BootAnswered, BootLost
    <2> QED
      BY <2>1, <2>3, <2>5, <2>6, RestKeeps DEF MemInv, MemTypeOK
  <1> QED
    BY <1>1, <1>2, <1>3

\* The coordinator forgets the peer, or hears of it late.
LEMMA CoordinatorKeeps ==
    ASSUME MemInv, RestartCoordinator \/ EvictSilent \/ EvictSlow \/ ApplyLate
    PROVE  MemInv'
  <1>1. UNCHANGED <<up, cached, pc, walk>>
    BY DEF RestartCoordinator, EvictSilent, EvictSlow, ApplyLate
  <1>2. registered' \in BOOLEAN /\ listed' \subseteq Objects
    <2>1. CASE Forgotten
      BY <2>1 DEF Forgotten
    <2>2. CASE ApplyLate
      <3>1. PICK call \in Calls :
                IF call.kind = "register" THEN ApplyRegister ELSE ApplyPublish(call.object)
        BY <2>2 DEF ApplyLate, MemInv, MemTypeOK, Calls
      <3>2. call.kind = "register" \/ call.object \in Objects
        BY DEF Calls, Register, Publish
      <3> QED
        BY <3>1, <3>2, AnswerKeeps
    <2> QED
      BY <2>1, <2>2 DEF RestartCoordinator, EvictSilent, EvictSlow
  <1>3. /\ late' \subseteq Calls
        /\ faults' \in 0..MaxFaults /\ restarts' \in 0..MaxRestarts
    BY DEF RestartCoordinator, EvictSilent, EvictSlow, ApplyLate, MemInv, MemTypeOK, Calls,
           counters
  <1> QED
    BY <1>1, <1>2, <1>3
       DEF MemInv, MemTypeOK, Calls, LockIsExclusive, WalkIsAtObject, Holding

-----------------------------------------------------------------------------
LEMMA MemInvKept == MemInv /\ [Next]_vars => MemInv'
  <1> SUFFICES ASSUME MemInv, [Next]_vars
               PROVE  MemInv'
    OBVIOUS
  <1>1. CASE \E t \in Tasks : Ask(t) \/ Acquire(t)
    BY <1>1, AskKeeps, AcquireKeeps
  <1>2. CASE \E t \in Tasks : Proceed(t)
    BY <1>2, OutsideKeeps, InsideKeeps DEF Proceed
  <1>3. CASE \E o \in Objects : Store(o) \/ Drop(o)
    BY <1>3, CacheKeeps
  <1>4. CASE Crash \/ Boot \/ Booted
    BY <1>4, LifeKeeps
  <1>5. CASE RestartCoordinator \/ EvictSilent \/ EvictSlow \/ ApplyLate
    BY <1>5, CoordinatorKeeps
  <1>6. CASE UNCHANGED vars
    BY <1>6 DEF vars, MemInv, MemTypeOK, LockIsExclusive, WalkIsAtObject, Holding
  <1> QED
    BY <1>1, <1>2, <1>3, <1>4, <1>5, <1>6 DEF Next

LEMMA MemInvInit == Init => MemInv
  <1> SUFFICES ASSUME Init
               PROVE  MemInv
    OBVIOUS
  <1>1. walk \in Walks
    BY WalkShape DEF Init
  <1>2. pc \in [Tasks -> Places] /\ \A t \in Tasks : pc[t] = "idle"
    BY DEF Init, Places
  <1>3. LockIsExclusive /\ WalkIsAtObject
    BY <1>2 DEF LockIsExclusive, WalkIsAtObject, Holding
  <1>4. faults \in 0..MaxFaults /\ restarts \in 0..MaxRestarts
    BY DEF Init
  <1>5. /\ registered \in BOOLEAN /\ listed \subseteq Objects /\ up \in BOOLEAN
        /\ cached \subseteq Objects /\ late \subseteq Calls
    BY DEF Init
  <1> QED
    BY <1>1, <1>2, <1>3, <1>4, <1>5 DEF MemInv, MemTypeOK, Walks, Calls

LEMMA MemInvariant == Spec => []MemInv
  BY MemInvInit, MemInvKept, PTL DEF Spec

\* The state of the peer's tasks is well typed.
THEOREM MemTypeCorrect == Spec => []MemTypeOK
  <1>1. MemInv => MemTypeOK
    BY DEF MemInv
  <1> QED
    BY <1>1, MemInvariant, PTL
=============================================================================
