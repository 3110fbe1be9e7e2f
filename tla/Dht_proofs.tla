------------------------------ MODULE Dht_proofs ------------------------------
(***************************************************************************)
(* What holds of the DHT's list for any peers, copies, retries and bounds: *)
(* the state is well typed, and no list names a peer twice.                *)
(***************************************************************************)
EXTENDS Dht, TLAPS

USE DhtAssumption

GoodList(list) == list \in SUBSET Entries /\ AtMostOneEach(list)

\* A read-modify-write that task t may be in.
GoodOperation(o, t) ==
    /\ o \in Operations
    /\ o.at # "idle" /\ t # "leave" => o.copy \in Descriptions
    /\ GoodList(o.read)

\* Neither part of it is inductive alone: what is written back names each peer once
\* because the list read did, and consists of entries because the task has a copy.
ListsInv ==
    /\ GoodList(stored)
    /\ \A list \in late : GoodList(list)
    /\ op \in [Peers -> [Tasks -> Operations]]
    /\ \A p \in Peers, t \in Tasks : GoodOperation(op[p][t], t)

PeersInv ==
    /\ joined \subseteq Peers
    /\ holds \in [Peers -> Descriptions \cup {NoCopy}]
    /\ up \in [Peers -> {"up", "closing", "down"}]
    /\ now \in 0..MaxNow
    /\ events \in 0..MaxEvents
    /\ quiet \in BOOLEAN

DhtInv == ListsInv /\ PeersInv

LEMMA DhtInvIsTyped == DhtInv => DhtTypeOK /\ OneEntryPerPeer
  <1> SUFFICES ASSUME DhtInv
               PROVE  DhtTypeOK /\ OneEntryPerPeer
    OBVIOUS
  <1>1. ASSUME NEW p \in Peers, NEW t \in Tasks
        PROVE  GoodOperation(op[p][t], t)
    BY DEF DhtInv, ListsInv
  <1>2. DhtTypeOK
    BY <1>1 DEF DhtInv, ListsInv, PeersInv, DhtTypeOK, GoodList, GoodOperation
  <1>3. OneEntryPerPeer
    BY <1>1 DEF DhtInv, ListsInv, OneEntryPerPeer, GoodList, GoodOperation
  <1> QED
    BY <1>2, <1>3

LEMMA EmptyIsGood == GoodList({}) /\ \A t : GoodOperation(Idle, t)
  BY DEF GoodList, GoodOperation, AtMostOneEach, Idle, Operations

\* What a task writes back is a good list again.
LEMMA ChangedIsGood ==
    ASSUME ListsInv, NEW p \in Peers, NEW t \in Tasks, op[p][t].at # "idle"
    PROVE  GoodList(Changed(op[p][t].read, p, t))
  <1>1. PICK list : list = op[p][t].read
    OBVIOUS
  <1>2. GoodList(list)
    BY <1>1 DEF ListsInv, GoodOperation
  <1>3. GoodList(Without(list, p))
    BY <1>2 DEF GoodList, Without, AtMostOneEach
  <1>4. CASE t # "leave"
    <2>1. op[p][t].copy \in Descriptions
      BY <1>4 DEF ListsInv, GoodOperation
    <2>2. PICK e : e = Entry(p, op[p][t].copy)
      OBVIOUS
    <2>3. e \in Entries /\ e.peer = p
      BY <2>1, <2>2 DEF Entry, Entries
    <2>4. GoodList(Without(list, p) \cup {e})
      BY <1>2, <2>3 DEF GoodList, Without, AtMostOneEach
    <2> QED
      BY <1>1, <1>4, <2>2, <2>4 DEF Changed
  <1> QED
    BY <1>1, <1>3, <1>4 DEF Changed

\* Giving up an attempt leaves a task that starts over, or none.
LEMMA FailedIsGood ==
    ASSUME ListsInv, NEW p \in Peers, NEW t \in Tasks, op[p][t].at # "idle"
    PROVE  GoodOperation(Failed(p, t), t)
  <1>1. PICK o : o = op[p][t]
    OBVIOUS
  <1>2. GoodOperation(o, t) /\ o.at # "idle"
    BY <1>1 DEF ListsInv
  <1>3. CASE t # "leave" /\ o.tries + 1 < Attempts
    <2>1. o.copy \in Descriptions /\ o.tries + 1 \in 0..(Attempts - 1)
      BY <1>2, <1>3 DEF GoodOperation, Operations
    <2>2. GoodOperation([o EXCEPT !.at = "get", !.read = {}, !.tries = @ + 1], t)
      BY <1>2, <2>1, EmptyIsGood DEF GoodOperation, Operations
    <2> QED
      BY <1>1, <1>3, <2>2 DEF Failed
  <1> QED
    BY <1>1, <1>3, EmptyIsGood DEF Failed

\* One task moves on; the list may change and a write may be orphaned.
LEMMA BecomesKeeps ==
    ASSUME ListsInv, NEW p \in Peers, NEW t \in Tasks, NEW o, Becomes(p, t, o),
           GoodOperation(o, t), GoodList(stored'), \A list \in late' : GoodList(list)
    PROVE  ListsInv'
  <1>1. o \in Operations
    BY DEF GoodOperation
  <1>2. op' = [op EXCEPT ![p][t] = o] /\ op \in [Peers -> [Tasks -> Operations]]
    BY DEF Becomes, ListsInv
  <1>3. op' \in [Peers -> [Tasks -> Operations]]
    BY <1>1, <1>2
  <1>4. ASSUME NEW q \in Peers, NEW u \in Tasks
        PROVE  op'[q][u] = IF q = p /\ u = t THEN o ELSE op[q][u]
    BY <1>2
  <1>5. \A q \in Peers, u \in Tasks : GoodOperation(op'[q][u], u)
    BY <1>4 DEF ListsInv
  <1> QED
    BY <1>3, <1>5 DEF ListsInv

\* Writes that are given up on are good lists when they are applied.
LEMMA OrphanedIsGood ==
    ASSUME ListsInv, NEW p \in Peers, NEW tasks \in SUBSET Tasks, Orphaned(p, tasks)
    PROVE  \A list \in late' : GoodList(list)
  <1>1. PICK lost \in SUBSET {t \in tasks : op[p][t].at = "set" /\ p \in joined} :
            late' = late \cup {Changed(op[p][t].read, p, t) : t \in lost}
    BY DEF Orphaned
  <1>2. \A t \in lost : GoodList(Changed(op[p][t].read, p, t))
    BY <1>1, ChangedIsGood
  <1> QED
    BY <1>1, <1>2 DEF ListsInv

-----------------------------------------------------------------------------
LEMMA ReadKeeps ==
    ASSUME ListsInv, NEW p \in Peers, NEW t \in Tasks, Read(p, t)
    PROVE  ListsInv'
  <1> DEFINE o == [op[p][t] EXCEPT !.at = "set", !.read = Seen(p)]
  <1>1. GoodList(Seen(p))
    BY EmptyIsGood DEF Seen, ListsInv
  <1>2. GoodOperation(op[p][t], t) /\ op[p][t].at = "get"
    BY DEF ListsInv, Read
  <1>3. GoodOperation(o, t)
    BY <1>1, <1>2 DEF GoodOperation, Operations, GoodList
  <1>4. \/ Becomes(p, t, o)
        \/ Becomes(p, t, Idle)
    BY DEF Read
  <1>5. UNCHANGED <<stored, late>>
    BY DEF Read
  <1> HIDE DEF o
  <1>6. GoodList(stored') /\ \A list \in late' : GoodList(list)
    BY <1>5 DEF ListsInv
  <1> QED
    BY <1>3, <1>4, <1>6, EmptyIsGood, BecomesKeeps

LEMMA WriteKeeps ==
    ASSUME ListsInv, NEW p \in Peers, NEW t \in Tasks, Write(p, t)
    PROVE  ListsInv'
  <1>1. op[p][t].at # "idle" /\ Becomes(p, t, Idle) /\ late' = late
    BY DEF Write
  <1>2. stored' \in {stored, Changed(op[p][t].read, p, t)}
    BY DEF Write
  <1>3. GoodList(stored')
    BY <1>1, <1>2, ChangedIsGood DEF ListsInv
  <1>4. \A list \in late' : GoodList(list)
    BY <1>1 DEF ListsInv
  <1> QED
    BY <1>1, <1>3, <1>4, EmptyIsGood, BecomesKeeps

LEMMA FailureKeeps ==
    ASSUME ListsInv, NEW p \in Peers, NEW t \in Tasks, ReadFailed(p, t) \/ WriteFailed(p, t)
    PROVE  ListsInv'
  <1>1. op[p][t].at # "idle" /\ Becomes(p, t, Failed(p, t)) /\ stored' = stored
    BY DEF ReadFailed, WriteFailed
  <1>2. late' = late \/ Orphaned(p, {t})
    BY DEF ReadFailed, WriteFailed
  <1>3. \A list \in late' : GoodList(list)
    BY <1>2, OrphanedIsGood DEF ListsInv
  <1>4. GoodList(stored')
    BY <1>1 DEF ListsInv
  <1>5. PICK o : o = Failed(p, t)
    OBVIOUS
  <1> QED
    BY <1>1, <1>3, <1>4, <1>5, FailedIsGood, BecomesKeeps

\* A task starts with the copy it is to announce.
LEMMA BeginKeeps ==
    ASSUME ListsInv, NEW p \in Peers, NEW t \in Tasks, NEW c \in Descriptions \cup {NoCopy},
           Begin(p, t, c), t # "leave" => c \in Descriptions, UNCHANGED <<stored, late>>
    PROVE  ListsInv'
  <1> DEFINE o == [Idle EXCEPT !.at = "get", !.copy = c]
  <1>1. Becomes(p, t, o)
    BY DEF Begin
  <1>2. GoodOperation(o, t)
    BY EmptyIsGood DEF GoodOperation, Idle, Operations
  <1>3. GoodList(stored') /\ \A list \in late' : GoodList(list)
    BY DEF ListsInv
  <1> HIDE DEF o
  <1> QED
    BY <1>1, <1>2, <1>3, BecomesKeeps

\* A peer's tasks end with its process.
LEMMA GoneKeeps ==
    ASSUME ListsInv, NEW p \in Peers, Gone(p)
    PROVE  ListsInv'
  <1>1. \A list \in late' : GoodList(list)
    BY OrphanedIsGood DEF Gone
  <1>2. /\ op' = [op EXCEPT ![p] = [t \in Tasks |-> Idle]]
        /\ op \in [Peers -> [Tasks -> Operations]]
        /\ stored' = stored
    BY DEF Gone, ListsInv
  <1>3. Idle \in Operations
    BY EmptyIsGood DEF GoodOperation
  <1>4. op' \in [Peers -> [Tasks -> Operations]]
    BY <1>2, <1>3
  <1>5. ASSUME NEW q \in Peers, NEW u \in Tasks
        PROVE  op'[q][u] = IF q = p THEN Idle ELSE op[q][u]
    BY <1>2
  <1>6. \A q \in Peers, u \in Tasks : GoodOperation(op'[q][u], u)
    BY <1>5, EmptyIsGood DEF ListsInv
  <1> QED
    BY <1>1, <1>2, <1>4, <1>6 DEF ListsInv

LEMMA CloseKeeps ==
    ASSUME ListsInv, NEW p \in Peers, Close(p)
    PROVE  ListsInv'
  <1> DEFINE leaving == IF holds[p] = NoCopy THEN Idle ELSE [Idle EXCEPT !.at = "get"]
  <1>1. op' = [op EXCEPT ![p]["renew"] = Idle, ![p]["leave"] = leaving]
    BY DEF Close
  <1>2. stored' = stored /\ Orphaned(p, {"renew"})
    BY DEF Close
  <1>3. GoodOperation(leaving, "leave")
    BY EmptyIsGood DEF GoodOperation, Idle, Operations
  <1>4. GoodOperation(Idle, "renew") /\ Idle \in Operations /\ leaving \in Operations
    BY <1>3, EmptyIsGood DEF GoodOperation
  <1> HIDE DEF leaving
  <1>5. op \in [Peers -> [Tasks -> Operations]] /\ "renew" \in Tasks /\ "leave" \in Tasks
    BY DEF ListsInv, Tasks
  <1>6. op' \in [Peers -> [Tasks -> Operations]]
    BY <1>1, <1>4, <1>5
  <1>7. ASSUME NEW q \in Peers, NEW u \in Tasks
        PROVE  op'[q][u] = IF q = p /\ u = "leave" THEN leaving
                           ELSE IF q = p /\ u = "renew" THEN Idle ELSE op[q][u]
    BY <1>1, <1>5
  <1>8. \A q \in Peers, u \in Tasks : GoodOperation(op'[q][u], u)
    BY <1>3, <1>4, <1>7 DEF ListsInv
  <1>9. \A list \in late' : GoodList(list)
    BY <1>2, OrphanedIsGood DEF Tasks
  <1> QED
    BY <1>2, <1>6, <1>8, <1>9 DEF ListsInv

-----------------------------------------------------------------------------
LEMMA ListsKept == DhtInv /\ [DhtNext]_dhtVars => ListsInv'
  <1> SUFFICES ASSUME DhtInv, [DhtNext]_dhtVars
               PROVE  ListsInv'
    OBVIOUS
  <1>0. ListsInv /\ holds \in [Peers -> Descriptions \cup {NoCopy}]
    BY DEF DhtInv, PeersInv
  <1>1. CASE \E p \in Peers, c \in Descriptions : Store(p, c)
    BY <1>0, <1>1, BeginKeeps DEF Store, Tasks
  <1>2. CASE \E p \in Peers, t \in Tasks : Progress(p, t)
    BY <1>0, <1>2, ReadKeeps, WriteKeeps, FailureKeeps DEF Progress
  <1>3. CASE \E p \in Peers : Republish(p)
    <2>1. PICK p \in Peers : Republish(p)
      BY <1>3
    <2>2. PICK c \in Descriptions : c = holds[p]
      BY <1>0, <2>1 DEF Republish
    <2> QED
      BY <1>0, <2>1, <2>2, BeginKeeps DEF Republish, Tasks
  <1>4. CASE \E p \in Peers : Invalidated(p)
    BY <1>0, <1>4, BeginKeeps DEF Invalidated, Tasks
  <1>5. CASE \E p \in Peers : Crash(p) \/ Closed(p)
    BY <1>0, <1>5, GoneKeeps DEF Crash, Closed
  <1>6. CASE \E p \in Peers : Close(p)
    BY <1>0, <1>6, CloseKeeps
  <1>7. CASE \/ \E p \in Peers : Drop(p) \/ Bootstrap(p) \/ Boot(p)
             \/ WriteLands \/ ListLost \/ PassTime \/ UNCHANGED dhtVars
    <2>1. op' = op
      BY <1>7 DEF Drop, Bootstrap, Boot, WriteLands, ListLost, PassTime, dhtVars
    <2>2. late' \subseteq late
      BY <1>7 DEF Drop, Bootstrap, Boot, WriteLands, ListLost, PassTime, dhtVars
    <2>3. stored' \in late \cup {stored, {}}
      BY <1>7 DEF Drop, Bootstrap, Boot, WriteLands, ListLost, PassTime, dhtVars
    <2> QED
      BY <1>0, <2>1, <2>2, <2>3, EmptyIsGood DEF ListsInv
  <1> QED
    BY <1>1, <1>2, <1>3, <1>4, <1>5, <1>6, <1>7 DEF DhtNext, OtherStep

\* The bounded counters, step by step.
LEMMA CountsKept ==
    ASSUME PeersInv, [DhtNext]_dhtVars
    PROVE  now' \in 0..MaxNow /\ events' \in 0..MaxEvents
  <1>1. now \in 0..MaxNow /\ events \in 0..MaxEvents
    BY DEF PeersInv
  <1>2. now' = now \/ PassTime
    BY DEF DhtNext, OtherStep, Store, Progress, Republish, Drop, Invalidated, Bootstrap, Boot,
           Crash, Close, Closed, Gone, WriteLands, ListLost, dhtVars
  <1>3. events' = events \/ Event
    BY DEF DhtNext, OtherStep, Store, Progress, Read, Write, ReadFailed, WriteFailed, Republish,
           Drop, Invalidated, Bootstrap, Boot, Crash, Close, Closed, WriteLands, ListLost,
           PassTime, Fault, dhtVars
  <1> QED
    BY <1>1, <1>2, <1>3 DEF PassTime, Event

LEMMA QuietKept ==
    ASSUME PeersInv, [DhtNext]_dhtVars
    PROVE  quiet' \in BOOLEAN
  <1>1. quiet \in BOOLEAN
    BY DEF PeersInv
  <1>2. ASSUME NEW p \in Peers, NEW t \in Tasks, NEW c, Begin(p, t, c)
        PROVE  quiet' \in BOOLEAN
    BY <1>2, Zenon DEF Begin
  <1>3. ASSUME Fault
        PROVE  quiet' \in BOOLEAN
    BY <1>3, Zenon DEF Fault
  <1>4. ASSUME NEW p \in Peers, NEW t \in Tasks, Progress(p, t)
        PROVE  quiet' \in BOOLEAN
    <2>1. CASE Read(p, t)
      BY <2>1, Zenon DEF Read
    <2>2. CASE Write(p, t)
      BY <1>1, <1>3, <2>2 DEF Write
    <2> QED
      BY <1>3, <1>4, <2>1, <2>2 DEF Progress, ReadFailed, WriteFailed
  <1>5. ASSUME NEW p \in Peers, Drop(p) \/ Crash(p) \/ Close(p) \/ Closed(p)
        PROVE  quiet' \in BOOLEAN
    BY <1>5, Zenon DEF Drop, Crash, Close, Closed
  <1>6. ASSUME \/ \E p \in Peers : Bootstrap(p) \/ Boot(p)
               \/ WriteLands \/ PassTime \/ UNCHANGED dhtVars
        PROVE  quiet' \in BOOLEAN
    BY <1>1, <1>6 DEF Bootstrap, Boot, WriteLands, PassTime, dhtVars
  <1>7. ASSUME NEW p \in Peers, NEW c, Store(p, c) \/ Republish(p) \/ Invalidated(p)
        PROVE  quiet' \in BOOLEAN
    BY <1>2, <1>7 DEF Store, Republish, Invalidated, Tasks
  <1> QED
    BY <1>3, <1>4, <1>5, <1>6, <1>7 DEF DhtNext, OtherStep, ListLost

LEMMA PeersKept == PeersInv /\ [DhtNext]_dhtVars => PeersInv'
  <1> SUFFICES ASSUME PeersInv, [DhtNext]_dhtVars
               PROVE  PeersInv'
    OBVIOUS
  <1>1. joined' \subseteq Peers
    BY DEF PeersInv, DhtNext, OtherStep, Store, Progress, Republish, Drop, Invalidated, Bootstrap,
           Boot, Crash, Close, Closed, Gone, WriteLands, ListLost, PassTime, dhtVars
  <1>2. holds' \in [Peers -> Descriptions \cup {NoCopy}]
    BY DEF PeersInv, DhtNext, OtherStep, Store, Progress, Republish, Drop, Invalidated, Bootstrap,
           Boot, Crash, Close, Closed, Gone, WriteLands, ListLost, PassTime, dhtVars
  <1>3. up' \in [Peers -> {"up", "closing", "down"}]
    BY DEF PeersInv, DhtNext, OtherStep, Store, Progress, Republish, Drop, Invalidated, Bootstrap,
           Boot, Crash, Close, Closed, Gone, WriteLands, ListLost, PassTime, dhtVars
  <1> QED
    BY <1>1, <1>2, <1>3, CountsKept, QuietKept DEF PeersInv

LEMMA DhtInvInit == DhtInit => DhtInv
  BY EmptyIsGood DEF DhtInit, DhtInv, ListsInv, PeersInv, GoodOperation

LEMMA DhtInvariant == DhtSpec => []DhtInv
  <1>1. DhtInv /\ [DhtNext]_dhtVars => DhtInv'
    BY ListsKept, PeersKept DEF DhtInv
  <1> QED
    BY <1>1, DhtInvInit, PTL DEF DhtSpec

\* The state of the DHT and of the tasks that update it is well typed.
THEOREM DhtTypeCorrect == DhtSpec => []DhtTypeOK
  BY DhtInvariant, DhtInvIsTyped, PTL

\* However updates, retries, crashes and late writes interleave, no list names a
\* peer twice (dht/node.py:128-147).
THEOREM PeersAreListedOnce == DhtSpec => []OneEntryPerPeer
  BY DhtInvariant, DhtInvIsTyped, PTL

-----------------------------------------------------------------------------
(***************************************************************************)
(* Why the list is exact as long as all is quiet.                          *)
(***************************************************************************)
\* What a lookup is to find of a peer with copy c, and what it finds.
Fresh(p, c) == IF c # NoCopy /\ ~Expired(c) THEN {Entry(p, c)} ELSE {}
Found(p) == {e \in stored : e.peer = p /\ ~Expired(e.copy)}
Offered(p) == IF up[p] = "up" THEN holds[p] ELSE NoCopy

Exact(p) == Found(p) = Fresh(p, Offered(p))

\* What task t of p is about to write agrees with what p offers.
Intended(p, t) ==
    IF t = "leave" THEN Offered(p) = NoCopy
    ELSE Fresh(p, op[p][t].copy) = Fresh(p, Offered(p))

\* A writer has read what is in the DHT still.
Current(p, t) == p \in joined /\ op[p][t].read = stored

Settled ==
    /\ late = {}
    /\ \A p \in Peers : up[p] = "down" => holds[p] = NoCopy
    /\ \A p \in Peers, t, u \in Tasks : op[p][t] # Idle /\ op[p][u] # Idle => t = u
    /\ \A p \in Peers, t \in Tasks : op[p][t].at = "set" => Alone(p, t) /\ Current(p, t)
    /\ \A p \in Peers, t \in Tasks : op[p][t] # Idle => Intended(p, t)
    /\ \A p \in Peers : ~Busy(p) => Exact(p)

QuietInv == DhtInv /\ (quiet => Settled)

LEMMA OpTyped ==
    ASSUME DhtInv
    PROVE  /\ op \in [Peers -> [Tasks -> Operations]]
           /\ up \in [Peers -> {"up", "closing", "down"}]
           /\ holds \in [Peers -> Descriptions \cup {NoCopy}]
  BY DEF DhtInv, ListsInv, PeersInv

LEMMA IdleIsIdle == Idle.at = "idle"
  BY DEF Idle

\* Nothing is orphaned by a peer that writes nothing.
LEMMA NothingOrphaned ==
    ASSUME NEW p, NEW tasks, Orphaned(p, tasks), \A t \in tasks : op[p][t].at # "set"
    PROVE  late' = late
  BY DEF Orphaned

LEMMA IntentionKept ==
    ASSUME NEW p, NEW t, Intended(p, t), op'[p][t].copy = op[p][t].copy,
           Offered(p)' = Offered(p), now' = now
    PROVE  Intended(p, t)'
  BY DEF Intended, Fresh, Expired

LEMMA ExactKept ==
    ASSUME NEW p, Exact(p), \A e : e.peer = p => (e \in stored' <=> e \in stored),
           Fresh(p, Offered(p))' = Fresh(p, Offered(p)), now' = now
    PROVE  Exact(p)'
  <1>1. Found(p)' = Found(p)
    BY DEF Found, Expired
  <1> QED
    BY <1>1 DEF Exact

\* A task starts at a peer that is not busy.
LEMMA BeginSettled ==
    ASSUME DhtInv, Settled, NEW p \in Peers, NEW t \in Tasks, NEW c, Begin(p, t, c), quiet',
           up[p] = "up", up' = up, UNCHANGED <<stored, joined, late, now>>,
           \A q \in Peers \ {p} : holds'[q] = holds[q],
           IF t = "leave" THEN holds'[p] = NoCopy ELSE holds'[p] = c
    PROVE  Settled'
  <1>1. PICK o : o = [Idle EXCEPT !.at = "get", !.copy = c]
    OBVIOUS
  <1>2. o.at = "get" /\ o.copy = c /\ o # Idle
    BY <1>1 DEF Idle
  <1>3. \A q \in Peers, u \in Tasks : op'[q][u] = IF q = p /\ u = t THEN o ELSE op[q][u]
    BY <1>1, OpTyped DEF Begin, Becomes
  <1>4. \A u \in Tasks : op[p][u] = Idle
    BY DEF Begin, Busy
  <1>5. /\ (late = {})'
        /\ (\A q \in Peers : up[q] = "down" => holds[q] = NoCopy)'
    BY DEF Settled
  <1>6. (\A q \in Peers, u, v \in Tasks : op[q][u] # Idle /\ op[q][v] # Idle => u = v)'
    BY <1>3, <1>4 DEF Settled
  <1>7. (\A q \in Peers, u \in Tasks : op[q][u].at = "set" => Alone(q, u) /\ Current(q, u))'
    BY <1>2, <1>3 DEF Settled, Alone, Current
  <1>8. (\A q \in Peers, u \in Tasks : op[q][u] # Idle => Intended(q, u))'
    <2>1. ASSUME NEW q \in Peers \ {p}, NEW u \in Tasks, op[q][u] # Idle
          PROVE  Intended(q, u)'
      <3>1. op'[q][u] = op[q][u] /\ Offered(q)' = Offered(q) /\ Intended(q, u)
        BY <1>3, <2>1 DEF Settled, Offered
      <3> QED
        BY <3>1, IntentionKept
    <2>2. Intended(p, t)'
      <3>1. Offered(p)' = IF t = "leave" THEN NoCopy ELSE c
        BY DEF Offered
      <3>2. op'[p][t].copy = c
        BY <1>2, <1>3
      <3> QED
        BY <3>1, <3>2 DEF Intended, Fresh, Expired
    <2> QED
      BY <1>3, <1>4, <2>1, <2>2
  <1>9. (\A q \in Peers : ~Busy(q) => Exact(q))'
    BY <1>2, <1>3 DEF Settled, Busy, Exact, Found, Fresh, Offered, Expired
  <1> QED
    BY <1>5, <1>6, <1>7, <1>8, <1>9 DEF Settled

\* A peer's part of the list says the same later, apart from what expires.
LEMMA TimePasses ==
    ASSUME DhtInv, Settled, PassTime
    PROVE  Settled'
  <1>1. now' = now + 1 /\ now \in Nat
        /\ UNCHANGED <<stored, joined, holds, up, op, late, events, quiet>>
    BY DEF PassTime, DhtInv, PeersInv
  <1>2. ASSUME NEW c \in Descriptions, Expired(c)
        PROVE  Expired(c)'
    BY <1>1, <1>2 DEF Expired
  <1>3. stored \subseteq Entries
    BY DEF DhtInv, ListsInv, GoodList
  <1>4. ASSUME NEW p \in Peers, NEW c \in Descriptions \cup {NoCopy},
               NEW d \in Descriptions \cup {NoCopy}, Fresh(p, c) = Fresh(p, d)
        PROVE  (Fresh(p, c) = Fresh(p, d))'
    BY <1>2, <1>4 DEF Fresh, Entry
  <1>5. ASSUME NEW p \in Peers, NEW c \in Descriptions \cup {NoCopy}, Found(p) = Fresh(p, c)
        PROVE  (Found(p) = Fresh(p, c))'
    <2>1. \A e \in Entries : Expired(e.copy) => Expired(e.copy)'
      BY <1>2 DEF Entries
    <2>2. \A e \in stored : Expired(e.copy) => Expired(e.copy)'
      BY <1>3, <2>1
    <2>3. Found(p)' = {e \in Found(p) : ~Expired(e.copy)'}
      BY <1>1, <2>2 DEF Found
    <2>4. Fresh(p, c)' = {e \in Fresh(p, c) : ~Expired(e.copy)'}
      <3>1. Entry(p, c).copy = c
        BY DEF Entry
      <3> QED
        BY <1>2, <3>1 DEF Fresh
    <2> QED
      BY <1>5, <2>3, <2>4
  <1>6. ASSUME NEW p \in Peers
        PROVE  Offered(p) \in Descriptions \cup {NoCopy} /\ Offered(p)' = Offered(p)
    BY <1>1, OpTyped DEF Offered
  <1>7. (\A p \in Peers, t \in Tasks : op[p][t] # Idle => Intended(p, t))'
    <2> SUFFICES ASSUME NEW p \in Peers, NEW t \in Tasks, op[p][t] # Idle
                 PROVE  Intended(p, t)'
      BY <1>1
    <2>1. Intended(p, t)
      BY DEF Settled
    <2>2. CASE t = "leave"
      BY <1>6, <2>1, <2>2 DEF Intended
    <2>3. CASE t # "leave"
      <3>1. PICK c, d : /\ c = op[p][t].copy /\ d = Offered(p)
                        /\ c \in Descriptions \cup {NoCopy} /\ d \in Descriptions \cup {NoCopy}
        BY <1>6, OpTyped DEF Operations
      <3>2. Fresh(p, c) = Fresh(p, d)
        BY <2>1, <2>3, <3>1 DEF Intended
      <3>3. (Fresh(p, c) = Fresh(p, d))'
        BY <1>4, <3>1, <3>2
      <3>4. c = (op[p][t].copy)' /\ d = Offered(p)'
        BY <1>1, <1>6, <3>1
      <3> QED
        BY <2>3, <3>3, <3>4 DEF Intended, Fresh, Expired
    <2> QED
      BY <2>2, <2>3
  <1>8. (\A p \in Peers : ~Busy(p) => Exact(p))'
    <2> SUFFICES ASSUME NEW p \in Peers, Exact(p)
                 PROVE  Exact(p)'
      BY <1>1 DEF Settled, Busy
    <2>1. PICK d \in Descriptions \cup {NoCopy} : d = Offered(p) /\ d = Offered(p)'
      BY <1>6
    <2>2. (Found(p) = Fresh(p, d))'
      BY <1>5, <2>1 DEF Exact
    <2> QED
      BY <2>1, <2>2 DEF Exact, Fresh, Expired
  <1> QED
    BY <1>1, <1>7, <1>8 DEF Settled, Alone, Current

LEMMA ReadSettled ==
    ASSUME DhtInv, Settled, NEW p \in Peers, NEW t \in Tasks, Read(p, t), quiet',
           UNCHANGED <<joined, holds, up, now>>
    PROVE  Settled'
  <1>1. PICK o : /\ o = IF Nothing(p, t) THEN Idle
                        ELSE [op[p][t] EXCEPT !.at = "set", !.read = stored]
                 /\ Becomes(p, t, o)
    BY DEF Read, Seen
  <1>2. /\ op[p][t].at = "get" /\ op[p][t] # Idle /\ Alone(p, t) /\ p \in joined
        /\ UNCHANGED <<stored, late>>
    BY IdleIsIdle DEF Read
  <1>3. \A q \in Peers, u \in Tasks : op'[q][u] = IF q = p /\ u = t THEN o ELSE op[q][u]
    BY <1>1, OpTyped DEF Becomes
  <1>4. \A q \in Peers : Offered(q)' = Offered(q)
    BY DEF Offered
  <1>5. \A u \in Tasks : op[p][u] # Idle => u = t
    BY <1>2 DEF Settled
  <1>6. ASSUME NEW q \in Peers, NEW u \in Tasks, op'[q][u] # Idle
        PROVE  Intended(q, u)' /\ op[q][u] # Idle
    <2>1. op[q][u] # Idle /\ op'[q][u].copy = op[q][u].copy
      <3>1. op[p][t] \in Operations
        BY OpTyped
      <3>2. CASE q = p /\ u = t
        <4>1. o # Idle /\ op'[q][u] = o
          BY <1>3, <1>6, <3>2
        <4>2. o = [op[p][t] EXCEPT !.at = "set", !.read = stored]
          BY <1>1, <4>1
        <4> QED
          BY <1>2, <3>1, <3>2, <4>1, <4>2 DEF Operations
      <3> QED
        BY <1>3, <1>6, <3>2
    <2>2. Intended(q, u)
      BY <2>1 DEF Settled
    <2> QED
      BY <1>4, <2>1, <2>2, IntentionKept
  <1>7. (\A q \in Peers, u \in Tasks : op[q][u].at = "set" => Alone(q, u) /\ Current(q, u))'
    <2> SUFFICES ASSUME NEW q \in Peers, NEW u \in Tasks, op'[q][u].at = "set"
                 PROVE  (Alone(q, u) /\ Current(q, u))'
      OBVIOUS
    <2>1. q = p /\ u = t
      BY <1>2, <1>3 DEF Alone
    <2>2. o.read = stored
      <3>1. op[p][t] \in Operations
        BY OpTyped
      <3>2. o.at = "set"
        BY <1>3, <2>1
      <3>3. o = [op[p][t] EXCEPT !.at = "set", !.read = stored]
        BY <1>1, <3>2, IdleIsIdle
      <3> QED
        BY <3>1, <3>3 DEF Operations
    <2>3. Current(p, t)'
      BY <1>2, <1>3, <2>2 DEF Current
    <2>4. Alone(p, t)'
      BY <1>2, <1>3 DEF Alone
    <2> QED
      BY <2>1, <2>3, <2>4
  <1>8. (\A q \in Peers : ~Busy(q) => Exact(q))'
    <2> SUFFICES ASSUME NEW q \in Peers, \A u \in Tasks : op'[q][u] = Idle
                 PROVE  Exact(q)'
      BY DEF Busy
    <2>1. CASE q # p
      <3>1. Exact(q)
        BY <1>3, <2>1 DEF Settled, Busy
      <3> QED
        BY <1>2, <1>4, <3>1, ExactKept DEF Fresh, Expired
    <2>2. CASE q = p
      <3>1. o = Idle
        BY <1>3, <2>2
      <3>2. Nothing(p, t)
        <4>1. op[p][t] \in Operations
          BY OpTyped
        <4> QED
          BY <1>1, <3>1, <4>1, IdleIsIdle DEF Operations
      <3>3. t = "leave" /\ Without(stored, p) = stored
        BY <1>2, <3>2 DEF Nothing, Seen
      <3>4. Found(p)' = {}
        BY <1>2, <3>3 DEF Found, Without
      <3>5. Offered(p)' = NoCopy
        BY <1>2, <1>4, <3>3 DEF Settled, Intended
      <3> QED
        BY <2>2, <3>4, <3>5 DEF Exact, Fresh
    <2> QED
      BY <2>1, <2>2
  <1>9. (\A q \in Peers, u, v \in Tasks : op[q][u] # Idle /\ op[q][v] # Idle => u = v)'
    BY <1>6 DEF Settled
  <1> QED
    BY <1>2, <1>6, <1>7, <1>8, <1>9 DEF Settled

\* What one peer writes is what a lookup is to find of it; the rest stays.
LEMMA WriteSettled ==
    ASSUME DhtInv, Settled, NEW p \in Peers, NEW t \in Tasks, Write(p, t), quiet',
           UNCHANGED <<joined, holds, up, now>>
    PROVE  Settled'
  <1>1. op[p][t].at = "set" /\ Becomes(p, t, Idle) /\ late' = late
    BY DEF Write
  <1>2. stored' = Changed(stored, p, t)
    BY <1>1 DEF Write, Fault, Settled, Current
  <1>3. \A q \in Peers, u \in Tasks : op'[q][u] = IF q = p /\ u = t THEN Idle ELSE op[q][u]
    BY <1>1, OpTyped DEF Becomes
  <1>4. \A q \in Peers : Offered(q)' = Offered(q)
    BY DEF Offered
  <1>5. op[p][t] # Idle /\ Intended(p, t) /\ Alone(p, t)
    BY <1>1, IdleIsIdle DEF Settled
  <1>6. ASSUME NEW q \in Peers, NEW u \in Tasks, op'[q][u] # Idle
        PROVE  Intended(q, u)' /\ op[q][u] # Idle
    <2>1. op[q][u] # Idle /\ op'[q][u] = op[q][u]
      BY <1>3, <1>6
    <2>2. Intended(q, u)
      BY <2>1 DEF Settled
    <2> QED
      BY <1>4, <2>1, <2>2, IntentionKept
  <1>7. \A q \in Peers, u \in Tasks : op'[q][u].at # "set"
    BY <1>3, <1>5, IdleIsIdle DEF Alone
  <1>8. (\A q \in Peers : ~Busy(q) => Exact(q))'
    <2> SUFFICES ASSUME NEW q \in Peers, \A u \in Tasks : op'[q][u] = Idle
                 PROVE  Exact(q)'
      BY DEF Busy
    <2>1. CASE q # p
      <3>1. Exact(q)
        BY <1>3, <2>1 DEF Settled, Busy
      <3>2. \A e : e.peer = q => (e \in stored' <=> e \in stored)
        BY <1>2, <2>1 DEF Changed, Without, Entry
      <3> QED
        BY <1>4, <3>1, <3>2, ExactKept DEF Fresh, Expired
    <2>2. CASE q = p /\ t = "leave"
      <3>1. Found(p)' = {}
        BY <1>2, <2>2 DEF Found, Changed, Without
      <3> QED
        BY <1>4, <1>5, <2>2, <3>1 DEF Exact, Fresh, Intended
    <2>3. CASE q = p /\ t # "leave"
      <3>1. PICK c \in Descriptions : c = op[p][t].copy
        BY <1>1, <2>3 DEF DhtInv, ListsInv, GoodOperation
      <3>2. Found(p)' = Fresh(p, c)
        <4>1. stored' = Without(stored, p) \cup {Entry(p, c)}
          BY <1>2, <2>3, <3>1 DEF Changed
        <4>2. Entry(p, c).peer = p /\ Entry(p, c).copy = c
          BY DEF Entry
        <4> QED
          BY <3>1, <4>1, <4>2 DEF Found, Fresh, Without, Expired
      <3>3. Fresh(p, c) = Fresh(p, Offered(p))
        BY <1>5, <2>3, <3>1 DEF Intended
      <3>4. Fresh(p, Offered(p))' = Fresh(p, Offered(p))
        BY <1>4 DEF Fresh, Expired
      <3> QED
        BY <2>3, <3>2, <3>3, <3>4 DEF Exact
    <2> QED
      BY <2>1, <2>2, <2>3
  <1>9. (\A q \in Peers, u, v \in Tasks : op[q][u] # Idle /\ op[q][v] # Idle => u = v)'
    BY <1>6 DEF Settled
  <1> QED
    BY <1>1, <1>6, <1>7, <1>8, <1>9 DEF Settled

\* A step of peer p in which tasks and list stay as they are.
LEMMA PeerSettled ==
    ASSUME DhtInv, Settled, NEW p \in Peers,
           UNCHANGED <<stored, late, now>>,
           \A q \in Peers, t \in Tasks : op'[q][t] = op[q][t],
           \A q \in joined : q = p \/ q \in joined',
           p \in joined' \/ \A t \in Tasks : op[p][t].at # "set",
           \A q \in Peers \ {p} : up'[q] = up[q] /\ holds'[q] = holds[q],
           up'[p] = "down" => holds'[p] = NoCopy,
           Fresh(p, Offered(p))' = Fresh(p, Offered(p)),
           Offered(p) = NoCopy => Offered(p)' = NoCopy
    PROVE  Settled'
  <1>1. \A q \in Peers \ {p} : Offered(q)' = Offered(q)
    BY DEF Offered
  <1>2. (\A q \in Peers, t \in Tasks : op[q][t].at = "set" => Alone(q, t) /\ Current(q, t))'
    BY DEF Settled, Alone, Current
  <1>3. ASSUME NEW q \in Peers, NEW t \in Tasks, op[q][t] # Idle
        PROVE  Intended(q, t)'
    <2>1. Intended(q, t)
      BY <1>3 DEF Settled
    <2>2. CASE q # p
      BY <1>1, <2>1, <2>2, IntentionKept
    <2>3. CASE q = p
      BY <2>1, <2>3 DEF Intended, Fresh, Expired
    <2> QED
      BY <2>2, <2>3
  <1>4. ASSUME NEW q \in Peers, ~Busy(q)
        PROVE  Exact(q)'
    <2>1. Exact(q)
      BY <1>4 DEF Settled
    <2>2. Fresh(q, Offered(q))' = Fresh(q, Offered(q))
      BY <1>1 DEF Fresh, Expired
    <2> QED
      BY <2>1, <2>2, ExactKept
  <1>5. (\A q \in Peers : ~Busy(q) => Exact(q))'
    BY <1>4 DEF Busy
  <1>6. (\A q \in Peers : up[q] = "down" => holds[q] = NoCopy)'
    BY DEF Settled
  <1> QED
    BY <1>2, <1>3, <1>5, <1>6 DEF Settled

LEMMA CloseSettled ==
    ASSUME DhtInv, Settled, NEW p \in Peers, Close(p), quiet'
    PROVE  Settled'
  <1>1. /\ up[p] = "up" /\ up' = [up EXCEPT ![p] = "closing"] /\ ~Busy(p)
        /\ UNCHANGED <<stored, joined, holds, now>>
    BY DEF Close
  <1>2. late' = late
    BY <1>1, IdleIsIdle, NothingOrphaned DEF Close, Busy, Tasks
  <1>3. PICK o : o = IF holds[p] = NoCopy THEN Idle ELSE [Idle EXCEPT !.at = "get"]
    OBVIOUS
  <1>4. op' = [op EXCEPT ![p]["renew"] = Idle, ![p]["leave"] = o]
    BY <1>3 DEF Close
  <1>5. \A q \in Peers, t \in Tasks :
            op'[q][t] = IF q = p THEN IF t = "leave" THEN o ELSE Idle ELSE op[q][t]
    BY <1>1, <1>4, OpTyped DEF Busy, Tasks
  <1>6. \A q \in Peers : Offered(q)' = IF q = p THEN NoCopy ELSE Offered(q)
    BY <1>1, OpTyped DEF Offered
  <1>7. o.at # "set"
    BY <1>3 DEF Idle
  <1>8. (\A q \in Peers, u, v \in Tasks : op[q][u] # Idle /\ op[q][v] # Idle => u = v)'
    BY <1>5 DEF Settled
  <1>9. (\A q \in Peers, t \in Tasks : op[q][t].at = "set" => Alone(q, t) /\ Current(q, t))'
    BY <1>1, <1>5, <1>7, IdleIsIdle DEF Settled, Alone, Current
  <1>10. ASSUME NEW q \in Peers, NEW t \in Tasks, op'[q][t] # Idle
         PROVE  Intended(q, t)'
    <2>1. CASE q = p
      BY <1>5, <1>6, <1>10, <2>1 DEF Intended
    <2>2. CASE q # p
      <3>1. Intended(q, t) /\ op'[q][t] = op[q][t]
        BY <1>5, <1>10, <2>2 DEF Settled
      <3> QED
        BY <1>1, <1>6, <2>2, <3>1, IntentionKept
    <2> QED
      BY <2>1, <2>2
  <1>11. ASSUME NEW q \in Peers, \A t \in Tasks : op'[q][t] = Idle
         PROVE  Exact(q)'
    <2>1. Exact(q)
      BY <1>1, <1>5, <1>11 DEF Settled, Busy
    <2>2. Offered(q)' = Offered(q)
      <3>1. CASE q = p
        <4>1. o = Idle
          BY <1>5, <1>11, <3>1 DEF Tasks
        <4>2. holds[p] = NoCopy
          BY <1>3, <4>1 DEF Idle
        <4> QED
          BY <1>1, <1>6, <3>1, <4>2 DEF Offered
      <3> QED
        BY <1>6, <3>1
    <2> QED
      BY <1>1, <2>1, <2>2, ExactKept DEF Fresh, Expired
  <1>12. (\A q \in Peers : ~Busy(q) => Exact(q))'
    BY <1>11 DEF Busy
  <1>13. (\A q \in Peers : up[q] = "down" => holds[q] = NoCopy)'
    BY <1>1, OpTyped DEF Settled
  <1> QED
    BY <1>2, <1>8, <1>9, <1>10, <1>12, <1>13 DEF Settled

\* The end of a shutdown: nothing of the peer was under way or is found.
LEMMA ClosedSettled ==
    ASSUME DhtInv, Settled, NEW p \in Peers, Closed(p), quiet'
    PROVE  Settled'
  <1>1. up[p] = "closing" /\ Gone(p) /\ ~Busy(p)
    BY DEF Closed
  <1>2. late' = late
    BY <1>1, IdleIsIdle, NothingOrphaned DEF Gone, Busy
  <1>3. /\ up' = [up EXCEPT ![p] = "down"] /\ holds' = [holds EXCEPT ![p] = NoCopy]
        /\ joined' = joined \ {p} /\ UNCHANGED <<stored, now>>
        /\ op' = [op EXCEPT ![p] = [t \in Tasks |-> Idle]]
    BY <1>1 DEF Gone
  <1>4. \A q \in Peers, t \in Tasks : op'[q][t] = op[q][t]
    BY <1>1, <1>3, OpTyped DEF Busy
  <1>5. \A t \in Tasks : op[p][t].at # "set"
    BY <1>1, IdleIsIdle DEF Busy
  <1>6. Offered(p) = NoCopy /\ Offered(p)' = NoCopy
    BY <1>1, <1>3, OpTyped DEF Offered
  <1>7. Fresh(p, Offered(p))' = Fresh(p, Offered(p))
    BY <1>6 DEF Fresh
  <1>8. /\ \A q \in Peers \ {p} : up'[q] = up[q] /\ holds'[q] = holds[q]
        /\ up'[p] = "down" => holds'[p] = NoCopy
    BY <1>3, OpTyped
  <1> QED
    BY <1>2, <1>3, <1>4, <1>5, <1>6, <1>7, <1>8, PeerSettled

LEMMA LifeSettled ==
    ASSUME DhtInv, Settled, NEW p \in Peers, Drop(p) \/ Bootstrap(p) \/ Boot(p), quiet'
    PROVE  Settled'
  <1>1. UNCHANGED <<stored, late, now, op>>
    BY DEF Drop, Bootstrap, Boot
  <1>2. \A q \in joined : q \in joined'
    BY DEF Drop, Bootstrap, Boot
  <1>3. p \in joined' \/ \A t \in Tasks : op[p][t].at # "set"
    BY <1>2 DEF Settled, Current
  <1>4. CASE Drop(p)
    <2>1. up' = up /\ holds' = [holds EXCEPT ![p] = NoCopy] /\ Expired(holds[p])
          /\ up[p] = "up"
      BY <1>4 DEF Drop
    <2>2. Offered(p)' = NoCopy /\ Offered(p) = holds[p]
      BY <2>1, OpTyped DEF Offered
    <2>3. Fresh(p, Offered(p))' = Fresh(p, Offered(p))
      BY <2>1, <2>2 DEF Fresh
    <2>4. /\ \A q \in Peers \ {p} : up'[q] = up[q] /\ holds'[q] = holds[q]
          /\ holds'[p] = NoCopy
      BY <2>1, OpTyped
    <2> QED
      BY <1>1, <1>2, <1>3, <2>2, <2>3, <2>4, PeerSettled
  <1>5. CASE Bootstrap(p) \/ Boot(p)
    <2>1. holds' = holds /\ up' \in {up, [up EXCEPT ![p] = "up"]}
          /\ (up' = up \/ up[p] = "down")
      BY <1>5 DEF Bootstrap, Boot
    <2>2. Offered(p)' = Offered(p)
      BY <2>1, OpTyped DEF Offered, Settled
    <2>3. Fresh(p, Offered(p))' = Fresh(p, Offered(p))
      BY <1>1, <2>2 DEF Fresh, Expired
    <2>4. /\ \A q \in Peers \ {p} : up'[q] = up[q] /\ holds'[q] = holds[q]
          /\ up'[p] = "down" => holds'[p] = NoCopy
      BY <2>1, OpTyped DEF Settled
    <2> QED
      BY <1>1, <1>2, <1>3, <2>2, <2>3, <2>4, PeerSettled
  <1> QED
    BY <1>4, <1>5

-----------------------------------------------------------------------------
\* Whatever ends the quiet, ends it for good.
LEMMA QuietStays ==
    ASSUME DhtInv, [DhtNext]_dhtVars, quiet'
    PROVE  quiet
  <1>1. CASE \E p \in Peers, c \in Descriptions : Store(p, c)
    BY <1>1 DEF Store, Begin
  <1>2. CASE \E p \in Peers, t \in Tasks : Progress(p, t)
    BY <1>2 DEF Progress, Read, Write, ReadFailed, WriteFailed, Fault
  <1>3. CASE \E p \in Peers : Republish(p) \/ Drop(p) \/ Invalidated(p)
    BY <1>3 DEF Republish, Drop, Invalidated, Begin
  <1>4. CASE \E p \in Peers : Bootstrap(p) \/ Boot(p) \/ Close(p) \/ Crash(p) \/ Closed(p)
    BY <1>4 DEF Bootstrap, Boot, Close, Crash, Closed
  <1>5. CASE WriteLands \/ ListLost \/ PassTime \/ UNCHANGED dhtVars
    BY <1>5 DEF WriteLands, ListLost, PassTime, Fault, dhtVars
  <1> QED
    BY <1>1, <1>2, <1>3, <1>4, <1>5 DEF DhtNext, OtherStep

LEMMA SettledKept ==
    ASSUME DhtInv, Settled, [DhtNext]_dhtVars, quiet'
    PROVE  Settled'
  <1>1. CASE \E p \in Peers, c \in Descriptions : Store(p, c)
    <2>1. PICK p \in Peers, c \in Descriptions : Store(p, c)
      BY <1>1
    <2>2. holds' = [holds EXCEPT ![p] = c] /\ Begin(p, "store", c) /\ up[p] = "up"
          /\ UNCHANGED <<stored, joined, up, late, now>>
      BY <2>1 DEF Store
    <2>3. holds'[p] = c /\ \A q \in Peers \ {p} : holds'[q] = holds[q]
      BY <2>2, OpTyped
    <2> QED
      BY <2>2, <2>3, BeginSettled DEF Tasks
  <1>2. CASE \E p \in Peers, t \in Tasks : Progress(p, t)
    BY <1>2, ReadSettled, WriteSettled DEF Progress, ReadFailed, WriteFailed, Fault
  <1>3. CASE \E p \in Peers : Republish(p)
    <2>1. PICK p, c : p \in Peers /\ c = holds[p] /\ Begin(p, "renew", c) /\ up[p] = "up"
                      /\ UNCHANGED <<stored, joined, holds, up, late, now>>
      BY <1>3 DEF Republish
    <2> QED
      BY <2>1, BeginSettled DEF Tasks
  <1>4. CASE \E p \in Peers : Invalidated(p)
    <2>1. PICK p \in Peers : Invalidated(p)
      BY <1>4
    <2>2. holds' = [holds EXCEPT ![p] = NoCopy] /\ Begin(p, "leave", NoCopy) /\ up[p] = "up"
          /\ UNCHANGED <<stored, joined, up, late, now>>
      BY <2>1 DEF Invalidated
    <2>3. holds'[p] = NoCopy /\ \A q \in Peers \ {p} : holds'[q] = holds[q]
      BY <2>2, OpTyped
    <2> QED
      BY <2>2, <2>3, BeginSettled DEF Tasks
  <1>5. CASE \E p \in Peers : Drop(p) \/ Bootstrap(p) \/ Boot(p)
    BY <1>5, LifeSettled
  <1>6. CASE \E p \in Peers : Close(p) \/ Closed(p)
    BY <1>6, CloseSettled, ClosedSettled
  <1>7. CASE (\E p \in Peers : Crash(p)) \/ ListLost \/ WriteLands
    <2>1. ~WriteLands
      BY DEF WriteLands, Settled
    <2>2. ~ListLost
      BY DEF ListLost, Fault
    <2>3. \A p \in Peers : ~Crash(p)
      BY DEF Crash
    <2> QED
      BY <1>7, <2>1, <2>2, <2>3
  <1>8. CASE PassTime
    BY <1>8, TimePasses
  <1>9. CASE UNCHANGED dhtVars
    <2>1. UNCHANGED <<stored, joined, holds, up, op, late, now>>
      BY <1>9 DEF dhtVars
    <2>2. \A p \in Peers, t \in Tasks :
              Alone(p, t)' = Alone(p, t) /\ Current(p, t)' = Current(p, t)
      BY <2>1 DEF Alone, Current
    <2>3. \A p \in Peers, t \in Tasks : Intended(p, t)' = Intended(p, t)
      BY <2>1 DEF Intended, Fresh, Offered, Expired
    <2>4. \A p \in Peers : Busy(p)' = Busy(p) /\ Exact(p)' = Exact(p)
      BY <2>1 DEF Busy, Exact, Found, Fresh, Offered, Expired
    <2> QED
      BY <2>1, <2>2, <2>3, <2>4 DEF Settled
  <1> QED
    BY <1>1, <1>2, <1>3, <1>4, <1>5, <1>6, <1>7, <1>8, <1>9 DEF DhtNext, OtherStep

LEMMA QuietInvInit == DhtInit => QuietInv
  BY DhtInvInit, IdleIsIdle
     DEF DhtInit, QuietInv, Settled, Busy, Exact, Found, Fresh, Offered

LEMMA QuietInvariant == DhtSpec => []QuietInv
  <1>1. QuietInv /\ [DhtNext]_dhtVars => QuietInv'
    BY ListsKept, PeersKept, QuietStays, SettledKept DEF QuietInv, DhtInv
  <1> QED
    BY <1>1, QuietInvInit, PTL DEF DhtSpec

\* Short of overlapping updates, failed calls, crashes and evictions, a lookup finds
\* exactly the peers that hold an unexpired copy, each with that copy
\* (dht/node.py:126-173, 218-241, 252-278; peer/main.py:49-54).
THEOREM QuietListExact == DhtSpec => []QuietListIsExact
  <1>1. QuietInv => QuietListIsExact
    <2> SUFFICES ASSUME DhtInv, Settled, AtRest
                 PROVE  Lookup(stored, NoCopy) = {Entry(p, holds[p]) : p \in Servable}
      BY DEF QuietInv, QuietListIsExact
    <2>1. ASSUME NEW p \in Peers
          PROVE  Found(p) = IF p \in Servable THEN {Entry(p, holds[p])} ELSE {}
      <3>1. Exact(p)
        BY DEF Settled, Busy, AtRest
      <3> QED
        BY <3>1 DEF Exact, Fresh, Offered, Servable
    <2>2. \A e \in stored : e.peer \in Peers
      BY DEF DhtInv, ListsInv, GoodList, Entries
    <2>3. \A e : e \in Lookup(stored, NoCopy) <=> \E p \in Peers : e \in Found(p)
      BY <2>2 DEF Lookup, Found
    <2> QED
      BY <2>1, <2>3 DEF Servable
  <1> QED
    BY <1>1, QuietInvariant, PTL
=============================================================================
