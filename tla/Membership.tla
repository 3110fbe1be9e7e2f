----------------------------- MODULE Membership -----------------------------
(***************************************************************************)
(* One peer's membership in the coordinator's registry (peer/client.py,    *)
(* peer/main.py, coordinator/store.py).  The heartbeat loop, the publish   *)
(* that follows every write to the cache and the transfer report that      *)
(* follows every read are tasks that call the coordinator.  One that is    *)
(* answered 404 registers again and publishes the whole cache, under a     *)
(* lock, in a loop over the live metadata dictionary that awaits each      *)
(* answer.  Either side may crash and restart.                             *)
(*                                                                         *)
(* Abstractions.  The coordinator is reduced to what it knows of this      *)
(* peer; that it is registered exactly when it is in the store's peers,    *)
(* and listed only then, is Coordinator's.  Objects have one description,  *)
(* the peer is not quarantined, so only an unknown peer is refused, and    *)
(* the coordinator is not asked to invalidate.  A call that fails costs a  *)
(* fault; the coordinator may still apply it later, or never.  What        *)
(* stores, drops or serves an object is the environment.                   *)
(***************************************************************************)
EXTENDS Integers, FiniteSets

CONSTANTS
    Objects,
    Timed,                \* the objects whose metadata has an expires_at
    heart, report,        \* the heartbeat loop, a transfer report
    NoObject,
    MaxFaults,            \* bound on calls that fail and on unearned evictions
    MaxRestarts           \* bound on crashes of either process

ASSUME MembershipAssumption ==
    /\ IsFiniteSet(Objects)
    /\ {MaxFaults, MaxRestarts} \subseteq Nat
    /\ Timed \subseteq Objects
    /\ heart # report
    /\ {heart, report, NoObject} \cap Objects = {}
    /\ NoObject \notin {heart, report}

\* A post-store update is named by its object.
Tasks == {heart, report} \cup Objects

VARIABLES
    registered, listed,   \* the coordinator: in peers, in index
    up,
    cached,               \* the keys of cache.metadata
    pc,                   \* where each task is
    walk,                 \* the republish loop of the task that holds the lock
    late,                 \* calls given up on that may still be applied
    faults, restarts

coordVars == <<registered, listed>>
counters == <<faults, restarts>>
vars == <<registered, listed, up, cached, pc, walk, late, faults, restarts>>

Go(t, where) == pc' = [pc EXCEPT ![t] = where]

Register == [kind |-> "register", object |-> NoObject]
Publish(o) == [kind |-> "publish", object |-> o]

-----------------------------------------------------------------------------
\* What the coordinator does with a call: a second register is refused, and a
\* publish of a peer it does not know.
ApplyRegister ==
    /\ registered' = TRUE
    /\ UNCHANGED listed

ApplyPublish(o) ==
    /\ listed' = IF registered THEN listed \cup {o} ELSE listed
    /\ UNCHANGED registered

\* What task t asks at first: heartbeats and transfer reports change nothing here.
Apply(t) ==
    IF t \in Objects THEN ApplyPublish(t) ELSE UNCHANGED coordVars

\* Mutant: a call of any task is taken for a publish.
MutCall(t) == {Publish(t)}

Call(t) == IF t \in Objects THEN {Publish(t)} ELSE {}

\* No answer: the exception is logged and the call is out of the client's hands.
Lost(calls) ==
    /\ faults < MaxFaults                                      \* bound
    /\ faults' = faults + 1
    /\ late' = late \cup calls
    /\ UNCHANGED <<coordVars, restarts>>

\* An answer, of whatever status.
Answered == UNCHANGED <<late, counters>>

ApplyLate ==
    \E call \in late :
        /\ late' = late \ {call}
        /\ IF call.kind = "register" THEN ApplyRegister ELSE ApplyPublish(call.object)
        /\ UNCHANGED <<up, cached, pc, walk, counters>>

-----------------------------------------------------------------------------
(***************************************************************************)
(* The tasks.  An object's task has announced to the DHT before it asks.   *)
(***************************************************************************)
Ask(t) ==
    /\ up
    /\ pc[t] = IF t \in Objects THEN "announcing" ELSE "idle"
    /\ Go(t, "asking")
    /\ UNCHANGED <<coordVars, up, cached, walk, late, counters>>

\* Mutant: a heartbeat answered 404 is only logged.
MutAskAnswered(t) ==
    /\ pc[t] = "asking"
    /\ Apply(t)
    /\ Go(t, IF registered \/ t = heart THEN "idle" ELSE "waiting")
    /\ Answered
    /\ UNCHANGED <<up, cached, walk>>

\* 404 leads to re-registration; with any other answer the task is done.
AskAnswered(t) ==
    /\ pc[t] = "asking"
    /\ Apply(t)
    /\ Go(t, IF registered THEN "idle" ELSE "waiting")
    /\ Answered
    /\ UNCHANGED <<up, cached, walk>>

AskLost(t) ==
    /\ pc[t] = "asking"
    /\ Lost(Call(t))
    /\ Go(t, "idle")
    /\ UNCHANGED <<up, cached, walk>>

Holding(t) == pc[t] \in {"registering", "republishing"}

\* async with self._register_lock
Acquire(t) ==
    /\ pc[t] = "waiting"
    /\ \A u \in Tasks : ~Holding(u)
    /\ Go(t, "registering")
    /\ UNCHANGED <<coordVars, up, cached, walk, late, counters>>

(***************************************************************************)
(* The loop over self.cache.metadata.values().  Each turn first compares   *)
(* the dictionary's size with the size at the start and raises if it has   *)
(* changed.  If entries came and went but their number is the same, the    *)
(* iterator may raise, go on or miss entries.  Metadata with an expires_at *)
(* is not serialisable as it is sent here: the exception is caught in the  *)
(* loop, which goes on without a call.                                     *)
(***************************************************************************)
NoWalk == [size |-> 0, left |-> {}, at |-> NoObject, moved |-> FALSE]

Raised(t) ==
    /\ Go(t, IF t = heart THEN "dead" ELSE "idle")
    /\ walk' = NoWalk

\* The loop is over and the lock released; all but the heartbeat ask once more.
Finished(t) ==
    /\ Go(t, IF t = heart THEN "idle" ELSE "retrying")
    /\ walk' = NoWalk

Turn(t, w) ==
    \/ /\ Cardinality(cached) # w.size \/ w.moved
       /\ Raised(t)
    \/ /\ Cardinality(cached) = w.size
       /\ w.left \subseteq Timed \/ w.moved
       /\ Finished(t)
    \/ /\ Cardinality(cached) = w.size
       /\ \E o \in w.left \ Timed :
             walk' = [w EXCEPT !.at = o, !.left = @ \ {o}]
       /\ Go(t, "republishing")

NewWalk == [size |-> Cardinality(cached), left |-> cached, at |-> NoObject, moved |-> FALSE]

\* register swallows every failure, a 409 among them.
RegisterAnswered(t) ==
    /\ pc[t] = "registering"
    /\ ApplyRegister
    /\ Turn(t, NewWalk)
    /\ Answered
    /\ UNCHANGED <<up, cached>>

RegisterLost(t) ==
    /\ pc[t] = "registering"
    /\ Lost({Register})
    /\ Turn(t, NewWalk)
    /\ UNCHANGED <<up, cached>>

\* Mutant: the loop returns after its first publish.
MutRepublishAnswered(t) ==
    /\ pc[t] = "republishing"
    /\ ApplyPublish(walk.at)
    /\ Finished(t)
    /\ Answered
    /\ UNCHANGED <<up, cached>>

\* So does the loop's body.
RepublishAnswered(t) ==
    /\ pc[t] = "republishing"
    /\ ApplyPublish(walk.at)
    /\ Turn(t, walk)
    /\ Answered
    /\ UNCHANGED <<up, cached>>

RepublishLost(t) ==
    /\ pc[t] = "republishing"
    /\ Lost({Publish(walk.at)})
    /\ Turn(t, walk)
    /\ UNCHANGED <<up, cached>>

\* The second answer is final: an error ends the task.
RetryAnswered(t) ==
    /\ pc[t] = "retrying"
    /\ Apply(t)
    /\ Go(t, "idle")
    /\ Answered
    /\ UNCHANGED <<up, cached, walk>>

RetryLost(t) ==
    /\ pc[t] = "retrying"
    /\ Lost(Call(t))
    /\ Go(t, "idle")
    /\ UNCHANGED <<up, cached, walk>>

-----------------------------------------------------------------------------
(***************************************************************************)
(* The cache changes while tasks wait.                                     *)
(***************************************************************************)
Serving == up /\ pc[heart] # "booting"

Moved(left) ==
    walk' = IF \E t \in Tasks : pc[t] = "republishing"
            THEN [walk EXCEPT !.left = left, !.moved = TRUE]
            ELSE walk

\* A fetched object is cached and its post-store update scheduled.
Store(o) ==
    /\ Serving
    /\ pc[o] = "idle"                          \* bound: one update per object
    /\ cached' = cached \cup {o}
    /\ IF o \in cached THEN UNCHANGED walk ELSE Moved(walk.left \cup {o})
    /\ Go(o, "announcing")
    /\ UNCHANGED <<coordVars, up, late, counters>>

\* Eviction, expiry or a notice of invalidation.
Drop(o) ==
    /\ Serving
    /\ o \in cached
    /\ cached' = cached \ {o}
    /\ Moved(walk.left \ {o})
    /\ UNCHANGED <<coordVars, up, pc, late, counters>>

-----------------------------------------------------------------------------
(***************************************************************************)
(* Crashes, restarts, eviction.                                            *)
(***************************************************************************)
Pending ==
    (UNION {Call(t) : t \in {u \in Tasks : pc[u] \in {"asking", "retrying"}}})
    \cup (IF \E t \in Tasks : pc[t] \in {"registering", "booting"} THEN {Register} ELSE {})
    \cup (IF \E t \in Tasks : pc[t] = "republishing" THEN {Publish(walk.at)} ELSE {})

Crash ==
    /\ up
    /\ restarts < MaxRestarts                                  \* bound
    /\ restarts' = restarts + 1
    /\ up' = FALSE
    /\ cached' = {}
    /\ pc' = [t \in Tasks |-> "idle"]
    /\ late' = late \cup Pending
    /\ walk' = NoWalk
    /\ UNCHANGED <<coordVars, faults>>

\* lifespan: the peer registers before it serves and beats.
Boot ==
    /\ ~up
    /\ up' = TRUE
    /\ Go(heart, "booting")
    /\ UNCHANGED <<coordVars, cached, walk, late, counters>>

BootAnswered ==
    /\ pc[heart] = "booting"
    /\ ApplyRegister
    /\ Go(heart, "idle")
    /\ Answered
    /\ UNCHANGED <<up, cached, walk>>

BootLost ==
    /\ pc[heart] = "booting"
    /\ Lost({Register})
    /\ Go(heart, "idle")
    /\ UNCHANGED <<up, cached, walk>>

Forgotten ==
    /\ registered' = FALSE
    /\ listed' = {}

\* Calls given up on were in the process's buffers, and are gone with it.
RestartCoordinator ==
    /\ restarts < MaxRestarts                                  \* bound
    /\ restarts' = restarts + 1
    /\ Forgotten
    /\ late' = {}
    /\ UNCHANGED <<up, cached, pc, walk, faults>>

\* The cleanup evicts a peer that is silent, or, as a fault, one whose
\* heartbeats came too late.
Silent == ~up \/ pc[heart] = "dead"

EvictSilent ==
    /\ registered
    /\ Silent
    /\ Forgotten
    /\ UNCHANGED <<up, cached, pc, walk, late, counters>>

EvictSlow ==
    /\ registered
    /\ faults < MaxFaults                                      \* bound
    /\ faults' = faults + 1
    /\ Forgotten
    /\ UNCHANGED <<up, cached, pc, walk, late, restarts>>

Init ==
    /\ registered = FALSE
    /\ listed = {}
    /\ up = FALSE
    /\ cached = {}
    /\ pc = [t \in Tasks |-> "idle"]
    /\ walk = NoWalk
    /\ late = {}
    /\ faults = 0
    /\ restarts = 0

\* What task t does next, whatever the answer.
Proceed(t) ==
    \/ AskAnswered(t) \/ AskLost(t)
    \/ RegisterAnswered(t) \/ RegisterLost(t)
    \/ RepublishAnswered(t) \/ RepublishLost(t)
    \/ RetryAnswered(t) \/ RetryLost(t)

Booted == BootAnswered \/ BootLost

Next ==
    \/ \E t \in Tasks : Ask(t) \/ Acquire(t) \/ Proceed(t)
    \/ \E o \in Objects : Store(o) \/ Drop(o)
    \/ Crash \/ Boot \/ Booted
    \/ RestartCoordinator \/ EvictSilent \/ EvictSlow
    \/ ApplyLate

(***************************************************************************)
(* Fairness: the heartbeat loop and scheduled updates run, a call ends in  *)
(* an answer or an error (the HTTP client has a timeout), the lock's queue *)
(* is served, and the cleanup runs.  Nobody has to fetch, serve, evict     *)
(* from the cache, crash, boot, or apply a late call.                      *)
(***************************************************************************)
Fairness ==
    /\ \A t \in Tasks : WF_vars(Acquire(t)) /\ WF_vars(Proceed(t))
    /\ \A t \in Tasks \ {report} : WF_vars(Ask(t))
    /\ WF_vars(Booted)
    /\ WF_vars(EvictSilent)

Spec == Init /\ [][Next]_vars /\ Fairness

-----------------------------------------------------------------------------
Places ==
    {"idle", "announcing", "asking", "waiting", "registering", "republishing",
     "retrying", "dead", "booting"}

\* Type invariant.
MemTypeOK ==
    /\ registered \in BOOLEAN
    /\ listed \subseteq Objects
    /\ up \in BOOLEAN
    /\ cached \subseteq Objects
    /\ pc \in [Tasks -> Places]
    /\ walk \in [size : 0..Cardinality(Objects), left : SUBSET Objects,
                 at : Objects \cup {NoObject}, moved : BOOLEAN]
    /\ late \subseteq {Register} \cup {Publish(o) : o \in Objects}
    /\ faults \in 0..MaxFaults
    /\ restarts \in 0..MaxRestarts

\* From some point on the peer runs, and its heartbeat loop with it.
Beating == <>[](up /\ pc[heart] # "dead")

\* A peer whose heartbeat loop runs is in the end registered for good, however
\* calls fail, its tasks race for the lock, and either side restarts
\* (client.py:116-124, 703-713; peer/main.py:54-57).
BeatingPeerIsRegistered == Beating => <>[]registered

\* What a running peer holds is listed in the end, without anybody fetching it
\* again, provided no call is lost, nothing changes under a republish loop and
\* the metadata has no expiry: a restart of the coordinator is made good by
\* whichever task meets it first (client.py:554-587, 703-729).
HeldIsListed ==
    ([](faults = 0 /\ ~walk.moved) /\ Beating) =>
        \A o \in Objects \ Timed : <>[](o \in cached) => <>[](o \in listed)

\* The PRD promises re-registration on 404 responses (Resilience_PRD.md:200),
\* by a heartbeat sent periodically (Resilience_PRD.md:168): a peer that runs is
\* registered again and again.  But the republish loop may raise, and with it
\* ends the heartbeat task (client.py:713; peer/main.py:54-57).
RunningPeerIsRegistered == <>[]up => []<>registered
=============================================================================
