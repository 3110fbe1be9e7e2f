----------------------------- MODULE Coordinator -----------------------------
(***************************************************************************)
(* The coordinator: its Store (coordinator/store.py), the reputation       *)
(* tracker the store and the report endpoint share, and the endpoints and  *)
(* the periodic task that call them (coordinator/main.py).  No handler     *)
(* awaits between reading and writing this state, so a handler is one      *)
(* action; the awaits of the invalidation fan-out come after the store has *)
(* changed and touch no coordinator state.                                 *)
(*                                                                         *)
(* Abstractions.  A request that is refused before it changes anything     *)
(* (401, 403, 404, 409) is not a step; size_bytes is part of the content   *)
(* digest; etag, owner and visibility, which no decision here but the last *)
(* filter of a lookup's answer reads, are left out; the store's wall clock *)
(* and the tracker's monotonic clock are one clock, and a handler's        *)
(* readings of it are one reading.                                         *)
(***************************************************************************)
EXTENDS Reputation, Integers, FiniteSets, Sorting

CONSTANTS
    Catalogue,            \* the ObjectMetadata that peers may publish
    Prefixes,             \* the sets of objects that share a prefix
    Locations,
    LocationOf,           \* location_id of each peer
    PeerOrder,            \* the order of peer_id strings, as numbers
    Transfers,            \* bytes_served of a transfer
    MaxTransfers,         \* bound on a peer's reported transfers
    MaxProviders,         \* max_providers_per_lookup
    LoadAware,            \* provider_selection_policy # "locality_only"
    ReputationEnabled,
    PeerTimeout,          \* peer_timeout_seconds
    CleanupInterval       \* cleanup_interval_seconds

Cacheabilities == {"immutable", "ttl", "dynamic"}

ASSUME CoordinatorTimingAssumption ==
    /\ PeerTimeout \in Nat
    /\ CleanupInterval \in Nat \ {0}

ASSUME CatalogueAssumption ==
    \A m \in Catalogue :
        /\ m.object \in Objects
        /\ m.cacheability \in Cacheabilities
        /\ m.expires \in Nat \cup {NoTime}

ASSUME SelectionAssumption ==
    /\ MaxProviders \in Nat \ {0}
    /\ Transfers \subseteq Nat
    /\ MaxTransfers \in Nat
    /\ LoadAware \in BOOLEAN
    /\ ReputationEnabled \in BOOLEAN
    /\ PeerOrder \in [Peers -> Nat]
    /\ \A p, q \in Peers : PeerOrder[p] = PeerOrder[q] => p = q
    /\ Prefixes \subseteq SUBSET Objects
    /\ LocationOf \in [Peers -> Locations]

VARIABLES
    lastSeen,     \* peers: registered id -> last_seen
    loads,        \* peer_loads: id -> its upload counters
    index,        \* index: object -> set of provider ids
    metadata,     \* object_metadata: object -> the metadata last published
    versions,     \* object_provider_versions: object -> provider id -> version
    cleanupDue    \* when the sleep of periodic_cleanup ends

storeVars == <<lastSeen, loads, index, metadata, versions>>
vars == <<lastSeen, loads, index, metadata, versions, rep, dedupe, now, cleanupDue>>

Registered == DOMAIN lastSeen

NoLoad == [requests |-> 0, bytes |-> 0]

-----------------------------------------------------------------------------
\* _metadata_expired: immutable never is; without a deadline, only dynamic is.
Expired(m) ==
    /\ m.cacheability # "immutable"
    /\ IF m.expires = NoTime THEN m.cacheability = "dynamic" ELSE now >= m.expires

\* Wrong variant: contents are not compared.
MutConflicts(existing, incoming) ==
    /\ existing.version = incoming.version
    /\ existing.cacheability # incoming.cacheability

\* _metadata_conflicts: only claims about the same version can conflict.
Conflicts(existing, incoming) ==
    /\ existing.version = incoming.version
    /\ \/ existing.content # incoming.content
       \/ existing.cacheability # incoming.cacheability

ConflictsWithCurrent(m) ==
    m.object \in DOMAIN metadata /\ Conflicts(metadata[m.object], m)

\* Wrong variant: the recorded versions stay behind.
MutRemoveObjects(objects) ==
    /\ index' = Without(index, objects)
    /\ metadata' = Without(metadata, objects)
    /\ UNCHANGED versions

\* _remove_object of each object of a set.
RemoveObjects(objects) ==
    /\ index' = Without(index, objects)
    /\ metadata' = Without(metadata, objects)
    /\ versions' = Without(versions, objects)

-----------------------------------------------------------------------------
(***************************************************************************)
(* The endpoints.                                                          *)
(***************************************************************************)
\* Wrong variant: registering starts a fresh reputation record.
MutRegister(p) ==
    /\ p \notin Registered
    /\ lastSeen' = Bind(lastSeen, p, now)
    /\ loads' = Bind(loads, p, NoLoad)
    /\ rep' = Bind(rep, p, Fresh)
    /\ UNCHANGED <<index, metadata, versions, dedupe, now, cleanupDue>>

Register(p) ==
    /\ p \notin Registered
    /\ lastSeen' = Bind(lastSeen, p, now)
    /\ loads' = Bind(loads, p, NoLoad)
    /\ UNCHANGED <<index, metadata, versions, rep, dedupe, now, cleanupDue>>

\* Wrong variant: the deadline is stored instead of the time last seen.
MutHeartbeat(p) ==
    /\ p \in Registered
    /\ lastSeen' = Bind(lastSeen, p, now + PeerTimeout)
    /\ UNCHANGED <<loads, index, metadata, versions, rep, dedupe, now, cleanupDue>>

Heartbeat(p) ==
    /\ p \in Registered
    /\ lastSeen' = Bind(lastSeen, p, now)
    /\ UNCHANGED <<loads, index, metadata, versions, rep, dedupe, now, cleanupDue>>

\* publish of a registered publisher that is not in quarantine.
MayPublish(p) == p \in Registered /\ ~IsQuarantined(p)

\* Wrong variant: the version a provider first published is kept.
MutPublish(p, m) ==
    LET held == IF m.object \in DOMAIN versions THEN versions[m.object] ELSE Empty IN
    /\ MayPublish(p)
    /\ ~ConflictsWithCurrent(m)
    /\ metadata' = Bind(metadata, m.object, m)
    /\ index' = Bind(index, m.object, DOMAIN held \cup {p})
    /\ versions' = Bind(versions, m.object,
                        IF p \in DOMAIN held THEN held ELSE Bind(held, p, m.version))
    /\ UNCHANGED <<lastSeen, loads, rep, dedupe, now, cleanupDue>>

Publish(p, m) ==
    /\ MayPublish(p)
    /\ ~ConflictsWithCurrent(m)
    /\ metadata' = Bind(metadata, m.object, m)
    /\ index' = Bind(index, m.object,
                     (IF m.object \in DOMAIN index THEN index[m.object] ELSE {}) \cup {p})
    /\ versions' = Bind(versions, m.object,
                        Bind(IF m.object \in DOMAIN versions THEN versions[m.object]
                             ELSE Empty, p, m.version))
    /\ UNCHANGED <<lastSeen, loads, rep, dedupe, now, cleanupDue>>

\* A conflicting publish changes no entry and is charged to the publisher.
PublishConflict(p, m) ==
    /\ MayPublish(p)
    /\ ConflictsWithCurrent(m)
    /\ ReputationEnabled
    /\ RecordIncident(p, "metadata_conflict", NoPeer, m.object)
    /\ UNCHANGED <<storeVars, cleanupDue>>

\* report_bad_peer: the accused need not be registered.
ReportBadPeer(accused, reason, reporter, object) ==
    /\ ReputationEnabled
    /\ RecordIncident(accused, reason, reporter, object)
    /\ UNCHANGED <<storeVars, cleanupDue>>

ReportTransfer(p, bytes) ==
    /\ p \in Registered
    /\ loads[p].requests < MaxTransfers                        \* bound
    /\ loads' = Bind(loads, p, [requests |-> loads[p].requests + 1,
                                bytes |-> loads[p].bytes + bytes])
    /\ UNCHANGED <<lastSeen, index, metadata, versions, rep, dedupe, now, cleanupDue>>

\* A lookup changes state only when what it finds has expired.
LookupExpired(o) ==
    /\ o \in DOMAIN metadata
    /\ Expired(metadata[o])
    /\ RemoveObjects({o})
    /\ UNCHANGED <<lastSeen, loads, rep, dedupe, now, cleanupDue>>

\* invalidate and revalidate of one object, invalidate_prefix of the objects
\* with a prefix.  The peers are told afterwards, best effort.
Invalidate(o) ==
    /\ RemoveObjects({o})
    /\ UNCHANGED <<lastSeen, loads, rep, dedupe, now, cleanupDue>>

InvalidatePrefix(objects) ==
    /\ RemoveObjects(objects \cap DOMAIN metadata)
    /\ UNCHANGED <<lastSeen, loads, rep, dedupe, now, cleanupDue>>

-----------------------------------------------------------------------------
(***************************************************************************)
(* periodic_cleanup: Store.cleanup and then tick_cooldowns, every          *)
(* CleanupInterval.  A peer is dead when it was last seen strictly before  *)
(* the timeout; it goes with its load, its reputation record and its       *)
(* provider entries, and an object it leaves without providers goes too.   *)
(* Last, expired metadata goes.                                            *)
(***************************************************************************)
\* Wrong variant: a provider is never dead.
MutDeadProviders ==
    {p \in Registered : /\ lastSeen[p] < now - PeerTimeout
                        /\ \A o \in DOMAIN index : p \notin index[o]}

Dead == {p \in Registered : lastSeen[p] < now - PeerTimeout}

Evict(dead) ==
    LET emptied == {o \in DOMAIN index : index[o] \subseteq dead}
        expired == {o \in DOMAIN metadata : Expired(metadata[o])}
        gone    == emptied \cup expired
    IN  /\ lastSeen' = Without(lastSeen, dead)
        /\ loads' = Without(loads, dead)
        /\ index' = [o \in DOMAIN index \ gone |-> index[o] \ dead]
        /\ versions' = [o \in DOMAIN versions \ gone |-> Without(versions[o], dead)]
        /\ metadata' = Without(metadata, gone)

PeriodicCleanup ==
    /\ now = cleanupDue
    /\ Evict(Dead)
    /\ EvictAndTick(Dead)
    /\ cleanupDue' = now + CleanupInterval

\* The event loop is idle while the clock runs, so the cleanup is never late.
PassTime ==
    /\ now < cleanupDue
    /\ Advance
    /\ UNCHANGED <<storeVars, cleanupDue>>

\* Crash and restart of the process: all of this state is in memory.
Restart ==
    /\ Reset
    /\ lastSeen' = Empty
    /\ loads' = Empty
    /\ index' = Empty
    /\ metadata' = Empty
    /\ versions' = Empty
    /\ cleanupDue' = now + CleanupInterval

Init ==
    /\ RepInit
    /\ lastSeen = Empty
    /\ loads = Empty
    /\ index = Empty
    /\ metadata = Empty
    /\ versions = Empty
    /\ cleanupDue = CleanupInterval

\* Every step but an accepted publish.
OtherStep ==
    \/ \E p \in Peers : Register(p) \/ Heartbeat(p)
    \/ \E p \in Peers, m \in Catalogue : PublishConflict(p, m)
    \/ \E accused \in Peers, reason \in Reasons,
          reporter \in Reporters, object \in Objects :
            ReportBadPeer(accused, reason, reporter, object)
    \/ \E p \in Peers, bytes \in Transfers : ReportTransfer(p, bytes)
    \/ \E o \in Objects : LookupExpired(o) \/ Invalidate(o)
    \/ \E objects \in Prefixes : InvalidatePrefix(objects)
    \/ PeriodicCleanup
    \/ PassTime
    \/ Restart

Next == (\E p \in Peers, m \in Catalogue : Publish(p, m)) \/ OtherStep

Spec == Init /\ [][Next]_vars

-----------------------------------------------------------------------------
(***************************************************************************)
(* get_providers.  A version asked for that is not the current one finds   *)
(* nothing, so the candidates are those that hold the current version.     *)
(***************************************************************************)
Candidates(o) ==
    IF o \notin DOMAIN index \/ o \notin DOMAIN metadata \/ Expired(metadata[o])
    THEN {}
    ELSE {p \in index[o] \cap Registered :
             versions[o][p] = metadata[o].version /\ ~IsQuarantined(p)}

\* Wrong variant: locality before suspicion.
MutSortKey(p, location) ==
    << IF LocationOf[p] = location THEN 0 ELSE 1,
       IF IsSuspect(p) THEN 1 ELSE 0,
       IF LoadAware THEN loads[p].requests ELSE 0,
       IF LoadAware THEN loads[p].bytes ELSE 0,
       PeerOrder[p] >>

\* _provider_sort_key, as a sequence of numbers compared lexicographically.
SortKey(p, location) ==
    << IF IsSuspect(p) THEN 1 ELSE 0,
       IF LocationOf[p] = location THEN 0 ELSE 1,
       IF LoadAware THEN loads[p].requests ELSE 0,
       IF LoadAware THEN loads[p].bytes ELSE 0,
       PeerOrder[p] >>

Before(p, q, location) ==
    LET k == SortKey(p, location)
        l == SortKey(q, location)
    IN  \E i \in 1..5 : k[i] < l[i] /\ \A j \in 1..(i - 1) : k[j] = l[j]

Ranking(o, location) ==
    {pq \in Candidates(o) \X Candidates(o) : Before(pq[1], pq[2], location)}

\* The answer: the candidates in key order, cut at MaxProviders.
Providers(o, location) ==
    LET sorted == InOrder([p \in Candidates(o) |-> p], Ranking(o, location))
    IN  [i \in {i \in DOMAIN sorted : i <= MaxProviders} |-> sorted[i]]

-----------------------------------------------------------------------------
PeerLoad == [requests : 0..MaxTransfers, bytes : Nat]

\* Type invariant of the store.
StoreTypeOK ==
    /\ Registered \subseteq Peers
    /\ \A p \in Registered : lastSeen[p] \in 0..now
    /\ DOMAIN loads \subseteq Peers
    /\ \A p \in DOMAIN loads : loads[p] \in PeerLoad
    /\ DOMAIN index \subseteq Objects
    /\ \A o \in DOMAIN index : index[o] \subseteq Peers
    /\ DOMAIN metadata \subseteq Objects
    /\ \A o \in DOMAIN metadata : metadata[o] \in Catalogue
    /\ DOMAIN versions \subseteq Objects
    /\ \A o \in DOMAIN versions : DOMAIN versions[o] \subseteq Peers
    /\ cleanupDue \in Nat

TypeOK == RepTypeOK /\ StoreTypeOK

\* The dictionaries of the store never drift apart, whatever sequence of
\* publishes, evictions, expiries and invalidations: an object has metadata
\* exactly while it has providers, every provider is registered and has one
\* recorded version, and every registered peer has a load record
\* (store.py:51-66, 98-105, 250-282).
StoreIsConsistent ==
    /\ DOMAIN loads = Registered
    /\ DOMAIN metadata = DOMAIN index
    /\ DOMAIN versions = DOMAIN index
    /\ \A o \in DOMAIN index :
          /\ index[o] # {}
          /\ index[o] \subseteq Registered
          /\ DOMAIN versions[o] = index[o]
          /\ metadata[o].object = o

\* Dead peers are discovered in bounded time: no peer stays registered, and so
\* no provider is listed, for more than the timeout and one cleanup interval
\* after it was last heard of (Resilience_PRD.md:200; store.py:255-262).
SilenceIsBounded ==
    \A p \in Registered : now - lastSeen[p] <= PeerTimeout + CleanupInterval

\* Quarantine ends in bounded time: within one cleanup interval of the end of
\* the cooldown after the last incident (main.py:74-81; reputation.py:144-169).
QuarantineIsBounded ==
    \A p \in DOMAIN rep :
        (rep[p].state = "quarantined" /\ Cooldown > 0)
            => now - rep[p].quarantinedAt < Cooldown + CleanupInterval

\* A lookup's answer under load, locality and suspicion: no provider twice, none
\* that is unregistered, in quarantine or of another version, and no healthy
\* holder of the current version left out for, or placed behind, a suspect one
\* (store.py:136-156, 210-229).
AnswerPrefersHealthy ==
    \A o \in DOMAIN metadata, location \in Locations :
        LET answer  == Providers(o, location)
            holders == {p \in Registered : p \in DOMAIN versions[o]
                           /\ versions[o][p] = metadata[o].version
                           /\ ~Expired(metadata[o])}
        IN  /\ IsInjective(answer)
            /\ \A i \in DOMAIN answer :
                  /\ answer[i] \in holders
                  /\ Record(answer[i]).state # "quarantined"
                  /\ Record(answer[i]).state = "suspect" =>
                        \A p \in holders : Record(p).state = "healthy" =>
                            \E j \in 1..(i - 1) : answer[j] = p

\* A live peer is never evicted: short of a restart of the coordinator a peer
\* leaves the registry only after it was silent for longer than the timeout,
\* and then with every entry and record that names it (store.py:259-275).
EvictionIsEarned ==
    [][~Restart => \A p \in Registered \ DOMAIN lastSeen' :
            /\ now - lastSeen[p] > PeerTimeout
            /\ p \notin DOMAIN loads' \cup DOMAIN rep'
            /\ \A o \in DOMAIN index' : p \notin index'[o]]_vars

(***************************************************************************)
(* Refinements.  The store implements the directory of Directory.tla, and  *)
(* every use the coordinator makes of the tracker is one that RepSpec      *)
(* allows.                                                                 *)
(***************************************************************************)
Adverts ==
    UNION {{[peer |-> p, object |-> o, version |-> versions[o][p]] :
               p \in index[o]} : o \in DOMAIN index}

D == INSTANCE Directory WITH members <- Registered, adverts <- Adverts, current <- metadata

\* The store's four dictionaries implement the directory: what is known, who
\* advertises it and which claim is refused (store.py:51-105, 167-193, 250-282).
ImplementsDirectory == D!DirSpec

\* Publishing, reporting, cleaning up and restarting drive the tracker only
\* through its own operations, in an order it allows (store.py:86-97, 264-268;
\* main.py:74-81, 336-341).
ImplementsReputation == RepSpec
=============================================================================
