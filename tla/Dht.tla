---------------------------------- MODULE Dht ----------------------------------
(***************************************************************************)
(* The DHT's list of providers of one object (dht/node.py) and the tasks   *)
(* of the peers that change it (peer/client.py, peer/main.py): the update  *)
(* after a store announces, the republish loop announces again every five  *)
(* minutes, a notice of invalidation and a graceful shutdown remove.  Each *)
(* reads the list, changes it and writes it back, with an await on either  *)
(* call, so they overwrite one another; each call may time out, and what   *)
(* timed out may still be applied.                                         *)
(*                                                                         *)
(* Abstractions.  The Kademlia overlay is external: a register per object, *)
(* of which a node without neighbours sees nothing.  A node that joined    *)
(* keeps its neighbours until it stops.  An entry is its peer and the      *)
(* description of the copy; nobody depends on the order of the list.  A    *)
(* list that is missing and an empty one are treated alike.  What fetches, *)
(* evicts, expires or invalidates is the environment here: DhtFetch has    *)
(* the fetches.                                                            *)
(***************************************************************************)
EXTENDS Naturals, FiniteSets

CONSTANTS
    Peers,
    Descriptions,         \* version, cacheability and expires of a copy
    NoCopy,
    NoTime,               \* None as an expires_at
    Attempts,             \* of announce_with_retry
    MaxNow,               \* bound on the clock
    MaxEvents             \* bound on copies stored or dropped, failures and stops

ASSUME DhtAssumption ==
    /\ Attempts \in Nat \ {0}
    /\ {MaxNow, MaxEvents} \subseteq Nat
    /\ NoCopy \notin Descriptions
    /\ \A c \in Descriptions : c.expires \in Nat \cup {NoTime}

Tasks == {"store", "renew", "leave"}

VARIABLES
    stored,               \* the list in the DHT
    joined,               \* peers whose node has neighbours
    holds,                \* what each peer's cache has
    up,                   \* "up", "closing" or "down"
    op,                   \* the read-modify-write in progress in each task
    late,                 \* lists whose write timed out and may still be applied
    now, events,
    quiet                 \* history: nothing failed, no copy was lost without
                          \* notice and no two updates overlapped

dhtVars == <<stored, joined, holds, up, op, late, now, events, quiet>>

Entries == [peer : Peers, copy : Descriptions]
Entry(p, c) == [peer |-> p, copy |-> c]

\* _provider_expired, which is the cache's _is_stale too.
Expired(c) ==
    /\ c.cacheability # "immutable"
    /\ IF c.expires = NoTime THEN c.cacheability = "dynamic" ELSE now >= c.expires

\* lookup: what is left of the list; a version of NoCopy asks for any.
Lookup(list, version) ==
    {e \in list : ~Expired(e.copy) /\ version \in {NoCopy, e.copy.version}}

Without(list, p) == {e \in list : e.peer # p}

\* Mutant: the entry a peer has already is left in the list.
MutChanged(list, p, t) == IF t = "leave" THEN Without(list, p) ELSE list \cup {Entry(p, op[p][t].copy)}

\* What is written back by announce or remove_peer.
Changed(list, p, t) ==
    IF t = "leave" THEN Without(list, p)
    ELSE Without(list, p) \cup {Entry(p, op[p][t].copy)}

-----------------------------------------------------------------------------
(***************************************************************************)
(* One read-modify-write.                                                  *)
(***************************************************************************)
Idle == [at |-> "idle", copy |-> NoCopy, read |-> {}, tries |-> 0]

Becomes(p, t, o) == op' = [op EXCEPT ![p][t] = o]

\* Something that no loop of the peers does.
Event == events < MaxEvents /\ events' = events + 1            \* bound

Busy(p) == \E t \in Tasks : op[p][t] # Idle

\* The task starts, with what it is to announce.
Begin(p, t, c) ==
    /\ op[p][t] = Idle
    /\ Becomes(p, t, [Idle EXCEPT !.at = "get", !.copy = c])
    /\ quiet' = (quiet /\ ~Busy(p))

\* A call that does not answer in time, or raises.
Fault == Event /\ quiet' = FALSE

Alone(p, t) == \A q \in Peers, u \in Tasks : <<q, u>> # <<p, t>> => op[q][u].at # "set"

Seen(p) == IF p \in joined THEN stored ELSE {}

\* remove_peer writes only what it changed.
Nothing(p, t) == t = "leave" /\ Without(Seen(p), p) = Seen(p)

Read(p, t) ==
    /\ op[p][t].at = "get"
    /\ Becomes(p, t, IF Nothing(p, t) THEN Idle
                     ELSE [op[p][t] EXCEPT !.at = "set", !.read = Seen(p)])
    /\ quiet' = (quiet /\ Alone(p, t) /\ p \in joined)
    /\ UNCHANGED <<stored, late, events>>

\* set returns whether a node has stored the value.  Nobody looks: for announce
\* and its retry a call that returns has succeeded.
Write(p, t) ==
    /\ op[p][t].at = "set"
    /\ Becomes(p, t, Idle)
    /\ \/ /\ p \in joined
          /\ stored' = Changed(op[p][t].read, p, t)
          /\ UNCHANGED <<events, quiet>>
       \/ /\ p \notin joined
          /\ quiet' = FALSE
          /\ UNCHANGED <<stored, events>>
       \/ Fault /\ UNCHANGED stored
    /\ UNCHANGED late

\* Mutant: one attempt too many.
MutFailed(p, t) ==
    IF t # "leave" /\ op[p][t].tries < Attempts
    THEN [op[p][t] EXCEPT !.at = "get", !.read = {}, !.tries = @ + 1]
    ELSE Idle

\* announce_with_retry starts over from the read; remove_peer gives up.
Failed(p, t) ==
    IF t # "leave" /\ op[p][t].tries + 1 < Attempts
    THEN [op[p][t] EXCEPT !.at = "get", !.read = {}, !.tries = @ + 1]
    ELSE Idle

ReadFailed(p, t) ==
    /\ op[p][t].at = "get"
    /\ Fault
    /\ Becomes(p, t, Failed(p, t))
    /\ UNCHANGED <<stored, late>>

\* The writes of the given tasks are given up on: each may be applied later.
Orphaned(p, tasks) ==
    \E lost \in SUBSET {t \in tasks : op[p][t].at = "set" /\ p \in joined} :
        late' = late \cup {Changed(op[p][t].read, p, t) : t \in lost}

WriteFailed(p, t) ==
    /\ op[p][t].at = "set"
    /\ Fault
    /\ Orphaned(p, {t})
    /\ Becomes(p, t, Failed(p, t))
    /\ UNCHANGED stored

Progress(p, t) ==
    /\ Read(p, t) \/ Write(p, t) \/ ReadFailed(p, t) \/ WriteFailed(p, t)
    /\ UNCHANGED <<joined, holds, up, now>>

WriteLands ==
    /\ \E list \in late : stored' = list /\ late' = late \ {list}
    /\ UNCHANGED <<joined, holds, up, op, now, events, quiet>>

\* The nodes that stored the list left the overlay.
ListLost ==
    /\ stored # {}
    /\ Fault
    /\ stored' = {}
    /\ UNCHANGED <<joined, holds, up, op, late, now>>

-----------------------------------------------------------------------------
(***************************************************************************)
(* The peers.                                                              *)
(***************************************************************************)
\* The cache stored a copy; its update is scheduled.  Guard on the task: bound.
Store(p, c) ==
    /\ up[p] = "up"
    /\ Event
    /\ holds' = [holds EXCEPT ![p] = c]
    /\ Begin(p, "store", c)
    /\ UNCHANGED <<stored, joined, up, late, now>>

\* Mutant: only what never expires is announced again.
MutRepublish(p) ==
    /\ up[p] = "up"
    /\ holds[p] # NoCopy
    /\ holds[p].cacheability = "immutable"
    /\ Begin(p, "renew", holds[p])
    /\ UNCHANGED <<stored, joined, holds, up, late, now, events>>

\* republish_all
Republish(p) ==
    /\ up[p] = "up"
    /\ holds[p] # NoCopy
    /\ ~Expired(holds[p])
    /\ Begin(p, "renew", holds[p])
    /\ UNCHANGED <<stored, joined, holds, up, late, now, events>>

\* Eviction, and whatever read finds a copy expired: the DHT is not told.
Drop(p) ==
    /\ up[p] = "up"
    /\ holds[p] # NoCopy
    /\ Event
    /\ holds' = [holds EXCEPT ![p] = NoCopy]
    /\ quiet' = (quiet /\ Expired(holds[p]))
    /\ UNCHANGED <<stored, joined, up, op, late, now>>

\* /invalidate, whether or not there is a copy; /invalidate-prefix if there is.
Invalidated(p) ==
    /\ up[p] = "up"
    /\ Event
    /\ holds' = [holds EXCEPT ![p] = NoCopy]
    /\ Begin(p, "leave", NoCopy)
    /\ UNCHANGED <<stored, joined, up, late, now>>

\* Every attempt of start, and then of the rebootstrap loop, that succeeds.
Bootstrap(p) ==
    /\ up[p] # "down"
    /\ p \notin joined
    /\ joined' = joined \cup {p}
    /\ UNCHANGED <<stored, holds, up, op, late, now, events, quiet>>

Boot(p) ==
    /\ up[p] = "down"
    /\ up' = [up EXCEPT ![p] = "up"]
    /\ UNCHANGED <<stored, joined, holds, op, late, now, events, quiet>>

\* The process is gone, with its cache and whatever its tasks had under way.
Gone(p) ==
    /\ up' = [up EXCEPT ![p] = "down"]
    /\ holds' = [holds EXCEPT ![p] = NoCopy]
    /\ joined' = joined \ {p}
    /\ Orphaned(p, Tasks)
    /\ op' = [op EXCEPT ![p] = [t \in Tasks |-> Idle]]
    /\ UNCHANGED <<stored, now>>

\* /suicide
Crash(p) ==
    /\ up[p] # "down"
    /\ Event
    /\ quiet' = FALSE
    /\ Gone(p)

\* Mutant: a shutdown leaves the DHT as it is.
MutClose(p) ==
    /\ up[p] = "up"
    /\ Event
    /\ up' = [up EXCEPT ![p] = "closing"]
    /\ Orphaned(p, {"renew"})
    /\ op' = [op EXCEPT ![p]["renew"] = Idle]
    /\ quiet' = (quiet /\ ~Busy(p))
    /\ UNCHANGED <<stored, joined, holds, now>>

\* lifespan after its yield: the republish loop is cancelled and the peer is
\* removed from the list if its cache has the object.  An update after a store
\* is not cancelled.
Close(p) ==
    /\ up[p] = "up"
    /\ op[p]["leave"] = Idle                   \* requests have been served
    /\ Event
    /\ up' = [up EXCEPT ![p] = "closing"]
    /\ Orphaned(p, {"renew"})
    /\ op' = [op EXCEPT ![p]["renew"] = Idle,
                        ![p]["leave"] = IF holds[p] = NoCopy THEN Idle
                                        ELSE [Idle EXCEPT !.at = "get"]]
    /\ quiet' = (quiet /\ ~Busy(p))
    /\ UNCHANGED <<stored, joined, holds, now>>

\* The end of lifespan.
Closed(p) ==
    /\ up[p] = "closing"
    /\ op[p]["leave"] = Idle
    /\ quiet' = (quiet /\ ~Busy(p))
    /\ Gone(p)
    /\ UNCHANGED events

PassTime ==
    /\ now < MaxNow                                            \* bound
    /\ now' = now + 1
    /\ UNCHANGED <<stored, joined, holds, up, op, late, events, quiet>>

-----------------------------------------------------------------------------
DhtInit ==
    /\ stored = {}
    /\ joined = {}
    /\ holds = [p \in Peers |-> NoCopy]
    /\ up = [p \in Peers |-> "down"]
    /\ op = [p \in Peers |-> [t \in Tasks |-> Idle]]
    /\ late = {}
    /\ now = 0
    /\ events = 0
    /\ quiet = TRUE

\* Everything but a store.
OtherStep ==
    \/ \E p \in Peers, t \in Tasks : Progress(p, t)
    \/ \E p \in Peers :
          \/ Republish(p) \/ Drop(p) \/ Invalidated(p)
          \/ Bootstrap(p) \/ Boot(p) \/ Crash(p) \/ Close(p) \/ Closed(p)
    \/ WriteLands \/ ListLost \/ PassTime

DhtNext == (\E p \in Peers, c \in Descriptions : Store(p, c)) \/ OtherStep

(***************************************************************************)
(* Fairness: a call ends in an answer or a timeout, the republish and      *)
(* rebootstrap loops run, and a node that keeps trying to join joins.      *)
(* Nobody has to fetch, evict, crash, shut down or boot.                   *)
(***************************************************************************)
DhtFairness ==
    /\ \A p \in Peers, t \in Tasks : WF_dhtVars(Progress(p, t))
    /\ \A p \in Peers : WF_dhtVars(Republish(p)) /\ WF_dhtVars(Bootstrap(p))

DhtSpec == DhtInit /\ [][DhtNext]_dhtVars /\ DhtFairness

-----------------------------------------------------------------------------
Operations ==
    [at : {"idle", "get", "set"}, copy : Descriptions \cup {NoCopy},
     read : SUBSET Entries, tries : 0..(Attempts - 1)]

\* Type invariant.
DhtTypeOK ==
    /\ stored \subseteq Entries
    /\ joined \subseteq Peers
    /\ holds \in [Peers -> Descriptions \cup {NoCopy}]
    /\ up \in [Peers -> {"up", "closing", "down"}]
    /\ op \in [Peers -> [Tasks -> Operations]]
    /\ \A p \in Peers, t \in Tasks \ {"leave"} :
          op[p][t].at # "idle" => op[p][t].copy \in Descriptions
    /\ late \subseteq SUBSET Entries
    /\ now \in 0..MaxNow
    /\ events \in 0..MaxEvents
    /\ quiet \in BOOLEAN

AtMostOneEach(list) == \A d, e \in list : d.peer = e.peer => d = e

\* However announces, retries, removals and late writes interleave, no list that
\* is stored, was read or may still be applied names a peer twice: "Entries for
\* this peer_id are refreshed (not duplicated)" (dht/node.py:128-147).
OneEntryPerPeer ==
    \A list \in {stored} \cup late \cup {op[p][t].read : p \in Peers, t \in Tasks} :
        AtMostOneEach(list)

AtRest == \A p \in Peers, t \in Tasks : op[p][t] = Idle

Servable == {p \in Peers : up[p] = "up" /\ holds[p] # NoCopy /\ ~Expired(holds[p])}

\* Short of overlapping updates, failed calls, crashes and evictions, a lookup
\* finds exactly the peers that hold an unexpired copy, each with that copy,
\* after any sequence of stores, republishing, expiries, invalidations, graceful
\* shutdowns and restarts: nobody is lost and nobody comes back
\* (dht/node.py:126-173, 218-241, 252-278; peer/main.py:49-54).
QuietListIsExact ==
    quiet /\ AtRest => Lookup(stored, NoCopy) = {Entry(p, holds[p]) : p \in Servable}

Listed(p, c) == Entry(p, c) \in stored

\* A peer that goes on running and holding a copy is found again and again,
\* whatever has overwritten, lost or delayed its entry: republishing heals the
\* list (Resilience_PRD.md:201; peer/client.py:144-149; peer/main.py:63-74).
HolderIsFoundAgain ==
    \A p \in Peers, c \in Descriptions :
        <>[](up[p] = "up" /\ holds[p] = c /\ ~Expired(c)) => []<>Listed(p, c)
=============================================================================
