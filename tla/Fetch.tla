-------------------------------- MODULE Fetch --------------------------------
(***************************************************************************)
(* Peers fetching one object (peer/client.py: fetch_object and what it     *)
(* schedules; peer/main.py: get_object and the invalidation handler; the   *)
(* fan-out of coordinator/main.py).  A fetch looks into the cache, asks    *)
(* the coordinator for providers or, failing that, the DHT, tries them one *)
(* by one and falls back to the origin; what it got it caches, announces   *)
(* to the DHT and publishes.  Each await is a step boundary, so fetches,   *)
(* publishes, evictions and an invalidation interleave.                    *)
(*                                                                         *)
(* Abstractions.  The object is immutable in each of its versions, visible *)
(* to all, and fits into every cache; its metadata is its version, which   *)
(* fixes the checksum.  Coordinator.tla has the index in full: here it is  *)
(* each peer's advert and the current version, and a lookup's answer is    *)
(* any part of the holders of that version, since load, reputation and the *)
(* cut decide which.  Each peer's entry in the DHT is a register, and a    *)
(* DHT lookup finds any part of them.  Candidates are tried in any order.  *)
(* A call that fails has no effect.  A peer has one fetch of the object in *)
(* progress at most.  Membership.tla has crashes and re-registration: here *)
(* an evicted peer is back with its next publish.                          *)
(***************************************************************************)
EXTENDS Naturals, FiniteSets

CONSTANTS
    Peers,
    Versions,
    Corrupting,           \* peers with MALICIOUS_MODE=serve_corrupted
    Missing,              \* peers with MALICIOUS_MODE=advertise_missing
    MaxFetches,           \* bound on fetches and rounds of republishing
    MaxFaults,            \* bound on failed calls
    MaxInvalidations      \* bound on invalidations

ASSUME FetchAssumption ==
    /\ {MaxFetches, MaxFaults, MaxInvalidations} \subseteq Nat
    /\ Versions \subseteq Nat \ {0}
    /\ 1 \in Versions
    /\ Corrupting \subseteq Peers
    /\ Missing \subseteq Peers \ Corrupting

None == 0                 \* no version: not asked for, not known, not there

VARIABLES
    cache,                \* what each peer holds
    adverts, current,     \* the coordinator's index and metadata
    dht,                  \* the version each peer is recorded with in the DHT
    fetch,                \* the fetch in progress at each peer
    posts,                \* post-store updates still to be made by each peer
    telling, unlisting,   \* an invalidation: peers to be told; peers told that
                          \* still have to leave the DHT's list
    reports,              \* reports sent: accused and reason
    fetches, faults, invalidations,
    old,                  \* history: peers whose copy predates the invalidation
    quiet                 \* history: nothing overlapped the invalidation or failed

indexVars == <<adverts, current>>
noticeVars == <<telling, unlisting, invalidations, quiet>>
vars == <<cache, adverts, current, dht, fetch, posts, telling, unlisting,
          reports, fetches, faults, invalidations, old, quiet>>

Copies == [version : Versions \cup {None}, genuine : BOOLEAN]
NoCopy == [version |-> None, genuine |-> TRUE]
Copy(v) == [version |-> v, genuine |-> TRUE]

NoFetch == [at |-> "idle", want |-> None, left |-> {}, meta |-> None,
            from |-> {}, data |-> NoCopy, aged |-> FALSE]

\* A call fails.
Fault ==
    /\ faults < MaxFaults                                      \* bound
    /\ faults' = faults + 1

-----------------------------------------------------------------------------
(***************************************************************************)
(* fetch_object.                                                           *)
(***************************************************************************)
Invalidating == telling \cup unlisting # {}

\* A cached copy of another version than the one asked for is dropped first.
Kept(p, want) == IF want # None /\ cache[p].version # want THEN NoCopy ELSE cache[p]

Start(p, want) ==
    LET kept == Kept(p, want) IN
    /\ fetch[p].at = "idle"
    /\ fetches < MaxFetches                                    \* bound
    /\ fetches' = fetches + 1
    /\ cache' = [cache EXCEPT ![p] = kept]
    /\ fetch' = IF kept = NoCopy
                THEN [fetch EXCEPT ![p] = [NoFetch EXCEPT !.at = "lookup", !.want = want]]
                ELSE fetch
    /\ old' = IF kept = NoCopy THEN old \ {p} ELSE old
    /\ quiet' = (quiet /\ ~Invalidating)
    /\ UNCHANGED <<indexVars, dht, posts, telling, unlisting, reports, faults, invalidations>>

\* The step of a fetch that changes only the fetch.
Proceed(p, next) ==
    /\ fetch' = [fetch EXCEPT ![p] = next]
    /\ UNCHANGED <<cache, indexVars, dht, posts, noticeVars, fetches, old>>

Matches(want, v) == v # None /\ want \in {None, v}

\* Coordinator lookup; without an answer, or a provider in it, the DHT is next.
Holders(want) == {q \in Peers : Matches(want, current) /\ adverts[q] = current}

LookupAnswered(p) ==
    /\ fetch[p].at = "lookup"
    /\ LET want == fetch[p].want IN
       \E found \in SUBSET Holders(want) :
          Proceed(p, [fetch[p] EXCEPT
              !.at = IF found = {} THEN "dht" ELSE "trying",
              !.left = found,
              !.meta = IF Matches(want, current) THEN current ELSE None])
    /\ UNCHANGED <<reports, faults>>

LookupFailed(p) ==
    /\ fetch[p].at = "lookup"
    /\ Fault
    /\ Proceed(p, [fetch[p] EXCEPT !.at = "dht"])
    /\ UNCHANGED reports

\* A lookup that fails or times out finds nothing.
Recorded(p, want) == {q \in Peers \ {p} : Matches(want, dht[q])}

DhtAnswered(p) ==
    /\ fetch[p].at = "dht"
    /\ \E found \in SUBSET Recorded(p, fetch[p].want) :
          Proceed(p, [fetch[p] EXCEPT !.at = "trying", !.left = found])
    /\ UNCHANGED <<reports, faults>>

Ask(p) ==
    /\ fetch[p].at = "trying"
    /\ \E q \in fetch[p].left :
          Proceed(p, [fetch[p] EXCEPT !.at = "asking", !.left = @ \ {q}, !.from = {q}])
    /\ UNCHANGED <<reports, faults>>

\* get_object at q: it answers, later, with what it read now.
Serve(p, q) ==
    /\ fetch[p].at = "asking"
    /\ fetch[p].from = {q}
    /\ Proceed(p, [fetch[p] EXCEPT
          !.at = "answered",
          !.data = [cache[q] EXCEPT !.genuine = @ /\ q \notin Corrupting],
          !.aged = q \in old])
    /\ UNCHANGED <<reports, faults>>

\* Refused or timed out: the next one is tried, and nobody is reported.
Unreachable(p) ==
    /\ fetch[p].at = "asking"
    /\ Fault
    /\ Proceed(p, [fetch[p] EXCEPT !.at = "trying", !.from = {}])
    /\ UNCHANGED reports

Retry(p, meta) ==
    Proceed(p, [fetch[p] EXCEPT !.at = "trying", !.meta = meta, !.from = {},
                                !.data = NoCopy, !.aged = FALSE])

\* report_bad_peer, which never reports the peer itself.
Report(p, reason) ==
    reports' = reports \cup {[accused |-> q, reason |-> reason] : q \in fetch[p].from \ {p}}

\* The metadata an answer is judged by: the lookup's, or else the provider's own.
Judged(p) == IF fetch[p].meta = None THEN fetch[p].data.version ELSE fetch[p].meta

NotFound(p) ==
    /\ fetch[p].at = "answered"
    /\ fetch[p].data.version = None
    /\ Retry(p, fetch[p].meta)
    /\ Report(p, "unavailable")
    /\ UNCHANGED faults

MutOtherVersion(p) == fetch[p].meta # None /\ fetch[p].want \notin {None, fetch[p].meta}

OtherVersion(p) == fetch[p].want \notin {None, Judged(p)}

WrongVersion(p) ==
    /\ fetch[p].at = "answered"
    /\ fetch[p].data.version # None
    /\ OtherVersion(p)
    /\ Retry(p, None)
    /\ UNCHANGED <<reports, faults>>

MutChecksumMatches(p) == fetch[p].data.version = Judged(p)

ChecksumMatches(p) == fetch[p].data = Copy(Judged(p))

WrongChecksum(p) ==
    /\ fetch[p].at = "answered"
    /\ fetch[p].data.version # None
    /\ ~OtherVersion(p)
    /\ ~ChecksumMatches(p)
    /\ Retry(p, None)
    /\ Report(p, "checksum_mismatch")
    /\ UNCHANGED faults

\* What was fetched is returned, cached and to be announced and published.
Finish(p, copy, aged, caches) ==
    /\ fetch' = [fetch EXCEPT ![p] = NoFetch]
    /\ cache' = IF caches THEN [cache EXCEPT ![p] = copy] ELSE cache
    /\ posts' = [posts EXCEPT ![p] = @ \cup {[version |-> copy.version, next |-> "announce"]}]
    /\ old' = IF aged THEN old \cup {p} ELSE IF caches THEN old \ {p} ELSE old
    /\ UNCHANGED <<indexVars, dht, noticeVars, reports, fetches, faults>>

Accept(p) ==
    /\ fetch[p].at = "answered"
    /\ fetch[p].data.version # None
    /\ ~OtherVersion(p)
    /\ ChecksumMatches(p)
    /\ Finish(p, fetch[p].data, fetch[p].aged, TRUE)

MutOriginVersion(want) == want

\* The origin has every version, and by default serves the first.
OriginVersion(want) == IF want = None THEN 1 ELSE want

OriginAnswered(p) ==
    /\ fetch[p].at = "trying"
    /\ fetch[p].left = {}
    /\ Finish(p, Copy(OriginVersion(fetch[p].want)), FALSE, p \notin Missing)

OriginFailed(p) ==
    /\ fetch[p].at = "trying"
    /\ fetch[p].left = {}
    /\ Fault
    /\ Proceed(p, NoFetch)
    /\ UNCHANGED reports

-----------------------------------------------------------------------------
(***************************************************************************)
(* _post_store_updates: first the DHT, then the coordinator, each at most  *)
(* once, whether or not the object is still cached.                        *)
(***************************************************************************)
Posted(p, post, next) ==
    posts' = [posts EXCEPT ![p] = (@ \ {post}) \cup next]

\* republish_all, every five minutes: the DHT only.
Republish(p) ==
    /\ cache[p] # NoCopy
    /\ fetches < MaxFetches                                    \* bound
    /\ fetches' = fetches + 1
    /\ posts' = [posts EXCEPT ![p] = @ \cup {[version |-> cache[p].version, next |-> "renew"]}]
    /\ UNCHANGED <<cache, indexVars, dht, fetch, noticeVars, reports, faults, old>>

Announce(p, post) ==
    /\ post \in posts[p]
    /\ post.next \in {"announce", "renew"}
    /\ Posted(p, post, IF post.next = "renew" THEN {}
                       ELSE {[post EXCEPT !.next = "publish"]})
    /\ \/ dht' = [dht EXCEPT ![p] = post.version] /\ UNCHANGED faults
       \/ Fault /\ UNCHANGED dht
    /\ UNCHANGED <<cache, indexVars, fetch, noticeVars, reports, fetches, old>>

Publish(p, post) ==
    /\ post \in posts[p]
    /\ post.next = "publish"
    /\ Posted(p, post, {})
    /\ \/ /\ adverts' = [adverts EXCEPT ![p] = post.version]
          /\ current' = post.version
          /\ UNCHANGED faults
       \/ Fault /\ UNCHANGED indexVars
    /\ UNCHANGED <<cache, dht, fetch, noticeVars, reports, fetches, old>>

\* Eviction from the cache: nothing is withdrawn.
Drop(p) ==
    /\ cache[p] # NoCopy
    /\ cache' = [cache EXCEPT ![p] = NoCopy]
    /\ old' = old \ {p}
    /\ UNCHANGED <<indexVars, dht, fetch, posts, noticeVars, reports, fetches, faults>>

\* The coordinator evicts a peer; with the last advert the metadata goes.
Unlist(p) ==
    /\ adverts[p] # None
    /\ Fault
    /\ adverts' = [adverts EXCEPT ![p] = None]
    /\ current' = IF \A q \in Peers \ {p} : adverts[q] = None THEN None ELSE current
    /\ UNCHANGED <<cache, dht, fetch, posts, noticeVars, reports, fetches, old>>

-----------------------------------------------------------------------------
(***************************************************************************)
(* invalidate: the coordinator drops the object and tells those that       *)
(* advertised it, best effort; each drops its copy and leaves the DHT.     *)
(***************************************************************************)
AtRest == \A p \in Peers : fetch[p] = NoFetch /\ posts[p] = {}

AllListed ==
    \A p \in Peers : cache[p] # NoCopy \/ dht[p] # None => adverts[p] # None

MutAdvertisers == {p \in Peers : adverts[p] # None /\ adverts[p] = current}

Advertisers == {p \in Peers : adverts[p] # None}

Invalidate ==
    /\ ~Invalidating
    /\ invalidations < MaxInvalidations                        \* bound
    /\ invalidations' = invalidations + 1
    /\ telling' = Advertisers
    /\ adverts' = [p \in Peers |-> None]
    /\ current' = None
    /\ old' = {p \in Peers : cache[p] # NoCopy}
    /\ fetch' = [p \in Peers |->
          IF fetch[p].at = "answered" THEN [fetch[p] EXCEPT !.aged = TRUE] ELSE fetch[p]]
    /\ quiet' = (AtRest /\ AllListed)
    /\ UNCHANGED <<cache, dht, posts, unlisting, reports, fetches, faults>>

Told(p) ==
    /\ p \in telling
    /\ telling' = telling \ {p}
    /\ cache' = [cache EXCEPT ![p] = NoCopy]
    /\ unlisting' = unlisting \cup {p}
    /\ old' = old \ {p}
    /\ UNCHANGED <<indexVars, dht, fetch, posts, reports, fetches, faults,
                   invalidations, quiet>>

NoticeLost(p) ==
    /\ p \in telling
    /\ Fault
    /\ telling' = telling \ {p}
    /\ quiet' = FALSE
    /\ UNCHANGED <<cache, indexVars, dht, fetch, posts, unlisting, reports,
                   fetches, invalidations, old>>

LeftDht(p) ==
    /\ p \in unlisting
    /\ unlisting' = unlisting \ {p}
    /\ \/ dht' = [dht EXCEPT ![p] = None] /\ UNCHANGED <<faults, quiet>>
       \/ Fault /\ quiet' = FALSE /\ UNCHANGED dht
    /\ UNCHANGED <<cache, indexVars, fetch, posts, telling, reports, fetches,
                   invalidations, old>>

-----------------------------------------------------------------------------
Init ==
    /\ cache = [p \in Peers |-> NoCopy]
    /\ adverts = [p \in Peers |-> None]
    /\ current = None
    /\ dht = [p \in Peers |-> None]
    /\ fetch = [p \in Peers |-> NoFetch]
    /\ posts = [p \in Peers |-> {}]
    /\ telling = {}
    /\ unlisting = {}
    /\ reports = {}
    /\ fetches = 0
    /\ faults = 0
    /\ invalidations = 0
    /\ old = {}
    /\ quiet = TRUE

FetchStep(p) ==
    \/ LookupAnswered(p) \/ LookupFailed(p)
    \/ DhtAnswered(p)
    \/ Ask(p)
    \/ \E q \in Peers : Serve(p, q)
    \/ Unreachable(p)
    \/ NotFound(p) \/ WrongVersion(p) \/ WrongChecksum(p) \/ Accept(p)
    \/ OriginAnswered(p) \/ OriginFailed(p)

PostStep(p) == Republish(p) \/ \E post \in posts[p] : Announce(p, post) \/ Publish(p, post)

NoticeStep(p) == Told(p) \/ NoticeLost(p) \/ LeftDht(p)

Next ==
    \/ \E p \in Peers, want \in Versions \cup {None} : Start(p, want)
    \/ \E p \in Peers : FetchStep(p) \/ PostStep(p) \/ NoticeStep(p)
    \/ \E p \in Peers : Drop(p) \/ Unlist(p)
    \/ Invalidate

Spec == Init /\ [][Next]_vars

-----------------------------------------------------------------------------
Places == {"idle", "lookup", "dht", "trying", "asking", "answered"}

\* Type invariant.
FetchTypeOK ==
    /\ cache \in [Peers -> Copies]
    /\ adverts \in [Peers -> Versions \cup {None}]
    /\ current \in Versions \cup {None}
    /\ dht \in [Peers -> Versions \cup {None}]
    /\ fetch \in [Peers -> [at : Places, want : Versions \cup {None}, left : SUBSET Peers,
                            meta : Versions \cup {None}, from : SUBSET Peers,
                            data : Copies, aged : BOOLEAN]]
    /\ posts \in [Peers -> SUBSET [version : Versions, next : {"announce", "renew", "publish"}]]
    /\ telling \subseteq Peers
    /\ unlisting \subseteq Peers
    /\ reports \subseteq [accused : Peers, reason : {"unavailable", "checksum_mismatch"}]
    /\ fetches \in 0..MaxFetches
    /\ faults \in 0..MaxFaults
    /\ invalidations \in 0..MaxInvalidations
    /\ old \subseteq Peers
    /\ quiet \in BOOLEAN

\* Whatever corrupting or outdated providers are tried, in whatever order, and
\* whichever metadata they are judged by, no cache holds, and so no peer that is
\* not corrupting passes on, bytes the origin did not produce (client.py:285-326).
CachesAreGenuine == \A p \in Peers : cache[p].genuine

\* A fetch that asked for a version never ends with another, though the index,
\* the metadata and the providers' copies change under it (client.py:291-303).
VersionIsHonoured ==
    [][\A p \in Peers :
        (fetch[p].at # "idle" /\ fetch'[p].at = "idle" /\ cache'[p] # NoCopy)
            => fetch[p].want \in {None, cache'[p].version}]_vars

\* An invalidation nothing overlaps works: if it found no fetch and no update
\* under way and every holder listed, no notice was lost and no fetch began
\* before the last peer had left the DHT's list, then no copy of before is left,
\* and none comes back (main.py:197-230; peer/main.py:129-142).
QuietInvalidationHolds == quiet /\ ~Invalidating => old = {}

\* Resilience_PRD.md:632: "A warmed object can be invalidated and is no longer
\* served from local cache or peer cache".  A fetch or a publish that overlaps
\* the invalidation brings the object back, to stay when all has come to rest.
InvalidatedIsGone == faults = 0 /\ ~Invalidating /\ AtRest => old = {}
=============================================================================
