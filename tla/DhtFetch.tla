------------------------------- MODULE DhtFetch -------------------------------
(***************************************************************************)
(* Peers of the DHT-primary stack fetching one object (p2p-dht's           *)
(* peer/client.py and peer/main.py).  A fetch looks into the cache, then   *)
(* into the DHT; only if that fails or lists nobody does it ask the        *)
(* coordinator.  It tries the providers one by one and falls back to the   *)
(* origin; what it got it caches, announces and publishes.  Every await is *)
(* a step boundary.                                                        *)
(*                                                                         *)
(* Abstractions.  The object is immutable in each of its versions, visible *)
(* to all, and fits into every cache.  Its metadata is its version and     *)
(* whether the checksum is the origin's.  Each peer's entry in the DHT is  *)
(* a register: Dht.tla has the list, and what updates that overlap do to   *)
(* it is Overwritten here.  Coordinator.tla has the index: here it is each *)
(* peer's advert and the current metadata, and a lookup's answer is any    *)
(* part of its holders that are not quarantined.  Reputation.tla has when  *)
(* the coordinator quarantines: here, any peers that were reported.  A     *)
(* peer has one fetch of the object in progress at most, and a peer that   *)
(* crashes is back at once.                                                *)
(***************************************************************************)
EXTENDS Naturals, FiniteSets

CONSTANTS
    Peers,
    Versions,
    Modes,                \* assignments of MALICIOUS_MODE to the peers
    Before(_, _, _),      \* Before(p, q, r): q is nearer to p than r is
    MaxProviders,         \* max_providers_per_lookup
    MaxFetches,           \* bound on fetches and on changes of the quarantine
    MaxFaults             \* bound on failed calls, crashes and lost entries

MaliciousModes == {"none", "serve_corrupted", "publish_conflicting", "advertise_missing"}

ASSUME DhtFetchAssumption ==
    /\ {MaxProviders, MaxFetches, MaxFaults} \subseteq Nat
    /\ Versions \subseteq Nat \ {0}
    /\ 1 \in Versions
    /\ Modes \subseteq [Peers -> MaliciousModes]
    /\ IsFiniteSet(Peers)
    /\ \A p, q \in Peers : ~Before(p, q, q)

None == 0                 \* no version: not asked for, not known, not there

VARIABLES
    mode,                 \* MALICIOUS_MODE of each peer
    cache,                \* what each peer holds
    dht,                  \* the version each peer is listed with in the DHT
    registered,           \* peers the coordinator knows
    adverts, current,     \* its index and metadata
    quarantined,
    fetch,                \* the fetch in progress at each peer
    posts,                \* post-store updates still to be made by each peer
    reports,              \* reports sent: accused and reason
    fetches, faults

indexVars == <<registered, adverts, current>>
countVars == <<fetches, faults>>
vars == <<mode, cache, dht, registered, adverts, current, quarantined, fetch,
          posts, reports, fetches, faults>>

\* Bytes, or metadata: of a version, and the origin's or not.
Copies == [version : Versions \cup {None}, genuine : BOOLEAN]
Copy(v) == [version |-> v, genuine |-> TRUE]
NoCopy == Copy(None)

\* steady (history): candidates that have held what was looked for, and have
\* been within reach, ever since.  barred (history): who was quarantined before.
NoFetch == [at |-> "idle", want |-> None, fallback |-> FALSE, left |-> {},
            meta |-> NoCopy, from |-> {}, data |-> NoCopy, steady |-> {}, barred |-> {}]

\* A call fails, a process dies, an entry is lost.
Fault ==
    /\ faults < MaxFaults                                      \* bound
    /\ faults' = faults + 1

Honest(p) == mode[p] # "serve_corrupted"

\* The fetches in progress, now that p's copy is gone or p is.
Unsteady(p) == [q \in Peers |-> [fetch[q] EXCEPT !.steady = @ \ {p}]]

-----------------------------------------------------------------------------
(***************************************************************************)
(* fetch_object.                                                           *)
(***************************************************************************)
\* A cached copy of another version than the one asked for is dropped first.
Kept(p, want) == IF want # None /\ cache[p].version # want THEN NoCopy ELSE cache[p]

Start(p, want) ==
    /\ fetch[p].at = "idle"
    /\ fetches < MaxFetches                                    \* bound
    /\ fetches' = fetches + 1
    /\ cache' = [cache EXCEPT ![p] = Kept(p, want)]
    /\ fetch' = IF Kept(p, want) # NoCopy THEN fetch          \* a cache hit
                ELSE [Unsteady(p) EXCEPT ![p] =
                         [NoFetch EXCEPT !.at = "dht", !.want = want, !.barred = quarantined]]
    /\ UNCHANGED <<mode, dht, indexVars, quarantined, posts, reports, faults>>

\* A step of a fetch that changes only the fetch.
Proceed(p, next) ==
    /\ fetch' = [fetch EXCEPT ![p] = next]
    /\ UNCHANGED <<mode, cache, dht, indexVars, quarantined, posts, fetches>>

Matches(want, v) == v # None /\ want \in {None, v}

\* _dht_lookup
Listed(want) == {q \in Peers : Matches(want, dht[q])}

\* Mutant: the peer itself is left out only after the list was cut.
MutSelected(p, found) ==
    {q \in found : Cardinality({r \in found : Before(p, r, q)}) < MaxProviders} \ {p}

\* _select_dht_providers: the nearest, without the peer itself.  Every record
\* has a checksum, whether or not reputation asks for it.
Selected(p, found) ==
    {q \in found \ {p} :
        Cardinality({r \in found \ {p} : Before(p, r, q)}) < MaxProviders}

Holding(peers, want) == {q \in peers : Honest(q) /\ Matches(want, cache[q].version)}

\* Whether anybody is listed is decided before the peer itself is left out.
DhtAnswered(p) ==
    LET want == fetch[p].want
        others == Listed(want) \ {p}
    IN  /\ fetch[p].at = "dht"
        /\ Proceed(p,
              IF Listed(want) = {}
              THEN [fetch[p] EXCEPT !.at = "coordinator", !.fallback = TRUE]
              ELSE [fetch[p] EXCEPT
                       !.at = "trying",
                       !.left = Selected(p, Listed(want)),
                       !.steady = IF Cardinality(others) > MaxProviders THEN {}
                                  ELSE Holding(others, want)])
        /\ UNCHANGED <<reports, faults>>

\* It timed out or raised, or the node has no neighbours.
DhtFailed(p) ==
    /\ fetch[p].at = "dht"
    /\ Fault
    /\ Proceed(p, [fetch[p] EXCEPT !.at = "coordinator", !.fallback = TRUE])
    /\ UNCHANGED reports

\* _coordinator_lookup
Holders(want) ==
    {q \in Peers \ quarantined : Matches(want, current.version) /\ adverts[q] = current.version}

CoordinatorAnswered(p) ==
    /\ fetch[p].at = "coordinator"
    /\ LET want == fetch[p].want IN
       \E found \in SUBSET Holders(want) :
          Proceed(p, [fetch[p] EXCEPT
              !.at = "trying",
              !.left = found,
              !.meta = IF Matches(want, current.version) THEN current ELSE NoCopy,
              !.steady = IF current.genuine THEN Holding(found \ {p}, current.version)
                         ELSE {}])
    /\ UNCHANGED <<reports, faults>>

CoordinatorFailed(p) ==
    /\ fetch[p].at = "coordinator"
    /\ Fault
    /\ Proceed(p, [fetch[p] EXCEPT !.at = "trying"])
    /\ UNCHANGED reports

\* The DHT's providers are tried in order, the coordinator's in the one it chose.
Ask(p) ==
    /\ fetch[p].at = "trying"
    /\ \E q \in fetch[p].left :
          /\ fetch[p].fallback \/ \A r \in fetch[p].left : ~Before(p, r, q)
          /\ Proceed(p, [fetch[p] EXCEPT !.at = "asking", !.left = @ \ {q}, !.from = {q}])
    /\ UNCHANGED <<reports, faults>>

\* get_object at q: it answers, later, with what it read now.
Serve(p, q) ==
    /\ fetch[p].at = "asking"
    /\ fetch[p].from = {q}
    /\ Proceed(p, [fetch[p] EXCEPT
          !.at = "answered", !.data = [cache[q] EXCEPT !.genuine = @ /\ Honest(q)]])
    /\ UNCHANGED <<reports, faults>>

\* Refused or timed out: the next one is tried, and nobody is reported.
Unreachable(p) ==
    /\ fetch[p].at = "asking"
    /\ Fault
    /\ Proceed(p, [fetch[p] EXCEPT !.at = "trying", !.from = {}, !.steady = @ \ fetch[p].from])
    /\ UNCHANGED reports

\* The metadata an answer is judged by: the coordinator's, or else the provider's.
Judged(p) ==
    IF fetch[p].meta = NoCopy THEN Copy(fetch[p].data.version) ELSE fetch[p].meta

\* Mutant: the metadata that a rejected answer was judged by is kept.
MutRetry(p, meta) ==
    Proceed(p, [fetch[p] EXCEPT !.at = "trying", !.meta = Judged(p), !.from = {},
                                !.data = NoCopy])

Retry(p, meta) ==
    Proceed(p, [fetch[p] EXCEPT !.at = "trying", !.meta = meta, !.from = {}, !.data = NoCopy])

\* report_bad_peer, which never reports the peer itself.
Report(p, reason) ==
    reports' = reports \cup {[accused |-> q, reason |-> reason] : q \in fetch[p].from \ {p}}

NotFound(p) ==
    /\ fetch[p].at = "answered"
    /\ fetch[p].data.version = None
    /\ Retry(p, fetch[p].meta)
    /\ Report(p, "unavailable")
    /\ UNCHANGED faults

\* Mutant: only the coordinator's metadata is compared with the version.
MutOtherVersion(p) == fetch[p].fallback /\ fetch[p].want \notin {None, Judged(p).version}

OtherVersion(p) == fetch[p].want \notin {None, Judged(p).version}

WrongVersion(p) ==
    /\ fetch[p].at = "answered"
    /\ fetch[p].data.version # None
    /\ OtherVersion(p)
    /\ Retry(p, NoCopy)
    /\ UNCHANGED <<reports, faults>>

\* Mutant: the provider's own metadata is taken on trust.
MutChecksumMatches(p) == fetch[p].meta = NoCopy \/ fetch[p].data = Judged(p)

ChecksumMatches(p) ==
    /\ fetch[p].data.version = Judged(p).version
    /\ fetch[p].data.genuine
    /\ Judged(p).genuine

WrongChecksum(p) ==
    /\ fetch[p].at = "answered"
    /\ fetch[p].data.version # None
    /\ ~OtherVersion(p)
    /\ ~ChecksumMatches(p)
    /\ Retry(p, NoCopy)
    /\ Report(p, "checksum_mismatch")
    /\ UNCHANGED faults

\* What was fetched is returned and cached; to be announced and published.
Finish(p, copy, caches) ==
    /\ fetch' = [fetch EXCEPT ![p] = NoFetch]
    /\ cache' = IF caches THEN [cache EXCEPT ![p] = copy] ELSE cache
    /\ posts' = [posts EXCEPT ![p] = @ \cup {[version |-> copy.version, next |-> "announce"]}]
    /\ UNCHANGED <<mode, dht, indexVars, quarantined, reports, countVars>>

Accept(p) ==
    /\ fetch[p].at = "answered"
    /\ fetch[p].data.version # None
    /\ ~OtherVersion(p)
    /\ ChecksumMatches(p)
    /\ Finish(p, fetch[p].data, TRUE)

\* Mutant: the version in the answer is not defaulted.
MutOriginVersion(want) == want

\* The origin has every version, and by default serves the first.
OriginVersion(want) == IF want = None THEN 1 ELSE want

OriginAnswered(p) ==
    /\ fetch[p].at = "trying"
    /\ fetch[p].left = {}
    /\ Finish(p, Copy(OriginVersion(fetch[p].want)), mode[p] # "advertise_missing")

OriginFailed(p) ==
    /\ fetch[p].at = "trying"
    /\ fetch[p].left = {}
    /\ Fault
    /\ Proceed(p, NoFetch)
    /\ UNCHANGED reports

-----------------------------------------------------------------------------
(***************************************************************************)
(* _post_store_updates: first the DHT, then the coordinator, whether or    *)
(* not the object is still cached.                                         *)
(***************************************************************************)
\* One update of p makes its step and is replaced by the next, if any.
Update(p, post, places) ==
    /\ post \in posts[p]
    /\ posts' = [posts EXCEPT ![p] =
                    (@ \ {post}) \cup {[post EXCEPT !.next = place] : place \in places}]
    /\ UNCHANGED <<mode, cache, quarantined, fetch, reports, fetches>>

\* The publish goes on whether or not the announce succeeded.
Announce(p, post) ==
    /\ post.next = "announce"
    /\ Update(p, post, {"publish"})
    /\ \/ dht' = [dht EXCEPT ![p] = post.version] /\ UNCHANGED faults
       \/ Fault /\ UNCHANGED dht
    /\ UNCHANGED indexVars

\* publish at the coordinator: an unknown peer is refused, and so is metadata
\* that contradicts that of the same version.
Contradicts(meta) == current.version = meta.version /\ current.genuine # meta.genuine

Published(p, meta) ==
    IF p \notin registered \/ Contradicts(meta) THEN UNCHANGED <<adverts, current>>
    ELSE /\ adverts' = [adverts EXCEPT ![p] = meta.version]
         /\ current' = meta

PublishedMeta(p, post) ==
    [version |-> post.version, genuine |-> mode[p] # "publish_conflicting"]

Publish(p, post) ==
    /\ post.next = "publish"
    /\ Update(p, post, IF p \in registered THEN {} ELSE {"register"})
    /\ Published(p, PublishedMeta(p, post))
    /\ UNCHANGED <<dht, registered, faults>>

\* The call failed with anything but 404; or the call after _re_register did.
PublishFailed(p, post) ==
    /\ post.next \in {"publish", "retry"}
    /\ Update(p, post, {})
    /\ Fault
    /\ UNCHANGED <<dht, indexVars>>

\* _re_register: register, publish what is cached, never changed, and try again,
\* whether or not these calls came through.
Register(p, post) ==
    /\ post.next = "register"
    /\ Update(p, post, {"republish"})
    /\ \/ registered' = registered \cup {p} /\ UNCHANGED faults
       \/ Fault /\ UNCHANGED registered
    /\ UNCHANGED <<dht, adverts, current>>

RepublishCached(p, post) ==
    /\ post.next = "republish"
    /\ Update(p, post, {"retry"})
    /\ \/ /\ IF cache[p] = NoCopy THEN UNCHANGED <<adverts, current>>
             ELSE Published(p, Copy(cache[p].version))
          /\ UNCHANGED faults
       \/ Fault /\ UNCHANGED <<adverts, current>>
    /\ UNCHANGED <<dht, registered>>

PublishAgain(p, post) ==
    /\ post.next = "retry"
    /\ Update(p, post, {})
    /\ Published(p, PublishedMeta(p, post))
    /\ UNCHANGED <<dht, registered, faults>>

-----------------------------------------------------------------------------
(***************************************************************************)
(* What else happens to peers, lists and index.                            *)
(***************************************************************************)
\* Eviction from the cache: nothing is withdrawn.
Drop(p) ==
    /\ cache[p] # NoCopy
    /\ cache' = [cache EXCEPT ![p] = NoCopy]
    /\ fetch' = Unsteady(p)
    /\ UNCHANGED <<mode, dht, indexVars, quarantined, posts, reports, countVars>>

\* /suicide and a restart: the cache and what was under way are gone; the entry
\* in the DHT and the advert stay.
Crash(p) ==
    /\ Fault
    /\ cache' = [cache EXCEPT ![p] = NoCopy]
    /\ fetch' = [Unsteady(p) EXCEPT ![p] = NoFetch]
    /\ posts' = [posts EXCEPT ![p] = {}]
    /\ registered' = registered \cup {p}
    /\ UNCHANGED <<mode, dht, adverts, current, quarantined, reports, fetches>>

\* Updates of p's list that overlap lose an entry or bring back an old one.
Overwritten(p) ==
    /\ Fault
    /\ \E v \in Versions \cup {None} : dht[p] # v /\ dht' = [dht EXCEPT ![p] = v]
    /\ UNCHANGED <<mode, cache, indexVars, quarantined, fetch, posts, reports, fetches>>

\* The coordinator evicts a peer; with the last advert the metadata goes.
Evict(p) ==
    /\ p \in registered
    /\ Fault
    /\ registered' = registered \ {p}
    /\ adverts' = [adverts EXCEPT ![p] = None]
    /\ current' = IF \A q \in Peers \ {p} : adverts[q] = None THEN NoCopy ELSE current
    /\ UNCHANGED <<mode, cache, dht, quarantined, fetch, posts, reports, fetches>>

\* The coordinator's judgement of those that were reported changes.
Judge(p) ==
    /\ p \in {r.accused : r \in reports}
    /\ fetches < MaxFetches                                    \* bound
    /\ fetches' = fetches + 1
    /\ quarantined' = IF p \in quarantined THEN quarantined \ {p} ELSE quarantined \cup {p}
    /\ UNCHANGED <<mode, cache, dht, indexVars, fetch, posts, reports, faults>>

-----------------------------------------------------------------------------
Init ==
    /\ mode \in Modes
    /\ cache = [p \in Peers |-> NoCopy]
    /\ dht = [p \in Peers |-> None]
    /\ registered = Peers
    /\ adverts = [p \in Peers |-> None]
    /\ current = NoCopy
    /\ quarantined = {}
    /\ fetch = [p \in Peers |-> NoFetch]
    /\ posts = [p \in Peers |-> {}]
    /\ reports = {}
    /\ fetches = 0
    /\ faults = 0

FetchStep(p) ==
    \/ DhtAnswered(p) \/ DhtFailed(p)
    \/ CoordinatorAnswered(p) \/ CoordinatorFailed(p)
    \/ Ask(p)
    \/ \E q \in Peers : Serve(p, q)
    \/ Unreachable(p)
    \/ NotFound(p) \/ WrongVersion(p) \/ WrongChecksum(p) \/ Accept(p)
    \/ OriginAnswered(p) \/ OriginFailed(p)

PostStep(p) == \E post \in posts[p] :
    \/ Announce(p, post)
    \/ Publish(p, post) \/ PublishFailed(p, post)
    \/ Register(p, post) \/ RepublishCached(p, post) \/ PublishAgain(p, post)

Next ==
    \/ \E p \in Peers, want \in Versions \cup {None} : Start(p, want)
    \/ \E p \in Peers : FetchStep(p) \/ PostStep(p)
    \/ \E p \in Peers : Drop(p) \/ Crash(p) \/ Overwritten(p) \/ Evict(p) \/ Judge(p)

Spec == Init /\ [][Next]_vars

-----------------------------------------------------------------------------
Fetches ==
    [at : {"idle", "dht", "coordinator", "trying", "asking", "answered"},
     want : Versions \cup {None}, fallback : BOOLEAN, left : SUBSET Peers,
     meta : Copies, from : SUBSET Peers, data : Copies,
     steady : SUBSET Peers, barred : SUBSET Peers]

Updates ==
    [version : Versions, next : {"announce", "publish", "register", "republish", "retry"}]

\* Type invariant.
DhtFetchTypeOK ==
    /\ mode \in Modes
    /\ cache \in [Peers -> Copies]
    /\ dht \in [Peers -> Versions \cup {None}]
    /\ registered \subseteq Peers
    /\ adverts \in [Peers -> Versions \cup {None}]
    /\ current \in Copies
    /\ quarantined \subseteq Peers
    /\ fetch \in [Peers -> Fetches]
    /\ posts \in [Peers -> SUBSET Updates]
    /\ reports \subseteq [accused : Peers, reason : {"unavailable", "checksum_mismatch"}]
    /\ fetches \in 0..MaxFetches
    /\ faults \in 0..MaxFaults

\* Whatever corrupting, conflicting or outdated providers are tried, in whatever
\* order, and though the DHT's providers bring the metadata they are judged by, no
\* cache holds bytes the origin did not produce (client.py:230-286).
CachesAreGenuine == \A p \in Peers : cache[p].genuine

\* A fetch that asked for a version never ends with another, though the lists, the
\* metadata and the providers' copies change under it (client.py:242-260).
VersionIsHonoured ==
    [][\A p \in Peers :
        (fetch[p].at # "idle" /\ fetch'[p].at = "idle" /\ cache'[p] # NoCopy)
            => fetch[p].want \in {None, cache'[p].version}]_vars

\* Candidates that are gone, corrupting, unreachable or of another version do not
\* keep a fetch from the good one behind them: unless the list was cut, a peer that
\* is listed and goes on holding the object is asked before the origin is
\* (client.py:225-336, 571-595).
SteadyHolderIsAsked ==
    \A p \in Peers : fetch[p].at = "trying" => fetch[p].steady \subseteq fetch[p].left

\* Along the DHT's path an honest peer is never accused of corrupting: it is judged
\* by its own metadata, not by what an earlier candidate left behind
\* (client.py:242-247, 259, 279).
HonestIsNotAccused ==
    [][\A r \in reports' \ reports :
        r.reason = "checksum_mismatch" =>
            \/ mode[r.accused] = "serve_corrupted"
            \/ \E p \in Peers : r.accused \in fetch[p].from /\ fetch[p].fallback]_vars

\* workload-k8s.json: "After enough reports peer-a1 quarantines and is excluded from
\* both DHT-driven and coordinator-fallback lookups."  The DHT's list is taken
\* without asking the coordinator: a peer in quarantine is asked all the same.
QuarantinedIsNotAsked ==
    \A p \in Peers : fetch[p].from \cap fetch[p].barred = {}
=============================================================================
