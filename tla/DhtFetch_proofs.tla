--------------------------- MODULE DhtFetch_proofs ---------------------------
(***************************************************************************)
(* What holds of the DHT-primary pipeline for any peers, versions, modes   *)
(* and bounds: the state is well typed, caches hold genuine bytes only, a  *)
(* fetch that asked for a version does not end with another, an honest     *)
(* provider is not accused on the DHT's path, and a holder that stays is   *)
(* asked before the origin is.                                             *)
(***************************************************************************)
EXTENDS DhtFetch, FiniteSetTheorems, TLAPS

USE DhtFetchAssumption

\* While a peer fetches it has no copy: the fetch began with a miss.
FetchingIsMissing == \A p \in Peers : fetch[p].at # "idle" => cache[p] = NoCopy

DhtFetchInv == DhtFetchTypeOK /\ CachesAreGenuine /\ FetchingIsMissing

Places == {"idle", "dht", "coordinator", "trying", "asking", "answered"}
Reasons == {"unavailable", "checksum_mismatch"}
Reports == [accused : Peers, reason : Reasons]

LEMMA CopyShape ==
    /\ NoCopy \in Copies /\ NoCopy.genuine /\ NoCopy.version = None
    /\ \A v \in Versions \cup {None} :
          Copy(v) \in Copies /\ Copy(v).genuine /\ Copy(v).version = v
    /\ \A c \in Copies : c.version \in Versions \cup {None} /\ c.genuine \in BOOLEAN
    /\ \A c \in Copies : c.genuine => c = Copy(c.version)
  BY DEF Copies, NoCopy, Copy, None

LEMMA NoFetchShape == NoFetch \in Fetches /\ NoFetch.at = "idle"
  BY CopyShape DEF NoFetch, Fetches, None

\* A fetch keeps its shape when its fields are set as the steps set them.
LEMMA FetchShape ==
    ASSUME NEW f \in Fetches
    PROVE  /\ f.at \in Places /\ f.want \in Versions \cup {None} /\ f.fallback \in BOOLEAN
           /\ f.left \in SUBSET Peers /\ f.meta \in Copies /\ f.from \in SUBSET Peers
           /\ f.data \in Copies /\ f.steady \in SUBSET Peers /\ f.barred \in SUBSET Peers
           /\ \A at \in Places : [f EXCEPT !.at = at] \in Fetches
           /\ \A at \in Places :
                 [f EXCEPT !.at = at, !.fallback = TRUE] \in Fetches
           /\ \A at \in Places, left, steady \in SUBSET Peers :
                 [f EXCEPT !.at = at, !.left = left, !.steady = steady] \in Fetches
           /\ \A at \in Places, left, steady \in SUBSET Peers, meta \in Copies :
                 [f EXCEPT !.at = at, !.left = left, !.meta = meta, !.steady = steady]
                     \in Fetches
           /\ \A at \in Places, left, from \in SUBSET Peers :
                 [f EXCEPT !.at = at, !.left = left, !.from = from] \in Fetches
           /\ \A at \in Places, from, steady \in SUBSET Peers :
                 [f EXCEPT !.at = at, !.from = from, !.steady = steady] \in Fetches
           /\ \A at \in Places, data \in Copies :
                 [f EXCEPT !.at = at, !.data = data] \in Fetches
           /\ \A at \in Places, meta \in Copies :
                 [f EXCEPT !.at = at, !.meta = meta, !.from = {}, !.data = NoCopy] \in Fetches
           /\ \A steady \in SUBSET Peers :
                 /\ [f EXCEPT !.steady = steady] \in Fetches
                 /\ [f EXCEPT !.steady = steady].at = f.at
  BY ZenonT(30), CopyShape DEF Fetches, Places

LEMMA FetchTyped ==
    ASSUME DhtFetchInv, NEW p \in Peers
    PROVE  /\ fetch[p] \in Fetches /\ fetch \in [Peers -> Fetches]
           /\ cache[p] \in Copies /\ cache[p].genuine /\ cache \in [Peers -> Copies]
  BY DEF DhtFetchInv, DhtFetchTypeOK, CachesAreGenuine

\* What a step of a fetch that changes only the fetch keeps.
LEMMA ProceedKeeps ==
    ASSUME DhtFetchInv, NEW p \in Peers, NEW next, Proceed(p, next),
           next \in Fetches, next.at # "idle" => fetch[p].at # "idle",
           faults' \in 0..MaxFaults, reports' \subseteq Reports
    PROVE  DhtFetchInv'
  <1>1. fetch' \in [Peers -> Fetches]
    BY FetchTyped DEF Proceed
  <1>2. DhtFetchTypeOK'
    BY <1>1 DEF DhtFetchInv, DhtFetchTypeOK, Proceed, indexVars, Reports, Reasons
  <1>3. CachesAreGenuine'
    BY DEF DhtFetchInv, CachesAreGenuine, Proceed
  <1>4. FetchingIsMissing'
    BY DEF DhtFetchInv, DhtFetchTypeOK, FetchingIsMissing, Proceed
  <1> QED
    BY <1>2, <1>3, <1>4 DEF DhtFetchInv

LEMMA UnsteadyTyped ==
    ASSUME DhtFetchInv, NEW p \in Peers
    PROVE  /\ Unsteady(p) \in [Peers -> Fetches]
           /\ \A q \in Peers : Unsteady(p)[q].at = fetch[q].at
  <1>1. ASSUME NEW q \in Peers
        PROVE  /\ [fetch[q] EXCEPT !.steady = @ \ {p}] \in Fetches
               /\ [fetch[q] EXCEPT !.steady = @ \ {p}].at = fetch[q].at
    <2>1. PICK f \in Fetches : f = fetch[q]
      BY FetchTyped
    <2>2. f.steady \ {p} \in SUBSET Peers
      BY <2>1, FetchShape
    <2> QED
      BY <2>1, <2>2, FetchShape
  <1> QED
    BY <1>1 DEF Unsteady

LEMMA StartKeeps ==
    ASSUME DhtFetchInv, NEW p \in Peers, NEW want \in Versions \cup {None}, Start(p, want)
    PROVE  DhtFetchInv'
  <1> DEFINE new == [NoFetch EXCEPT !.at = "dht", !.want = want, !.barred = quarantined]
  <1>1. quarantined \in SUBSET Peers
    BY DEF DhtFetchInv, DhtFetchTypeOK
  <1>2. new \in Fetches
    BY <1>1, CopyShape DEF NoFetch, Fetches, None
  <1>3. Kept(p, want) \in Copies /\ Kept(p, want).genuine
    BY CopyShape, FetchTyped DEF Kept
  <1>4. /\ cache' = [cache EXCEPT ![p] = Kept(p, want)]
        /\ IF Kept(p, want) # NoCopy THEN fetch' = fetch
           ELSE fetch' = [Unsteady(p) EXCEPT ![p] = new]
        /\ fetch[p].at = "idle"
        /\ fetches' \in 0..MaxFetches
    BY DEF Start, DhtFetchInv, DhtFetchTypeOK
  <1> HIDE DEF new
  <1>5. fetch' \in [Peers -> Fetches] /\ cache' \in [Peers -> Copies]
    BY <1>2, <1>3, <1>4, FetchTyped, UnsteadyTyped
  <1>6. UNCHANGED <<mode, dht, registered, adverts, current, quarantined, posts, reports, faults>>
    BY DEF Start, indexVars
  <1>7. DhtFetchTypeOK'
    BY <1>4, <1>5, <1>6 DEF DhtFetchInv, DhtFetchTypeOK
  <1>8. CachesAreGenuine'
    BY <1>3, <1>4 DEF DhtFetchInv, DhtFetchTypeOK, CachesAreGenuine
  <1>9. FetchingIsMissing'
    <2>1. ASSUME NEW q \in Peers \ {p}
          PROVE  fetch'[q].at = fetch[q].at /\ cache'[q] = cache[q]
      BY <1>4, UnsteadyTyped, FetchTyped
    <2>2. fetch'[p].at # "idle" => cache'[p] = NoCopy
      BY <1>4, FetchTyped
    <2> QED
      BY <2>1, <2>2 DEF DhtFetchInv, FetchingIsMissing
  <1> QED
    BY <1>7, <1>8, <1>9 DEF DhtFetchInv

\* Lookups and answers to them.
LEMMA LookupKeeps ==
    ASSUME DhtFetchInv, NEW p \in Peers,
           DhtAnswered(p) \/ DhtFailed(p) \/ CoordinatorAnswered(p) \/ CoordinatorFailed(p)
    PROVE  DhtFetchInv'
  <1>1. PICK f \in Fetches : f = fetch[p]
    BY FetchTyped
  <1>2. /\ faults \in 0..MaxFaults /\ reports \subseteq Reports /\ current \in Copies
        /\ Fault => faults' \in 0..MaxFaults
    BY DEF DhtFetchInv, DhtFetchTypeOK, Fault, Reports, Reasons
  <1>3. CASE DhtAnswered(p)
    <2>1. f.at = "dht" /\ UNCHANGED <<reports, faults>>
      BY <1>1, <1>3 DEF DhtAnswered
    <2>2. Selected(p, Listed(f.want)) \in SUBSET Peers /\ Listed(f.want) \in SUBSET Peers
      BY DEF Selected, Listed
    <2>3. PICK steady \in SUBSET Peers :
            Proceed(p, IF Listed(f.want) = {}
                       THEN [f EXCEPT !.at = "coordinator", !.fallback = TRUE]
                       ELSE [f EXCEPT !.at = "trying", !.left = Selected(p, Listed(f.want)),
                                      !.steady = steady])
      <3>1. PICK steady : steady = IF Cardinality(Listed(f.want) \ {p}) > MaxProviders THEN {}
                                   ELSE Holding(Listed(f.want) \ {p}, f.want)
        OBVIOUS
      <3>2. steady \in SUBSET Peers
        BY <2>2, <3>1 DEF Holding
      <3> QED
        BY <1>1, <1>3, <3>1, <3>2 DEF DhtAnswered
    <2>4. [f EXCEPT !.at = "coordinator", !.fallback = TRUE] \in Fetches
      BY FetchShape DEF Places
    <2>5. [f EXCEPT !.at = "trying", !.left = Selected(p, Listed(f.want)), !.steady = steady]
              \in Fetches
      BY <2>2, FetchShape DEF Places
    <2> QED
      BY <1>1, <1>2, <2>1, <2>3, <2>4, <2>5, ProceedKeeps
  <1>4. CASE DhtFailed(p)
    <2>1. [f EXCEPT !.at = "coordinator", !.fallback = TRUE] \in Fetches
      BY FetchShape DEF Places
    <2>2. f.at = "dht" /\ Fault /\ reports' = reports
          /\ Proceed(p, [f EXCEPT !.at = "coordinator", !.fallback = TRUE])
      BY <1>1, <1>4 DEF DhtFailed
    <2> QED
      BY <1>1, <1>2, <2>1, <2>2, ProceedKeeps
  <1>5. CASE CoordinatorAnswered(p)
    <2>1. PICK found, meta, steady :
            /\ found \in SUBSET Holders(f.want)
            /\ Proceed(p, [f EXCEPT !.at = "trying", !.left = found, !.meta = meta,
                                    !.steady = steady])
            /\ meta = IF Matches(f.want, current.version) THEN current ELSE NoCopy
            /\ steady = IF current.genuine THEN Holding(found \ {p}, current.version) ELSE {}
      BY <1>1, <1>5 DEF CoordinatorAnswered
    <2>2. meta \in Copies /\ found \in SUBSET Peers /\ steady \in SUBSET Peers
      BY <1>2, <2>1, CopyShape DEF Holders, Holding
    <2>3. f.at = "coordinator" /\ UNCHANGED <<reports, faults>>
      BY <1>1, <1>5 DEF CoordinatorAnswered
    <2>4. [f EXCEPT !.at = "trying", !.left = found, !.meta = meta, !.steady = steady]
              \in Fetches
      BY <2>2, FetchShape DEF Places
    <2> QED
      BY <1>1, <1>2, <2>1, <2>3, <2>4, ProceedKeeps
  <1>6. CASE CoordinatorFailed(p)
    <2>1. [f EXCEPT !.at = "trying"] \in Fetches
      BY FetchShape DEF Places
    <2>2. f.at = "coordinator" /\ Fault /\ reports' = reports
          /\ Proceed(p, [f EXCEPT !.at = "trying"])
      BY <1>1, <1>6 DEF CoordinatorFailed
    <2> QED
      BY <1>1, <1>2, <2>1, <2>2, ProceedKeeps
  <1> QED
    BY <1>3, <1>4, <1>5, <1>6

\* Providers are asked and answer, and what they answer is rejected.
LEMMA TryingKeeps ==
    ASSUME DhtFetchInv, NEW p \in Peers,
           \/ Ask(p) \/ Unreachable(p) \/ WrongVersion(p) \/ OriginFailed(p)
           \/ NotFound(p) \/ WrongChecksum(p) \/ \E q \in Peers : Serve(p, q)
    PROVE  DhtFetchInv'
  <1>1. PICK f \in Fetches : f = fetch[p]
    BY FetchTyped
  <1>2. /\ faults \in 0..MaxFaults /\ reports \subseteq Reports
        /\ Fault => faults' \in 0..MaxFaults
    BY DEF DhtFetchInv, DhtFetchTypeOK, Fault, Reports, Reasons
  <1>3. CASE Ask(p)
    <2>1. PICK q \in f.left :
              Proceed(p, [f EXCEPT !.at = "asking", !.left = @ \ {q}, !.from = {q}])
      BY <1>1, <1>3 DEF Ask
    <2>2. PICK left : left = f.left \ {q}
      OBVIOUS
    <2>3. Proceed(p, [f EXCEPT !.at = "asking", !.left = left, !.from = {q}])
      BY <2>1, <2>2
    <2>4. left \in SUBSET Peers /\ {q} \in SUBSET Peers
      BY <2>2, FetchShape
    <2>5. [f EXCEPT !.at = "asking", !.left = left, !.from = {q}] \in Fetches
      BY <2>4, FetchShape DEF Places
    <2>6. f.at = "trying" /\ UNCHANGED <<reports, faults>>
      BY <1>1, <1>3 DEF Ask
    <2> QED
      BY <1>1, <1>2, <2>3, <2>5, <2>6, ProceedKeeps
  <1>4. CASE Unreachable(p)
    <2>1. PICK steady : steady = f.steady \ f.from
      OBVIOUS
    <2>2. /\ f.at = "asking" /\ Fault /\ reports' = reports
          /\ Proceed(p, [f EXCEPT !.at = "trying", !.from = {}, !.steady = steady])
      BY <1>1, <1>4, <2>1 DEF Unreachable
    <2>3. [f EXCEPT !.at = "trying", !.from = {}, !.steady = steady] \in Fetches
      BY <2>1, FetchShape DEF Places
    <2> QED
      BY <1>1, <1>2, <2>2, <2>3, ProceedKeeps
  <1>5. CASE WrongVersion(p) \/ NotFound(p) \/ WrongChecksum(p)
    <2>1. reports' \subseteq Reports
      <3>1. reports' = reports \/ \E reason \in Reasons : Report(p, reason)
        BY <1>5 DEF WrongVersion, NotFound, WrongChecksum, Reasons
      <3>2. f.from \subseteq Peers
        BY FetchShape
      <3> QED
        BY <1>1, <1>2, <3>1, <3>2 DEF Report, Reports
    <2>2. PICK meta \in Copies : Retry(p, meta)
      BY <1>1, <1>5, FetchShape, CopyShape DEF WrongVersion, NotFound, WrongChecksum
    <2>3. f.at = "answered" /\ faults' = faults
      BY <1>1, <1>5 DEF WrongVersion, NotFound, WrongChecksum
    <2>4. [f EXCEPT !.at = "trying", !.meta = meta, !.from = {}, !.data = NoCopy] \in Fetches
      BY FetchShape DEF Places
    <2>5. Proceed(p, [f EXCEPT !.at = "trying", !.meta = meta, !.from = {}, !.data = NoCopy])
      BY <1>1, <2>2 DEF Retry
    <2> QED
      BY <1>1, <1>2, <2>1, <2>3, <2>4, <2>5, ProceedKeeps
  <1>6. CASE OriginFailed(p)
    BY <1>2, <1>6, NoFetchShape, ProceedKeeps DEF OriginFailed
  <1>7. CASE \E q \in Peers : Serve(p, q)
    <2>1. PICK q \in Peers : Serve(p, q)
      BY <1>7
    <2>2. PICK data : data = [cache[q] EXCEPT !.genuine = @ /\ Honest(q)]
      OBVIOUS
    <2>3. data \in Copies
      <3>1. cache[q] \in Copies
        BY FetchTyped
      <3> QED
        BY <2>2, <3>1 DEF Copies
    <2>4. f.at = "asking" /\ UNCHANGED <<reports, faults>>
          /\ Proceed(p, [f EXCEPT !.at = "answered", !.data = data])
      BY <1>1, <2>1, <2>2 DEF Serve
    <2>5. [f EXCEPT !.at = "answered", !.data = data] \in Fetches
      BY <2>3, FetchShape DEF Places
    <2> QED
      BY <1>1, <1>2, <2>4, <2>5, ProceedKeeps
  <1> QED
    BY <1>3, <1>4, <1>5, <1>6, <1>7

\* A fetch ends with the genuine copy it may be given.
LEMMA FinishKeeps ==
    ASSUME DhtFetchInv, NEW p \in Peers, NEW v \in Versions, NEW caches,
           Finish(p, Copy(v), caches)
    PROVE  DhtFetchInv'
  <1>1. Copy(v) \in Copies /\ Copy(v).genuine /\ Copy(v).version = v
    BY CopyShape
  <1>2. /\ fetch' = [fetch EXCEPT ![p] = NoFetch]
        /\ cache' = IF caches THEN [cache EXCEPT ![p] = Copy(v)] ELSE cache
    BY DEF Finish
  <1>3. posts' \in [Peers -> SUBSET Updates]
    <2>1. [version |-> Copy(v).version, next |-> "announce"] \in Updates
      BY <1>1 DEF Updates
    <2> QED
      BY <2>1 DEF Finish, DhtFetchInv, DhtFetchTypeOK
  <1>4. UNCHANGED <<mode, dht, registered, adverts, current, quarantined, reports, fetches, faults>>
    BY DEF Finish, indexVars, countVars
  <1>5. fetch' \in [Peers -> Fetches] /\ cache' \in [Peers -> Copies]
    BY <1>1, <1>2, FetchTyped, NoFetchShape
  <1>6. DhtFetchTypeOK'
    BY <1>3, <1>4, <1>5 DEF DhtFetchInv, DhtFetchTypeOK
  <1>7. CachesAreGenuine'
    BY <1>1, <1>2, FetchTyped DEF CachesAreGenuine
  <1>8. FetchingIsMissing'
    BY <1>2, FetchTyped, NoFetchShape DEF DhtFetchInv, FetchingIsMissing
  <1> QED
    BY <1>6, <1>7, <1>8 DEF DhtFetchInv

\* What is accepted is genuine, of the version judged by.
LEMMA AcceptIsGenuine ==
    ASSUME DhtFetchInv, NEW p \in Peers, Accept(p)
    PROVE  \E v \in Versions : /\ Finish(p, Copy(v), TRUE)
                               /\ fetch[p].want \in {None, v}
  <1>1. PICK data \in Copies : data = fetch[p].data
    BY FetchTyped, FetchShape
  <1>2. data.genuine /\ data.version # None /\ fetch[p].want \in {None, data.version}
    BY <1>1 DEF Accept, ChecksumMatches, OtherVersion
  <1>3. data.version \in Versions /\ data = Copy(data.version)
    BY <1>2, CopyShape
  <1>4. Finish(p, data, TRUE)
    BY <1>1 DEF Accept
  <1> QED
    BY <1>2, <1>3, <1>4

LEMMA OriginIsHonest ==
    ASSUME DhtFetchInv, NEW p \in Peers, OriginAnswered(p)
    PROVE  \E v \in Versions : /\ Finish(p, Copy(v), mode[p] # "advertise_missing")
                               /\ fetch[p].want \in {None, v}
  <1>1. PICK v : v = OriginVersion(fetch[p].want)
    OBVIOUS
  <1>2. v \in Versions
    BY <1>1, FetchTyped, FetchShape DEF OriginVersion
  <1> QED
    BY <1>1, <1>2 DEF OriginAnswered, OriginVersion

\* The other steps drop copies at most, and end fetches at most.
LEMMA OtherKeeps ==
    ASSUME DhtFetchInv, DhtFetchTypeOK',
           cache' \in [Peers -> Copies],
           \A p \in Peers : cache'[p] \in {cache[p], NoCopy},
           \A p \in Peers : fetch'[p].at \in {fetch[p].at, "idle"}
    PROVE  DhtFetchInv'
  BY CopyShape DEF DhtFetchInv, CachesAreGenuine, FetchingIsMissing

\* A post-store update moves on; the index and the DHT change with it.
LEMMA PostKeeps ==
    ASSUME DhtFetchInv, NEW p \in Peers, PostStep(p)
    PROVE  DhtFetchInv'
  <1>0. /\ posts \in [Peers -> SUBSET Updates] /\ dht \in [Peers -> Versions \cup {None}]
        /\ adverts \in [Peers -> Versions \cup {None}] /\ current \in Copies
        /\ registered \subseteq Peers /\ faults \in 0..MaxFaults
    BY DEF DhtFetchInv, DhtFetchTypeOK
  <1>1. PICK post \in posts[p] :
            \/ Announce(p, post)
            \/ Publish(p, post) \/ PublishFailed(p, post)
            \/ Register(p, post) \/ RepublishCached(p, post) \/ PublishAgain(p, post)
    BY DEF PostStep
  <1>2. post \in Updates /\ post.version \in Versions
    BY <1>0 DEF Updates
  <1>3. PICK places \in SUBSET {"publish", "register", "republish", "retry"} :
            Update(p, post, places)
    BY <1>1 DEF Announce, Publish, PublishFailed, Register, RepublishCached, PublishAgain
  <1>4. UNCHANGED <<mode, cache, quarantined, fetch, reports, fetches>>
    BY <1>3 DEF Update
  <1>5. posts' \in [Peers -> SUBSET Updates]
    <2>1. \A place \in places : [post EXCEPT !.next = place] \in Updates
      BY <1>2 DEF Updates
    <2> QED
      BY <1>0, <1>3, <2>1 DEF Update
  <1>6. dht' \in [Peers -> Versions \cup {None}]
    BY <1>0, <1>1, <1>2
       DEF Announce, Publish, PublishFailed, Register, RepublishCached, PublishAgain
  <1>7. registered' \subseteq Peers
    BY <1>0, <1>1
       DEF Announce, Publish, PublishFailed, Register, RepublishCached, PublishAgain, indexVars
  <1>8. faults' \in 0..MaxFaults
    BY <1>0, <1>1
       DEF Announce, Publish, PublishFailed, Register, RepublishCached, PublishAgain, Fault
  <1>9. adverts' \in [Peers -> Versions \cup {None}] /\ current' \in Copies
    <2>1. \/ UNCHANGED <<adverts, current>>
          \/ Published(p, PublishedMeta(p, post))
          \/ cache[p] # NoCopy /\ Published(p, Copy(cache[p].version))
      BY <1>1 DEF Announce, Publish, PublishFailed, Register, RepublishCached, PublishAgain,
                  indexVars
    <2>2. ASSUME NEW meta \in Copies, meta.version \in Versions \cup {None}, Published(p, meta)
          PROVE  adverts' \in [Peers -> Versions \cup {None}] /\ current' \in Copies
      BY <1>0, <2>2 DEF Published
    <2>3. PICK own : own = PublishedMeta(p, post)
      OBVIOUS
    <2>4. own \in Copies /\ own.version \in Versions
      BY <1>2, <2>3 DEF PublishedMeta, Copies
    <2>5. PICK walked : walked = Copy(cache[p].version)
      OBVIOUS
    <2>6. walked \in Copies /\ walked.version \in Versions \cup {None}
      BY <2>5, FetchTyped, CopyShape
    <2> QED
      BY <1>0, <2>1, <2>2, <2>3, <2>4, <2>5, <2>6
  <1>10. DhtFetchTypeOK'
    BY <1>4, <1>5, <1>6, <1>7, <1>8, <1>9 DEF DhtFetchInv, DhtFetchTypeOK
  <1> QED
    BY <1>4, <1>10, FetchTyped, OtherKeeps

LEMMA EnvironmentKeeps ==
    ASSUME DhtFetchInv, NEW p \in Peers,
           Drop(p) \/ Crash(p) \/ Overwritten(p) \/ Evict(p) \/ Judge(p)
    PROVE  DhtFetchInv'
  <1>1. cache' \in {cache, [cache EXCEPT ![p] = NoCopy]}
    BY DEF Drop, Crash, Overwritten, Evict, Judge
  <1>2. fetch' \in {fetch, Unsteady(p), [Unsteady(p) EXCEPT ![p] = NoFetch]}
    BY DEF Drop, Crash, Overwritten, Evict, Judge
  <1>3. /\ fetch' \in [Peers -> Fetches]
        /\ \A q \in Peers : fetch'[q].at \in {fetch[q].at, "idle"}
    BY ZenonT(30), <1>2, FetchTyped, UnsteadyTyped, NoFetchShape
  <1>4. /\ cache' \in [Peers -> Copies]
        /\ \A q \in Peers : cache'[q] \in {cache[q], NoCopy}
    BY <1>1, FetchTyped, CopyShape
  <1>5. dht' \in [Peers -> Versions \cup {None}]
    BY DEF Drop, Crash, Overwritten, Evict, Judge, DhtFetchInv, DhtFetchTypeOK
  <1>6. registered' \subseteq Peers /\ quarantined' \subseteq Peers
    BY DEF Drop, Crash, Overwritten, Evict, Judge, DhtFetchInv, DhtFetchTypeOK, indexVars
  <1>7. adverts' \in [Peers -> Versions \cup {None}] /\ current' \in Copies
    BY CopyShape
       DEF Drop, Crash, Overwritten, Evict, Judge, DhtFetchInv, DhtFetchTypeOK, indexVars
  <1>8. posts' \in [Peers -> SUBSET Updates]
    BY DEF Drop, Crash, Overwritten, Evict, Judge, DhtFetchInv, DhtFetchTypeOK
  <1>9. fetches' \in 0..MaxFetches /\ faults' \in 0..MaxFaults
    BY DEF Drop, Crash, Overwritten, Evict, Judge, DhtFetchInv, DhtFetchTypeOK, Fault, countVars
  <1>10. UNCHANGED <<mode, reports>>
    BY DEF Drop, Crash, Overwritten, Evict, Judge
  <1>11. DhtFetchTypeOK'
    BY <1>3, <1>4, <1>5, <1>6, <1>7, <1>8, <1>9, <1>10 DEF DhtFetchInv, DhtFetchTypeOK
  <1> QED
    BY <1>3, <1>4, <1>11, OtherKeeps

-----------------------------------------------------------------------------
LEMMA DhtFetchInvKept == DhtFetchInv /\ [Next]_vars => DhtFetchInv'
  <1> SUFFICES ASSUME DhtFetchInv, [Next]_vars
               PROVE  DhtFetchInv'
    OBVIOUS
  <1>1. CASE \E p \in Peers, want \in Versions \cup {None} : Start(p, want)
    BY <1>1, StartKeeps
  <1>2. CASE \E p \in Peers : Accept(p)
    BY <1>2, AcceptIsGenuine, FinishKeeps
  <1>3. CASE \E p \in Peers : OriginAnswered(p)
    BY <1>3, OriginIsHonest, FinishKeeps
  <1>4. CASE \E p \in Peers : FetchStep(p) /\ ~Accept(p) /\ ~OriginAnswered(p)
    BY <1>4, LookupKeeps, TryingKeeps DEF FetchStep
  <1>5. CASE \E p \in Peers : PostStep(p)
    BY <1>5, PostKeeps
  <1>6. CASE \E p \in Peers : Drop(p) \/ Crash(p) \/ Overwritten(p) \/ Evict(p) \/ Judge(p)
    BY <1>6, EnvironmentKeeps
  <1>7. CASE UNCHANGED vars
    BY <1>7 DEF vars, DhtFetchInv, DhtFetchTypeOK, CachesAreGenuine, FetchingIsMissing
  <1> QED
    BY <1>1, <1>2, <1>3, <1>4, <1>5, <1>6, <1>7 DEF Next

LEMMA DhtFetchInvInit == Init => DhtFetchInv
  BY CopyShape, NoFetchShape
     DEF Init, DhtFetchInv, DhtFetchTypeOK, CachesAreGenuine, FetchingIsMissing, None

LEMMA DhtFetchInvariant == Spec => []DhtFetchInv
  BY DhtFetchInvInit, DhtFetchInvKept, PTL DEF Spec

\* The state of the DHT-primary pipeline is well typed.
THEOREM DhtFetchTypeCorrect == Spec => []DhtFetchTypeOK
  <1>1. DhtFetchInv => DhtFetchTypeOK
    BY DEF DhtFetchInv
  <1> QED
    BY <1>1, DhtFetchInvariant, PTL

\* Whoever corrupts, and though providers bring the metadata they are judged by,
\* caches hold only what the origin produced (client.py:230-286).
THEOREM DhtCachesGenuine == Spec => []CachesAreGenuine
  <1>1. DhtFetchInv => CachesAreGenuine
    BY DEF DhtFetchInv
  <1> QED
    BY <1>1, DhtFetchInvariant, PTL

-----------------------------------------------------------------------------
\* Only a fetch that ends with a copy gives its peer one.
LEMMA FinishFills ==
    ASSUME DhtFetchInv, NEW p \in Peers, Accept(p) \/ OriginAnswered(p)
    PROVE  /\ fetch[p].want \in {None, cache'[p].version} \/ cache'[p] = cache[p]
           /\ \A q \in Peers \ {p} : cache'[q] = cache[q]
           /\ fetch' = [fetch EXCEPT ![p] = NoFetch]
           /\ UNCHANGED <<mode, reports>>
  <1>1. PICK v, caches :
            v \in Versions /\ Finish(p, Copy(v), caches) /\ fetch[p].want \in {None, v}
    BY AcceptIsGenuine, OriginIsHonest
  <1>2. cache' \in {cache, [cache EXCEPT ![p] = Copy(v)]}
    BY <1>1 DEF Finish
  <1>3. fetch' = [fetch EXCEPT ![p] = NoFetch] /\ UNCHANGED <<mode, reports>>
    BY <1>1 DEF Finish
  <1> QED
    BY <1>1, <1>2, <1>3, FetchTyped, CopyShape

\* No other step changes the cache of a peer that is fetching.
LEMMA NoOtherFills ==
    ASSUME DhtFetchInv, [Next]_vars, NEW p \in Peers, fetch[p].at # "idle",
           ~Accept(p), ~OriginAnswered(p)
    PROVE  cache'[p] = NoCopy
  <1>0. cache[p] = NoCopy
    BY DEF DhtFetchInv, FetchingIsMissing
  <1>1. CASE \E q \in Peers, want \in Versions \cup {None} : Start(q, want)
    <2>1. PICK q \in Peers, want \in Versions \cup {None} : Start(q, want)
      BY <1>1
    <2>2. p # q /\ cache' = [cache EXCEPT ![q] = Kept(q, want)]
      BY <2>1 DEF Start
    <2> QED
      BY <1>0, <2>2, FetchTyped
  <1>2. CASE \E q \in Peers : Accept(q) \/ OriginAnswered(q)
    BY <1>0, <1>2, FinishFills
  <1>3. CASE \E q \in Peers : FetchStep(q) /\ ~Accept(q) /\ ~OriginAnswered(q)
    BY <1>0, <1>3
       DEF FetchStep, DhtAnswered, DhtFailed, CoordinatorAnswered, CoordinatorFailed, Ask, Serve,
           Unreachable, NotFound, WrongVersion, WrongChecksum, OriginFailed, Retry, Proceed
  <1>4. CASE \E q \in Peers : PostStep(q)
    BY <1>0, <1>4
       DEF PostStep, Announce, Publish, PublishFailed, Register, RepublishCached, PublishAgain,
           Update
  <1>5. CASE \E q \in Peers : Drop(q) \/ Crash(q) \/ Overwritten(q) \/ Evict(q) \/ Judge(q)
    BY <1>0, <1>5, FetchTyped DEF Drop, Crash, Overwritten, Evict, Judge
  <1>6. CASE UNCHANGED vars
    BY <1>0, <1>6 DEF vars
  <1> QED
    BY <1>1, <1>2, <1>3, <1>4, <1>5, <1>6 DEF Next

\* A fetch that asked for a version does not end with another one in the cache,
\* whatever changes under it (client.py:242-260).
THEOREM DhtVersionHonoured == Spec => VersionIsHonoured
  <1> DEFINE Honours ==
        \A p \in Peers :
            (fetch[p].at # "idle" /\ fetch'[p].at = "idle" /\ cache'[p] # NoCopy)
                => fetch[p].want \in {None, cache'[p].version}
  <1>1. DhtFetchInv /\ [Next]_vars => [Honours]_vars
    <2> SUFFICES ASSUME DhtFetchInv, [Next]_vars, NEW p \in Peers,
                        fetch[p].at # "idle", cache'[p] # NoCopy
                 PROVE  fetch[p].want \in {None, cache'[p].version}
      OBVIOUS
    <2>1. cache[p] = NoCopy
      BY DEF DhtFetchInv, FetchingIsMissing
    <2>2. Accept(p) \/ OriginAnswered(p)
      BY NoOtherFills
    <2> QED
      BY <2>1, <2>2, FinishFills
  <1> QED
    BY <1>1, DhtFetchInvariant, PTL DEF Spec, VersionIsHonoured

-----------------------------------------------------------------------------
(***************************************************************************)
(* What is known of a fetch in progress beyond its type: the invariant     *)
(* behind the two theorems about candidates.                               *)
(***************************************************************************)
\* A steady candidate has an honest copy that the fetch will take.
Stays(f, q) ==
    /\ Honest(q)
    /\ cache[q].version # None
    /\ f.want \in {None, cache[q].version}
    /\ f.meta \in {NoCopy, cache[q]}

Sound(f) ==
    /\ f.meta # NoCopy => f.fallback
    /\ f.at \in {"idle", "dht"} => f.meta = NoCopy
    /\ f.at = "coordinator" => f.fallback
    /\ f.at \in {"idle", "dht", "coordinator"} => f.steady = {}
    /\ f.at = "trying" => f.steady \subseteq f.left
    /\ f.at \in {"asking", "answered"} => f.steady \subseteq f.left \cup f.from
    /\ f.at = "answered" => \A q \in f.from : Honest(q) => f.data.genuine
    /\ f.at = "answered" => \A q \in f.from \cap f.steady : f.data = cache[q]
    /\ \A q \in f.steady : Stays(f, q)

AllSound == \A p \in Peers : Sound(fetch[p])

SoundInv == DhtFetchInv /\ AllSound

LEMMA NoFetchIsSound == Sound(NoFetch)
  BY DEF Sound, NoFetch

\* A list that is not cut is tried in full.
LEMMA UncutIsWhole ==
    ASSUME NEW p \in Peers, NEW found \in SUBSET Peers,
           Cardinality(found \ {p}) <= MaxProviders
    PROVE  Selected(p, found) = found \ {p}
  <1> DEFINE others == found \ {p}
  <1>1. IsFiniteSet(others)
    BY FS_Subset
  <1>2. ASSUME NEW q \in others
        PROVE  Cardinality({r \in others : Before(p, r, q)}) < MaxProviders
    <2>1. {r \in others : Before(p, r, q)} \subseteq others \ {q}
      OBVIOUS
    <2>2. /\ IsFiniteSet(others \ {q})
          /\ Cardinality(others \ {q}) = Cardinality(others) - 1
      BY <1>1, FS_RemoveElement
    <2>3. /\ IsFiniteSet({r \in others : Before(p, r, q)})
          /\ Cardinality({r \in others : Before(p, r, q)}) <= Cardinality(others \ {q})
      BY <2>1, <2>2, FS_Subset
    <2>4. /\ Cardinality(others) \in Nat
          /\ Cardinality({r \in others : Before(p, r, q)}) \in Nat
      BY <1>1, <2>3, FS_CardinalityType
    <2>5. MaxProviders \in Nat
      OBVIOUS
    <2> HIDE DEF others
    <2>6. Cardinality(others) <= MaxProviders
      BY DEF others
    <2> QED
      BY <2>2, <2>3, <2>4, <2>5, <2>6
  <1> QED
    BY <1>2 DEF Selected

\* A step that changes one fetch leaves the others sound.
LEMMA ProceedSound ==
    ASSUME SoundInv, NEW p \in Peers, NEW next, Proceed(p, next), Sound(next)
    PROVE  AllSound'
  <1>1. UNCHANGED <<mode, cache>> /\ fetch' = [fetch EXCEPT ![p] = next]
    BY DEF Proceed
  <1>2. ASSUME NEW q \in Peers
        PROVE  Sound(fetch'[q])
    BY <1>1, FetchTyped DEF SoundInv, AllSound
  <1> QED
    BY <1>1, <1>2 DEF AllSound, Sound, Stays, Honest

\* The candidates of a lookup are steady if they hold what is looked for.
LEMMA LookupSound ==
    ASSUME SoundInv, NEW p \in Peers,
           DhtAnswered(p) \/ DhtFailed(p) \/ CoordinatorAnswered(p) \/ CoordinatorFailed(p)
    PROVE  AllSound'
  <1>1. PICK f \in Fetches : f = fetch[p] /\ Sound(f)
    BY FetchTyped DEF SoundInv, AllSound
  <1>2. \A q \in Peers : cache[q] \in Copies /\ cache[q].genuine
    BY FetchTyped DEF SoundInv
  <1>3. CASE DhtAnswered(p) /\ Listed(f.want) # {}
    <2>1. Listed(f.want) \in SUBSET Peers
      BY DEF Listed
    <2>2. PICK left, steady :
            /\ Proceed(p, [f EXCEPT !.at = "trying", !.left = left, !.steady = steady])
            /\ left = Selected(p, Listed(f.want))
            /\ steady = IF Cardinality(Listed(f.want) \ {p}) > MaxProviders THEN {}
                        ELSE Holding(Listed(f.want) \ {p}, f.want)
      BY <1>1, <1>3 DEF DhtAnswered
    <2>3. steady \subseteq left
      <3>1. CASE Cardinality(Listed(f.want) \ {p}) > MaxProviders
        BY <2>2, <3>1
      <3>2. CASE Cardinality(Listed(f.want) \ {p}) <= MaxProviders
        <4>1. left = Listed(f.want) \ {p}
          BY <2>1, <2>2, <3>2, UncutIsWhole
        <4> QED
          BY <2>2, <4>1 DEF Holding
      <3>3. Cardinality(Listed(f.want) \ {p}) \in Nat /\ MaxProviders \in Nat
        <4>1. IsFiniteSet(Listed(f.want) \ {p})
          BY <2>1, FS_Subset
        <4> QED
          BY <4>1, FS_CardinalityType
      <3> QED
        BY <3>1, <3>2, <3>3
    <2>4. \A q \in steady : Honest(q) /\ Matches(f.want, cache[q].version)
      BY <2>2 DEF Holding
    <2>5. f.at = "dht" /\ f.meta = NoCopy
      BY <1>1, <1>3 DEF DhtAnswered, Sound
    <2>6. PICK next : next = [f EXCEPT !.at = "trying", !.left = left, !.steady = steady]
      OBVIOUS
    <2>7. /\ next.at = "trying" /\ next.left = left /\ next.steady = steady
          /\ next.meta = NoCopy /\ next.want = f.want
      BY <2>5, <2>6 DEF Fetches
    <2>8. Sound(next)
      BY <2>3, <2>4, <2>7 DEF Sound, Stays, Matches
    <2> QED
      BY <2>2, <2>6, <2>8, ProceedSound
  <1>4. CASE DhtFailed(p) \/ (DhtAnswered(p) /\ Listed(f.want) = {})
    <2>1. Proceed(p, [f EXCEPT !.at = "coordinator", !.fallback = TRUE]) /\ f.at = "dht"
      BY <1>1, <1>4 DEF DhtFailed, DhtAnswered
    <2>2. Sound([f EXCEPT !.at = "coordinator", !.fallback = TRUE])
      BY <1>1, <2>1 DEF Sound, Fetches
    <2> QED
      BY <2>1, <2>2, ProceedSound
  <1>5. CASE CoordinatorAnswered(p)
    <2>1. PICK found, meta, steady :
            /\ found \in SUBSET Holders(f.want)
            /\ Proceed(p, [f EXCEPT !.at = "trying", !.left = found, !.meta = meta,
                                    !.steady = steady])
            /\ meta = IF Matches(f.want, current.version) THEN current ELSE NoCopy
            /\ steady = IF current.genuine THEN Holding(found \ {p}, current.version) ELSE {}
      BY <1>1, <1>5 DEF CoordinatorAnswered
    <2>2. f.fallback /\ f.at = "coordinator"
      BY <1>1, <1>5 DEF CoordinatorAnswered, Sound
    <2>3. steady \subseteq found
      BY <2>1 DEF Holding
    <2>4. ASSUME NEW q \in steady
          PROVE  /\ Honest(q) /\ cache[q].version # None
                 /\ f.want \in {None, cache[q].version}
                 /\ meta = cache[q]
      <3>1. /\ Honest(q) /\ current.genuine /\ q \in Peers
            /\ Matches(current.version, cache[q].version) /\ q \in Holders(f.want)
        BY <2>1, <2>3 DEF Holding, Holders
      <3>2. Matches(f.want, current.version) /\ current.version = cache[q].version
        BY <3>1 DEF Holders, Matches
      <3>3. current \in Copies
        BY DEF SoundInv, DhtFetchInv, DhtFetchTypeOK
      <3>4. current = cache[q]
        BY <1>2, <3>1, <3>2, <3>3, CopyShape
      <3> QED
        BY <2>1, <3>1, <3>2, <3>4 DEF Matches
    <2>5. PICK next : next = [f EXCEPT !.at = "trying", !.left = found, !.meta = meta,
                                       !.steady = steady]
      OBVIOUS
    <2>6. /\ next.at = "trying" /\ next.left = found /\ next.steady = steady
          /\ next.meta = meta /\ next.want = f.want /\ next.fallback
      BY <2>2, <2>5 DEF Fetches
    <2>7. Sound(next)
      BY <2>3, <2>4, <2>6 DEF Sound, Stays
    <2> QED
      BY <2>1, <2>5, <2>7, ProceedSound
  <1>6. CASE CoordinatorFailed(p)
    <2>1. Proceed(p, [f EXCEPT !.at = "trying"]) /\ f.at = "coordinator"
      BY <1>1, <1>6 DEF CoordinatorFailed
    <2>2. Sound([f EXCEPT !.at = "trying"])
      BY <1>1, <2>1 DEF Sound, Stays, Fetches
    <2> QED
      BY <2>1, <2>2, ProceedSound
  <1> QED
    BY <1>3, <1>4, <1>5, <1>6

\* An answer that is rejected comes from no steady candidate.
LEMMA RejectedIsUnsteady ==
    ASSUME SoundInv, NEW p \in Peers, WrongVersion(p) \/ NotFound(p) \/ WrongChecksum(p),
           NEW q \in fetch[p].from
    PROVE  q \notin fetch[p].steady
  <1> SUFFICES ASSUME q \in fetch[p].steady
               PROVE  FALSE
    OBVIOUS
  <1>1. PICK f \in Fetches : f = fetch[p] /\ Sound(f) /\ f.at = "answered"
    BY FetchTyped DEF SoundInv, AllSound, WrongVersion, NotFound, WrongChecksum
  <1>2. q \in Peers /\ cache[q] \in Copies /\ cache[q].genuine
    <2>1. q \in Peers
      BY <1>1, FetchShape
    <2> QED
      BY <2>1, FetchTyped DEF SoundInv
  <1>3. f.data = cache[q] /\ Stays(f, q)
    BY <1>1 DEF Sound
  <1>4. /\ f.data \in Copies /\ f.data.genuine /\ f.data.version # None
        /\ f.want \in {None, f.data.version} /\ f.meta \in {NoCopy, f.data}
    BY <1>2, <1>3 DEF Stays
  <1>5. Judged(p) = f.data
    BY <1>1, <1>4, CopyShape DEF Judged
  <1> QED
    BY <1>1, <1>4, <1>5
       DEF WrongVersion, NotFound, WrongChecksum, OtherVersion, ChecksumMatches

\* Asking, and taking or leaving an answer.
LEMMA TryingSound ==
    ASSUME SoundInv, NEW p \in Peers,
           \/ Ask(p) \/ Unreachable(p) \/ WrongVersion(p) \/ OriginFailed(p)
           \/ NotFound(p) \/ WrongChecksum(p) \/ \E q \in Peers : Serve(p, q)
    PROVE  AllSound'
  <1>1. PICK f \in Fetches : f = fetch[p] /\ Sound(f)
    BY FetchTyped DEF SoundInv, AllSound
  <1>2. CASE Ask(p)
    <2>1. PICK q \in f.left :
              Proceed(p, [f EXCEPT !.at = "asking", !.left = @ \ {q}, !.from = {q}])
      BY <1>1, <1>2 DEF Ask
    <2>2. f.at = "trying"
      BY <1>1, <1>2 DEF Ask
    <2>3. Sound([f EXCEPT !.at = "asking", !.left = @ \ {q}, !.from = {q}])
      BY <1>1, <2>2 DEF Sound, Stays, Fetches
    <2> QED
      BY <2>1, <2>3, ProceedSound
  <1>3. CASE Unreachable(p)
    <2>1. f.at = "asking"
          /\ Proceed(p, [f EXCEPT !.at = "trying", !.from = {}, !.steady = @ \ f.from])
      BY <1>1, <1>3 DEF Unreachable
    <2>2. Sound([f EXCEPT !.at = "trying", !.from = {}, !.steady = @ \ f.from])
      BY <1>1, <2>1 DEF Sound, Stays, Fetches
    <2> QED
      BY <2>1, <2>2, ProceedSound
  <1>4. CASE WrongVersion(p) \/ NotFound(p) \/ WrongChecksum(p)
    <2>1. PICK meta \in {f.meta, NoCopy} : Retry(p, meta)
      BY <1>1, <1>4 DEF WrongVersion, NotFound, WrongChecksum
    <2>2. f.at = "answered" /\ f.steady \subseteq f.left
      BY <1>1, <1>4, RejectedIsUnsteady DEF WrongVersion, NotFound, WrongChecksum, Sound
    <2>3. PICK next : next = [f EXCEPT !.at = "trying", !.meta = meta, !.from = {},
                                       !.data = NoCopy]
      OBVIOUS
    <2>4. /\ next.at = "trying" /\ next.meta = meta /\ next.left = f.left
          /\ next.steady = f.steady /\ next.want = f.want /\ next.fallback = f.fallback
      BY <2>3 DEF Fetches
    <2>5. Sound(next)
      BY <1>1, <2>1, <2>2, <2>4 DEF Sound, Stays
    <2> QED
      BY <1>1, <2>1, <2>3, <2>5, ProceedSound DEF Retry
  <1>5. CASE OriginFailed(p)
    BY <1>5, NoFetchIsSound, ProceedSound DEF OriginFailed
  <1>6. CASE \E q \in Peers : Serve(p, q)
    <2>1. PICK q \in Peers : Serve(p, q)
      BY <1>6
    <2>2. PICK data : data = [cache[q] EXCEPT !.genuine = @ /\ Honest(q)]
      OBVIOUS
    <2>3. f.at = "asking" /\ f.from = {q}
          /\ Proceed(p, [f EXCEPT !.at = "answered", !.data = data])
      BY <1>1, <2>1, <2>2 DEF Serve
    <2>4. Honest(q) => data = cache[q] /\ data.genuine
      <3>1. cache[q] \in Copies /\ cache[q].genuine
        BY FetchTyped DEF SoundInv
      <3> QED
        BY <2>2, <3>1 DEF Copies
    <2>5. PICK next : next = [f EXCEPT !.at = "answered", !.data = data]
      OBVIOUS
    <2>6. /\ next.at = "answered" /\ next.meta = f.meta /\ next.left = f.left
          /\ next.steady = f.steady /\ next.want = f.want /\ next.fallback = f.fallback
          /\ next.from = {q} /\ next.data = data
      BY <2>3, <2>5 DEF Fetches
    <2>7. Sound(next)
      BY <1>1, <2>3, <2>4, <2>6 DEF Sound, Stays
    <2> QED
      BY <2>3, <2>5, <2>7, ProceedSound
  <1> QED
    BY <1>2, <1>3, <1>4, <1>5, <1>6

\* A steady candidate holds a copy, so it is not fetching.
LEMMA SteadyIsIdle ==
    ASSUME SoundInv, NEW p \in Peers, NEW q \in fetch[p].steady
    PROVE  q \in Peers /\ cache[q] # NoCopy /\ fetch[q].at = "idle" /\ p # q
  <1>1. PICK f \in Fetches : f = fetch[p] /\ Sound(f)
    BY FetchTyped DEF SoundInv, AllSound
  <1>2. q \in Peers
    BY <1>1, FetchShape
  <1>3. cache[q] # NoCopy
    BY <1>1, CopyShape DEF Sound, Stays
  <1>4. fetch[q].at = "idle"
    BY <1>2, <1>3 DEF SoundInv, DhtFetchInv, FetchingIsMissing
  <1> QED
    BY <1>1, <1>2, <1>3, <1>4 DEF Sound

\* A copy changes only where no other fetch's steady candidate is.
LEMMA FinishSound ==
    ASSUME SoundInv, NEW p \in Peers, Accept(p) \/ OriginAnswered(p)
    PROVE  AllSound'
  <1>1. /\ \A q \in Peers \ {p} : cache'[q] = cache[q]
        /\ fetch' = [fetch EXCEPT ![p] = NoFetch]
        /\ mode' = mode
    BY FinishFills DEF SoundInv
  <1>2. fetch[p].at # "idle"
    BY DEF Accept, OriginAnswered
  <1>3. ASSUME NEW q \in Peers \ {p}
        PROVE  /\ fetch'[q] = fetch[q] /\ Sound(fetch[q])
               /\ \A r \in fetch[q].steady : cache'[r] = cache[r]
    BY <1>1, <1>2, FetchTyped, SteadyIsIdle DEF SoundInv, AllSound
  <1>4. ASSUME NEW q \in Peers \ {p}
        PROVE  Sound(fetch[q])'
    BY <1>1, <1>3 DEF Sound, Stays, Honest
  <1>5. fetch'[p] = NoFetch
    BY <1>1, FetchTyped DEF SoundInv
  <1>6. Sound(fetch[p])'
    BY <1>5 DEF Sound, NoFetch
  <1> QED
    BY <1>4, <1>6 DEF AllSound

\* When p's copy goes, p is nobody's steady candidate any more.
LEMMA UnsteadySound ==
    ASSUME SoundInv, NEW p \in Peers, mode' = mode,
           \A q \in Peers \ {p} : cache'[q] = cache[q],
           \A q \in Peers : \/ fetch'[q] = Unsteady(p)[q]
                            \/ fetch'[q].at \in {"idle", "dht"} /\ fetch'[q].steady = {}
                                  /\ fetch'[q].meta = NoCopy
    PROVE  AllSound'
  <1>1. ASSUME NEW q \in Peers
        PROVE  Sound(fetch[q])'
    <2>1. CASE fetch'[q] = Unsteady(p)[q]
      <3>1. PICK f \in Fetches : f = fetch[q] /\ Sound(f)
        BY FetchTyped DEF SoundInv, AllSound
      <3>2. PICK g : g = [f EXCEPT !.steady = @ \ {p}]
        OBVIOUS
      <3>3. fetch'[q] = g
        BY <2>1, <3>1, <3>2 DEF Unsteady
      <3>4. /\ g.at = f.at /\ g.meta = f.meta /\ g.left = f.left /\ g.from = f.from
            /\ g.data = f.data /\ g.want = f.want /\ g.fallback = f.fallback
            /\ g.steady = f.steady \ {p} /\ g.steady \subseteq Peers \ {p}
        BY <3>2 DEF Fetches
      <3>5. \A r \in g.steady : cache'[r] = cache[r]
        BY <3>4
      <3> QED
        BY <3>1, <3>3, <3>4, <3>5 DEF Sound, Stays, Honest
    <2>2. CASE /\ fetch'[q].at \in {"idle", "dht"} /\ fetch'[q].steady = {}
               /\ fetch'[q].meta = NoCopy
      BY <2>2 DEF Sound
    <2> QED
      BY <2>1, <2>2
  <1> QED
    BY <1>1 DEF AllSound

LEMMA SameSound ==
    ASSUME SoundInv, UNCHANGED <<mode, cache, fetch>>
    PROVE  AllSound'
  BY DEF SoundInv, AllSound, Sound, Stays, Honest

LEMMA StartSound ==
    ASSUME SoundInv, NEW p \in Peers, NEW want \in Versions \cup {None}, Start(p, want)
    PROVE  AllSound'
  <1>1. CASE Kept(p, want) # NoCopy
    <2>1. Kept(p, want) = cache[p]
      BY <1>1 DEF Kept
    <2>2. UNCHANGED <<mode, cache, fetch>>
      BY <1>1, <2>1, FetchTyped DEF Start, SoundInv
    <2> QED
      BY <2>2, SameSound
  <1>2. CASE Kept(p, want) = NoCopy
    <2>1. PICK new : new = [NoFetch EXCEPT !.at = "dht", !.want = want, !.barred = quarantined]
      OBVIOUS
    <2>2. /\ fetch' = [Unsteady(p) EXCEPT ![p] = new]
          /\ cache' = [cache EXCEPT ![p] = Kept(p, want)]
          /\ mode' = mode
      BY <1>2, <2>1 DEF Start
    <2>3. new.at = "dht" /\ new.steady = {} /\ new.meta = NoCopy
      BY <2>1 DEF NoFetch
    <2>4. \A q \in Peers : fetch'[q] = IF q = p THEN new ELSE Unsteady(p)[q]
      BY <2>2, UnsteadyTyped DEF SoundInv
    <2>5. \A q \in Peers \ {p} : cache'[q] = cache[q]
      BY <2>2, FetchTyped DEF SoundInv
    <2> QED
      BY <2>2, <2>3, <2>4, <2>5, UnsteadySound
  <1> QED
    BY <1>1, <1>2

LEMMA EnvironmentSound ==
    ASSUME SoundInv, NEW p \in Peers,
           Drop(p) \/ Crash(p) \/ Overwritten(p) \/ Evict(p) \/ Judge(p)
    PROVE  AllSound'
  <1>1. CASE Drop(p) \/ Crash(p)
    <2>1. /\ fetch' = Unsteady(p) \/ fetch' = [Unsteady(p) EXCEPT ![p] = NoFetch]
          /\ cache' = [cache EXCEPT ![p] = NoCopy]
          /\ mode' = mode
      BY <1>1 DEF Drop, Crash
    <2>2. \A q \in Peers : fetch'[q] \in {Unsteady(p)[q], NoFetch}
      BY <2>1, UnsteadyTyped DEF SoundInv
    <2>3. NoFetch.at = "idle" /\ NoFetch.steady = {} /\ NoFetch.meta = NoCopy
      BY DEF NoFetch
    <2>4. \A q \in Peers \ {p} : cache'[q] = cache[q]
      BY <2>1, FetchTyped DEF SoundInv
    <2> QED
      BY <2>1, <2>2, <2>3, <2>4, UnsteadySound
  <1>2. CASE Overwritten(p) \/ Evict(p) \/ Judge(p)
    BY <1>2, SameSound DEF Overwritten, Evict, Judge
  <1> QED
    BY <1>1, <1>2

LEMMA SoundKept == SoundInv /\ [Next]_vars => SoundInv'
  <1> SUFFICES ASSUME SoundInv, [Next]_vars
               PROVE  AllSound'
    BY DhtFetchInvKept DEF SoundInv
  <1>1. CASE \E p \in Peers, want \in Versions \cup {None} : Start(p, want)
    BY <1>1, StartSound
  <1>2. CASE \E p \in Peers : Accept(p) \/ OriginAnswered(p)
    BY <1>2, FinishSound
  <1>3. CASE \E p \in Peers : FetchStep(p) /\ ~Accept(p) /\ ~OriginAnswered(p)
    BY <1>3, LookupSound, TryingSound DEF FetchStep
  <1>4. CASE \E p \in Peers : PostStep(p)
    BY <1>4, SameSound
       DEF PostStep, Announce, Publish, PublishFailed, Register, RepublishCached, PublishAgain,
           Update
  <1>5. CASE \E p \in Peers : Drop(p) \/ Crash(p) \/ Overwritten(p) \/ Evict(p) \/ Judge(p)
    BY <1>5, EnvironmentSound
  <1>6. CASE UNCHANGED vars
    BY <1>6, SameSound DEF vars
  <1> QED
    BY <1>1, <1>2, <1>3, <1>4, <1>5, <1>6 DEF Next

LEMMA SoundInit == Init => SoundInv
  BY DhtFetchInvInit, NoFetchIsSound DEF Init, SoundInv, AllSound

LEMMA SoundInvariant == Spec => []SoundInv
  BY SoundInit, SoundKept, PTL DEF Spec

\* Candidates that are gone, corrupting, unreachable or of another version do not
\* keep a fetch from the good one behind them: a peer that is listed, in a list that
\* is not cut, and goes on holding the object is asked before the origin is
\* (client.py:225-336, 571-595).
THEOREM SteadyHolderAsked == Spec => []SteadyHolderIsAsked
  <1>1. SoundInv => SteadyHolderIsAsked
    BY DEF SoundInv, AllSound, Sound, SteadyHolderIsAsked
  <1> QED
    BY <1>1, SoundInvariant, PTL

-----------------------------------------------------------------------------
\* Only an answer with the wrong checksum brings an accusation of corrupting, and
\* it is of the peer that gave it.
LEMMA AccusedAnswered ==
    ASSUME SoundInv, [Next]_vars, NEW r \in reports' \ reports, r.reason = "checksum_mismatch"
    PROVE  \E p \in Peers : WrongChecksum(p) /\ r.accused \in fetch[p].from
  <1>1. \E p \in Peers : NotFound(p) \/ WrongChecksum(p)
    <2>1. CASE \E p \in Peers, want \in Versions \cup {None} : Start(p, want)
      BY <2>1 DEF Start
    <2>2. CASE \E p \in Peers : Accept(p) \/ OriginAnswered(p)
      BY <2>2, FinishFills DEF SoundInv
    <2>3. CASE \E p \in Peers : FetchStep(p) /\ ~Accept(p) /\ ~OriginAnswered(p)
                                             /\ ~NotFound(p) /\ ~WrongChecksum(p)
      BY <2>3
         DEF FetchStep, DhtAnswered, DhtFailed, CoordinatorAnswered, CoordinatorFailed, Ask,
             Serve, Unreachable, WrongVersion, OriginFailed
    <2>4. CASE \E p \in Peers : PostStep(p)
      BY <2>4
         DEF PostStep, Announce, Publish, PublishFailed, Register, RepublishCached,
             PublishAgain, Update
    <2>5. CASE \E p \in Peers : Drop(p) \/ Crash(p) \/ Overwritten(p) \/ Evict(p) \/ Judge(p)
      BY <2>5 DEF Drop, Crash, Overwritten, Evict, Judge
    <2>6. CASE UNCHANGED vars
      BY <2>6 DEF vars
    <2> QED
      BY <2>1, <2>2, <2>3, <2>4, <2>5, <2>6 DEF Next
  <1>2. PICK p, reason : /\ p \in Peers /\ Report(p, reason)
                         /\ reason = "checksum_mismatch" => WrongChecksum(p)
    BY <1>1 DEF NotFound, WrongChecksum
  <1>3. r \in {[accused |-> q, reason |-> reason] : q \in fetch[p].from \ {p}}
    BY <1>2 DEF Report
  <1>4. reason = "checksum_mismatch" /\ r.accused \in fetch[p].from
    BY <1>3
  <1> QED
    BY <1>2, <1>4

\* Along the DHT's path an honest peer is never accused of corrupting: an answer is
\* judged by the metadata of who gave it (client.py:242-247, 259, 279).
THEOREM HonestNotAccused == Spec => HonestIsNotAccused
  <1> DEFINE Just ==
        \A r \in reports' \ reports :
            r.reason = "checksum_mismatch" =>
                \/ mode[r.accused] = "serve_corrupted"
                \/ \E p \in Peers : r.accused \in fetch[p].from /\ fetch[p].fallback
  <1>1. SoundInv /\ [Next]_vars => [Just]_vars
    <2> SUFFICES ASSUME SoundInv, [Next]_vars, NEW r \in reports' \ reports,
                        r.reason = "checksum_mismatch",
                        \A p \in Peers : r.accused \in fetch[p].from => ~fetch[p].fallback
                 PROVE  mode[r.accused] = "serve_corrupted"
      OBVIOUS
    <2>1. PICK p \in Peers : WrongChecksum(p) /\ r.accused \in fetch[p].from
      BY AccusedAnswered
    <2>2. PICK f \in Fetches : f = fetch[p] /\ Sound(f)
      BY FetchTyped DEF SoundInv, AllSound
    <2>3. f.meta = NoCopy /\ f.at = "answered"
      BY <2>1, <2>2 DEF Sound, WrongChecksum
    <2>4. ~f.data.genuine
      BY <2>1, <2>2, <2>3, CopyShape DEF WrongChecksum, ChecksumMatches, Judged, Fetches
    <2>5. ~Honest(r.accused)
      BY <2>1, <2>2, <2>3, <2>4 DEF Sound
    <2> QED
      BY <2>5 DEF Honest
  <1> QED
    BY <1>1, SoundInvariant, PTL DEF Spec, HonestIsNotAccused
=============================================================================
