---------------------------- MODULE Fetch_proofs ----------------------------
(***************************************************************************)
(* What holds of fetches for any peers, versions, attackers and bounds:    *)
(* the state is well typed, caches hold genuine bytes only, a fetch that   *)
(* asked for a version does not end with another, and an invalidation that *)
(* nothing overlaps leaves no copy.                                        *)
(***************************************************************************)
EXTENDS Fetch, TLAPS

\* While a peer fetches it has no copy: the fetch began with a miss.
FetchingIsMissing == \A p \in Peers : fetch[p].at # "idle" => cache[p] = NoCopy

FetchInv == FetchTypeOK /\ CachesAreGenuine /\ FetchingIsMissing

USE FetchAssumption

FetchRecords ==
    [at : Places, want : Versions \cup {None}, left : SUBSET Peers,
     meta : Versions \cup {None}, from : SUBSET Peers, data : Copies, aged : BOOLEAN]

\* A fetch keeps its shape when its fields are set as the steps set them.
LEMMA FetchShape ==
    ASSUME NEW f \in FetchRecords
    PROVE  /\ f.at \in Places /\ f.want \in Versions \cup {None}
           /\ f.left \in SUBSET Peers /\ f.meta \in Versions \cup {None}
           /\ f.from \in SUBSET Peers /\ f.data \in Copies
           /\ \A at \in Places : [f EXCEPT !.at = at] \in FetchRecords
           /\ \A at \in Places, left \in SUBSET Peers :
                 [f EXCEPT !.at = at, !.left = left] \in FetchRecords
           /\ \A at \in Places, left \in SUBSET Peers, meta \in Versions \cup {None} :
                 [f EXCEPT !.at = at, !.left = left, !.meta = meta] \in FetchRecords
           /\ \A at \in Places, left, from \in SUBSET Peers :
                 [f EXCEPT !.at = at, !.left = left, !.from = from] \in FetchRecords
           /\ \A at \in Places, from \in SUBSET Peers :
                 [f EXCEPT !.at = at, !.from = from] \in FetchRecords
           /\ \A at \in Places, data \in Copies, aged \in BOOLEAN :
                 [f EXCEPT !.at = at, !.data = data, !.aged = aged] \in FetchRecords
           /\ \A at \in Places, meta \in Versions \cup {None} :
                 [f EXCEPT !.at = at, !.meta = meta, !.from = {}, !.data = NoCopy,
                           !.aged = FALSE] \in FetchRecords
           /\ [f EXCEPT !.aged = TRUE] \in FetchRecords
  BY DEF FetchRecords, Copies, NoCopy, None

LEMMA NoFetchShape == NoFetch \in FetchRecords /\ NoCopy \in Copies
  BY DEF FetchRecords, NoFetch, Copies, NoCopy, None, Places

\* What a step of a fetch that changes only the fetch keeps.
LEMMA ProceedKeeps ==
    ASSUME NEW p \in Peers, NEW next, FetchInv, Proceed(p, next),
           next \in FetchRecords, next.at # "idle" => fetch[p].at # "idle",
           faults' \in 0..MaxFaults,
           reports' \subseteq [accused : Peers, reason : {"unavailable", "checksum_mismatch"}]
    PROVE  FetchInv'
  BY DEF FetchInv, FetchTypeOK, CachesAreGenuine, FetchingIsMissing, Proceed, noticeVars,
         indexVars, FetchRecords

LEMMA FetchTyped ==
    ASSUME FetchInv, NEW p \in Peers
    PROVE  fetch[p] \in FetchRecords /\ fetch \in [Peers -> FetchRecords]
  BY DEF FetchInv, FetchTypeOK, FetchRecords

\* A fetch starts, after a miss.
LEMMA StartKeeps ==
    ASSUME FetchInv, NEW p \in Peers, NEW want \in Versions \cup {None}, Start(p, want)
    PROVE  FetchInv'
  <1> DEFINE new == [NoFetch EXCEPT !.at = "lookup", !.want = want]
  <1>1. new \in FetchRecords
    BY DEF NoFetch, FetchRecords, Copies, NoCopy, None, Places
  <1>2. Kept(p, want) \in Copies /\ Kept(p, want).genuine
    BY DEF Kept, FetchInv, FetchTypeOK, CachesAreGenuine, Copies, NoCopy, None
  <1>3. /\ cache' = [cache EXCEPT ![p] = Kept(p, want)]
        /\ IF Kept(p, want) = NoCopy THEN fetch' = [fetch EXCEPT ![p] = new]
                                    ELSE fetch' = fetch
        /\ fetch[p].at = "idle"
        /\ old' \subseteq Peers
        /\ quiet' \in BOOLEAN
        /\ fetches' \in 0..MaxFetches
    BY DEF Start, FetchInv, FetchTypeOK
  <1> HIDE DEF new
  <1>4. FetchTypeOK'
    <2>1. cache' \in [Peers -> Copies]
      BY <1>2, <1>3 DEF FetchInv, FetchTypeOK
    <2>2. fetch' \in [Peers -> FetchRecords]
      BY <1>1, <1>3, FetchTyped
    <2>3. UNCHANGED <<adverts, current, dht, posts, telling, unlisting, reports, faults,
                      invalidations>>
      BY DEF Start, indexVars
    <2> QED
      BY <1>3, <2>1, <2>2, <2>3 DEF FetchInv, FetchTypeOK, FetchRecords
  <1>5. CachesAreGenuine'
    BY <1>2, <1>3 DEF FetchInv, FetchTypeOK, CachesAreGenuine
  <1>6. FetchingIsMissing'
    BY <1>3 DEF FetchInv, FetchTypeOK, FetchingIsMissing
  <1> QED
    BY <1>4, <1>5, <1>6 DEF FetchInv

\* The steps of a fetch that change nothing but the fetch and what it reports.
LEMMA TryingKeeps ==
    ASSUME FetchInv, NEW p \in Peers,
           \/ LookupAnswered(p) \/ LookupFailed(p) \/ DhtAnswered(p) \/ Ask(p)
           \/ Unreachable(p) \/ WrongVersion(p) \/ OriginFailed(p)
           \/ NotFound(p) \/ WrongChecksum(p) \/ \E q \in Peers : Serve(p, q)
    PROVE  FetchInv'
  <1> DEFINE f == fetch[p]
  <1> f \in FetchRecords
    BY FetchTyped
  <1>0. /\ faults \in 0..MaxFaults
        /\ reports \subseteq [accused : Peers, reason : {"unavailable", "checksum_mismatch"}]
        /\ current \in Versions \cup {None}
        /\ Fault => faults' \in 0..MaxFaults
    BY DEF FetchInv, FetchTypeOK, Fault
  <1>1. CASE LookupAnswered(p)
    <2>1. PICK found \in SUBSET Holders(f.want) :
              Proceed(p, [f EXCEPT
                  !.at = IF found = {} THEN "dht" ELSE "trying", !.left = found,
                  !.meta = IF Matches(f.want, current) THEN current ELSE None])
      BY <1>1 DEF LookupAnswered
    <2>2. found \in SUBSET Peers
      BY DEF Holders
    <2> QED
      BY ZenonT(30), <1>0, <1>1, <2>1, <2>2, FetchShape, ProceedKeeps DEF LookupAnswered, Places
  <1>2. CASE LookupFailed(p)
    <2>1. [f EXCEPT !.at = "dht"] \in FetchRecords
      BY FetchShape DEF Places
    <2>2. f.at = "lookup" /\ Fault /\ reports' = reports
          /\ Proceed(p, [f EXCEPT !.at = "dht"])
      BY <1>2 DEF LookupFailed
    <2> QED
      BY <1>0, <2>1, <2>2, ProceedKeeps
  <1>3. CASE DhtAnswered(p)
    <2>1. PICK found \in SUBSET Recorded(p, f.want) :
              Proceed(p, [f EXCEPT !.at = "trying", !.left = found])
      BY <1>3 DEF DhtAnswered
    <2>2. found \in SUBSET Peers
      BY DEF Recorded
    <2> QED
      BY <1>0, <1>3, <2>1, <2>2, FetchShape, ProceedKeeps DEF DhtAnswered, Places
  <1>4. CASE Ask(p)
    <2>1. PICK q \in f.left :
              Proceed(p, [f EXCEPT !.at = "asking", !.left = f.left \ {q}, !.from = {q}])
      BY <1>4 DEF Ask
    <2>2. {q} \in SUBSET Peers /\ f.left \ {q} \in SUBSET Peers
      BY FetchShape
    <2> QED
      BY ZenonT(30), <1>0, <1>4, <2>1, <2>2, FetchShape, ProceedKeeps DEF Ask, Places
  <1>5. CASE Unreachable(p)
    <2>1. [f EXCEPT !.at = "trying", !.from = {}] \in FetchRecords
      BY FetchShape DEF Places
    <2>2. f.at = "asking" /\ Fault /\ reports' = reports
          /\ Proceed(p, [f EXCEPT !.at = "trying", !.from = {}])
      BY <1>5 DEF Unreachable
    <2> QED
      BY <1>0, <2>1, <2>2, ProceedKeeps
  <1>6. CASE WrongVersion(p)
    BY <1>0, <1>6, FetchShape, ProceedKeeps DEF WrongVersion, Retry, Places, None
  <1>7. CASE OriginFailed(p)
    BY <1>0, <1>7, NoFetchShape, ProceedKeeps DEF OriginFailed, Fault, Places, NoFetch
  <1>8. CASE NotFound(p) \/ WrongChecksum(p)
    <2>1. reports' \subseteq [accused : Peers, reason : {"unavailable", "checksum_mismatch"}]
      <3>1. PICK reason \in {"unavailable", "checksum_mismatch"} : Report(p, reason)
        BY <1>8 DEF NotFound, WrongChecksum
      <3>2. f.from \subseteq Peers
        BY FetchShape
      <3> QED
        BY <1>0, <3>1, <3>2 DEF Report
    <2>2. PICK meta \in Versions \cup {None} : Retry(p, meta)
      BY <1>8, FetchShape DEF NotFound, WrongChecksum
    <2>3. f.at = "answered" /\ faults' = faults
      BY <1>8 DEF NotFound, WrongChecksum
    <2> QED
      BY <1>0, <2>1, <2>2, <2>3, FetchShape, ProceedKeeps DEF Retry, Places
  <1>9. CASE \E q \in Peers : Serve(p, q)
    <2>1. PICK q \in Peers : Serve(p, q)
      BY <1>9
    <2> DEFINE data == [cache[q] EXCEPT !.genuine = @ /\ q \notin Corrupting]
    <2>2. data \in Copies
      <3>1. cache[q] \in Copies
        BY DEF FetchInv, FetchTypeOK
      <3> QED
        BY <3>1 DEF Copies
    <2>3. Proceed(p, [f EXCEPT !.at = "answered", !.data = data, !.aged = q \in old])
      BY <2>1 DEF Serve
    <2>4. (q \in old) \in BOOLEAN
      OBVIOUS
    <2>5. f.at = "asking" /\ UNCHANGED <<reports, faults>>
      BY <2>1 DEF Serve
    <2> HIDE DEF data
    <2> QED
      BY <1>0, <2>2, <2>3, <2>4, <2>5, FetchShape, ProceedKeeps DEF Places
  <1> QED
    BY <1>1, <1>2, <1>3, <1>4, <1>5, <1>6, <1>7, <1>8, <1>9

\* A fetch ends with the genuine copy it may be given.
LEMMA FinishKeeps ==
    ASSUME FetchInv, NEW p \in Peers, NEW v \in Versions, NEW aged, NEW caches,
           Finish(p, Copy(v), aged, caches)
    PROVE  FetchInv'
  <1>1. Copy(v) \in Copies /\ Copy(v).genuine /\ Copy(v).version = v
    BY DEF Copy, Copies
  <1>2. FetchTypeOK'
    BY <1>1, NoFetchShape
       DEF Finish, FetchInv, FetchTypeOK, FetchRecords, indexVars, noticeVars
  <1>3. CachesAreGenuine'
    BY <1>1 DEF Finish, FetchInv, FetchTypeOK, CachesAreGenuine
  <1>4. FetchingIsMissing'
    BY DEF Finish, FetchInv, FetchTypeOK, FetchingIsMissing, NoFetch
  <1> QED
    BY <1>2, <1>3, <1>4 DEF FetchInv

LEMMA AcceptKeeps ==
    ASSUME FetchInv, NEW p \in Peers, Accept(p)
    PROVE  FetchInv'
  <1>1. PICK v : v = Judged(p)
    OBVIOUS
  <1>2. fetch[p].data = Copy(v) /\ fetch[p].data.version # None
    BY <1>1 DEF Accept, ChecksumMatches
  <1>3. v \in Versions
    <2>1. fetch[p].data \in Copies
      BY FetchTyped, FetchShape
    <2> QED
      BY <1>2, <2>1 DEF Copy, Copies
  <1>4. PICK aged : aged = fetch[p].aged
    OBVIOUS
  <1>5. Finish(p, Copy(v), aged, TRUE)
    BY <1>2, <1>4 DEF Accept
  <1> QED
    BY <1>3, <1>5, FinishKeeps

LEMMA OriginKeeps ==
    ASSUME FetchInv, NEW p \in Peers, OriginAnswered(p)
    PROVE  FetchInv'
  <1>1. PICK v : v = OriginVersion(fetch[p].want)
    OBVIOUS
  <1>2. v \in Versions
    BY <1>1, FetchTyped, FetchShape DEF OriginVersion
  <1>3. Finish(p, Copy(v), FALSE, p \notin Missing)
    BY <1>1 DEF OriginAnswered
  <1> QED
    BY <1>2, <1>3, FinishKeeps

\* The other steps drop copies at most, and leave fetches what they are.
LEMMA OtherKeeps ==
    ASSUME FetchInv, FetchTypeOK',
           cache' \in [Peers -> Copies],
           \A p \in Peers : cache'[p] \in {cache[p], NoCopy},
           \A p \in Peers : fetch'[p].at = fetch[p].at
    PROVE  FetchInv'
  BY DEF FetchInv, CachesAreGenuine, FetchingIsMissing, NoCopy

LEMMA PostKeeps ==
    ASSUME FetchInv, NEW p \in Peers, PostStep(p)
    PROVE  FetchInv'
  <1> DEFINE Posts == [version : Versions, next : {"announce", "renew", "publish"}]
  <1>0. posts \in [Peers -> SUBSET Posts]
    BY DEF FetchInv, FetchTypeOK
  <1>1. UNCHANGED <<cache, fetch>>
    BY DEF PostStep, Republish, Announce, Publish
  <1>2. CASE Republish(p)
    <2>1. [version |-> cache[p].version, next |-> "renew"] \in Posts
      <3>1. cache[p] \in Copies /\ cache[p].genuine /\ cache[p] # NoCopy
        BY <1>2 DEF Republish, FetchInv, FetchTypeOK, CachesAreGenuine
      <3>2. cache[p].version # None
        BY <3>1 DEF Copies, NoCopy
      <3> QED
        BY <3>1, <3>2 DEF Copies
    <2>2. posts' \in [Peers -> SUBSET Posts]
      BY <1>0, <1>2, <2>1 DEF Republish
    <2>3. FetchTypeOK'
      BY <1>2, <2>2 DEF Republish, FetchInv, FetchTypeOK, indexVars, noticeVars
    <2> QED
      BY <1>1, <2>3, OtherKeeps DEF FetchInv, FetchTypeOK
  <1>3. ASSUME NEW post \in posts[p], Announce(p, post) \/ Publish(p, post)
        PROVE  FetchInv'
    <2>1. post \in Posts /\ post.version \in Versions
      BY <1>0
    <2>2. [post EXCEPT !.next = "publish"] \in Posts
      BY <2>1
    <2>3. posts' \in [Peers -> SUBSET Posts]
      BY <1>0, <1>3, <2>2 DEF Announce, Publish, Posted
    <2>4. dht' \in [Peers -> Versions \cup {None}]
      BY <1>3, <2>1 DEF Announce, Publish, FetchInv, FetchTypeOK
    <2>5. adverts' \in [Peers -> Versions \cup {None}] /\ current' \in Versions \cup {None}
      BY <1>3, <2>1 DEF Announce, Publish, FetchInv, FetchTypeOK, indexVars
    <2>6. faults' \in 0..MaxFaults
      BY <1>3 DEF Announce, Publish, Fault, FetchInv, FetchTypeOK
    <2>7. FetchTypeOK'
      BY <1>3, <2>3, <2>4, <2>5, <2>6
         DEF Announce, Publish, FetchInv, FetchTypeOK, noticeVars
    <2> QED
      BY <1>1, <2>7, OtherKeeps DEF FetchInv, FetchTypeOK
  <1> QED
    BY <1>2, <1>3 DEF PostStep

LEMMA NoticeKeeps ==
    ASSUME FetchInv, NEW p \in Peers, NoticeStep(p) \/ Drop(p) \/ Unlist(p)
    PROVE  FetchInv'
  <1>1. /\ cache' \in [Peers -> Copies]
        /\ \A q \in Peers : cache'[q] \in {cache[q], NoCopy}
        /\ UNCHANGED fetch
    BY NoFetchShape
       DEF NoticeStep, Told, NoticeLost, LeftDht, Drop, Unlist, FetchInv, FetchTypeOK
  <1>2. adverts' \in [Peers -> Versions \cup {None}] /\ current' \in Versions \cup {None}
    BY DEF NoticeStep, Told, NoticeLost, LeftDht, Drop, Unlist, FetchInv, FetchTypeOK, indexVars
  <1>3. dht' \in [Peers -> Versions \cup {None}]
    BY DEF NoticeStep, Told, NoticeLost, LeftDht, Drop, Unlist, FetchInv, FetchTypeOK
  <1>4. faults' \in 0..MaxFaults
    BY DEF NoticeStep, Told, NoticeLost, LeftDht, Drop, Unlist, FetchInv, FetchTypeOK, Fault
  <1>5. FetchTypeOK'
    <2>1. /\ telling' \subseteq Peers /\ unlisting' \subseteq Peers
          /\ old' \subseteq Peers /\ quiet' \in BOOLEAN
      BY DEF NoticeStep, Told, NoticeLost, LeftDht, Drop, Unlist, FetchInv, FetchTypeOK, noticeVars
    <2>2. UNCHANGED <<posts, reports, fetches, invalidations>>
      BY DEF NoticeStep, Told, NoticeLost, LeftDht, Drop, Unlist, noticeVars
    <2> QED
      BY <1>1, <1>2, <1>3, <1>4, <2>1, <2>2 DEF FetchInv, FetchTypeOK
  <1> QED
    BY <1>1, <1>5, OtherKeeps

LEMMA InvalidateKeeps ==
    ASSUME FetchInv, Invalidate
    PROVE  FetchInv'
  <1>1. /\ fetch' \in [Peers -> FetchRecords]
        /\ \A p \in Peers : fetch'[p].at = fetch[p].at
    <2> DEFINE aging(p) == IF fetch[p].at = "answered" THEN [fetch[p] EXCEPT !.aged = TRUE]
                           ELSE fetch[p]
    <2>1. fetch' = [p \in Peers |-> aging(p)]
      BY DEF Invalidate
    <2>2. ASSUME NEW p \in Peers
          PROVE  aging(p) \in FetchRecords /\ aging(p).at = fetch[p].at
      <3>1. fetch[p] \in FetchRecords
        BY FetchTyped
      <3> QED
        BY <3>1 DEF FetchRecords
    <2> QED
      BY <2>1, <2>2
  <1>2. /\ adverts' \in [Peers -> Versions \cup {None}] /\ current' = None
        /\ telling' \subseteq Peers /\ old' \subseteq Peers /\ quiet' \in BOOLEAN
        /\ invalidations' \in 0..MaxInvalidations
        /\ UNCHANGED <<cache, dht, posts, unlisting, reports, fetches, faults>>
    BY DEF Invalidate, Advertisers, AtRest, AllListed, FetchInv, FetchTypeOK
  <1>3. FetchTypeOK'
    BY <1>1, <1>2 DEF FetchInv, FetchTypeOK, FetchRecords
  <1> QED
    BY <1>1, <1>2, <1>3, OtherKeeps DEF FetchInv, FetchTypeOK

-----------------------------------------------------------------------------
\* The steps of a fetch, in one.
LEMMA FetchStepKeeps ==
    ASSUME FetchInv, NEW p \in Peers, FetchStep(p)
    PROVE  FetchInv'
  <1>1. CASE Accept(p)
    BY <1>1, AcceptKeeps
  <1>2. CASE OriginAnswered(p)
    BY <1>2, OriginKeeps
  <1>3. CASE ~Accept(p) /\ ~OriginAnswered(p)
    BY <1>3, TryingKeeps DEF FetchStep
  <1> QED
    BY <1>1, <1>2, <1>3

LEMMA FetchInvKept == FetchInv /\ [Next]_vars => FetchInv'
  <1> SUFFICES ASSUME FetchInv, [Next]_vars
               PROVE  FetchInv'
    OBVIOUS
  <1>1. CASE \E p \in Peers, want \in Versions \cup {None} : Start(p, want)
    BY <1>1, StartKeeps
  <1>2. CASE \E p \in Peers : FetchStep(p)
    BY <1>2, FetchStepKeeps
  <1>3. CASE \E p \in Peers : PostStep(p)
    BY <1>3, PostKeeps
  <1>4. CASE \E p \in Peers : NoticeStep(p) \/ Drop(p) \/ Unlist(p)
    BY <1>4, NoticeKeeps
  <1>5. CASE Invalidate
    BY <1>5, InvalidateKeeps
  <1>6. CASE UNCHANGED vars
    BY <1>6 DEF vars, FetchInv, FetchTypeOK, CachesAreGenuine, FetchingIsMissing
  <1> QED
    BY <1>1, <1>2, <1>3, <1>4, <1>5, <1>6 DEF Next

LEMMA FetchInvInit == Init => FetchInv
  BY NoFetchShape
     DEF Init, FetchInv, FetchTypeOK, CachesAreGenuine, FetchingIsMissing, FetchRecords,
         NoFetch, NoCopy, None

LEMMA FetchInvariant == Spec => []FetchInv
  BY FetchInvInit, FetchInvKept, PTL DEF Spec

\* The state of fetches is well typed.
THEOREM FetchTypeCorrect == Spec => []FetchTypeOK
  <1>1. FetchInv => FetchTypeOK
    BY DEF FetchInv
  <1> QED
    BY <1>1, FetchInvariant, PTL

\* Whoever corrupts, and in whatever order providers are tried, caches hold only
\* what the origin produced (client.py:285-326).
THEOREM CachesGenuine == Spec => []CachesAreGenuine
  <1>1. FetchInv => CachesAreGenuine
    BY DEF FetchInv
  <1> QED
    BY <1>1, FetchInvariant, PTL

-----------------------------------------------------------------------------
\* Only a fetch that ends with a copy gives its peer one, and the copy is of the
\* version it asked for.
LEMMA FinishHonours ==
    ASSUME FetchInv, NEW p \in Peers, Accept(p) \/ OriginAnswered(p)
    PROVE  /\ fetch[p].want \in {None, cache'[p].version} \/ cache'[p] = cache[p]
           /\ \A q \in Peers \ {p} : cache'[q] = cache[q]
  <1>0. cache \in [Peers -> Copies]
    BY DEF FetchInv, FetchTypeOK
  <1>1. CASE Accept(p)
    <2>1. PICK v : v = Judged(p)
      OBVIOUS
    <2>2. cache' = [cache EXCEPT ![p] = Copy(v)] /\ fetch[p].want \in {None, v}
      BY <1>1, <2>1 DEF Accept, Finish, ChecksumMatches, OtherVersion
    <2> QED
      BY <1>0, <2>2 DEF Copy
  <1>2. CASE OriginAnswered(p)
    <2>1. PICK v : v = OriginVersion(fetch[p].want)
      OBVIOUS
    <2>2. /\ cache' = IF p \notin Missing THEN [cache EXCEPT ![p] = Copy(v)] ELSE cache
          /\ fetch[p].want \in {None, v}
      BY <1>2, <2>1 DEF OriginAnswered, Finish, OriginVersion
    <2> QED
      BY <1>0, <2>2 DEF Copy
  <1> QED
    BY <1>1, <1>2

LEMMA NoOtherFills ==
    ASSUME FetchInv, [Next]_vars, NEW p \in Peers, cache[p] = NoCopy, fetch[p].at # "idle",
           ~Accept(p), ~OriginAnswered(p)
    PROVE  cache'[p] = NoCopy
  <1>0. cache \in [Peers -> Copies]
    BY DEF FetchInv, FetchTypeOK
  <1>1. CASE \E q \in Peers, want \in Versions \cup {None} : Start(q, want)
    <2>1. PICK q \in Peers, want \in Versions \cup {None} : Start(q, want)
      BY <1>1
    <2>2. p # q /\ cache' = [cache EXCEPT ![q] = Kept(q, want)]
      BY <2>1 DEF Start
    <2> QED
      BY <1>0, <2>2
  <1>2. CASE \E q \in Peers : Accept(q) \/ OriginAnswered(q)
    BY <1>2, FinishHonours
  <1>3. CASE \E q \in Peers : FetchStep(q) /\ ~Accept(q) /\ ~OriginAnswered(q)
    BY <1>3 DEF FetchStep, LookupAnswered, LookupFailed, DhtAnswered, Ask, Serve, Unreachable,
                NotFound, WrongVersion, WrongChecksum, OriginFailed, Retry, Proceed
  <1>4. CASE \E q \in Peers : PostStep(q)
    BY <1>4 DEF PostStep, Republish, Announce, Publish
  <1>5. CASE \E q \in Peers : NoticeStep(q) \/ Drop(q) \/ Unlist(q)
    BY <1>0, <1>5 DEF NoticeStep, Told, NoticeLost, LeftDht, Drop, Unlist
  <1>6. CASE Invalidate \/ UNCHANGED vars
    BY <1>6 DEF Invalidate, vars
  <1> QED
    BY <1>1, <1>2, <1>3, <1>4, <1>5, <1>6 DEF Next

\* A fetch that asked for a version does not end with another one in the cache,
\* whatever changes under it (client.py:291-303).
THEOREM VersionHonoured == Spec => VersionIsHonoured
  <1> DEFINE Honours ==
        \A p \in Peers :
            (fetch[p].at # "idle" /\ fetch'[p].at = "idle" /\ cache'[p] # NoCopy)
                => fetch[p].want \in {None, cache'[p].version}
  <1>1. FetchInv /\ [Next]_vars => [Honours]_vars
    <2> SUFFICES ASSUME FetchInv, [Next]_vars, NEW p \in Peers,
                        fetch[p].at # "idle", cache'[p] # NoCopy
                 PROVE  fetch[p].want \in {None, cache'[p].version}
      OBVIOUS
    <2>1. cache[p] = NoCopy
      BY DEF FetchInv, FetchingIsMissing
    <2>2. Accept(p) \/ OriginAnswered(p)
      BY <2>1, NoOtherFills
    <2> QED
      BY <2>1, <2>2, FinishHonours
  <1> QED
    BY <1>1, FetchInvariant, PTL DEF Spec, VersionIsHonoured

-----------------------------------------------------------------------------
(***************************************************************************)
(* An invalidation that nothing overlaps.                                  *)
(***************************************************************************)
\* As long as it is quiet, whoever has a copy from before the invalidation is still
\* to be told, no answer under way has such a copy, and no fetch is in progress
\* while peers are told.
StillToBeTold ==
    quiet => /\ old \subseteq telling
             /\ \A p \in Peers : fetch[p].aged = FALSE
             /\ Invalidating => \A p \in Peers : fetch[p].at = "idle"

QuietInv == FetchInv /\ StillToBeTold

\* A fetch in progress finds no copy of before.
LEMMA QuietFetch ==
    ASSUME QuietInv, NEW p \in Peers, fetch[p].at # "idle", quiet
    PROVE  old = {} /\ ~Invalidating
  BY DEF QuietInv, StillToBeTold, Invalidating

LEMMA ProceedQuiet ==
    ASSUME QuietInv, NEW p \in Peers, NEW next, Proceed(p, next), fetch[p].at # "idle",
           quiet => next.aged = FALSE
    PROVE  StillToBeTold'
  <1>1. SUFFICES ASSUME quiet'
                 PROVE  /\ old' \subseteq telling'
                        /\ \A q \in Peers : fetch'[q].aged = FALSE
                        /\ Invalidating' => \A q \in Peers : fetch'[q].at = "idle"
    BY DEF StillToBeTold
  <1>2. quiet /\ UNCHANGED <<old, telling, unlisting>>
    BY <1>1 DEF Proceed, noticeVars
  <1>3. old = {} /\ ~Invalidating
    BY <1>2, QuietFetch
  <1>4. ~Invalidating'
    BY <1>2, <1>3 DEF Invalidating
  <1>5. \A q \in Peers : fetch'[q].aged = FALSE
    BY <1>2, FetchTyped DEF Proceed, QuietInv, StillToBeTold
  <1> QED
    BY <1>2, <1>3, <1>4, <1>5

LEMMA TryingQuiet ==
    ASSUME QuietInv, NEW p \in Peers,
           \/ LookupAnswered(p) \/ LookupFailed(p) \/ DhtAnswered(p) \/ Ask(p)
           \/ Unreachable(p) \/ WrongVersion(p) \/ OriginFailed(p)
           \/ NotFound(p) \/ WrongChecksum(p) \/ \E q \in Peers : Serve(p, q)
    PROVE  StillToBeTold'
  <1> DEFINE f == fetch[p]
  <1>0. f \in FetchRecords /\ (quiet => f.aged = FALSE)
    BY FetchTyped DEF QuietInv, StillToBeTold
  <1>1. f.at # "idle"
    BY DEF LookupAnswered, LookupFailed, DhtAnswered, Ask, Unreachable, WrongVersion,
           OriginFailed, NotFound, WrongChecksum, Serve
  <1>2. ASSUME \E next : Proceed(p, next) /\ next.aged \in {f.aged, FALSE}
        PROVE  StillToBeTold'
    <2>1. PICK next : Proceed(p, next) /\ next.aged \in {f.aged, FALSE}
      BY <1>2
    <2>2. quiet => next.aged = FALSE
      BY <1>0, <2>1
    <2> HIDE DEF f
    <2> QED
      BY <1>1, <2>1, <2>2, ProceedQuiet DEF f
  <1>3. CASE LookupAnswered(p)
    <2>1. PICK at, left, meta :
              Proceed(p, [f EXCEPT !.at = at, !.left = left, !.meta = meta])
      BY <1>3 DEF LookupAnswered
    <2>2. [f EXCEPT !.at = at, !.left = left, !.meta = meta].aged = f.aged
      BY <1>0 DEF FetchRecords
    <2> QED
      BY <1>2, <2>1, <2>2
  <1>4. CASE LookupFailed(p)
    <2>1. Proceed(p, [f EXCEPT !.at = "dht"])
      BY <1>4 DEF LookupFailed
    <2>2. [f EXCEPT !.at = "dht"].aged = f.aged
      BY <1>0 DEF FetchRecords
    <2> QED
      BY <1>2, <2>1, <2>2
  <1>5. CASE DhtAnswered(p)
    <2>1. PICK at, left : Proceed(p, [f EXCEPT !.at = at, !.left = left])
      BY <1>5 DEF DhtAnswered
    <2>2. [f EXCEPT !.at = at, !.left = left].aged = f.aged
      BY <1>0 DEF FetchRecords
    <2> QED
      BY <1>2, <2>1, <2>2
  <1>6. CASE Ask(p)
    <2>1. PICK at, left, from :
              Proceed(p, [f EXCEPT !.at = at, !.left = left, !.from = from])
      BY <1>6 DEF Ask
    <2>2. [f EXCEPT !.at = at, !.left = left, !.from = from].aged = f.aged
      BY <1>0 DEF FetchRecords
    <2> QED
      BY <1>2, <2>1, <2>2
  <1>7. CASE Unreachable(p)
    <2>1. PICK at, from : Proceed(p, [f EXCEPT !.at = at, !.from = from])
      BY <1>7 DEF Unreachable
    <2>2. [f EXCEPT !.at = at, !.from = from].aged = f.aged
      BY <1>0 DEF FetchRecords
    <2> QED
      BY <1>2, <2>1, <2>2
  <1>8. CASE WrongVersion(p) \/ NotFound(p) \/ WrongChecksum(p)
    <2>1. PICK meta : Retry(p, meta)
      BY <1>8 DEF WrongVersion, NotFound, WrongChecksum
    <2> DEFINE next == [f EXCEPT !.at = "trying", !.meta = meta, !.from = {},
                                 !.data = NoCopy, !.aged = FALSE]
    <2>2. next.aged = FALSE
      BY <1>0 DEF FetchRecords
    <2>3. Proceed(p, next)
      BY <2>1 DEF Retry
    <2> HIDE DEF next
    <2> QED
      BY <1>2, <2>2, <2>3
  <1>9. CASE OriginFailed(p)
    <2>1. Proceed(p, NoFetch) /\ NoFetch.aged = FALSE
      BY <1>9 DEF OriginFailed, NoFetch
    <2> QED
      BY <1>2, <2>1
  <1>10. CASE \E q \in Peers : Serve(p, q)
    <2>1. PICK q \in Peers : Serve(p, q)
      BY <1>10
    <2>2. PICK at, data :
              Proceed(p, [f EXCEPT !.at = at, !.data = data, !.aged = q \in old])
      BY <2>1 DEF Serve
    <2> DEFINE next == [f EXCEPT !.at = at, !.data = data, !.aged = q \in old]
    <2>3. next.aged = (q \in old)
      BY <1>0 DEF FetchRecords
    <2>4. Proceed(p, next)
      BY <2>2
    <2> HIDE DEF next
    <2>5. quiet => q \notin old
      BY <1>1, QuietFetch
    <2>6. quiet => next.aged = FALSE
      <3>1. q \notin old => (q \in old) = FALSE
        OBVIOUS
      <3> QED
        BY <2>3, <2>5, <3>1, Zenon
    <2> HIDE DEF f
    <2> QED
      BY <1>1, <2>4, <2>6, ProceedQuiet DEF f
  <1> QED
    BY <1>3, <1>4, <1>5, <1>6, <1>7, <1>8, <1>9, <1>10

\* What a fetch in progress brings home is not of before.
LEMMA FinishQuiet ==
    ASSUME QuietInv, NEW p \in Peers, Accept(p) \/ OriginAnswered(p)
    PROVE  StillToBeTold'
  <1>1. PICK copy, aged, caches :
            Finish(p, copy, aged, caches) /\ aged \in {fetch[p].aged, FALSE}
    BY DEF Accept, OriginAnswered
  <1>2. fetch[p].at # "idle"
    BY DEF Accept, OriginAnswered
  <1>3. SUFFICES ASSUME quiet'
                 PROVE  /\ old' \subseteq telling'
                        /\ \A q \in Peers : fetch'[q].aged = FALSE
                        /\ Invalidating' => \A q \in Peers : fetch'[q].at = "idle"
    BY DEF StillToBeTold
  <1>4. quiet /\ UNCHANGED <<telling, unlisting>>
    BY <1>1, <1>3 DEF Finish, noticeVars
  <1>5. old = {} /\ ~Invalidating
    BY <1>2, <1>4, QuietFetch
  <1>6. aged = FALSE
    BY <1>1, <1>4 DEF QuietInv, StillToBeTold
  <1>7. old' = {}
    BY <1>1, <1>5, <1>6 DEF Finish
  <1>8. \A q \in Peers : fetch'[q].aged = FALSE
    BY <1>1, <1>4, FetchTyped DEF Finish, NoFetch, QuietInv, StillToBeTold
  <1>9. ~Invalidating'
    BY <1>4, <1>5 DEF Invalidating
  <1> QED
    BY <1>7, <1>8, <1>9

LEMMA StartQuiet ==
    ASSUME QuietInv, NEW p \in Peers, NEW want \in Versions \cup {None}, Start(p, want)
    PROVE  StillToBeTold'
  <1>1. SUFFICES ASSUME quiet'
                 PROVE  /\ old' \subseteq telling'
                        /\ \A q \in Peers : fetch'[q].aged = FALSE
                        /\ Invalidating' => \A q \in Peers : fetch'[q].at = "idle"
    BY DEF StillToBeTold
  <1>2. quiet /\ ~Invalidating /\ UNCHANGED <<telling, unlisting>>
    BY <1>1 DEF Start
  <1>3. old' \subseteq telling'
    BY <1>2 DEF Start, QuietInv, StillToBeTold
  <1>4. \A q \in Peers : fetch'[q].aged = FALSE
    BY <1>2, FetchTyped DEF Start, NoFetch, QuietInv, StillToBeTold
  <1>5. ~Invalidating'
    BY <1>2 DEF Invalidating
  <1> QED
    BY <1>3, <1>4, <1>5

LEMMA NoticeQuiet ==
    ASSUME QuietInv, NEW p \in Peers, NoticeStep(p) \/ Drop(p) \/ Unlist(p)
    PROVE  StillToBeTold'
  <1>1. SUFFICES ASSUME quiet'
                 PROVE  /\ old' \subseteq telling'
                        /\ \A q \in Peers : fetch'[q].aged = FALSE
                        /\ Invalidating' => \A q \in Peers : fetch'[q].at = "idle"
    BY DEF StillToBeTold
  <1>2. quiet /\ UNCHANGED fetch /\ ~NoticeLost(p)
    BY <1>1 DEF NoticeStep, Told, NoticeLost, LeftDht, Drop, Unlist, noticeVars
  <1>3. \/ old' = old \ {p} /\ telling' \in {telling, telling \ {p}}
        \/ UNCHANGED <<old, telling>>
    BY <1>2 DEF NoticeStep, Told, LeftDht, Drop, Unlist, noticeVars
  <1>4. Invalidating' => Invalidating
    BY <1>2 DEF NoticeStep, Told, LeftDht, Drop, Unlist, noticeVars, Invalidating
  <1> QED
    BY <1>2, <1>3, <1>4 DEF QuietInv, StillToBeTold

\* Whoever holds a copy is listed, and so told; and no fetch is in progress.
LEMMA InvalidateQuiet ==
    ASSUME QuietInv, Invalidate
    PROVE  StillToBeTold'
  <1>1. SUFFICES ASSUME quiet'
                 PROVE  /\ old' \subseteq telling'
                        /\ \A q \in Peers : fetch'[q].aged = FALSE
                        /\ \A q \in Peers : fetch'[q].at = "idle"
    BY DEF StillToBeTold
  <1>2. AtRest /\ AllListed
    BY <1>1 DEF Invalidate
  <1>3. old' \subseteq telling'
    BY <1>2 DEF Invalidate, AllListed, Advertisers
  <1>4. \A q \in Peers : fetch'[q] = NoFetch
    <2>1. \A q \in Peers : fetch[q] = NoFetch
      BY <1>2 DEF AtRest
    <2>2. NoFetch.at # "answered"
      BY DEF NoFetch
    <2> QED
      BY <2>1, <2>2 DEF Invalidate
  <1> QED
    BY <1>3, <1>4 DEF NoFetch

LEMMA QuietInvKept == QuietInv /\ [Next]_vars => QuietInv'
  <1> SUFFICES ASSUME QuietInv, [Next]_vars
               PROVE  StillToBeTold'
    BY FetchInvKept DEF QuietInv
  <1>1. CASE \E p \in Peers, want \in Versions \cup {None} : Start(p, want)
    BY <1>1, StartQuiet
  <1>2. CASE \E p \in Peers : Accept(p) \/ OriginAnswered(p)
    BY <1>2, FinishQuiet
  <1>3. CASE \E p \in Peers : FetchStep(p) /\ ~Accept(p) /\ ~OriginAnswered(p)
    BY <1>3, TryingQuiet DEF FetchStep
  <1>4. CASE \/ \E p \in Peers : PostStep(p)
             \/ UNCHANGED vars
    <2>1. UNCHANGED <<fetch, old, telling, unlisting, quiet>>
      BY <1>4 DEF PostStep, Republish, Announce, Publish, noticeVars, vars
    <2> QED
      BY <2>1 DEF QuietInv, StillToBeTold, Invalidating
  <1>5. CASE \E p \in Peers : NoticeStep(p) \/ Drop(p) \/ Unlist(p)
    BY <1>5, NoticeQuiet
  <1>6. CASE Invalidate
    BY <1>6, InvalidateQuiet
  <1> QED
    BY <1>1, <1>2, <1>3, <1>4, <1>5, <1>6 DEF Next

\* An invalidation nothing overlaps leaves no copy of before, and none comes back
\* (main.py:197-230; peer/main.py:129-142).
THEOREM QuietInvalidation == Spec => []QuietInvalidationHolds
  <1>1. Init => QuietInv
    BY FetchInvInit DEF Init, QuietInv, StillToBeTold, NoFetch, Invalidating
  <1>2. QuietInv => QuietInvalidationHolds
    BY DEF QuietInv, StillToBeTold, QuietInvalidationHolds, Invalidating
  <1> QED
    BY <1>1, <1>2, QuietInvKept, PTL DEF Spec
=============================================================================
