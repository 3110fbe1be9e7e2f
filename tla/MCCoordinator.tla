--------------------------- MODULE MCCoordinator ---------------------------
(***************************************************************************)
(* Small instances of Coordinator: two peers at two locations, and         *)
(* catalogues with two versions, two contents, a TTL object that expires   *)
(* within the run and a dynamic one that is born expired.                  *)
(***************************************************************************)
EXTENDS Coordinator, TLC

CONSTANTS p1, p2, o1, o2

Meta(o, v, content, cacheability, expires) ==
    [object |-> o, version |-> v, content |-> content,
     cacheability |-> cacheability, expires |-> expires]

MCPeers2 == {p1, p2}
MCObjects1 == {o1}
MCObjects2 == {o1, o2}
MCPrefixes1 == {MCObjects1}
MCPrefixes2 == {MCObjects2}
MCLocations == {"campus", "dorm"}
MCLocationOf2 == p1 :> "campus" @@ p2 :> "dorm"
MCOrder2 == p1 :> 1 @@ p2 :> 2

MCAnonymous == {NoPeer}
MCReporters == {p1}

\* The code's proportions (points 2, 1 and 1/2) in units of an eighth of a point:
\* with at most two recoveries, each a cooldown apart, no halving rounds.
MCWeight == [metadata_conflict |-> 16, checksum_mismatch |-> 8, unavailable |-> 4]

ASSUME HalvingIsExact ==
    \A reason \in Reasons : MCWeight[reason] % 2^(MaxNow \div Cooldown) = 0

MCCatalogue ==
    { Meta(o1, "1", "c1", "immutable", NoTime),
      Meta(o1, "2", "c2", "ttl", 3),
      Meta(o1, "2", "c3", "ttl", 3),
      Meta(o2, "1", "c1", "dynamic", NoTime) }

MCCatalogueContents ==
    { Meta(o1, "1", "c1", "immutable", NoTime),
      Meta(o1, "1", "c2", "ttl", 2) }
=============================================================================
