------------------------------ MODULE MCCache ------------------------------
(***************************************************************************)
(* A small instance of Cache: four objects whose contents have one, two or *)
(* three bytes in a cache of four, so that a write evicts none, one or     *)
(* several; one object with a short, a long and an oversize version, one   *)
(* whose versions expire within the run and one that may be born stale.    *)
(***************************************************************************)
EXTENDS Cache

CONSTANTS o1, o2, o3, o4

MCObjects == {o1, o2, o3, o4}
MCPrefixSets == {{o1, o2}, MCObjects}
MCSizeOf == "one" :> 1 @@ "two" :> 2 @@ "three" :> 3 @@ "five" :> 5

Meta(o, content, cacheability, expires) ==
    [object |-> o, content |-> content, cacheability |-> cacheability, expires |-> expires]

MCCatalogue ==
    { Meta(o1, "one", "immutable", NoTime),
      Meta(o1, "three", "immutable", NoTime),
      Meta(o1, "five", "immutable", NoTime),
      Meta(o2, "one", "ttl", 1),
      Meta(o2, "two", "ttl", 2),
      Meta(o3, "one", "dynamic", NoTime),
      Meta(o3, "two", "ttl", NoTime),
      Meta(o4, "one", "immutable", NoTime) }
=============================================================================
