------------------------------ MODULE MCDhtFetch ------------------------------
(***************************************************************************)
(* Small instances of DhtFetch: three peers, one in each malicious mode or *)
(* only one that serves corrupted bytes.  That one is everybody's nearest. *)
(***************************************************************************)
EXTENDS DhtFetch

CONSTANTS p1, p2, p3

MCPeers == {p1, p2, p3}
MCVersions == {1, 2}

OneOfEach == [p \in MCPeers |->
    CASE p = p1 -> "advertise_missing"
      [] p = p2 -> "publish_conflicting"
      [] p = p3 -> "serve_corrupted"]
MCModes == {OneOfEach}

Place(p) == CASE p = p3 -> 1 [] p = p1 -> 2 [] p = p2 -> 3
MCBefore(p, q, r) == Place(q) < Place(r)

OneCorrupts == [p \in MCPeers |-> IF p = p3 THEN "serve_corrupted" ELSE "none"]
MCQuarantineModes == {OneCorrupts}
=============================================================================
