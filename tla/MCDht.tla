-------------------------------- MODULE MCDht --------------------------------
(***************************************************************************)
(* A small instance of Dht: two peers that hold a lasting copy or one of   *)
(* another version that expires.                                           *)
(***************************************************************************)
EXTENDS Dht

CONSTANTS p1, p2

MCPeers == {p1, p2}

Lasting == [version |-> 1, cacheability |-> "immutable", expires |-> NoTime]
Expiring == [version |-> 2, cacheability |-> "ttl", expires |-> 1]

MCDescriptions == {Lasting, Expiring}
=============================================================================
