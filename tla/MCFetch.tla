------------------------------- MODULE MCFetch -------------------------------
(***************************************************************************)
(* Small instances of Fetch: up to three peers, of which one may serve     *)
(* corrupted bytes and one may advertise what it does not hold.            *)
(***************************************************************************)
EXTENDS Fetch

CONSTANTS p1, p2, p3

AllPeers == {p1, p2, p3}
TwoPeers == {p1, p2}
TwoVersions == {1, 2}
SecondPeer == {p2}
LastPeer == {p3}
=============================================================================
