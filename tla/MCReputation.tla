---------------------------- MODULE MCReputation ----------------------------
(***************************************************************************)
(* A small instance of Reputation: two peers and the exempt origin.  The   *)
(* weights and thresholds keep the code's default proportions (points 2, 1 *)
(* and 1/2 against 1 and 3) in units of an eighth of a point; with a clock of   *)
(* at most MaxNow a record recovers at most MaxNow \div Cooldown = 2 times,*)
(* so no halving rounds.                                                   *)
(***************************************************************************)
EXTENDS Reputation, TLC

CONSTANTS p1, p2, origin

MCPeers == {p1, p2, origin}
MCReporters == {p1, p2, NoPeer}
MCExempt == {origin}
MCSymmetry == Permutations({p1, p2})
MCWeight == [metadata_conflict |-> 16, checksum_mismatch |-> 8, unavailable |-> 4]

ASSUME HalvingIsExact ==
    \A reason \in Reasons : MCWeight[reason] % 2^(MaxNow \div Cooldown) = 0
=============================================================================
