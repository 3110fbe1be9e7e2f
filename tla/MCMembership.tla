---------------------------- MODULE MCMembership ----------------------------
(***************************************************************************)
(* A small instance of Membership: two objects, of which the second may    *)
(* have an expiry, and one transfer report at a time.                      *)
(***************************************************************************)
EXTENDS Membership

CONSTANTS o1, o2

MCObjects == {o1, o2}
MCTimed == {o2}
=============================================================================
