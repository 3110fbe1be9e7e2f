----------------------------- MODULE MCHistory -----------------------------
(***************************************************************************)
(* Small instances of CoordinatorHistory over the peers, objects and       *)
(* catalogues of MCCoordinator.                                            *)
(***************************************************************************)
EXTENDS MCCoordinator, CoordinatorHistory
=============================================================================
