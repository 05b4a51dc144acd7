----------------------- MODULE MCAutomaticReconciliation -----------------------
(* Instances of AutomaticReconciliation for TLC. *)
EXTENDS AutomaticReconciliation
=============================================================================
