--------------------------- MODULE MCNodeSubscription ---------------------------
(* Instances of NodeSubscription for TLC. *)
EXTENDS NodeSubscription
=============================================================================
