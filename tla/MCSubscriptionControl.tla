----------------------- MODULE MCSubscriptionControl -----------------------
(* Instances of SubscriptionControl for TLC. *)
EXTENDS SubscriptionControl
=============================================================================
