----------------------- MODULE MCSubscriptionCoverage -----------------------
(***************************************************************************)
(* An instance of SubscriptionCoverage for TLC.  To keep it small, the     *)
(* root path changes no more once the last directory was created or        *)
(* promoted; before that the two happen in any order.                      *)
(***************************************************************************)
EXTENDS SubscriptionCoverage, TLC

GrowsLast == fsRoot' # fsRoot => growth > 0

AllSpec == Init /\ [][Next /\ GrowsLast]_vars
=============================================================================
