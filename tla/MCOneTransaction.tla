-------------------------- MODULE MCOneTransaction --------------------------
(***************************************************************************)
(* SubscriptionCoverage with a caller that keeps to one of the three       *)
(* transactions, chosen at the start (AllCalls mixes them).  Exclusions    *)
(* stand at the start only where they are to be replaced, and the root is  *)
(* replaced by another directory only where it may be recovered; the first *)
(* root is any, the identities being interchangeable.                      *)
(***************************************************************************)
EXTENDS SubscriptionCoverage, TLC

VARIABLE call   \* the transaction this caller uses

Begins == sub.ack = "idle" /\ sub'.ack # "idle"

OnlyCall ==
  CASE call = "recover"   -> Begins => sub.lost
    [] call = "reconcile" -> Begins => Reconcile
    [] call = "replace"   ->
         Begins => \E g \in 1..MaxGeneration, policy \in Policies, more \in BOOLEAN :
                     ReplaceExclusions(g, policy, more)

OneInit ==
  /\ Init
  /\ fsRoot = CHOOSE identity \in Identities : TRUE
  /\ call \in Calls
  /\ call # "replace" => sub.policy = {}

OneNext ==
  /\ Next /\ OnlyCall /\ UNCHANGED call
  /\ call = "recover" \/ fsRoot' \in {sub.identity, Missing}

OneSpec == OneInit /\ [][OneNext]_<<vars, call>> /\ Fairness
=============================================================================
