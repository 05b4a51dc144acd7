----------------------------- MODULE SingleCredit -----------------------------
(***************************************************************************)
(* What the Node delivery bridge promises one subscription: batches reach  *)
(* the callback in order, a further one is offered only after the one      *)
(* before was settled, none is offered once the bridge is shut, and none   *)
(* reaches the callback once disposal is over, which in a live environment *)
(* waits for the batch in flight.  DeliveryBridge is shown to implement it.*)
(***************************************************************************)
EXTENDS Integers

VARIABLES
  busy,   \* a batch was offered and is not settled
  shut,   \* no further batch is offered
  last,   \* the last batch the callback was given
  gone,   \* the Node environment is torn down
  freed,  \* the callback bridge was released
  over    \* disposal finished

creditVars == <<busy, shut, last, gone, freed, over>>

Init ==
  /\ busy = FALSE /\ shut = FALSE /\ gone = FALSE /\ freed = FALSE /\ over = FALSE
  /\ last = 0

Offer ==
  /\ ~busy /\ ~shut
  /\ busy' = TRUE
  /\ UNCHANGED <<shut, last, gone, freed, over>>

Hand ==
  /\ busy /\ ~gone /\ ~over
  /\ last' \in Nat /\ last' > last
  /\ UNCHANGED <<busy, shut, gone, freed, over>>

\* A delivery is settled, or given up together with the bridge.
Settle ==
  /\ busy
  /\ busy' = FALSE
  /\ shut' \in {shut, TRUE}
  /\ UNCHANGED <<last, gone, freed, over>>

Shut ==
  /\ shut' = TRUE
  /\ UNCHANGED <<busy, last, gone, freed, over>>

TearDown ==
  /\ shut' = TRUE /\ gone' = TRUE /\ freed' = TRUE
  /\ UNCHANGED <<busy, last, over>>

\* In a live environment the bridge outlives the delivery in flight.
Free ==
  /\ shut /\ (~busy \/ gone)
  /\ freed' = TRUE
  /\ UNCHANGED <<busy, shut, last, gone, over>>

End ==
  /\ freed
  /\ over' = TRUE
  /\ UNCHANGED <<busy, shut, last, gone, freed>>

Next == Offer \/ Hand \/ Settle \/ Shut \/ TearDown \/ Free \/ End

Spec == Init /\ [][Next]_creditVars

=============================================================================
