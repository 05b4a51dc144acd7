---------------------------- MODULE DeliveryBridge ----------------------------
(***************************************************************************)
(* The Node delivery of one subscription (src/node/src/delivery.rs): the   *)
(* dispatcher thread receives a batch from the engine and admits it under  *)
(* the environment's barrier, the JavaScript thread takes it from the slot *)
(* and settles it, and the cleanup thread releases the thread-safe         *)
(* function.  A batch is its number in the order the engine gave it, and   *)
(* serves as its delivery id.                                              *)
(*                                                                         *)
(* abandon_in_flight, complete_delivery, the finalizer and the teardown    *)
(* hook run on the JavaScript thread, so never inside another of its       *)
(* native calls.  When establishment, wrapper and consumer do what is left *)
(* open here; NodeSubscription has them.                                   *)
(***************************************************************************)
EXTENDS Integers, FiniteSets

CONSTANT MaxBatches    \* bound: the batches the engine has for Node

ASSUME MaxBatchesAssumption == MaxBatches \in Nat

None == 0
Batches == 1..MaxBatches
BatchOrNone == 0..MaxBatches

VARIABLES
  closing,    \* admission_closing: the environment is torn down
  stop,       \* ShutdownGate::stop
  adm,        \* DeliveryAdmission
  slot,       \* the batch waiting for its callback, or None
  tsfn,       \* the thread-safe function: its queue (of one) and its life
  js,         \* what the JavaScript thread does for this subscription
  disp,       \* what the dispatcher does for it
  error,      \* delivery_error is set
  handle,     \* NativeSubscription: dispose() was called, it was collected
  cleanup,    \* how far its cleanup is
  received,   \* the batches the engine gave out
  handed      \* the batches the callback was called with

vars == <<closing, stop, adm, slot, tsfn, js, disp, error, handle, cleanup,
          received, handed>>

Idle(actor) == actor.stage = "idle"
Rest == [stage |-> "idle", id |-> None]

\* The JavaScript thread runs consumer code of the subscription's environment.
InJavaScript == js.stage \in {"idle", "callback"} /\ ~closing

Admissible == ~closing /\ adm.open /\ adm.credit

Init ==
  /\ closing = FALSE /\ stop = FALSE /\ error = FALSE
  /\ adm = [open |-> TRUE, credit |-> TRUE, outstanding |-> 0, inFlight |-> None]
  /\ slot = None
  /\ tsfn = [queued |-> 0, released |-> FALSE, finalized |-> FALSE]
  /\ js = Rest
  /\ disp = Rest
  /\ handle = [explicit |-> FALSE, collected |-> FALSE]
  /\ cleanup = "none"
  /\ received = 0
  /\ handed = {}

-----------------------------------------------------------------------------
(* Shared pieces of the handlers. *)

\* Mutant of FinishDelivery: any ticket settles the delivery in flight.
FinishAnyDelivery(id, shut) ==
  /\ adm' = [open |-> adm.open /\ ~shut, credit |-> TRUE,
             outstanding |-> adm.outstanding - 1, inFlight |-> None]
  /\ slot' = None

\* finish_delivery: only the delivery in flight is settled.
FinishDelivery(id, shut) ==
  IF id = None \/ adm.inFlight # id
    THEN UNCHANGED <<adm, slot>>
    ELSE /\ adm' = [open        |-> adm.open /\ ~shut,
                    credit      |-> TRUE,
                    outstanding |-> adm.outstanding - 1,
                    inFlight    |-> None]
         /\ slot' = IF slot = id THEN None ELSE slot

\* abandon_in_flight
Abandon == FinishDelivery(adm.inFlight, TRUE)

\* request_background_cleanup, beside closing the admission
RequestCleanup ==
  /\ stop' = TRUE
  /\ cleanup' = IF cleanup = "none" THEN "requested" ELSE cleanup

CloseAdmission == adm' = [adm EXCEPT !.open = FALSE]

-----------------------------------------------------------------------------
(* The dispatcher. *)

\* dispatch_one: a batch is received only while it could be admitted.
Receive ==
  /\ Idle(disp) /\ ~stop /\ Admissible
  /\ received < MaxBatches
  /\ received' = received + 1
  /\ disp' = [stage |-> "received", id |-> received + 1]
  /\ UNCHANGED <<closing, stop, adm, slot, tsfn, js, error, handle, cleanup, handed>>

\* dispatch_one: the engine's output is disconnected.
Disconnected ==
  /\ Idle(disp) /\ ~stop /\ Admissible
  /\ CloseAdmission
  /\ RequestCleanup
  /\ UNCHANGED <<closing, slot, tsfn, js, disp, error, handle, received, handed>>

\* try_admit_with, when the admission changed since the batch was received: it
\* is dropped.
Refuse ==
  /\ disp.stage = "received" /\ ~Admissible
  /\ disp' = Rest
  /\ UNCHANGED <<closing, stop, adm, slot, tsfn, js, error, handle, cleanup, received, handed>>

\* try_admit_with: credit, slot and wake-up under one hold of the barrier.  The
\* blocking call waits here while the queue is full.
Admit ==
  /\ disp.stage = "received" /\ Admissible
  /\ ~tsfn.released /\ tsfn.queued = 0
  /\ slot' = disp.id
  /\ adm' = [open |-> TRUE, credit |-> FALSE,
             outstanding |-> adm.outstanding + 1, inFlight |-> disp.id]
  /\ tsfn' = [tsfn EXCEPT !.queued = 1]
  /\ disp' = Rest
  /\ UNCHANGED <<closing, stop, js, error, handle, cleanup, received, handed>>

\* Mutant of WakeUpFails: the rollback leaves the batch in the slot.
WakeUpFailsKeepsSlot ==
  /\ disp.stage = "received" /\ Admissible
  /\ slot' = disp.id
  /\ disp' = [stage |-> "failing", id |-> disp.id]
  /\ UNCHANGED <<closing, stop, adm, tsfn, js, error, handle, cleanup, received, handed>>

\* try_admit_with and rollback_failed_admission: the wake-up failed, nothing
\* is outstanding, and the credit is back before the failure is recorded.
WakeUpFails ==
  /\ disp.stage = "received" /\ Admissible
  /\ slot' = None
  /\ adm' = [adm EXCEPT !.credit = TRUE, !.inFlight = None]
  /\ disp' = [stage |-> "failing", id |-> disp.id]
  /\ UNCHANGED <<closing, stop, tsfn, js, error, handle, cleanup, received, handed>>

\* Mutant of RecordFailure: the admission stays open.
RecordFailureOpen ==
  /\ error' = TRUE
  /\ UNCHANGED <<stop, adm, cleanup>>

\* record_delivery_failure: the first failure is kept, closes the admission
\* and asks for cleanup.
RecordFailure ==
  IF error
    THEN UNCHANGED <<stop, adm, error, cleanup>>
    ELSE /\ error' = TRUE
         /\ CloseAdmission
         /\ RequestCleanup

DispatcherRecordsFailure ==
  /\ disp.stage = "failing"
  /\ RecordFailure
  /\ disp' = Rest
  /\ UNCHANGED <<closing, slot, tsfn, js, handle, received, handed>>

-----------------------------------------------------------------------------
(* The JavaScript thread. *)

\* call_js_delivery, invoke_callback up to reading in_flight_id: a wake-up of
\* a delivery that was settled meanwhile finds nothing to do.
Wake ==
  /\ Idle(js) /\ ~closing /\ tsfn.queued = 1
  /\ tsfn' = [tsfn EXCEPT !.queued = 0]
  /\ js' = IF adm.inFlight = None THEN Rest
                                  ELSE [stage |-> "invoked", id |-> adm.inFlight]
  /\ UNCHANGED <<closing, stop, adm, slot, disp, error, handle, cleanup, received, handed>>

\* invoke_callback: the batch is taken and the callback is called with it.
CallBack ==
  /\ js.stage = "invoked" /\ slot = js.id
  /\ slot' = None
  /\ js' = [js EXCEPT !.stage = "callback"]
  /\ handed' = handed \union {js.id}
  /\ UNCHANGED <<closing, stop, adm, tsfn, disp, error, handle, cleanup, received>>

\* invoke_callback: the slot does not hold the delivery, or it cannot be
\* converted for JavaScript.
CallBackImpossible ==
  /\ js.stage = "invoked"
  /\ slot' = None
  /\ adm' = [adm EXCEPT !.credit = TRUE, !.inFlight = None,
                        !.outstanding = adm.outstanding - 1]
  /\ js' = [js EXCEPT !.stage = "failing"]
  /\ UNCHANGED <<closing, stop, tsfn, disp, error, handle, cleanup, received, handed>>

\* invoke_callback: the callback returned true and owns the completion.
CallbackOwns ==
  /\ js.stage = "callback"
  /\ js' = Rest
  /\ UNCHANGED <<closing, stop, adm, slot, tsfn, disp, error, handle, cleanup, received, handed>>

\* invoke_callback: it threw, or returned anything else.
CallbackDone ==
  /\ js.stage = "callback"
  /\ FinishDelivery(js.id, FALSE)
  /\ js' = Rest
  /\ UNCHANGED <<closing, stop, tsfn, disp, error, handle, cleanup, received, handed>>

\* invoke_callback: the call itself failed; a failure is recorded only of the
\* delivery still in flight.
CallbackFails ==
  /\ js.stage = "callback"
  /\ FinishDelivery(js.id, FALSE)
  /\ js' = IF adm.inFlight = js.id THEN [js EXCEPT !.stage = "failing"] ELSE Rest
  /\ UNCHANGED <<closing, stop, tsfn, disp, error, handle, cleanup, received, handed>>

JavaScriptRecordsFailure ==
  /\ js.stage = "failing"
  /\ RecordFailure
  /\ js' = Rest
  /\ UNCHANGED <<closing, slot, tsfn, disp, handle, received, handed>>

\* complete_delivery: the wrapper settles any ticket it ever got, perhaps a
\* second time or after it was abandoned.
Complete(id, shut) ==
  /\ InJavaScript
  /\ id \in handed
  /\ FinishDelivery(id, shut)
  /\ UNCHANGED <<closing, stop, tsfn, js, disp, error, handle, cleanup, received, handed>>

\* NativeSubscription::dispose
Dispose ==
  /\ InJavaScript /\ ~handle.explicit /\ ~handle.collected
  /\ handle' = [handle EXCEPT !.explicit = TRUE]
  /\ CloseAdmission
  /\ RequestCleanup
  /\ UNCHANGED <<closing, slot, tsfn, js, disp, error, received, handed>>

\* NativeSubscription::dispose, when no promise can be made: the admission
\* stays closed, and the consumer may call it again.
DisposeFails ==
  /\ InJavaScript /\ ~handle.explicit /\ ~handle.collected
  /\ CloseAdmission
  /\ UNCHANGED <<closing, stop, slot, tsfn, js, disp, error, handle, cleanup, received, handed>>

\* Drop of NativeSubscription: without a joiner, a delivery its consumer still
\* holds is abandoned.
Collect ==
  /\ Idle(js) /\ ~handle.collected
  /\ handle' = [handle EXCEPT !.collected = TRUE]
  /\ IF cleanup = "finished"
       THEN UNCHANGED <<stop, adm, slot, cleanup>>
       ELSE /\ RequestCleanup
            /\ IF handle.explicit \/ adm.inFlight = None
                 THEN CloseAdmission /\ UNCHANGED slot
                 ELSE Abandon
  /\ UNCHANGED <<closing, tsfn, js, disp, error, received, handed>>

\* begin_environment_teardown: barrier, stop flag, admission and abort under
\* one hold of admission_closing.
Teardown ==
  /\ Idle(js) /\ ~closing
  /\ closing' = TRUE
  /\ CloseAdmission
  /\ RequestCleanup
  /\ tsfn' = [tsfn EXCEPT !.released = TRUE]
  /\ UNCHANGED <<slot, js, disp, error, handle, received, handed>>

\* Once the environment ends, Node drains the queue with a null environment:
\* invoke_callback settles without a callback.
WakeWithoutEnvironment ==
  /\ Idle(js) /\ tsfn.queued = 1 /\ closing
  /\ tsfn' = [tsfn EXCEPT !.queued = 0]
  /\ FinishDelivery(adm.inFlight, FALSE)
  /\ UNCHANGED <<closing, stop, js, disp, error, handle, cleanup, received, handed>>

\* finalize_delivery_context, after the function was released and drained.
Finalize ==
  /\ Idle(js) /\ tsfn.released /\ tsfn.queued = 0 /\ ~tsfn.finalized
  /\ tsfn' = [tsfn EXCEPT !.finalized = TRUE]
  /\ Abandon
  /\ UNCHANGED <<closing, stop, js, disp, error, handle, cleanup, received, handed>>

-----------------------------------------------------------------------------
(* The thread that owns the cleanup: the coordinator, or the establishment's. *)

\* perform_engine_cleanup
CleanEngine ==
  /\ cleanup = "requested"
  /\ CloseAdmission
  /\ stop' = TRUE
  /\ cleanup' = "draining"
  /\ UNCHANGED <<closing, slot, tsfn, js, disp, error, handle, received, handed>>

\* Mutant of Release: it does not wait for the delivery in flight.
ReleaseAtOnce ==
  /\ cleanup = "draining"
  /\ tsfn' = [tsfn EXCEPT !.released = TRUE]
  /\ cleanup' = "releasing"
  /\ UNCHANGED <<closing, stop, adm, slot, js, disp, error, handle, received, handed>>

\* advance_background_cleanup, wait_until_drained_or_environment_closing and
\* the release of finalize_cleanup.
Release ==
  /\ cleanup = "draining" /\ (closing \/ adm.outstanding = 0)
  /\ tsfn' = [tsfn EXCEPT !.released = TRUE]
  /\ cleanup' = "releasing"
  /\ UNCHANGED <<closing, stop, adm, slot, js, disp, error, handle, received, handed>>

\* finalize_cleanup, after wait_until_finalized_or_environment_closing
FinishCleanup ==
  /\ cleanup = "releasing" /\ (closing \/ tsfn.finalized)
  /\ cleanup' = "finished"
  /\ UNCHANGED <<closing, stop, adm, slot, tsfn, js, disp, error, handle, received, handed>>

-----------------------------------------------------------------------------
(* The establishment, which may end before the dispatcher ever served the     *)
(* subscription.                                                              *)

\* close_delivery_admission of a cancelled attempt; with the stop flag, the
\* start of cleanup_unpublished_delivery.
CloseEarly(stopping) ==
  /\ CloseAdmission
  /\ stop' = (stop \/ stopping)
  /\ UNCHANGED <<closing, slot, tsfn, js, disp, error, handle, cleanup, received, handed>>

\* cleanup_unpublished_delivery: the function is released unused.
ReleaseEarly ==
  /\ ~adm.open /\ adm.outstanding = 0
  /\ tsfn' = [tsfn EXCEPT !.released = TRUE]
  /\ UNCHANGED <<closing, stop, adm, slot, js, disp, error, handle, cleanup, received, handed>>

\* begin_environment_teardown, of a registration that has no state yet.
TeardownEarly ==
  /\ Idle(js) /\ ~closing
  /\ closing' = TRUE /\ stop' = TRUE
  /\ tsfn' = [tsfn EXCEPT !.released = TRUE]
  /\ UNCHANGED <<adm, slot, js, disp, error, handle, cleanup, received, handed>>

\* dispose_join_and_drain on the establishment's thread.
CleanUnpublished ==
  /\ cleanup = "none"
  /\ CloseAdmission
  /\ stop' = TRUE
  /\ cleanup' = "draining"
  /\ UNCHANGED <<closing, slot, tsfn, js, disp, error, handle, received, handed>>

-----------------------------------------------------------------------------
Dispatcher == Receive \/ Disconnected \/ Refuse \/ Admit \/ WakeUpFails \/ DispatcherRecordsFailure
EventLoop == Wake \/ WakeWithoutEnvironment \/ Finalize
Callback == CallBack \/ CallBackImpossible \/ CallbackOwns \/ CallbackDone \/ CallbackFails
            \/ JavaScriptRecordsFailure
Consumer ==
  \/ \E id \in Batches, shut \in BOOLEAN : Complete(id, shut)
  \/ Dispose \/ DisposeFails \/ Collect
CleanupOwner == CleanEngine \/ Release \/ FinishCleanup
Establishment ==
  \/ \E stopping \in BOOLEAN : CloseEarly(stopping)
  \/ ReleaseEarly \/ TeardownEarly \/ CleanUnpublished

Next == Dispatcher \/ EventLoop \/ Callback \/ Consumer \/ Teardown \/ CleanupOwner
        \/ Establishment

Spec == Init /\ [][Next]_vars

-----------------------------------------------------------------------------
(* Properties. *)

\* Every part of the bridge keeps its type: one credit, at most one callback
\* outstanding, a queue of at most one wake-up.
TypeOK ==
  /\ closing \in BOOLEAN /\ stop \in BOOLEAN /\ error \in BOOLEAN
  /\ adm \in [open : BOOLEAN, credit : BOOLEAN, outstanding : 0..1, inFlight : BatchOrNone]
  /\ slot \in BatchOrNone
  /\ tsfn \in [queued : 0..1, released : BOOLEAN, finalized : BOOLEAN]
  /\ js \in [stage : {"idle", "invoked", "callback", "failing"}, id : BatchOrNone]
  /\ disp \in [stage : {"idle", "received", "failing"}, id : BatchOrNone]
  /\ handle \in [explicit : BOOLEAN, collected : BOOLEAN]
  /\ cleanup \in {"none", "requested", "draining", "releasing", "finished"}
  /\ received \in BatchOrNone
  /\ handed \subseteq Batches

\* Whenever the dispatcher may admit, the queue, the slot and the function are
\* free for it: its blocking call, made under the environment's barrier that
\* the JavaScript thread needs to settle a delivery, never waits, and it never
\* overwrites a batch (delivery.rs:1325, debug_assert; lib.rs:1706).
WakeUpNeverBlocks ==
  Admissible => /\ tsfn.queued = 0 /\ ~tsfn.released
                /\ slot = None
                /\ adm.outstanding = 0

\* A batch taken from the engine is lost only by a bridge that is shut or is
\* recording its failure, and at most one later batch still reaches the
\* callback: the credit is back before the failure closes the admission.
Pending == {slot} \union {a.id : a \in {x \in {disp, js} : x.stage \in {"received", "invoked"}}}
Lost == (1..received) \ (handed \union Pending)
LossShutsTheBridge ==
  /\ Lost # {} => closing \/ ~adm.open \/ "failing" \in {js.stage, disp.stage}
  /\ \A l \in Lost : Cardinality({h \in handed : h > l}) <= 1

\* The bridge keeps the promise of SingleCredit: order, one delivery at a time,
\* and nothing offered after it was shut or handed over after disposal finished.
Newest == CHOOSE b \in handed \union {None} : \A h \in handed : h <= b
Credit == INSTANCE SingleCredit WITH
  busy <- adm.outstanding = 1,
  shut <- closing \/ ~adm.open,
  last <- Newest,
  gone <- closing,
  freed <- tsfn.released,
  over <- cleanup = "finished"
ImplementsCredit == Credit!Spec

=============================================================================
