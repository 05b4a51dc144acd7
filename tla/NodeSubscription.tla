--------------------------- MODULE NodeSubscription ---------------------------
(***************************************************************************)
(* One subscription as a JavaScript program meets it: the cancellable      *)
(* attempt (EstablishmentAttempt), the libuv task that establishes it      *)
(* (SubscribeTask), the wrapper that awaits it (native-establishment.js),  *)
(* buffers its first batch (path-delivery.js) and gives it to the consumer *)
(* (index.js), all around the delivery bridge.  Every step is a step of    *)
(* DeliveryBridge or leaves it alone.                                      *)
(*                                                                         *)
(* Abstractions.  The engine's establishment is its outcome, which a       *)
(* cancellation decides if nothing did before (Establishment).  A signal   *)
(* whose listener cannot be removed is one that aborts just then.  What    *)
(* the consumer's callback does with a batch is to settle it, now, later   *)
(* or never.                                                               *)
(***************************************************************************)
EXTENDS DeliveryBridge

VARIABLES
  att,         \* EstablishmentAttempt
  engine,      \* the engine's establishment
  task,        \* how far SubscribeTask is
  published,   \* the environment's registration of the subscription
  cancelling,  \* what is left of a token.cancel() under way
  wrapper,     \* establishNativeSubscription, then the subscription it built
  buffer,      \* createSingleCreditDeliveryBuffer, and a delivery it gives up
  seen         \* the batches onBatch was called with

ownVars == <<att, engine, task, published, cancelling, wrapper, buffer, seen>>
subVars == <<vars, ownVars>>

SubInit ==
  /\ Init
  /\ \E auto \in BOOLEAN :
       att = [auto |-> auto, public |-> FALSE, cancel |-> FALSE, attached |-> FALSE]
  /\ engine = "pending"
  /\ task = "waiting"
  /\ published = "no"
  /\ cancelling = "no"
  /\ wrapper = "awaiting"
  /\ buffer = [state |-> "waiting", pending |-> None, owed |-> None]
  /\ seen = {}

\* No function of the wrapper or of the token is under way.
ThreadFree == cancelling = "no" /\ wrapper \notin {"closing", "stopping"}
JSFree == Idle(js) /\ ThreadFree /\ ~closing

-----------------------------------------------------------------------------
(* Cancellation. *)

CancelledEngine == engine' = IF engine = "pending" THEN "cancelled" ELSE engine

\* The abort listener: cancel_with_delivery_close while it holds the lock.
Abort ==
  /\ JSFree /\ wrapper = "awaiting" /\ ~att.auto /\ ~att.cancel
  /\ att' = [att EXCEPT !.cancel = TRUE]
  /\ cancelling' = IF att.attached THEN "both" ELSE "engine"
  /\ UNCHANGED <<vars, engine, task, published, wrapper, buffer, seen>>

CancelEngine ==
  /\ cancelling \in {"engine", "both"}
  /\ CancelledEngine
  /\ cancelling' = IF cancelling = "both" THEN "admission" ELSE "no"
  /\ UNCHANGED <<vars, att, task, published, wrapper, buffer, seen>>

CancelAdmission ==
  /\ cancelling = "admission"
  /\ CloseEarly(FALSE)
  /\ cancelling' = "no"
  /\ UNCHANGED <<att, engine, task, published, wrapper, buffer, seen>>

\* begin_environment_teardown: an attempt that is not public is cancelled too.
EnvironmentTeardown ==
  /\ ThreadFree
  /\ IF published = "no" THEN TeardownEarly ELSE Teardown
  /\ att' = [att EXCEPT !.cancel = @ \/ ~att.public]
  /\ CancelledEngine
  /\ UNCHANGED <<task, published, cancelling, wrapper, buffer, seen>>

-----------------------------------------------------------------------------
(* SubscribeTask::compute, on a libuv thread, and its settlement.             *)

EngineSettles ==
  /\ engine = "pending"
  /\ engine' \in {"ready", "failed"}
  /\ UNCHANGED <<vars, att, task, published, cancelling, wrapper, buffer, seen>>

\* pending.wait(), then the checks of the stop flag and of the cancellation.
Waited ==
  /\ task = "waiting" /\ engine # "pending"
  /\ task' = IF engine = "ready" /\ ~stop /\ ~att.cancel THEN "starting" ELSE "rejecting"
  /\ UNCHANGED <<vars, att, engine, published, cancelling, wrapper, buffer, seen>>

\* Mutant of Attach: a cancellation that came before is not looked at.
AttachUnheeded ==
  /\ task = "starting"
  /\ att' = [att EXCEPT !.attached = TRUE]
  /\ task' = "publishing"
  /\ UNCHANGED <<vars, engine, published, cancelling, wrapper, buffer, seen>>

\* attach_provisional_state, and the closing of one that may not be published.
Attach ==
  /\ task = "starting"
  /\ att' = [att EXCEPT !.attached = TRUE]
  /\ IF att.cancel
       THEN CloseEarly(FALSE) /\ task' = "noting"
       ELSE UNCHANGED vars /\ task' = "publishing"
  /\ UNCHANGED <<engine, published, cancelling, wrapper, buffer, seen>>

Publish ==
  /\ task = "publishing" /\ ~closing
  /\ published' = "active"
  /\ task' = "noting"
  /\ UNCHANGED <<vars, att, engine, cancelling, wrapper, buffer, seen>>

\* publish_delivery of a closing environment, or without a dispatcher.
PublishFails ==
  /\ task = "publishing"
  /\ published' = IF closing THEN "no" ELSE "inactive"
  /\ CleanUnpublished
  /\ task' = "draining"
  /\ UNCHANGED <<att, engine, cancelling, wrapper, buffer, seen>>

PublishFailed ==
  /\ task = "draining" /\ cleanup = "finished"
  /\ task' = "rejected"
  /\ UNCHANGED <<vars, att, engine, published, cancelling, wrapper, buffer, seen>>

\* note_node_ready
NoteReady ==
  /\ task = "noting"
  /\ att' = [att EXCEPT !.public = att.auto /\ ~att.cancel]
  /\ IF att.cancel THEN CloseEarly(FALSE) ELSE UNCHANGED vars
  /\ task' = "resolving"
  /\ UNCHANGED <<engine, published, cancelling, wrapper, buffer, seen>>

\* Mutant of CleanUp: the rejection does not wait for the finalizer.
CleanUpUnfinalized ==
  \/ /\ task = "rejecting"
     /\ CloseEarly(TRUE)
     /\ task' = "releasing"
     /\ UNCHANGED <<att, engine, published, cancelling, wrapper, buffer, seen>>
  \/ /\ task = "releasing"
     /\ ReleaseEarly
     /\ task' = "rejected"
     /\ UNCHANGED <<att, engine, published, cancelling, wrapper, buffer, seen>>

\* cleanup_unpublished_delivery, up to the finalizer.
CleanUp ==
  \/ /\ task = "rejecting"
     /\ CloseEarly(TRUE)
     /\ task' = "releasing"
     /\ UNCHANGED <<att, engine, published, cancelling, wrapper, buffer, seen>>
  \/ /\ task = "releasing"
     /\ ReleaseEarly
     /\ task' = "finalizing"
     /\ UNCHANGED <<att, engine, published, cancelling, wrapper, buffer, seen>>
  \/ /\ task = "finalizing" /\ (closing \/ tsfn.finalized)
     /\ task' = "rejected"
     /\ UNCHANGED <<vars, att, engine, published, cancelling, wrapper, buffer, seen>>

\* SubscribeTask::resolve; in an environment that is going it cannot make the
\* JavaScript object and drops the native one.
Resolve ==
  /\ task = "resolving" /\ JSFree
  /\ task' = "resolved"
  /\ UNCHANGED <<vars, att, engine, published, cancelling, wrapper, buffer, seen>>

ResolveFails ==
  /\ task = "resolving" /\ closing
  /\ Collect
  /\ task' = "dropped"
  /\ UNCHANGED <<att, engine, published, cancelling, wrapper, buffer, seen>>

-----------------------------------------------------------------------------
(* The wrapper. *)

\* Mutant of BufferClosed: what was buffered is forgotten.
BufferClosedForgetful == [state |-> "closed", pending |-> None, owed |-> None]

\* close() of the buffer: an admitted batch is given up.
BufferClosed == [state |-> "closed", pending |-> None, owed |-> buffer.pending]

\* The task's promise rejects.
Rejected ==
  /\ JSFree /\ wrapper = "awaiting" /\ task = "rejected"
  /\ wrapper' = "rejected"
  /\ UNCHANGED <<vars, att, engine, task, published, cancelling, buffer, seen>>

\* commitPublicSuccess returned false.
CommitRefused ==
  /\ JSFree /\ wrapper = "awaiting" /\ task = "resolved"
  /\ att.cancel /\ ~att.public
  /\ wrapper' = "closing"
  /\ buffer' = BufferClosed
  /\ UNCHANGED <<vars, att, engine, task, published, cancelling, seen>>

Committed ==
  /\ JSFree /\ wrapper = "awaiting" /\ task = "resolved"
  /\ att.cancel => att.public
  /\ att' = [att EXCEPT !.public = TRUE]

\* buildSubscription throws.
BuildFails ==
  /\ Committed
  /\ wrapper' = "closing"
  /\ buffer' = BufferClosed
  /\ UNCHANGED <<vars, engine, task, published, cancelling, seen>>

\* buildSubscription: the buffered batch is delivered, and its callback may
\* already have asked to stop.
Build ==
  /\ Committed
  /\ buffer' = [state |-> "ready", pending |-> None, owed |-> None]
  /\ seen' = seen \union ({buffer.pending} \ {None})
  /\ wrapper' \in {"live"} \union (IF buffer.pending = None THEN {} ELSE {"stopping"})
  /\ UNCHANGED <<vars, engine, task, published, cancelling>>

\* abandon: a delivery nobody will see is completed with stop.
Forsake ==
  /\ buffer.owed # None
  /\ js.stage = "callback" \/ wrapper = "closing"
  /\ Complete(buffer.owed, TRUE)
  /\ buffer' = [buffer EXCEPT !.owed = None]
  /\ UNCHANGED <<att, engine, task, published, cancelling, wrapper, seen>>

\* disposeProvisional, and the rejection that waits for it.
DisposeProvisional ==
  /\ wrapper = "closing" /\ buffer.owed = None
  /\ \/ Dispose      /\ wrapper' = "disposing"
     \/ DisposeFails /\ wrapper' = "rejected"
  /\ UNCHANGED <<att, engine, task, published, cancelling, buffer, seen>>

ProvisionalDisposed ==
  /\ JSFree /\ wrapper = "disposing" /\ cleanup = "finished"
  /\ wrapper' = "rejected"
  /\ UNCHANGED <<vars, att, engine, task, published, cancelling, buffer, seen>>

\* beginDispose, by dispose() or by stop(): its promise is kept, failed or not.
BeginDispose ==
  /\ wrapper \in {"live", "stopping"}
  /\ Dispose \/ DisposeFails
  /\ wrapper' = "ended"
  /\ UNCHANGED <<att, engine, task, published, cancelling, buffer, seen>>

\* settleCallbackResult, when the consumer's promise settles or it returns.
Settle(id) ==
  /\ wrapper \in {"live", "stopping", "ended", "collected"}
  /\ id \in seen
  /\ Complete(id, wrapper # "live")
  /\ UNCHANGED ownVars

\* The subscription and its callback holder are garbage, then the native one.
CollectWrapper ==
  /\ JSFree /\ wrapper \in {"live", "ended"}
  /\ wrapper' = "collected"
  /\ UNCHANGED <<vars, att, engine, task, published, cancelling, buffer, seen>>

CollectNative ==
  /\ ThreadFree /\ task = "resolved"
  /\ wrapper \in {"rejected", "collected"} \/ closing
  /\ Collect
  /\ UNCHANGED ownVars

\* The callback of createNativeCallback: accept() of the buffer.
Accept ==
  /\ CallBack
  /\ CASE buffer.state = "ready" /\ wrapper # "collected" ->
            seen' = seen \union {js.id} /\ UNCHANGED buffer
       [] buffer.state = "waiting" /\ buffer.pending = None ->
            buffer' = [buffer EXCEPT !.pending = js.id] /\ UNCHANGED seen
       [] OTHER ->
            buffer' = [buffer EXCEPT !.owed = js.id] /\ UNCHANGED seen
  /\ UNCHANGED <<att, engine, task, published, cancelling, wrapper>>

\* The callback returns true; once batches are delivered, completeDelivery may
\* have thrown in it.  A call that never ran is CallBackImpossible.
AcceptReturns ==
  \/ buffer.owed = None /\ CallbackOwns /\ UNCHANGED ownVars
  \/ /\ buffer.state = "ready"
     /\ CallbackDone
     /\ buffer' = [buffer EXCEPT !.owed = None]
     /\ UNCHANGED <<att, engine, task, published, cancelling, wrapper, seen>>

-----------------------------------------------------------------------------
(* The bridge between them. *)

Served == published = "active" /\ (Receive \/ Disconnected)
DispatcherGoesOn == Refuse \/ Admit \/ WakeUpFails \/ DispatcherRecordsFailure
NodeTurns == ThreadFree /\ EventLoop
CallbackTurns == CallBackImpossible \/ JavaScriptRecordsFailure

Bridge ==
  /\ Served \/ DispatcherGoesOn \/ NodeTurns \/ CallbackTurns \/ CleanupOwner
  /\ UNCHANGED ownVars

Cancelling == CancelEngine \/ CancelAdmission
Compute == Waited \/ Attach \/ Publish \/ PublishFails \/ PublishFailed \/ NoteReady \/ CleanUp
Settling == Resolve \/ ResolveFails \/ Rejected \/ CommitRefused \/ Build \/ BuildFails
            \/ DisposeProvisional \/ ProvisionalDisposed
Stopping == wrapper = "stopping" /\ BeginDispose
Delivering == Accept \/ AcceptReturns

SubNext ==
  \/ Abort \/ Cancelling \/ EnvironmentTeardown
  \/ EngineSettles \/ Compute \/ Settling
  \/ Forsake \/ BeginDispose \/ CollectWrapper \/ CollectNative
  \/ \E id \in Batches : Settle(id)
  \/ Delivering
  \/ Bridge

SubSpec == SubInit /\ [][SubNext]_subVars

\* The engine answers, libuv and the two threads run, Node's event loop turns
\* and functions return.
SubFairSpec ==
  /\ SubSpec
  /\ WF_subVars(EngineSettles) /\ WF_subVars(Compute) /\ WF_subVars(Cancelling)
  /\ WF_subVars(Settling) /\ WF_subVars(Forsake) /\ WF_subVars(Stopping)
  /\ WF_subVars(Delivering)
  /\ WF_subVars(DispatcherGoesOn /\ UNCHANGED ownVars)
  /\ WF_subVars(NodeTurns /\ UNCHANGED ownVars)
  /\ WF_subVars(CallbackTurns /\ UNCHANGED ownVars)
  /\ WF_subVars(CleanupOwner /\ UNCHANGED ownVars)

-----------------------------------------------------------------------------
(* Properties. *)

\* Types, the bridge's included; a second batch never reaches a buffer that
\* waits with one ("unreachable", path-delivery.js:44).
SubTypeOK ==
  /\ TypeOK
  /\ att \in [auto : BOOLEAN, public : BOOLEAN, cancel : BOOLEAN, attached : BOOLEAN]
  /\ engine \in {"pending", "ready", "failed", "cancelled"}
  /\ task \in {"waiting", "starting", "publishing", "noting", "resolving", "resolved",
               "rejecting", "releasing", "finalizing", "draining", "rejected", "dropped"}
  /\ published \in {"no", "active", "inactive"}
  /\ cancelling \in {"no", "engine", "both", "admission"}
  /\ wrapper \in {"awaiting", "closing", "disposing", "rejected", "live", "stopping",
                  "ended", "collected"}
  /\ buffer \in [state : {"waiting", "ready", "closed"}, pending : BatchOrNone, owed : BatchOrNone]
  /\ seen \subseteq Batches
  /\ js.stage = "invoked" /\ buffer.state = "waiting" => buffer.pending = None

\* Once token.cancel() has returned, the dispatcher takes no batch for the
\* attempt, whether its state was attached before, during or after; and a
\* cancelled attempt is never handed to the consumer.
CancelledIsQuiet ==
  att.cancel /\ cancelling = "no" =>
    /\ published = "active" => ~Admissible
    /\ wrapper \notin {"live", "stopping", "ended", "collected"}

\* A subscribe() that rejects leaves nothing behind: the consumer saw no batch,
\* the wrapper keeps none, and the callback bridge is gone ("Promise rejection
\* is not published until that finalizer has run", lib.rs:1153) unless its
\* disposal could not even begin.
RejectedLeavesNothing ==
  wrapper = "rejected" =>
    /\ seen = {} /\ buffer.pending = None /\ (buffer.owed # None => js.stage = "callback")
    /\ \/ tsfn.finalized \/ closing
       \/ task = "resolved" /\ ~handle.explicit

\* Unless the consumer keeps a delivery for ever, subscribe() settles and a
\* requested cleanup ends, whatever cancellation, early batch, failure,
\* collection or teardown they meet: the wrapper never keeps one itself.
ConsumerKeeps == adm.inFlight \in seen /\ Idle(js) /\ ~closing
EverythingSettles ==
  []<>~ConsumerKeeps =>
    /\ wrapper = "awaiting" ~> wrapper # "awaiting" \/ closing
    /\ wrapper = "disposing" ~> wrapper = "rejected" \/ closing
    /\ cleanup = "requested" ~> cleanup = "finished"

=============================================================================
