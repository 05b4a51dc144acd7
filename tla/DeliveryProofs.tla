----------------------------- MODULE DeliveryProofs -----------------------------
(***************************************************************************)
(* Theorems about DeliveryBridge, and about NodeSubscription around it,    *)
(* for any number of batches.                                              *)
(*                                                                         *)
(* The bridge's inductive invariant ties the credit, the delivery in       *)
(* flight, the slot and the queue together (OneDelivery), says that        *)
(* cleanup and teardown only work on a closed admission (Closed), where    *)
(* the JavaScript thread is (OnTheThread), and that batches advance in     *)
(* order (Ordered).  What happens to a batch that is lost needs another    *)
(* (Losing), and the refinement of SingleCredit is shown step by step.     *)
(*                                                                         *)
(* Every step of NodeSubscription is a step of the bridge or leaves it     *)
(* alone, so what is shown of the bridge holds there.  The invariant of    *)
(* the rest says how far attempt, task and wrapper can be apart (Attempt), *)
(* who has shut the admission when a cancellation is over (Cancelled),     *)
(* that a buffered batch is the one in flight (Early), and what a          *)
(* rejection has waited for (Rejecting).                                   *)
(***************************************************************************)
EXTENDS NodeSubscription, FiniteSetTheorems, TLAPS

\* The credit is away exactly while one delivery is in flight, and a wake-up
\* in the queue is for a batch in the slot, or the admission was closed.
OneDelivery ==
  /\ adm.credit <=> adm.inFlight = None
  /\ adm.outstanding = IF adm.inFlight = None THEN 0 ELSE 1
  /\ slot # None => slot = adm.inFlight
  /\ tsfn.queued = 1 => (slot = None => adm.inFlight = None /\ ~adm.open)

\* Cleanup, release and teardown follow the closing of the admission.
Closed ==
  /\ adm.open => cleanup = "none" /\ (tsfn.released => closing)
  /\ closing => tsfn.released
  /\ cleanup \in {"releasing", "finished"} => tsfn.released
  /\ tsfn.finalized => tsfn.released
  /\ cleanup = "finished" => closing \/ tsfn.finalized
  /\ tsfn.released => closing \/ adm.outstanding = 0

\* A callback under way is for the delivery in flight, in a live environment.
OnTheThread ==
  /\ js.stage # "idle" => ~closing
  /\ js.stage = "invoked" => js.id = adm.inFlight /\ js.id = slot /\ js.id # None
                             /\ tsfn.queued = 0
  /\ js.stage = "callback" => js.id \in handed

\* A batch waiting for its callback is newer than any the callback had, and the
\* one the dispatcher holds is newer still.
Ordered ==
  /\ \E b \in handed \union {None} : \A h \in handed : h <= b
  /\ \A h \in handed : h <= received
  /\ slot <= received
  /\ slot # None => \A h \in handed : h < slot
  /\ disp.stage = "received" =>
       /\ disp.id = received /\ received > slot /\ received > 0
       /\ \A h \in handed : h < received

IInv == TypeOK /\ OneDelivery /\ Closed /\ OnTheThread /\ Ordered

Admissions == [open : BOOLEAN, credit : BOOLEAN, outstanding : 0..1, inFlight : BatchOrNone]

\* What finish_delivery leaves.
Settled(id) ==
  /\ adm' \in Admissions /\ slot' \in BatchOrNone
  /\ adm'.open => adm.open
  /\ adm'.inFlight = IF id = adm.inFlight THEN None ELSE adm.inFlight
  /\ slot' = IF id = adm.inFlight /\ id = slot THEN None ELSE slot
  /\ adm'.credit <=> adm'.inFlight = None
  /\ adm'.outstanding = IF adm'.inFlight = None THEN 0 ELSE 1

LEMMA Finished ==
  ASSUME TypeOK, OneDelivery, NEW id, NEW shut \in BOOLEAN, FinishDelivery(id, shut)
  PROVE  Settled(id)
<1> USE MaxBatchesAssumption DEF Settled, TypeOK, OneDelivery, Admissions, BatchOrNone, None
<1>1. CASE id = None \/ adm.inFlight # id
  BY <1>1 DEF FinishDelivery
<1>2. CASE id # None /\ adm.inFlight = id
  <2>1. adm.outstanding - 1 = 0
    BY <1>2
  <2>2. adm' = [open |-> adm.open /\ ~shut, credit |-> TRUE, outstanding |-> 0, inFlight |-> 0]
    BY <1>2, <2>1 DEF FinishDelivery
  <2> QED BY <1>2, <2>2 DEF FinishDelivery
<1> QED BY <1>1, <1>2

\* What record_delivery_failure leaves.
LEMMA Recorded ==
  ASSUME TypeOK, RecordFailure
  PROVE  /\ adm' \in Admissions /\ stop' \in BOOLEAN /\ error' \in BOOLEAN
         /\ cleanup' \in {"none", "requested", "draining", "releasing", "finished"}
  BY DEF TypeOK, RecordFailure, CloseAdmission, RequestCleanup, Admissions

LEMMA InitIInv == Init => IInv
<1> SUFFICES ASSUME Init PROVE IInv
  OBVIOUS
<1> USE MaxBatchesAssumption DEF Init, Rest, None
<1>1. TypeOK
  <2>1. 0 \in BatchOrNone /\ {} \subseteq Batches
    BY DEF BatchOrNone
  <2>2. adm \in Admissions /\ tsfn \in [queued : 0..1, released : BOOLEAN, finalized : BOOLEAN]
    BY <2>1 DEF Admissions
  <2> QED BY <2>1, <2>2 DEF TypeOK, Admissions
<1>2. OneDelivery /\ Closed /\ OnTheThread
  BY DEF OneDelivery, Closed, OnTheThread
<1>3. Ordered
  BY DEF Ordered
<1> QED BY <1>1, <1>2, <1>3 DEF IInv

LEMMA StepIInv == IInv /\ [Next]_vars => IInv'
<1> SUFFICES ASSUME IInv, [Next]_vars
             PROVE  IInv'
  OBVIOUS
<1> USE MaxBatchesAssumption DEF IInv, TypeOK, None, Batches, BatchOrNone
<1>1. CASE Receive
  <2>1. TypeOK'
    BY <1>1 DEF Receive, Idle, Admissible, OneDelivery, Ordered
  <2>2. OneDelivery' /\ Closed'
    BY <1>1 DEF Receive, Idle, Admissible, OneDelivery, Closed, OnTheThread, Ordered
  <2>3. OnTheThread'
    BY <1>1 DEF Receive, Idle, Admissible, OnTheThread, OneDelivery
  <2>4. Ordered'
    BY <1>1 DEF Receive, Idle, Admissible, OnTheThread, Ordered
  <2> QED BY <2>1, <2>2, <2>3, <2>4 DEF IInv
<1>2. CASE Disconnected
  <2>1. TypeOK'
    BY <1>2, ZenonT(60) DEF Disconnected, CloseAdmission, RequestCleanup, OneDelivery, Ordered
  <2>2. OneDelivery' /\ Closed'
    BY <1>2 DEF Disconnected, CloseAdmission, RequestCleanup, OneDelivery, Closed, OnTheThread, Ordered
  <2>3. OnTheThread'
    BY <1>2 DEF Disconnected, CloseAdmission, RequestCleanup, OnTheThread, OneDelivery
  <2>4. Ordered'
    BY <1>2 DEF Disconnected, CloseAdmission, RequestCleanup, OnTheThread, Ordered
  <2> QED BY <2>1, <2>2, <2>3, <2>4 DEF IInv
<1>3. CASE Refuse
  <2>1. TypeOK'
    BY <1>3 DEF Refuse, Rest, OneDelivery, Ordered
  <2>2. OneDelivery' /\ Closed'
    BY <1>3 DEF Refuse, Rest, OneDelivery, Closed, OnTheThread, Ordered
  <2>3. OnTheThread'
    BY <1>3 DEF Refuse, Rest, OnTheThread, OneDelivery
  <2>4. Ordered'
    BY <1>3 DEF Refuse, Rest, OnTheThread, Ordered
  <2> QED BY <2>1, <2>2, <2>3, <2>4 DEF IInv
<1>4. CASE Admit
  <2>1. TypeOK'
    BY <1>4 DEF Admit, Rest, Admissible, OneDelivery, Ordered
  <2>2. OneDelivery' /\ Closed'
    BY <1>4 DEF Admit, Rest, Admissible, OneDelivery, Closed, OnTheThread, Ordered
  <2>3. OnTheThread'
    BY <1>4 DEF Admit, Rest, Admissible, OnTheThread, OneDelivery
  <2>4. Ordered'
    BY <1>4 DEF Admit, Rest, Admissible, OnTheThread, Ordered
  <2> QED BY <2>1, <2>2, <2>3, <2>4 DEF IInv
<1>5. CASE WakeUpFails
  <2>1. TypeOK'
    BY <1>5, ZenonT(60) DEF WakeUpFails, Admissible, OneDelivery, Ordered
  <2>2. OneDelivery' /\ Closed'
    BY <1>5 DEF WakeUpFails, Admissible, OneDelivery, Closed, OnTheThread, Ordered
  <2>3. OnTheThread'
    BY <1>5 DEF WakeUpFails, Admissible, OnTheThread, OneDelivery
  <2>4. Ordered'
    BY <1>5 DEF WakeUpFails, Admissible, OnTheThread, Ordered
  <2> QED BY <2>1, <2>2, <2>3, <2>4 DEF IInv
<1>6. CASE DispatcherRecordsFailure
  <2>1. TypeOK'
    BY <1>6, Recorded DEF DispatcherRecordsFailure, Rest, Admissions, OneDelivery, Ordered
  <2>2. OneDelivery' /\ Closed'
    BY <1>6 DEF DispatcherRecordsFailure, RecordFailure, CloseAdmission, RequestCleanup, Rest, OneDelivery, Closed, OnTheThread, Ordered
  <2>3. OnTheThread'
    BY <1>6 DEF DispatcherRecordsFailure, RecordFailure, CloseAdmission, RequestCleanup, Rest, OnTheThread, OneDelivery
  <2>4. Ordered'
    BY <1>6 DEF DispatcherRecordsFailure, RecordFailure, CloseAdmission, RequestCleanup, Rest, OnTheThread, Ordered
  <2> QED BY <2>1, <2>2, <2>3, <2>4 DEF IInv
<1>7. CASE Wake
  <2>1. TypeOK'
    BY <1>7 DEF Wake, Idle, Rest, OneDelivery, Ordered
  <2>2. OneDelivery' /\ Closed'
    BY <1>7 DEF Wake, Idle, Rest, OneDelivery, Closed, OnTheThread, Ordered
  <2>3. OnTheThread'
    BY <1>7 DEF Wake, Idle, Rest, OnTheThread, OneDelivery
  <2>4. Ordered'
    BY <1>7 DEF Wake, Idle, Rest, OnTheThread, Ordered
  <2> QED BY <2>1, <2>2, <2>3, <2>4 DEF IInv
<1>8. CASE CallBack
  <2>1. TypeOK'
    BY <1>8 DEF CallBack, OneDelivery, OnTheThread, Ordered
  <2>2. OneDelivery' /\ Closed'
    BY <1>8 DEF CallBack, OneDelivery, Closed, OnTheThread, Ordered
  <2>3. OnTheThread'
    BY <1>8 DEF CallBack, OnTheThread, OneDelivery
  <2>4. Ordered'
    BY <1>8 DEF CallBack, OnTheThread, Ordered
  <2> QED BY <2>1, <2>2, <2>3, <2>4 DEF IInv
<1>9. CASE CallBackImpossible
  <2>5. adm.outstanding - 1 = 0
    BY <1>9 DEF CallBackImpossible, OneDelivery, OnTheThread
  <2>6. adm' = [open |-> adm.open, credit |-> TRUE, outstanding |-> 0, inFlight |-> 0]
    BY <1>9, <2>5 DEF CallBackImpossible
  <2>7. adm' \in Admissions
    BY <2>6 DEF Admissions
  <2>1. TypeOK'
    BY <1>9, <2>7 DEF CallBackImpossible, Admissions
  <2>2. OneDelivery' /\ Closed'
    BY <1>9 DEF CallBackImpossible, OneDelivery, Closed, OnTheThread, Ordered
  <2>3. OnTheThread'
    BY <1>9 DEF CallBackImpossible, OnTheThread, OneDelivery
  <2>4. Ordered'
    BY <1>9 DEF CallBackImpossible, OnTheThread, Ordered
  <2> QED BY <2>1, <2>2, <2>3, <2>4 DEF IInv
<1>10. CASE CallbackOwns
  <2>1. TypeOK'
    BY <1>10 DEF CallbackOwns, Rest, OneDelivery, Ordered
  <2>2. OneDelivery' /\ Closed'
    BY <1>10 DEF CallbackOwns, Rest, OneDelivery, Closed, OnTheThread, Ordered
  <2>3. OnTheThread'
    BY <1>10 DEF CallbackOwns, Rest, OnTheThread, OneDelivery
  <2>4. Ordered'
    BY <1>10 DEF CallbackOwns, Rest, OnTheThread, Ordered
  <2> QED BY <2>1, <2>2, <2>3, <2>4 DEF IInv
<1>11. CASE CallbackDone
  <2>0. Settled(js.id)
    BY <1>11, Finished DEF CallbackDone
  <2>1. TypeOK'
    BY <1>11, <2>0 DEF Settled, CallbackDone, Rest, Admissions, OneDelivery, Ordered
  <2>2. OneDelivery' /\ Closed'
    BY <1>11, <2>0 DEF Settled, CallbackDone, Rest, Admissions, OneDelivery, Closed, OnTheThread, Ordered
  <2>3. OnTheThread'
    BY <1>11, <2>0 DEF Settled, CallbackDone, Rest, Admissions, OnTheThread, OneDelivery
  <2>4. Ordered'
    BY <1>11, <2>0 DEF Settled, CallbackDone, Rest, Admissions, OnTheThread, Ordered
  <2> QED BY <2>1, <2>2, <2>3, <2>4 DEF IInv
<1>12. CASE CallbackFails
  <2>0. Settled(js.id)
    BY <1>12, Finished DEF CallbackFails
  <2>1. TypeOK'
    BY <1>12, <2>0 DEF Settled, CallbackFails, Rest, Admissions, OneDelivery, Ordered
  <2>2. OneDelivery' /\ Closed'
    BY <1>12, <2>0 DEF Settled, CallbackFails, Rest, Admissions, OneDelivery, Closed, OnTheThread, Ordered
  <2>3. OnTheThread'
    BY <1>12, <2>0 DEF Settled, CallbackFails, Rest, Admissions, OnTheThread, OneDelivery
  <2>4. Ordered'
    BY <1>12, <2>0 DEF Settled, CallbackFails, Rest, Admissions, OnTheThread, Ordered
  <2> QED BY <2>1, <2>2, <2>3, <2>4 DEF IInv
<1>13. CASE JavaScriptRecordsFailure
  <2>1. TypeOK'
    BY <1>13, Recorded DEF JavaScriptRecordsFailure, Rest, Admissions, OneDelivery, Ordered
  <2>2. OneDelivery' /\ Closed'
    BY <1>13 DEF JavaScriptRecordsFailure, RecordFailure, CloseAdmission, RequestCleanup, Rest, OneDelivery, Closed, OnTheThread, Ordered
  <2>3. OnTheThread'
    BY <1>13 DEF JavaScriptRecordsFailure, RecordFailure, CloseAdmission, RequestCleanup, Rest, OnTheThread, OneDelivery
  <2>4. Ordered'
    BY <1>13 DEF JavaScriptRecordsFailure, RecordFailure, CloseAdmission, RequestCleanup, Rest, OnTheThread, Ordered
  <2> QED BY <2>1, <2>2, <2>3, <2>4 DEF IInv
<1>14. ASSUME NEW id \in Batches, NEW shut \in BOOLEAN, Complete(id, shut)
       PROVE  IInv'
  <2>0. Settled(id)
    BY <1>14, Finished DEF Complete
  <2>1. TypeOK'
    BY <1>14, <2>0 DEF Settled, Complete, Admissions
  <2>2. OneDelivery' /\ Closed'
    BY <1>14, <2>0 DEF Settled, Complete, InJavaScript, OneDelivery, Closed, OnTheThread, Ordered
  <2>3. OnTheThread'
    BY <1>14, <2>0 DEF Settled, Complete, InJavaScript, OnTheThread
  <2>4. Ordered'
    BY <1>14, <2>0 DEF Settled, Complete, Ordered
  <2> QED BY <2>1, <2>2, <2>3, <2>4 DEF IInv
<1>15. CASE Dispose
  <2>1. TypeOK'
    BY <1>15 DEF Dispose, CloseAdmission, RequestCleanup, OneDelivery, Ordered
  <2>2. OneDelivery' /\ Closed'
    BY <1>15 DEF Dispose, CloseAdmission, RequestCleanup, OneDelivery, Closed, OnTheThread, Ordered
  <2>3. OnTheThread'
    BY <1>15 DEF Dispose, CloseAdmission, RequestCleanup, OnTheThread, OneDelivery
  <2>4. Ordered'
    BY <1>15 DEF Dispose, CloseAdmission, RequestCleanup, OnTheThread, Ordered
  <2> QED BY <2>1, <2>2, <2>3, <2>4 DEF IInv
<1>16. CASE DisposeFails
  <2>1. TypeOK'
    BY <1>16, ZenonT(60) DEF DisposeFails, CloseAdmission, OneDelivery, Ordered
  <2>2. OneDelivery' /\ Closed'
    BY <1>16 DEF DisposeFails, CloseAdmission, OneDelivery, Closed, OnTheThread, Ordered
  <2>3. OnTheThread'
    BY <1>16 DEF DisposeFails, CloseAdmission, OnTheThread, OneDelivery
  <2>4. Ordered'
    BY <1>16 DEF DisposeFails, CloseAdmission, OnTheThread, Ordered
  <2> QED BY <2>1, <2>2, <2>3, <2>4 DEF IInv
<1>17. CASE Collect
  <2>1. /\ adm' \in Admissions /\ slot' \in BatchOrNone
        /\ adm'.open => cleanup = "finished" /\ adm.open
        /\ adm'.inFlight \in {adm.inFlight, None}
        /\ slot' \in {slot, None}
        /\ slot' # None => slot' = adm'.inFlight
        /\ adm'.inFlight = adm.inFlight => slot' = slot
        /\ adm'.credit <=> adm'.inFlight = None
        /\ adm'.outstanding = IF adm'.inFlight = None THEN 0 ELSE 1
    <3>1. CASE cleanup = "finished" \/ handle.explicit \/ adm.inFlight = None
      BY <1>17, <3>1, ZenonT(60) DEF Collect, CloseAdmission, OneDelivery, Admissions
    <3>2. CASE ~(cleanup = "finished" \/ handle.explicit \/ adm.inFlight = None)
      <4>1. FinishDelivery(adm.inFlight, TRUE)
        BY <1>17, <3>2 DEF Collect, Abandon
      <4>2. ~adm'.open
        BY <3>2, <4>1 DEF FinishDelivery
      <4> QED BY <3>2, <4>1, <4>2, Finished DEF Settled, OneDelivery
    <3> QED BY <3>1, <3>2
  <2>2. /\ Idle(js)
        /\ stop' \in BOOLEAN /\ cleanup' \in {cleanup, "requested"}
        /\ cleanup' # cleanup => cleanup = "none"
        /\ handle' \in [explicit : BOOLEAN, collected : BOOLEAN]
        /\ UNCHANGED <<closing, tsfn, js, disp, error, received, handed>>
    BY <1>17 DEF Collect, RequestCleanup
  <2>3. TypeOK'
    BY <2>1, <2>2 DEF Admissions
  <2>4. ~adm'.open
    BY <2>1 DEF Closed
  <2>5. OneDelivery'
    BY <2>1, <2>2, <2>4 DEF OneDelivery
  <2>6. Closed'
    BY <2>1, <2>2, <2>4 DEF Closed, OneDelivery
  <2>7. OnTheThread'
    BY <2>2 DEF OnTheThread, Idle
  <2>8. slot' <= received /\ (slot' # None => \A h \in handed : h < slot')
    BY <2>1, <2>2 DEF Ordered
  <2>9. Ordered'
    BY <2>2, <2>8, <2>1 DEF Ordered
  <2> QED BY <2>3, <2>5, <2>6, <2>7, <2>9 DEF IInv
<1>18. CASE Teardown
  <2>1. TypeOK'
    BY <1>18 DEF Teardown, CloseAdmission, RequestCleanup, Idle, OneDelivery, Ordered
  <2>2. OneDelivery' /\ Closed'
    BY <1>18 DEF Teardown, CloseAdmission, RequestCleanup, Idle, OneDelivery, Closed, OnTheThread, Ordered
  <2>3. OnTheThread'
    BY <1>18 DEF Teardown, CloseAdmission, RequestCleanup, Idle, OnTheThread, OneDelivery
  <2>4. Ordered'
    BY <1>18 DEF Teardown, CloseAdmission, RequestCleanup, Idle, OnTheThread, Ordered
  <2> QED BY <2>1, <2>2, <2>3, <2>4 DEF IInv
<1>19. CASE WakeWithoutEnvironment
  <2>0. Settled(adm.inFlight)
    BY <1>19, Finished DEF WakeWithoutEnvironment
  <2>1. TypeOK'
    BY <1>19, <2>0 DEF Settled, WakeWithoutEnvironment, Idle, Admissions, OneDelivery, Ordered
  <2>2. OneDelivery' /\ Closed'
    BY <1>19, <2>0 DEF Settled, WakeWithoutEnvironment, Idle, Admissions, OneDelivery, Closed, OnTheThread, Ordered
  <2>3. OnTheThread'
    BY <1>19, <2>0 DEF Settled, WakeWithoutEnvironment, Idle, Admissions, OnTheThread, OneDelivery
  <2>4. Ordered'
    BY <1>19, <2>0 DEF Settled, WakeWithoutEnvironment, Idle, Admissions, OnTheThread, Ordered
  <2> QED BY <2>1, <2>2, <2>3, <2>4 DEF IInv
<1>20. CASE Finalize
  <2>0. Settled(adm.inFlight)
    BY <1>20, Finished DEF Finalize, Abandon
  <2>1. TypeOK'
    BY <1>20, <2>0 DEF Settled, Finalize, Idle, Admissions, Abandon, OneDelivery, Ordered
  <2>2. OneDelivery' /\ Closed'
    BY <1>20, <2>0 DEF Settled, Finalize, Idle, Admissions, Abandon, OneDelivery, Closed, OnTheThread, Ordered
  <2>3. OnTheThread'
    BY <1>20, <2>0 DEF Settled, Finalize, Idle, Admissions, Abandon, OnTheThread, OneDelivery
  <2>4. Ordered'
    BY <1>20, <2>0 DEF Settled, Finalize, Idle, Admissions, Abandon, OnTheThread, Ordered
  <2> QED BY <2>1, <2>2, <2>3, <2>4 DEF IInv
<1>21. CASE CleanEngine
  <2>1. TypeOK'
    BY <1>21 DEF CleanEngine, CloseAdmission, OneDelivery, Ordered
  <2>2. OneDelivery' /\ Closed'
    BY <1>21 DEF CleanEngine, CloseAdmission, OneDelivery, Closed, OnTheThread, Ordered
  <2>3. OnTheThread'
    BY <1>21 DEF CleanEngine, CloseAdmission, OnTheThread, OneDelivery
  <2>4. Ordered'
    BY <1>21 DEF CleanEngine, CloseAdmission, OnTheThread, Ordered
  <2> QED BY <2>1, <2>2, <2>3, <2>4 DEF IInv
<1>22. CASE Release
  <2>1. TypeOK'
    BY <1>22, ZenonT(60) DEF Release, OneDelivery, Ordered
  <2>2. OneDelivery' /\ Closed'
    BY <1>22 DEF Release, OneDelivery, Closed, OnTheThread, Ordered
  <2>3. OnTheThread'
    BY <1>22 DEF Release, OnTheThread, OneDelivery
  <2>4. Ordered'
    BY <1>22 DEF Release, OnTheThread, Ordered
  <2> QED BY <2>1, <2>2, <2>3, <2>4 DEF IInv
<1>23. CASE FinishCleanup
  <2>1. TypeOK'
    BY <1>23 DEF FinishCleanup, OneDelivery, Ordered
  <2>2. OneDelivery' /\ Closed'
    BY <1>23 DEF FinishCleanup, OneDelivery, Closed, OnTheThread, Ordered
  <2>3. OnTheThread'
    BY <1>23 DEF FinishCleanup, OnTheThread, OneDelivery
  <2>4. Ordered'
    BY <1>23 DEF FinishCleanup, OnTheThread, Ordered
  <2> QED BY <2>1, <2>2, <2>3, <2>4 DEF IInv
<1>24. ASSUME NEW stopping \in BOOLEAN, CloseEarly(stopping)
       PROVE  IInv'
  <2>1. TypeOK'
    BY <1>24, ZenonT(60) DEF CloseEarly, CloseAdmission, OneDelivery, Ordered
  <2>2. OneDelivery' /\ Closed'
    BY <1>24 DEF CloseEarly, CloseAdmission, OneDelivery, Closed, OnTheThread, Ordered
  <2>3. OnTheThread'
    BY <1>24 DEF CloseEarly, CloseAdmission, OnTheThread, OneDelivery
  <2>4. Ordered'
    BY <1>24 DEF CloseEarly, CloseAdmission, OnTheThread, Ordered
  <2> QED BY <2>1, <2>2, <2>3, <2>4 DEF IInv
<1>25. CASE ReleaseEarly
  <2>1. TypeOK'
    BY <1>25, ZenonT(60) DEF ReleaseEarly, OneDelivery, Ordered
  <2>2. OneDelivery' /\ Closed'
    BY <1>25 DEF ReleaseEarly, OneDelivery, Closed, OnTheThread, Ordered
  <2>3. OnTheThread'
    BY <1>25 DEF ReleaseEarly, OnTheThread, OneDelivery
  <2>4. Ordered'
    BY <1>25 DEF ReleaseEarly, OnTheThread, Ordered
  <2> QED BY <2>1, <2>2, <2>3, <2>4 DEF IInv
<1>26. CASE TeardownEarly
  <2>1. TypeOK'
    BY <1>26 DEF TeardownEarly, Idle, OneDelivery, Ordered
  <2>2. OneDelivery' /\ Closed'
    BY <1>26 DEF TeardownEarly, Idle, OneDelivery, Closed, OnTheThread, Ordered
  <2>3. OnTheThread'
    BY <1>26 DEF TeardownEarly, Idle, OnTheThread, OneDelivery
  <2>4. Ordered'
    BY <1>26 DEF TeardownEarly, Idle, OnTheThread, Ordered
  <2> QED BY <2>1, <2>2, <2>3, <2>4 DEF IInv
<1>27. CASE CleanUnpublished
  <2>1. TypeOK'
    BY <1>27 DEF CleanUnpublished, CloseAdmission, OneDelivery, Ordered
  <2>2. OneDelivery' /\ Closed'
    BY <1>27 DEF CleanUnpublished, CloseAdmission, OneDelivery, Closed, OnTheThread, Ordered
  <2>3. OnTheThread'
    BY <1>27 DEF CleanUnpublished, CloseAdmission, OnTheThread, OneDelivery
  <2>4. Ordered'
    BY <1>27 DEF CleanUnpublished, CloseAdmission, OnTheThread, Ordered
  <2> QED BY <2>1, <2>2, <2>3, <2>4 DEF IInv
<1>28. CASE UNCHANGED vars
  <2>1. TypeOK'
    BY <1>28 DEF vars, OneDelivery, Ordered
  <2>2. OneDelivery' /\ Closed'
    BY <1>28 DEF vars, OneDelivery, Closed, OnTheThread, Ordered
  <2>3. OnTheThread'
    BY <1>28 DEF vars, OnTheThread, OneDelivery
  <2>4. Ordered'
    BY <1>28 DEF vars, OnTheThread, Ordered
  <2> QED BY <2>1, <2>2, <2>3, <2>4 DEF IInv
<1> QED
  BY <1>1, <1>2, <1>3, <1>4, <1>5, <1>6, <1>7, <1>8, <1>9, <1>10, <1>11, <1>12,
     <1>13, <1>14, <1>15, <1>16, <1>17, <1>18, <1>19, <1>20, <1>21, <1>22, <1>23, <1>24,
     <1>25, <1>26, <1>27, <1>28
  DEF Next, Dispatcher, EventLoop, Callback, Consumer, CleanupOwner, Establishment

LEMMA AlwaysIInv == Spec => []IInv
  BY InitIInv, StepIInv, PTL DEF Spec

\* Every part of the bridge keeps its type: in particular the counter of
\* outstanding callbacks never underflows and the queue never overfills.
THEOREM TypesHold == Spec => []TypeOK
<1>1. IInv => TypeOK
  BY DEF IInv
<1> QED BY <1>1, AlwaysIInv, PTL

\* The dispatcher's blocking wake-up always finds room, so it never holds the
\* environment's barrier against the JavaScript thread (delivery.rs:1334).
THEOREM NeverBlocks == Spec => []WakeUpNeverBlocks
<1>1. IInv => WakeUpNeverBlocks
  BY DEF IInv, TypeOK, OneDelivery, Closed, WakeUpNeverBlocks, Admissible, None
<1> QED BY <1>1, AlwaysIInv, PTL

-----------------------------------------------------------------------------
(* A lost batch shuts the bridge.  LossShutsTheBridge is not inductive:    *)
(* that one later batch at most reaches the callback also counts the one   *)
(* in the slot or with the dispatcher (Coming), and there is never one in  *)
(* both.                                                                   *)

Shut == closing \/ ~adm.open
Failing == js.stage = "failing" \/ disp.stage = "failing"
Receiving == disp.stage = "received"

IsLost(l) ==
  /\ l \in 1..received /\ l \notin handed /\ l # slot
  /\ Receiving => l # disp.id
  /\ js.stage = "invoked" => l # js.id

\* The callback was called with it, or may still be.
Coming(b) == b \in handed \/ (slot # None /\ b = slot) \/ (Receiving /\ b = disp.id)

LostWhenShut ==
  ~Shut => \A l \in Batches : IsLost(l) => Failing /\ \A b \in handed : b < l
OneLater ==
  \A l, a, b \in Batches : IsLost(l) /\ Coming(a) /\ Coming(b) /\ a > l /\ b > l => a = b

Losing ==
  /\ error => ~adm.open
  /\ Receiving => adm.inFlight = None
  /\ disp.stage = "failing" => slot = None
  /\ LostWhenShut
  /\ OneLater

LEMMA InitLosing == Init => Losing
  BY DEF Init, Rest, None, Losing, LostWhenShut, OneLater, IsLost, Coming, Receiving, Shut,
         Failing

LEMMA StepLosing == IInv /\ Losing /\ [Next]_vars => Losing'
<1> SUFFICES ASSUME IInv, Losing, [Next]_vars
             PROVE  Losing'
  OBVIOUS
<1> USE MaxBatchesAssumption
    DEF IInv, TypeOK, OneDelivery, OnTheThread, Ordered, None, Batches, BatchOrNone,
        Losing, Receiving, Shut, Failing
<1>1. CASE Receive
  <2>1. LostWhenShut'
    BY <1>1 DEF Receive, Idle, Admissible, LostWhenShut, IsLost
  <2>2. OneLater'
    <3> SUFFICES ASSUME NEW l \in Batches, IsLost(l)', NEW b \in Batches, Coming(b)', b > l
                 PROVE  b = disp'.id
      BY DEF OneLater
    <3>1. IsLost(l) /\ ~Shut
      BY <1>1 DEF Receive, Idle, Admissible, IsLost
    <3>2. \A h \in handed : h < l
      BY <3>1 DEF LostWhenShut
    <3> QED BY <1>1, <3>2 DEF Receive, Admissible, Coming
  <2> QED BY <1>1, <2>1, <2>2 DEF Receive, Idle, Admissible
<1>2. CASE Disconnected
  <2>1. LostWhenShut'
    BY <1>2 DEF Disconnected, CloseAdmission, RequestCleanup, LostWhenShut, IsLost
  <2>2. OneLater'
    BY <1>2 DEF Disconnected, CloseAdmission, RequestCleanup, OneLater, IsLost, Coming
  <2> QED BY <1>2, <2>1, <2>2 DEF Disconnected, CloseAdmission, RequestCleanup
<1>3. CASE Refuse
  <2>1. LostWhenShut'
    BY <1>3 DEF Refuse, Rest, Admissible, LostWhenShut, IsLost
  <2>2. OneLater'
    BY <1>3 DEF Refuse, Rest, Admissible, OneLater, IsLost, Coming
  <2> QED BY <1>3, <2>1, <2>2 DEF Refuse, Rest, Admissible
<1>4. CASE Admit
  <2>1. LostWhenShut'
    BY <1>4 DEF Admit, Rest, Admissible, LostWhenShut, IsLost
  <2>2. OneLater'
    BY <1>4 DEF Admit, Rest, Admissible, OneLater, IsLost, Coming
  <2> QED BY <1>4, <2>1, <2>2 DEF Admit, Rest, Admissible
<1>5. CASE WakeUpFails
  <2>1. LostWhenShut'
    BY <1>5 DEF WakeUpFails, Admissible, LostWhenShut, IsLost
  <2>2. OneLater'
    BY <1>5 DEF WakeUpFails, Admissible, OneLater, IsLost, Coming
  <2> QED BY <1>5, <2>1, <2>2 DEF WakeUpFails, Admissible
<1>6. CASE DispatcherRecordsFailure
  <2>1. LostWhenShut'
    BY <1>6 DEF DispatcherRecordsFailure, RecordFailure, CloseAdmission, RequestCleanup, Rest, LostWhenShut, IsLost
  <2>2. OneLater'
    BY <1>6 DEF DispatcherRecordsFailure, RecordFailure, CloseAdmission, RequestCleanup, Rest, OneLater, IsLost, Coming
  <2> QED BY <1>6, <2>1, <2>2 DEF DispatcherRecordsFailure, RecordFailure, CloseAdmission, RequestCleanup, Rest
<1>7. CASE Wake
  <2>1. LostWhenShut'
    BY <1>7 DEF Wake, Idle, Rest, LostWhenShut, IsLost
  <2>2. OneLater'
    BY <1>7 DEF Wake, Idle, Rest, OneLater, IsLost, Coming
  <2> QED BY <1>7, <2>1, <2>2 DEF Wake, Idle, Rest
<1>8. CASE CallBack
  <2>1. LostWhenShut'
    BY <1>8 DEF CallBack, LostWhenShut, IsLost
  <2>2. OneLater'
    BY <1>8 DEF CallBack, OneLater, IsLost, Coming
  <2> QED BY <1>8, <2>1, <2>2 DEF CallBack
<1>9. CASE CallBackImpossible
  <2>1. LostWhenShut'
    BY <1>9 DEF CallBackImpossible, LostWhenShut, IsLost
  <2>2. OneLater'
    BY <1>9 DEF CallBackImpossible, OneLater, IsLost, Coming
  <2> QED BY <1>9, <2>1, <2>2 DEF CallBackImpossible
<1>10. CASE CallbackOwns
  <2>1. LostWhenShut'
    BY <1>10 DEF CallbackOwns, Rest, LostWhenShut, IsLost
  <2>2. OneLater'
    BY <1>10 DEF CallbackOwns, Rest, OneLater, IsLost, Coming
  <2> QED BY <1>10, <2>1, <2>2 DEF CallbackOwns, Rest
<1>11. CASE CallbackDone
  <2>1. Settled(js.id)
    BY <1>11, Finished DEF CallbackDone
  <2>2. LostWhenShut'
    BY <1>11, <2>1 DEF Settled, CallbackDone, Rest, LostWhenShut, IsLost
  <2>3. OneLater'
    BY <1>11, <2>1 DEF Settled, CallbackDone, Rest, OneLater, IsLost, Coming
  <2> QED BY <1>11, <2>1, <2>2, <2>3 DEF Settled, CallbackDone, Rest
<1>12. CASE CallbackFails
  <2>1. Settled(js.id)
    BY <1>12, Finished DEF CallbackFails
  <2>2. LostWhenShut'
    BY <1>12, <2>1 DEF Settled, CallbackFails, Rest, LostWhenShut, IsLost
  <2>3. OneLater'
    BY <1>12, <2>1 DEF Settled, CallbackFails, Rest, OneLater, IsLost, Coming
  <2> QED BY <1>12, <2>1, <2>2, <2>3 DEF Settled, CallbackFails, Rest
<1>13. CASE JavaScriptRecordsFailure
  <2>1. LostWhenShut'
    BY <1>13 DEF JavaScriptRecordsFailure, RecordFailure, CloseAdmission, RequestCleanup, Rest, LostWhenShut, IsLost
  <2>2. OneLater'
    BY <1>13 DEF JavaScriptRecordsFailure, RecordFailure, CloseAdmission, RequestCleanup, Rest, OneLater, IsLost, Coming
  <2> QED BY <1>13, <2>1, <2>2 DEF JavaScriptRecordsFailure, RecordFailure, CloseAdmission, RequestCleanup, Rest
<1>14. ASSUME NEW id \in Batches, NEW shut \in BOOLEAN, Complete(id, shut)
     PROVE  Losing'
  <2>1. Settled(id) /\ id \in handed /\ UNCHANGED <<closing, js, disp, error, received, handed>>
    BY <1>14, Finished DEF Complete
  <2>2. LostWhenShut'
    BY <2>1 DEF Settled, LostWhenShut, IsLost
  <2>3. OneLater'
    BY <2>1 DEF Settled, OneLater, IsLost, Coming
  <2> QED BY <2>1, <2>2, <2>3 DEF Settled
<1>15. CASE Dispose
  <2>1. LostWhenShut'
    BY <1>15 DEF Dispose, CloseAdmission, RequestCleanup, LostWhenShut, IsLost
  <2>2. OneLater'
    BY <1>15 DEF Dispose, CloseAdmission, RequestCleanup, OneLater, IsLost, Coming
  <2> QED BY <1>15, <2>1, <2>2 DEF Dispose, CloseAdmission, RequestCleanup
<1>16. CASE DisposeFails
  <2>1. LostWhenShut'
    BY <1>16 DEF DisposeFails, CloseAdmission, LostWhenShut, IsLost
  <2>2. OneLater'
    BY <1>16 DEF DisposeFails, CloseAdmission, OneLater, IsLost, Coming
  <2> QED BY <1>16, <2>1, <2>2 DEF DisposeFails, CloseAdmission
<1>17. CASE Collect
  <2>1. UNCHANGED <<closing, js, disp, error, received, handed>>
    BY <1>17 DEF Collect
  <2>2. ~adm'.open /\ slot' \in {None, slot} /\ adm'.inFlight \in {None, adm.inFlight}
    <3>1. CASE cleanup = "finished"
      BY <1>17, <3>1 DEF Collect, Closed
    <3>2. CASE cleanup # "finished" /\ (handle.explicit \/ adm.inFlight = None)
      BY <1>17, <3>2 DEF Collect, CloseAdmission
    <3>3. CASE cleanup # "finished" /\ ~(handle.explicit \/ adm.inFlight = None)
      BY <1>17, <3>3 DEF Collect, Abandon, FinishDelivery
    <3> QED BY <3>1, <3>2, <3>3
  <2>3. LostWhenShut'
    BY <2>2 DEF LostWhenShut
  <2>4. OneLater'
    BY <2>1, <2>2 DEF OneLater, IsLost, Coming
  <2> QED BY <2>1, <2>2, <2>3, <2>4
<1>18. CASE Teardown
  <2>1. LostWhenShut'
    BY <1>18 DEF Teardown, CloseAdmission, RequestCleanup, LostWhenShut, IsLost
  <2>2. OneLater'
    BY <1>18 DEF Teardown, CloseAdmission, RequestCleanup, OneLater, IsLost, Coming
  <2> QED BY <1>18, <2>1, <2>2 DEF Teardown, CloseAdmission, RequestCleanup
<1>19. CASE WakeWithoutEnvironment
  <2>1. Settled(adm.inFlight)
    BY <1>19, Finished DEF WakeWithoutEnvironment
  <2>2. LostWhenShut'
    BY <1>19, <2>1 DEF Settled, WakeWithoutEnvironment, Idle, LostWhenShut, IsLost
  <2>3. OneLater'
    BY <1>19, <2>1 DEF Settled, WakeWithoutEnvironment, Idle, OneLater, IsLost, Coming
  <2> QED BY <1>19, <2>1, <2>2, <2>3 DEF Settled, WakeWithoutEnvironment, Idle
<1>20. CASE Finalize
  <2>1. UNCHANGED <<closing, js, disp, error, received, handed>> /\ Settled(adm.inFlight)
    BY <1>20, Finished DEF Finalize, Abandon
  <2>2. Shut \/ slot = None
    BY <1>20 DEF Finalize, Closed
  <2>3. LostWhenShut'
    BY <2>1, <2>2 DEF Settled, LostWhenShut, IsLost
  <2>4. OneLater'
    BY <2>1, <2>2 DEF Settled, OneLater, IsLost, Coming
  <2> QED BY <2>1, <2>3, <2>4 DEF Settled
<1>21. CASE CleanEngine
  <2>1. LostWhenShut'
    BY <1>21 DEF CleanEngine, CloseAdmission, LostWhenShut, IsLost
  <2>2. OneLater'
    BY <1>21 DEF CleanEngine, CloseAdmission, OneLater, IsLost, Coming
  <2> QED BY <1>21, <2>1, <2>2 DEF CleanEngine, CloseAdmission
<1>22. CASE Release
  <2>1. LostWhenShut'
    BY <1>22 DEF Release, LostWhenShut, IsLost
  <2>2. OneLater'
    BY <1>22 DEF Release, OneLater, IsLost, Coming
  <2> QED BY <1>22, <2>1, <2>2 DEF Release
<1>23. CASE FinishCleanup
  <2>1. LostWhenShut'
    BY <1>23 DEF FinishCleanup, LostWhenShut, IsLost
  <2>2. OneLater'
    BY <1>23 DEF FinishCleanup, OneLater, IsLost, Coming
  <2> QED BY <1>23, <2>1, <2>2 DEF FinishCleanup
<1>24. ASSUME NEW stopping \in BOOLEAN, CloseEarly(stopping)
       PROVE  Losing'
  <2>1. LostWhenShut'
    BY <1>24 DEF CloseEarly, CloseAdmission, LostWhenShut, IsLost
  <2>2. OneLater'
    BY <1>24 DEF CloseEarly, CloseAdmission, OneLater, IsLost, Coming
  <2> QED BY <1>24, <2>1, <2>2 DEF CloseEarly, CloseAdmission
<1>25. CASE ReleaseEarly
  <2>1. LostWhenShut'
    BY <1>25 DEF ReleaseEarly, LostWhenShut, IsLost
  <2>2. OneLater'
    BY <1>25 DEF ReleaseEarly, OneLater, IsLost, Coming
  <2> QED BY <1>25, <2>1, <2>2 DEF ReleaseEarly
<1>26. CASE TeardownEarly
  <2>1. LostWhenShut'
    BY <1>26 DEF TeardownEarly, LostWhenShut, IsLost
  <2>2. OneLater'
    BY <1>26 DEF TeardownEarly, OneLater, IsLost, Coming
  <2> QED BY <1>26, <2>1, <2>2 DEF TeardownEarly
<1>27. CASE CleanUnpublished
  <2>1. LostWhenShut'
    BY <1>27 DEF CleanUnpublished, CloseAdmission, LostWhenShut, IsLost
  <2>2. OneLater'
    BY <1>27 DEF CleanUnpublished, CloseAdmission, OneLater, IsLost, Coming
  <2> QED BY <1>27, <2>1, <2>2 DEF CleanUnpublished, CloseAdmission
<1>28. CASE UNCHANGED vars
  BY <1>28 DEF vars, LostWhenShut, OneLater, IsLost, Coming
<1> QED
  BY <1>1, <1>2, <1>3, <1>4, <1>5, <1>6, <1>7, <1>8, <1>9, <1>10, <1>11, <1>12, <1>13, <1>14, <1>15, <1>16, <1>17, <1>18, <1>19, <1>20, <1>21, <1>22, <1>23, <1>24, <1>25, <1>26, <1>27, <1>28
  DEF Next, Dispatcher, EventLoop, Callback, Consumer, CleanupOwner, Establishment

LEMMA LostOnes == ASSUME TypeOK, NEW l PROVE l \in Lost <=> IsLost(l)
<1>1. Pending = {slot} \union (IF Receiving THEN {disp.id} ELSE {})
                       \union (IF js.stage = "invoked" THEN {js.id} ELSE {})
  BY DEF TypeOK, Pending, Receiving
<1> QED BY <1>1 DEF Lost, IsLost

LEMMA AtMostOne ==
  ASSUME NEW S, \A a, b \in S : a = b
  PROVE  Cardinality(S) <= 1
<1>1. CASE S = {}
  BY <1>1, FS_EmptySet
<1>2. ASSUME NEW x \in S PROVE Cardinality(S) <= 1
  <2>1. S = {x}
    OBVIOUS
  <2> QED BY <2>1, FS_Singleton
<1> QED BY <1>1, <1>2

\* A batch taken from the engine is lost only by a bridge that is shut or about to
\* be, and the callback is called with one later batch at most.
THEOREM LossesShut == Spec => []LossShutsTheBridge
<1>1. IInv /\ Losing => LossShutsTheBridge
  <2> SUFFICES ASSUME IInv, Losing PROVE LossShutsTheBridge
    OBVIOUS
  <2>1. TypeOK /\ \A l : l \in Lost <=> IsLost(l)
    BY LostOnes DEF IInv
  <2>2. \A l : IsLost(l) => l \in Batches
    BY <2>1, MaxBatchesAssumption DEF TypeOK, IsLost, Batches, BatchOrNone
  <2>3. Lost # {} => closing \/ ~adm.open \/ "failing" \in {js.stage, disp.stage}
    BY <2>1, <2>2 DEF Losing, LostWhenShut, Shut, Failing
  <2>4. ASSUME NEW l \in Lost
        PROVE  Cardinality({h \in handed : h > l}) <= 1
    <3>1. \A a, b \in {h \in handed : h > l} : a = b
      BY <2>1, <2>2, <2>4 DEF TypeOK, Losing, OneLater, Coming
    <3> QED BY <3>1, AtMostOne
  <2> QED BY <2>3, <2>4 DEF LossShutsTheBridge
<1>2. Spec => []Losing
  BY InitLosing, StepLosing, AlwaysIInv, InitIInv, StepIInv, PTL DEF Spec
<1> QED BY <1>1, <1>2, AlwaysIInv, PTL

-----------------------------------------------------------------------------
(* The refinement. *)

LEMMA NewestHanded ==
  ASSUME IInv
  PROVE  /\ Newest \in handed \union {None}
         /\ \A h \in handed : h <= Newest
  BY DEF IInv, Ordered, Newest

\* A step the promise sees as a stutter, a settlement or a shutting.
Quiet ==
  /\ adm'.outstanding \in {adm.outstanding, 0}
  /\ adm'.open \in {adm.open, FALSE}
  /\ UNCHANGED <<handed, closing>>
  /\ tsfn'.released = tsfn.released
  /\ (cleanup = "finished") <=> (cleanup' = "finished")

LEMMA SettledIsQuiet ==
  ASSUME IInv, NEW id, Settled(id), UNCHANGED <<handed, closing>>,
         tsfn'.released = tsfn.released,
         (cleanup = "finished") <=> (cleanup' = "finished")
  PROVE  Quiet
<1>1. adm'.outstanding \in {adm.outstanding, 0}
  BY DEF Settled, IInv, OneDelivery
<1>2. adm'.open \in {adm.open, FALSE}
  BY DEF Settled, Admissions, IInv, TypeOK
<1> QED BY <1>1, <1>2 DEF Quiet

LEMMA StepImplements ==
  ASSUME IInv, [Next]_vars
  PROVE  [Credit!Next]_(Credit!creditVars)
<1> USE DEF IInv
<1>1. CASE Admit
  <2>1. /\ adm.outstanding = 0 /\ adm'.outstanding = 1 /\ adm'.open /\ adm.open
        /\ UNCHANGED <<closing, handed, cleanup>> /\ tsfn'.released = tsfn.released
    BY <1>1 DEF Admit, Admissible, OneDelivery, TypeOK
  <2>2. ~closing
    BY <1>1 DEF Admit, Admissible
  <2>3. Credit!Offer
    BY <2>1, <2>2 DEF Credit!Offer, Newest
  <2> QED BY <2>3 DEF Credit!Next
<1>2. CASE CallBack
  <2>1. /\ adm.outstanding = 1 /\ ~closing /\ cleanup # "finished"
    BY <1>2 DEF CallBack, OneDelivery, OnTheThread, Closed, TypeOK
  <2>2. UNCHANGED <<adm, closing, cleanup, tsfn>>
    BY <1>2 DEF CallBack
  <2>3. js.id \in Nat /\ js.id > 0 /\ (\A h \in handed : h < js.id) /\ handed' = handed \union {js.id}
    BY <1>2, MaxBatchesAssumption
       DEF CallBack, Ordered, OnTheThread, TypeOK, BatchOrNone, None
  <2>4. handed \subseteq Nat
    BY MaxBatchesAssumption DEF TypeOK, Batches
  <2>5. Newest' = js.id
    <3>1. \A b \in handed' \union {None} : (\A h \in handed' : h <= b) <=> b = js.id
      BY <2>3, <2>4 DEF None
    <3> QED BY <2>3, <3>1 DEF Newest
  <2>6. Newest < js.id
    BY <2>3, <2>4, NewestHanded DEF None
  <2>7. Credit!Hand
    BY <2>1, <2>2, <2>3, <2>5, <2>6 DEF Credit!Hand
  <2> QED BY <2>7 DEF Credit!Next
<1>3. CASE Teardown
  <2>1. Credit!TearDown
    BY <1>3 DEF Teardown, CloseAdmission, RequestCleanup, Credit!TearDown, Newest, TypeOK
  <2> QED BY <2>1 DEF Credit!Next
<1>4. CASE Release
  <2>1. adm.outstanding = 0 \/ closing
    BY <1>4 DEF Release
  <2>2. ~adm.open
    BY <1>4 DEF Release, Closed
  <2>3. Credit!Free
    BY <1>4, <2>1, <2>2 DEF Release, Credit!Free, Newest, TypeOK
  <2> QED BY <2>3 DEF Credit!Next
<1>5. CASE FinishCleanup
  <2>1. tsfn.released
    BY <1>5 DEF FinishCleanup, Closed
  <2>2. Credit!End
    BY <1>5, <2>1 DEF FinishCleanup, Credit!End, Newest
  <2> QED BY <2>2 DEF Credit!Next
<1>6. ASSUME Quiet
      PROVE  [Credit!Next]_(Credit!creditVars)
  <2>1. adm.outstanding \in {0, 1} /\ closing \in BOOLEAN /\ adm.open \in BOOLEAN
    BY DEF TypeOK
  <2>2. Newest' = Newest
    BY <1>6 DEF Quiet, Newest
  <2>3. CASE adm'.outstanding = adm.outstanding /\ adm'.open = adm.open
    BY <1>6, <2>2, <2>3 DEF Quiet, Credit!creditVars
  <2>4. CASE adm'.outstanding = adm.outstanding /\ ~adm'.open
    BY <1>6, <2>2, <2>4 DEF Quiet, Credit!Next, Credit!Shut
  <2>5. CASE adm.outstanding = 1 /\ adm'.outstanding = 0
    <3>1. (closing' \/ ~adm'.open) \in {closing \/ ~adm.open, TRUE}
      BY <1>6, <2>1 DEF Quiet
    <3>2. /\ (adm.outstanding = 1) = TRUE /\ (adm'.outstanding = 1) = FALSE
          /\ UNCHANGED <<closing, tsfn.released>> /\ (cleanup = "finished")' = (cleanup = "finished")
      BY <1>6, <2>5 DEF Quiet
    <3>3. Credit!Settle
      BY <2>2, <3>1, <3>2 DEF Credit!Settle
    <3> QED BY <3>3 DEF Credit!Next
  <2> QED BY <1>6, <2>1, <2>3, <2>4, <2>5 DEF Quiet
<1>7. CASE Receive
  <2>1. Quiet
    BY <1>7 DEF Quiet, TypeOK, Receive
  <2> QED BY <1>6, <2>1
<1>8. CASE Disconnected
  <2>1. Quiet
    BY <1>8 DEF Quiet, TypeOK, Disconnected, CloseAdmission, RequestCleanup
  <2> QED BY <1>6, <2>1
<1>9. CASE Refuse
  <2>1. Quiet
    BY <1>9 DEF Quiet, TypeOK, Refuse
  <2> QED BY <1>6, <2>1
<1>10. CASE WakeUpFails
  <2>1. Quiet
    BY <1>10 DEF Quiet, TypeOK, WakeUpFails
  <2> QED BY <1>6, <2>1
<1>11. CASE DispatcherRecordsFailure
  <2>1. Quiet
    BY <1>11 DEF Quiet, TypeOK, DispatcherRecordsFailure, RecordFailure, CloseAdmission, RequestCleanup
  <2> QED BY <1>6, <2>1
<1>12. CASE Wake
  <2>1. Quiet
    BY <1>12 DEF Quiet, TypeOK, Wake
  <2> QED BY <1>6, <2>1
<1>13. CASE CallBackImpossible
  <2>1. Quiet
    BY <1>13 DEF Quiet, TypeOK, CallBackImpossible, OneDelivery, OnTheThread
  <2> QED BY <1>6, <2>1
<1>14. CASE CallbackOwns
  <2>1. Quiet
    BY <1>14 DEF Quiet, TypeOK, CallbackOwns
  <2> QED BY <1>6, <2>1
<1>15. CASE CallbackDone
  <2>1. Settled(js.id) /\ UNCHANGED <<handed, closing, cleanup>> /\ tsfn'.released = tsfn.released
    BY <1>15, Finished DEF CallbackDone, TypeOK
  <2>2. Quiet
    BY <2>1, SettledIsQuiet
  <2> QED BY <1>6, <2>2
<1>16. CASE CallbackFails
  <2>1. Settled(js.id) /\ UNCHANGED <<handed, closing, cleanup>> /\ tsfn'.released = tsfn.released
    BY <1>16, Finished DEF CallbackFails, TypeOK
  <2>2. Quiet
    BY <2>1, SettledIsQuiet
  <2> QED BY <1>6, <2>2
<1>17. CASE JavaScriptRecordsFailure
  <2>1. Quiet
    BY <1>17 DEF Quiet, TypeOK, JavaScriptRecordsFailure, RecordFailure, CloseAdmission, RequestCleanup
  <2> QED BY <1>6, <2>1
<1>18. ASSUME NEW id \in Batches, NEW shut \in BOOLEAN, Complete(id, shut)
       PROVE  [Credit!Next]_(Credit!creditVars)
  <2>1. Settled(id) /\ UNCHANGED <<handed, closing, cleanup>> /\ tsfn'.released = tsfn.released
    BY <1>18, Finished DEF Complete
  <2>2. Quiet
    BY <2>1, SettledIsQuiet
  <2> QED BY <1>6, <2>2
<1>19. CASE Dispose
  <2>1. Quiet
    BY <1>19 DEF Quiet, TypeOK, Dispose, CloseAdmission, RequestCleanup
  <2> QED BY <1>6, <2>1
<1>20. CASE DisposeFails
  <2>1. Quiet
    BY <1>20 DEF Quiet, TypeOK, DisposeFails, CloseAdmission
  <2> QED BY <1>6, <2>1
<1>21. CASE Collect
  <2>1. /\ UNCHANGED <<handed, closing>> /\ tsfn'.released = tsfn.released
        /\ (cleanup = "finished") <=> (cleanup' = "finished")
    BY <1>21 DEF Collect, RequestCleanup
  <2>2. \/ UNCHANGED adm
        \/ adm' = [adm EXCEPT !.open = FALSE]
        \/ FinishDelivery(adm.inFlight, TRUE)
    BY <1>21 DEF Collect, CloseAdmission, Abandon
  <2>3. ASSUME UNCHANGED adm \/ adm' = [adm EXCEPT !.open = FALSE]
        PROVE  Quiet
    BY <2>1, <2>3 DEF Quiet, TypeOK
  <2>4. ASSUME FinishDelivery(adm.inFlight, TRUE)
        PROVE  Quiet
    <3>1. Settled(adm.inFlight)
      BY <2>4, Finished
    <3> QED BY <2>1, <3>1, SettledIsQuiet
  <2>5. Quiet
    BY <2>2, <2>3, <2>4
  <2> QED BY <1>6, <2>5
<1>22. CASE WakeWithoutEnvironment
  <2>1. Settled(adm.inFlight) /\ UNCHANGED <<handed, closing, cleanup>> /\ tsfn'.released = tsfn.released
    BY <1>22, Finished DEF WakeWithoutEnvironment, TypeOK
  <2>2. Quiet
    BY <2>1, SettledIsQuiet
  <2> QED BY <1>6, <2>2
<1>23. CASE Finalize
  <2>1. Settled(adm.inFlight) /\ UNCHANGED <<handed, closing, cleanup>> /\ tsfn'.released = tsfn.released
    BY <1>23, Finished DEF Finalize, Abandon, TypeOK
  <2>2. Quiet
    BY <2>1, SettledIsQuiet
  <2> QED BY <1>6, <2>2
<1>24. CASE CleanEngine
  <2>1. Quiet
    BY <1>24 DEF Quiet, TypeOK, CleanEngine, CloseAdmission
  <2> QED BY <1>6, <2>1
<1>25. ASSUME NEW stopping \in BOOLEAN, CloseEarly(stopping)
       PROVE  [Credit!Next]_(Credit!creditVars)
  <2>1. Quiet
    BY <1>25 DEF Quiet, TypeOK, CloseEarly, CloseAdmission
  <2> QED BY <1>6, <2>1
<1>26. CASE ReleaseEarly
  <2>1. Credit!Free
    BY <1>26 DEF ReleaseEarly, Credit!Free, Newest, TypeOK
  <2> QED BY <2>1 DEF Credit!Next
<1>27. CASE TeardownEarly
  <2>1. Credit!TearDown
    BY <1>27 DEF TeardownEarly, Credit!TearDown, Newest, TypeOK
  <2> QED BY <2>1 DEF Credit!Next
<1>28. CASE CleanUnpublished
  <2>1. Quiet
    BY <1>28 DEF Quiet, TypeOK, CleanUnpublished, CloseAdmission
  <2> QED BY <1>6, <2>1
<1>29. CASE UNCHANGED vars
  <2>1. Quiet
    BY <1>29 DEF Quiet, TypeOK, vars
  <2> QED BY <1>6, <2>1
<1> QED
  BY <1>1, <1>2, <1>3, <1>4, <1>5, <1>7, <1>8, <1>9, <1>10, <1>11, <1>12, <1>13,
     <1>14, <1>15, <1>16, <1>17, <1>18, <1>19, <1>20, <1>21, <1>22, <1>23, <1>24, <1>25,
     <1>26, <1>27, <1>28, <1>29
  DEF Next, Dispatcher, EventLoop, Callback, Consumer, CleanupOwner, Establishment

\* The delivery bridge implements the single-credit promise: batches in order,
\* one at a time, none after it is shut, and in a live environment disposal
\* waits for the one in flight (docs/api-lifecycle.md:393-397).
THEOREM Implements == Spec => ImplementsCredit
<1>1. Init => Credit!Init
  <2> SUFFICES ASSUME Init PROVE Credit!Init
    OBVIOUS
  <2>1. Newest = 0
    BY DEF Init, Newest, None
  <2> QED BY <2>1 DEF Init, Credit!Init
<1> QED BY <1>1, AlwaysIInv, StepImplements, PTL DEF Spec, ImplementsCredit, Credit!Spec

-----------------------------------------------------------------------------
(* NodeSubscription.                                                        *)

Attempts == [auto : BOOLEAN, public : BOOLEAN, cancel : BOOLEAN, attached : BOOLEAN]
Buffers == [state : {"waiting", "ready", "closed"}, pending : BatchOrNone, owed : BatchOrNone]

OwnTypes ==
  /\ att \in Attempts
  /\ engine \in {"pending", "ready", "failed", "cancelled"}
  /\ task \in {"waiting", "starting", "publishing", "noting", "resolving", "resolved",
               "rejecting", "releasing", "finalizing", "draining", "rejected", "dropped"}
  /\ published \in {"no", "active", "inactive"}
  /\ cancelling \in {"no", "engine", "both", "admission"}
  /\ wrapper \in {"awaiting", "closing", "disposing", "rejected", "live", "stopping",
                  "ended", "collected"}
  /\ buffer \in Buffers
  /\ seen \subseteq Batches

Given == {"live", "stopping", "ended", "collected"}

\* The state is attached before it is published, the wrapper goes on after the
\* task, and a public attempt is not cancelled.
Attempt ==
  /\ ~att.attached => published = "no" /\ task # "publishing"
  /\ published # "no" => task \notin {"waiting", "starting", "publishing", "rejecting",
                                       "releasing", "finalizing"}
  /\ wrapper # "awaiting" => task \in {"resolved", "rejected"}
  /\ wrapper \in Given => att.public /\ task = "resolved"
  /\ att.public => ~att.cancel
  /\ att.public => att.auto \/ wrapper # "awaiting"

\* A cancellation that found no state leaves it to the task not to publish one;
\* any other has shut the admission when it is over.
Cancelled ==
  att.cancel /\ cancelling \in {"no", "engine"} =>
    closing \/ ~adm.open \/ (published = "no" /\ task # "publishing")

\* A batch reaches the buffer only from a published subscription; while the
\* wrapper awaits, the batch the buffer keeps is the one in flight.
Early ==
  /\ wrapper = "awaiting" => buffer.state = "waiting" /\ buffer.owed = None /\ seen = {}
  /\ published # "active" => received = 0
  /\ task \in {"rejecting", "releasing", "finalizing", "draining", "rejected"} => published # "active"
  /\ buffer.state = "waiting" => wrapper = "awaiting" \/ task = "rejected"
  /\ buffer.pending # None => /\ wrapper = "awaiting" /\ published = "active"
                              /\ ~closing => /\ adm.inFlight = buffer.pending
                                             /\ buffer.pending \in handed

\* The consumer sees a batch only of a subscription it was given, a delivery is
\* owed only while the callback or the wrapper that gives it up is under way, and
\* a task or a wrapper that rejected has waited for the finalizer.
Rejecting ==
  /\ wrapper \notin Given => seen = {} /\ buffer.state # "ready"
  /\ buffer.owed # None => js.stage = "callback" \/ wrapper = "closing"
  /\ task = "rejected" => tsfn.finalized \/ closing
  /\ wrapper = "rejected" => tsfn.finalized \/ closing \/ (task = "resolved" /\ ~handle.explicit)

SInv == OwnTypes /\ Attempt /\ Cancelled /\ Early /\ Rejecting

-----------------------------------------------------------------------------
(* Every step is the bridge's. *)

LEMMA StepRefines == IInv /\ [SubNext]_subVars => [Next]_vars
<1> SUFFICES ASSUME IInv, [SubNext]_subVars PROVE Next \/ UNCHANGED vars
  OBVIOUS
<1>1. CASE UNCHANGED subVars
  BY <1>1 DEF subVars
<1>2. CASE Abort \/ Cancelling \/ EnvironmentTeardown \/ EngineSettles
  <2>1. \/ UNCHANGED vars \/ Teardown \/ Establishment
    BY <1>2 DEF Abort, Cancelling, CancelEngine, CancelAdmission, EnvironmentTeardown,
                EngineSettles, Establishment
  <2> QED BY <2>1 DEF Next
<1>3. CASE Compute
  <2>1. UNCHANGED vars \/ Establishment
    BY <1>3 DEF Compute, Waited, Attach, Publish, PublishFails, PublishFailed, NoteReady,
                CleanUp, Establishment
  <2> QED BY <2>1 DEF Next
<1>4. CASE Settling
  <2>1. UNCHANGED vars \/ Collect \/ Dispose \/ DisposeFails
    BY <1>4 DEF Settling, Resolve, ResolveFails, Rejected, CommitRefused, Build, BuildFails,
                DisposeProvisional, ProvisionalDisposed
  <2> QED BY <2>1 DEF Next, Consumer
<1>5. CASE BeginDispose \/ CollectWrapper \/ CollectNative
  <2>1. UNCHANGED vars \/ Collect \/ Dispose \/ DisposeFails
    BY <1>5 DEF BeginDispose, CollectWrapper, CollectNative
  <2> QED BY <2>1 DEF Next, Consumer
<1>6. CASE Forsake
  <2>1. Complete(buffer.owed, TRUE)
    BY <1>6 DEF Forsake
  <2>2. buffer.owed \in Batches
    BY <2>1 DEF Complete, IInv, TypeOK
  <2> QED BY <2>1, <2>2 DEF Next, Consumer
<1>7. ASSUME NEW id \in Batches, Settle(id)
      PROVE  Next
  <2>1. Complete(id, wrapper # "live") /\ (wrapper # "live") \in BOOLEAN
    BY <1>7 DEF Settle
  <2> QED BY <2>1 DEF Next, Consumer
<1>8. CASE Delivering
  <2>1. CallBack \/ CallbackOwns \/ CallbackDone
    BY <1>8 DEF Delivering, Accept, AcceptReturns
  <2> QED BY <2>1 DEF Next, Callback
<1>9. CASE Bridge
  BY <1>9 DEF Bridge, Served, DispatcherGoesOn, NodeTurns, CallbackTurns, Next, Dispatcher, Callback
<1> QED BY <1>1, <1>2, <1>3, <1>4, <1>5, <1>6, <1>7, <1>8, <1>9 DEF SubNext

LEMMA AlwaysBridge == SubSpec => []IInv
<1>1. SubInit => IInv
  BY InitIInv DEF SubInit
<1>2. IInv /\ [SubNext]_subVars => IInv'
  BY StepRefines, StepIInv
<1> QED BY <1>1, <1>2, PTL DEF SubSpec

\* Every behaviour of a subscription is one of the bridge.
THEOREM RefinesBridge == SubSpec => Spec
<1>1. SubInit => Init
  BY DEF SubInit
<1> QED BY <1>1, StepRefines, AlwaysBridge, PTL DEF SubSpec, Spec

\* In a whole subscription too the dispatcher's blocking wake-up finds room.
THEOREM SubNeverBlocks == SubSpec => []WakeUpNeverBlocks
  BY RefinesBridge, NeverBlocks, PTL

\* In a whole subscription too a batch is lost only by a bridge that is shut or about
\* to be, with one later batch at most still on its way.
THEOREM SubLossesShut == SubSpec => []LossShutsTheBridge
  BY RefinesBridge, LossesShut, PTL

\* A subscription from its establishment to its cleanup keeps the promise of
\* SingleCredit: its batches in order, one at a time, none after it is shut.
THEOREM SubImplements == SubSpec => ImplementsCredit
  BY RefinesBridge, Implements, PTL

-----------------------------------------------------------------------------
(* The attempt, the task and the wrapper. *)

\* The admission never opens again, and an environment that goes is gone, and so is
\* a function that was finalized.
Onward == /\ adm'.open => adm.open
          /\ closing => closing'
          /\ tsfn.finalized => tsfn'.finalized

LEMMA SettledGoesOnward ==
  ASSUME IInv, NEW id, NEW shut \in BOOLEAN, FinishDelivery(id, shut), UNCHANGED closing,
         tsfn.finalized => tsfn'.finalized
  PROVE  Onward
  BY Finished DEF Onward, Settled, IInv

LEMMA StepOnward ==
  ASSUME IInv, [Next]_vars
  PROVE  Onward
<1>1. CASE Dispatcher
  BY <1>1 DEF Dispatcher, Receive, Disconnected, Refuse, Admit, WakeUpFails,
       DispatcherRecordsFailure, RecordFailure, CloseAdmission, Admissible, Onward, IInv, TypeOK
<1>2. CASE Wake
  BY <1>2 DEF Wake, Onward
<1>3. CASE WakeWithoutEnvironment
  BY <1>3, SettledGoesOnward DEF WakeWithoutEnvironment, IInv, TypeOK
<1>4. CASE Finalize
  BY <1>4, SettledGoesOnward DEF Finalize, Abandon, IInv, TypeOK
<1>5. CASE CallbackDone \/ CallbackFails
  BY <1>5, SettledGoesOnward DEF CallbackDone, CallbackFails, IInv, TypeOK
<1>6. CASE CallBack \/ CallBackImpossible \/ CallbackOwns \/ JavaScriptRecordsFailure
  BY <1>6 DEF CallBack, CallBackImpossible, CallbackOwns, JavaScriptRecordsFailure,
       RecordFailure, CloseAdmission, Onward, IInv, TypeOK
<1>7. ASSUME NEW id \in Batches, NEW shut \in BOOLEAN, Complete(id, shut)
      PROVE  Onward
  BY <1>7, SettledGoesOnward DEF Complete, IInv, TypeOK
<1>8. CASE Dispose \/ DisposeFails
  BY <1>8 DEF Dispose, DisposeFails, CloseAdmission, Onward, IInv, TypeOK
<1>9. CASE Collect
  <2>1. UNCHANGED <<closing, tsfn>>
    BY <1>9 DEF Collect
  <2>2. UNCHANGED adm \/ CloseAdmission \/ FinishDelivery(adm.inFlight, TRUE)
    BY <1>9 DEF Collect, Abandon
  <2> QED BY <2>1, <2>2, SettledGoesOnward DEF CloseAdmission, Onward, IInv, TypeOK
<1>10. CASE Teardown \/ CleanupOwner \/ Establishment
  BY <1>10 DEF Teardown, CleanupOwner, CleanEngine, Release, FinishCleanup, Establishment,
       CloseEarly, ReleaseEarly, TeardownEarly, CleanUnpublished, CloseAdmission, Onward,
       IInv, TypeOK
<1>11. CASE UNCHANGED vars
  BY <1>11 DEF vars, Onward
<1> QED
  BY <1>1, <1>2, <1>3, <1>4, <1>5, <1>6, <1>7, <1>8, <1>9, <1>10, <1>11
  DEF Next, EventLoop, Callback, Consumer

\* The bridge settles no delivery by itself that the callback was called with
\* and has returned from, as long as the environment lives.
LEMMA HandedStaysInFlight ==
  ASSUME IInv, adm.inFlight # None, adm.inFlight \in handed, ~closing,
         Served \/ DispatcherGoesOn \/ EventLoop \/ CallbackTurns \/ CleanupOwner
  PROVE  adm'.inFlight = adm.inFlight /\ handed' = handed
<1>1. adm.credit = FALSE /\ adm.outstanding = 1 /\ ~tsfn.released
  BY DEF IInv, TypeOK, OneDelivery, Closed
<1>2. CASE Served \/ DispatcherGoesOn
  BY <1>1, <1>2 DEF Served, DispatcherGoesOn, Receive, Disconnected, Refuse, Admit, WakeUpFails,
       DispatcherRecordsFailure, RecordFailure, CloseAdmission, Admissible, IInv, TypeOK
<1>3. CASE EventLoop
  BY <1>1, <1>3 DEF EventLoop, Wake, WakeWithoutEnvironment, Finalize
<1>4. CASE JavaScriptRecordsFailure
  BY <1>4 DEF JavaScriptRecordsFailure, RecordFailure, CloseAdmission, IInv, TypeOK
<1>5. CASE CallBackImpossible
  <2>1. slot = adm.inFlight /\ slot # None
    BY <1>5 DEF CallBackImpossible, IInv, OnTheThread
  <2>2. slot < slot
    BY <2>1 DEF IInv, Ordered
  <2>3. slot \in Int
    BY DEF IInv, TypeOK, BatchOrNone
  <2> QED BY <2>2, <2>3
<1>6. CASE CleanupOwner
  BY <1>6 DEF CleanupOwner, CleanEngine, Release, FinishCleanup, CloseAdmission, IInv, TypeOK
<1> QED BY <1>2, <1>3, <1>4, <1>5, <1>6 DEF CallbackTurns

LEMMA KeepTypes == IInv /\ OwnTypes /\ [SubNext]_subVars => OwnTypes'
<1> SUFFICES ASSUME IInv, OwnTypes, [SubNext]_subVars PROVE OwnTypes'
  OBVIOUS
<1> USE DEF OwnTypes, Attempts, Buffers
<1>0. None \in BatchOrNone /\ Batches \subseteq BatchOrNone /\ js.id \in BatchOrNone
  BY MaxBatchesAssumption DEF IInv, TypeOK, None, Batches, BatchOrNone
<1>1. CASE UNCHANGED ownVars
  BY <1>1 DEF ownVars
<1>2. CASE Abort \/ Cancelling \/ EnvironmentTeardown \/ EngineSettles
  <2>1. att' \in Attempts
    BY <1>2 DEF Abort, Cancelling, CancelEngine, CancelAdmission, EnvironmentTeardown,
                EngineSettles, Attempts
  <2>2. UNCHANGED <<task, published, wrapper, buffer, seen>>
    BY <1>2 DEF Abort, Cancelling, CancelEngine, CancelAdmission, EnvironmentTeardown,
                EngineSettles
  <2>3. /\ engine' \in {"pending", "ready", "failed", "cancelled"}
        /\ cancelling' \in {"no", "engine", "both", "admission"}
    BY <1>2 DEF Abort, Cancelling, CancelEngine, CancelAdmission, EnvironmentTeardown,
                EngineSettles, CancelledEngine
  <2> QED BY <2>1, <2>2, <2>3 DEF Attempts
<1>3. CASE Compute
  <2>1. att' \in Attempts
    BY <1>3 DEF Compute, Waited, Attach, Publish, PublishFails, PublishFailed, NoteReady,
                CleanUp, Attempts
  <2>2. UNCHANGED <<engine, cancelling, wrapper, buffer, seen>>
    BY <1>3 DEF Compute, Waited, Attach, Publish, PublishFails, PublishFailed, NoteReady, CleanUp
  <2>3. /\ published' \in {"no", "active", "inactive"}
        /\ task' \in {"waiting", "starting", "publishing", "noting", "resolving", "resolved",
                      "rejecting", "releasing", "finalizing", "draining", "rejected", "dropped"}
    BY <1>3 DEF Compute, Waited, Attach, Publish, PublishFails, PublishFailed, NoteReady, CleanUp
  <2> QED BY <2>1, <2>2, <2>3 DEF Attempts
<1>4. CASE Resolve \/ ResolveFails \/ Rejected \/ DisposeProvisional \/ ProvisionalDisposed
  BY <1>4 DEF Resolve, ResolveFails, Rejected, DisposeProvisional, ProvisionalDisposed
<1>5. CASE CommitRefused \/ BuildFails
  <2>1. att' \in Attempts
    BY <1>5 DEF CommitRefused, BuildFails, Committed, Attempts
  <2>2. buffer' \in Buffers
    BY <1>0, <1>5 DEF CommitRefused, BuildFails, BufferClosed, Buffers
  <2>3. wrapper' = "closing" /\ UNCHANGED <<engine, task, published, cancelling, seen>>
    BY <1>5 DEF CommitRefused, BuildFails
  <2> QED BY <2>1, <2>2, <2>3 DEF Attempts, Buffers
<1>6. CASE Build
  <2>1. att' \in Attempts
    BY <1>6 DEF Build, Committed, Attempts
  <2>2. buffer' \in Buffers
    BY <1>0, <1>6 DEF Build, Buffers
  <2>3. {buffer.pending} \ {None} \subseteq Batches
    BY DEF BatchOrNone, Batches, None
  <2>4. /\ seen' \subseteq Batches /\ wrapper' \in {"live", "stopping"}
        /\ UNCHANGED <<engine, task, published, cancelling>>
    BY <1>6, <2>3 DEF Build
  <2> QED BY <2>1, <2>2, <2>4 DEF Attempts, Buffers
<1>7. CASE Forsake \/ BeginDispose \/ CollectWrapper
  <2>1. buffer' \in Buffers
    BY <1>0, <1>7 DEF Forsake, BeginDispose, CollectWrapper, Buffers
  <2>2. wrapper' \in {wrapper, "ended", "collected"}
    BY <1>7 DEF Forsake, BeginDispose, CollectWrapper
  <2>3. UNCHANGED <<att, engine, task, published, cancelling, seen>>
    BY <1>7 DEF Forsake, BeginDispose, CollectWrapper
  <2> QED BY <2>1, <2>2, <2>3
<1>8. CASE Accept
  <2>1. js.id \in Batches
    BY <1>8, MaxBatchesAssumption
    DEF Accept, CallBack, IInv, TypeOK, OnTheThread, Batches, BatchOrNone, None
  <2> QED BY <1>0, <1>8, <2>1 DEF Accept
<1>9. CASE AcceptReturns
  BY <1>0, <1>9 DEF AcceptReturns, ownVars
<1>10. CASE CollectNative \/ Bridge \/ (\E id \in Batches : Settle(id))
  BY <1>1, <1>10 DEF CollectNative, Bridge, Settle
<1> QED BY <1>1, <1>2, <1>3, <1>4, <1>5, <1>6, <1>7, <1>8, <1>9, <1>10
        DEF SubNext, Settling, Delivering, subVars, ownVars

LEMMA KeepAttempt == IInv /\ OwnTypes /\ Attempt /\ [SubNext]_subVars => Attempt'
<1> SUFFICES ASSUME IInv, OwnTypes, Attempt, [SubNext]_subVars PROVE Attempt'
  OBVIOUS
<1> USE DEF OwnTypes, Attempts, Attempt, Given
<1>1. CASE UNCHANGED ownVars
  BY <1>1 DEF ownVars
<1>2. CASE Abort \/ Cancelling \/ EnvironmentTeardown \/ EngineSettles
  BY <1>2 DEF Abort, Cancelling, CancelEngine, CancelAdmission, EnvironmentTeardown, EngineSettles
<1>3. CASE Compute
  BY <1>3 DEF Compute, Waited, Attach, Publish, PublishFails, PublishFailed, NoteReady, CleanUp
<1>4. CASE Settling
  BY <1>4 DEF Settling, Resolve, ResolveFails, Rejected, CommitRefused, Build, BuildFails,
              Committed, DisposeProvisional, ProvisionalDisposed
<1>5. CASE Forsake \/ BeginDispose \/ CollectWrapper
  BY <1>5 DEF Forsake, BeginDispose, CollectWrapper
<1>6. CASE Delivering
  BY <1>6 DEF Delivering, Accept, AcceptReturns, ownVars
<1>7. CASE CollectNative \/ Bridge \/ (\E id \in Batches : Settle(id))
  BY <1>1, <1>7 DEF CollectNative, Bridge, Settle
<1> QED BY <1>1, <1>2, <1>3, <1>4, <1>5, <1>6, <1>7 DEF SubNext, subVars, ownVars

LEMMA KeepCancelled ==
  IInv /\ OwnTypes /\ Attempt /\ Cancelled /\ [SubNext]_subVars => Cancelled'
<1> SUFFICES ASSUME IInv, OwnTypes, Attempt, Cancelled, [SubNext]_subVars PROVE Cancelled'
  OBVIOUS
<1> USE DEF OwnTypes, Attempts, Attempt, Cancelled
<1>0. Onward
  BY StepRefines, StepOnward
<1>1. CASE UNCHANGED <<att, task, published, cancelling>>
  BY <1>0, <1>1 DEF Onward
<1>2. CASE Abort
  BY <1>0, <1>2 DEF Abort, Onward
<1>3. CASE Cancelling
  <2>1. CASE CancelEngine
    BY <1>0, <2>1 DEF CancelEngine, Onward
  <2>2. CASE CancelAdmission
    BY <2>2 DEF CancelAdmission, CloseEarly, CloseAdmission, IInv, TypeOK
  <2> QED BY <1>3, <2>1, <2>2 DEF Cancelling
<1>4. CASE EnvironmentTeardown
  <2>1. closing'
    BY <1>4 DEF EnvironmentTeardown, Teardown, TeardownEarly
  <2> QED BY <2>1
<1>5. CASE Attach \/ NoteReady
  <2>1. att.cancel => ~adm'.open
    BY <1>5 DEF Attach, NoteReady, CloseEarly, CloseAdmission, IInv, TypeOK
  <2>2. att'.cancel = att.cancel
    BY <1>5 DEF Attach, NoteReady
  <2> QED BY <2>1, <2>2
<1>6. CASE Waited \/ Publish \/ PublishFails \/ PublishFailed \/ CleanUp
  BY <1>0, <1>6 DEF Waited, Publish, PublishFails, PublishFailed, CleanUp, Onward
<1>7. CASE Settling
  BY <1>0, <1>7 DEF Settling, Resolve, ResolveFails, Rejected, CommitRefused, Build, BuildFails,
              Committed, DisposeProvisional, ProvisionalDisposed, Onward
<1>8. CASE \/ EngineSettles \/ Forsake \/ BeginDispose \/ CollectWrapper \/ CollectNative
            \/ Delivering \/ Bridge \/ \E id \in Batches : Settle(id)
  <2>1. UNCHANGED <<att, task, published, cancelling>>
    BY <1>8 DEF EngineSettles, Forsake, BeginDispose, CollectWrapper, CollectNative, Delivering,
                Accept, AcceptReturns, Bridge, Settle, ownVars
  <2> QED BY <1>1, <2>1
<1> QED BY <1>1, <1>2, <1>3, <1>4, <1>5, <1>6, <1>7, <1>8 DEF SubNext, Compute, subVars, ownVars

\* What waits for its callback was never handed over, and comes from a
\* published subscription.
LEMMA FreshOnTheThread ==
  ASSUME IInv, Early, js.stage = "invoked"
  PROVE  /\ js.id = adm.inFlight /\ js.id # None /\ js.id \notin handed /\ ~closing
         /\ published = "active"
<1>1. js.id = adm.inFlight /\ js.id = slot /\ js.id # None /\ ~closing
  BY DEF IInv, OnTheThread
<1>2. js.id \notin handed
  BY <1>1, MaxBatchesAssumption DEF IInv, TypeOK, Ordered, BatchOrNone, Batches
<1>3. received > 0
  BY <1>1, MaxBatchesAssumption DEF IInv, TypeOK, Ordered, BatchOrNone, None
<1> QED BY <1>1, <1>2, <1>3 DEF Early

LEMMA KeepEarly ==
  IInv /\ OwnTypes /\ Attempt /\ Early /\ [SubNext]_subVars => Early'
<1> SUFFICES ASSUME IInv, OwnTypes, Attempt, Early, [SubNext]_subVars PROVE Early'
  OBVIOUS
<1> USE DEF OwnTypes, Attempts, Buffers, Attempt, Early
<1>0. Onward
  BY StepRefines, StepOnward
<1>1. CASE UNCHANGED ownVars /\ UNCHANGED <<received, handed, adm>>
  BY <1>0, <1>1 DEF ownVars, Onward
<1>2. CASE Abort \/ CancelEngine \/ EngineSettles
  BY <1>0, <1>2 DEF Abort, CancelEngine, EngineSettles, Onward, vars
<1>3. CASE CancelAdmission
  BY <1>3 DEF CancelAdmission, CloseEarly, CloseAdmission, IInv, TypeOK
<1>4. CASE EnvironmentTeardown
  BY <1>4 DEF EnvironmentTeardown, Teardown, TeardownEarly
<1>5. CASE Attach \/ NoteReady
  <2>1. adm'.inFlight = adm.inFlight /\ UNCHANGED <<received, handed, closing>>
    BY <1>5 DEF Attach, NoteReady, CloseEarly, CloseAdmission, IInv, TypeOK, vars
  <2> QED BY <1>5, <2>1 DEF Attach, NoteReady
<1>6. CASE Waited \/ Publish \/ PublishFailed
  BY <1>6 DEF Waited, Publish, PublishFailed, vars
<1>7. CASE PublishFails
  BY <1>7 DEF PublishFails, CleanUnpublished
<1>8. CASE CleanUp
  BY <1>8 DEF CleanUp, CloseEarly, ReleaseEarly, vars
<1>9. CASE Settling
  <2>1. CASE Resolve \/ Rejected \/ CommitRefused \/ Build \/ BuildFails
    BY <2>1 DEF Resolve, Rejected, CommitRefused, Build, BuildFails, Committed, BufferClosed, vars
  <2>2. CASE ResolveFails
    BY <2>2 DEF ResolveFails, Collect
  <2>3. CASE DisposeProvisional \/ ProvisionalDisposed
    BY <2>3 DEF DisposeProvisional, ProvisionalDisposed, Dispose, DisposeFails, vars
  <2> QED BY <1>9, <2>1, <2>2, <2>3 DEF Settling
<1>10. CASE Forsake \/ BeginDispose \/ CollectWrapper
  BY <1>10 DEF Forsake, BeginDispose, CollectWrapper, Complete, Dispose, DisposeFails, vars
<1>11. CASE CollectNative \/ \E id \in Batches : Settle(id)
  BY <1>11 DEF CollectNative, Settle, Collect, Complete, ownVars
<1>12. CASE Accept
  <2>1. /\ js.id = adm.inFlight /\ js.id # None /\ js.id \notin handed /\ ~closing
        /\ published = "active"
    BY <1>12, FreshOnTheThread DEF Accept, CallBack
  <2>2. wrapper = "awaiting" => buffer.state = "waiting" /\ buffer.pending = None
    BY <2>1
  <2>3. buffer.state = "waiting" => wrapper = "awaiting"
    BY <2>1
  <2>4. handed' = handed \union {js.id} /\ UNCHANGED <<closing, adm, received>>
    BY <1>12 DEF Accept, CallBack
  <2>5. UNCHANGED <<att, task, published, wrapper>>
    BY <1>12 DEF Accept
  <2>6. CASE buffer.state = "ready" /\ wrapper # "collected"
    BY <1>12, <2>1, <2>2, <2>3, <2>4, <2>5, <2>6 DEF Accept
  <2>7. CASE buffer.state = "waiting" /\ buffer.pending = None
    <3>1. buffer' = [buffer EXCEPT !.pending = js.id] /\ UNCHANGED seen
      BY <1>12, <2>7 DEF Accept
    <3>2. /\ buffer'.state = buffer.state /\ buffer'.owed = buffer.owed
          /\ buffer'.pending = js.id
      BY <3>1
    <3> QED BY <2>1, <2>2, <2>3, <2>4, <2>5, <2>7, <3>1, <3>2
  <2>8. CASE /\ ~(buffer.state = "ready" /\ wrapper # "collected")
             /\ ~(buffer.state = "waiting" /\ buffer.pending = None)
    <3>1. buffer' = [buffer EXCEPT !.owed = js.id] /\ UNCHANGED seen
      BY <1>12, <2>8 DEF Accept
    <3>2. /\ buffer'.state = buffer.state /\ buffer'.pending = buffer.pending
      BY <3>1
    <3> QED BY <2>1, <2>2, <2>3, <2>4, <2>5, <2>8, <3>1, <3>2
  <2> QED BY <2>6, <2>7, <2>8
<1>13. CASE AcceptReturns
  BY <1>13 DEF AcceptReturns, CallbackOwns, CallbackDone, ownVars
<1>14. CASE Bridge
  <2>1. published # "active" => received' = received
    BY <1>14 DEF Bridge, Served, DispatcherGoesOn, NodeTurns, EventLoop, CallbackTurns, CleanupOwner,
       Refuse, Admit, WakeUpFails, DispatcherRecordsFailure, Wake, WakeWithoutEnvironment, Finalize,
       CallBackImpossible, JavaScriptRecordsFailure, CleanEngine, Release, FinishCleanup
  <2>2. buffer.pending # None /\ ~closing =>
           adm'.inFlight = adm.inFlight /\ handed' = handed
    BY <1>14, HandedStaysInFlight DEF Bridge, NodeTurns
  <2>3. UNCHANGED ownVars
    BY <1>14 DEF Bridge
  <2> QED BY <1>0, <2>1, <2>2, <2>3 DEF ownVars, Onward
<1> QED
  BY <1>1, <1>2, <1>3, <1>4, <1>5, <1>6, <1>7, <1>8, <1>9, <1>10, <1>11, <1>12, <1>13, <1>14
  DEF SubNext, Cancelling, Compute, Delivering, subVars, vars, ownVars

LEMMA KeepRejecting ==
  IInv /\ OwnTypes /\ Attempt /\ Early /\ Rejecting /\ [SubNext]_subVars => Rejecting'
<1> SUFFICES ASSUME IInv, OwnTypes, Attempt, Early, Rejecting, [SubNext]_subVars
             PROVE  Rejecting'
  OBVIOUS
<1> USE DEF OwnTypes, Attempts, Buffers, Attempt, Given, Rejecting
<1>0. Onward
  BY StepRefines, StepOnward
<1>1. CASE UNCHANGED <<task, wrapper, buffer, seen, js, handle>>
  BY <1>0, <1>1 DEF Onward
<1>2. CASE Abort \/ Cancelling \/ EnvironmentTeardown \/ EngineSettles
  <2>1. UNCHANGED <<task, wrapper, buffer, seen, js, handle>>
    BY <1>2 DEF Abort, Cancelling, CancelEngine, CancelAdmission, CloseEarly,
                EnvironmentTeardown, Teardown, TeardownEarly, EngineSettles, vars
  <2> QED BY <1>1, <2>1
<1>3. CASE Compute
  <2>1. UNCHANGED <<wrapper, buffer, seen, js, handle>>
    BY <1>3 DEF Compute, Waited, Attach, Publish, PublishFails, PublishFailed, NoteReady, CleanUp,
                CloseEarly, CleanUnpublished, ReleaseEarly, vars
  <2>2. task' = "rejected" => tsfn'.finalized \/ closing'
    BY <1>0, <1>3 DEF Compute, Waited, Attach, Publish, PublishFails, PublishFailed, NoteReady,
                      CleanUp, IInv, Closed, Onward
  <2>3. task = "resolved" => task' = "resolved"
    BY <1>3 DEF Compute, Waited, Attach, Publish, PublishFails, PublishFailed, NoteReady, CleanUp
  <2> QED BY <1>0, <2>1, <2>2, <2>3 DEF Onward
<1>4. CASE Settling
  <2>1. CASE Resolve \/ Rejected \/ CommitRefused \/ Build \/ BuildFails
    BY <2>1 DEF Resolve, Rejected, CommitRefused, Build, BuildFails, Committed, BufferClosed,
                JSFree, Early, vars
  <2>2. CASE ResolveFails
    BY <1>0, <2>2 DEF ResolveFails, Collect, Onward
  <2>3. CASE DisposeProvisional
    BY <2>3 DEF DisposeProvisional, Dispose, DisposeFails
  <2>4. CASE ProvisionalDisposed
    BY <2>4 DEF ProvisionalDisposed, JSFree, vars, IInv, Closed
  <2> QED BY <1>4, <2>1, <2>2, <2>3, <2>4 DEF Settling
<1>5. CASE Forsake
  BY <1>0, <1>5 DEF Forsake, Complete, Onward
<1>6. CASE BeginDispose \/ CollectWrapper
  BY <1>0, <1>6 DEF BeginDispose, CollectWrapper, Dispose, DisposeFails, Onward, vars
<1>7. CASE CollectNative \/ \E id \in Batches : Settle(id)
  BY <1>0, <1>7 DEF CollectNative, Settle, Collect, Complete, Onward, ownVars, IInv, TypeOK
<1>8. CASE Accept
  BY <1>0, <1>8, FreshOnTheThread DEF Accept, CallBack, Onward, Early, IInv, TypeOK
<1>9. CASE AcceptReturns
  BY <1>0, <1>9 DEF AcceptReturns, CallbackOwns, CallbackDone, Onward, ownVars
<1>10. CASE Bridge
  <2>1. UNCHANGED <<task, wrapper, buffer, seen, handle>>
    BY <1>10 DEF Bridge, ownVars, Served, DispatcherGoesOn, NodeTurns, EventLoop, CallbackTurns,
       CleanupOwner, Receive, Disconnected, Refuse, Admit, WakeUpFails, DispatcherRecordsFailure,
       Wake, WakeWithoutEnvironment, Finalize, CallBackImpossible, JavaScriptRecordsFailure,
       CleanEngine, Release, FinishCleanup
  <2>2. js.stage = "callback" => js' = js
    BY <1>10 DEF Bridge, Served, DispatcherGoesOn, NodeTurns, EventLoop, CallbackTurns,
       CleanupOwner, Receive, Disconnected, Refuse, Admit, WakeUpFails, DispatcherRecordsFailure,
       Wake, WakeWithoutEnvironment, Finalize, CallBackImpossible, JavaScriptRecordsFailure,
       CleanEngine, Release, FinishCleanup, Idle
  <2> QED BY <1>0, <2>1, <2>2 DEF Onward
<1> QED
  BY <1>1, <1>2, <1>3, <1>4, <1>5, <1>6, <1>7, <1>8, <1>9, <1>10
  DEF SubNext, Delivering, subVars, vars, ownVars

LEMMA AlwaysSInv == SubSpec => [](IInv /\ SInv)
<1>1. SubInit => IInv /\ SInv
  <2>1. SubInit => IInv
    BY InitIInv DEF SubInit
  <2>2. SubInit => SInv
    BY MaxBatchesAssumption
    DEF SubInit, Init, SInv, OwnTypes, Attempts, Buffers, Attempt, Cancelled, Early, Rejecting, Given,
        BatchOrNone, Batches, None
  <2> QED BY <2>1, <2>2
<1>2. IInv /\ SInv /\ [SubNext]_subVars => IInv' /\ SInv'
  BY StepRefines, StepIInv, KeepTypes, KeepAttempt, KeepCancelled, KeepEarly, KeepRejecting DEF SInv
<1> QED BY <1>1, <1>2, PTL DEF SubSpec

\* Every variable of a subscription keeps its type, and no second batch reaches
\* a buffer that waits with one.
THEOREM SubTypesHold == SubSpec => []SubTypeOK
<1>1. IInv /\ SInv => SubTypeOK
  <2> SUFFICES ASSUME IInv, SInv PROVE SubTypeOK
    OBVIOUS
  <2>1. TypeOK /\ OwnTypes
    BY DEF IInv, SInv
  <2>2. js.stage = "invoked" /\ buffer.state = "waiting" => buffer.pending = None
    BY FreshOnTheThread DEF SInv, Early
  <2> QED BY <2>1, <2>2 DEF SubTypeOK, OwnTypes, Attempts, Buffers
<1> QED BY <1>1, AlwaysSInv, PTL

\* When token.cancel() has returned, the attempt takes no batch any more and is
\* never handed to the consumer.
THEOREM CancellationHolds == SubSpec => []CancelledIsQuiet
<1>1. IInv /\ SInv => CancelledIsQuiet
  BY DEF SInv, Attempt, Cancelled, Given, CancelledIsQuiet, Admissible
<1> QED BY <1>1, AlwaysSInv, PTL

\* A subscribe() that rejects leaves no batch, no ticket and no callback bridge.
THEOREM RejectionLeavesNothing == SubSpec => []RejectedLeavesNothing
<1>1. IInv /\ SInv => RejectedLeavesNothing
  BY DEF SInv, Early, Rejecting, Given, RejectedLeavesNothing
<1> QED BY <1>1, AlwaysSInv, PTL
=============================================================================
