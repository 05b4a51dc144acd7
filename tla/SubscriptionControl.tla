------------------------ MODULE SubscriptionControl ------------------------
(***************************************************************************)
(* The control block of one subscription: the threads that call its        *)
(* exclusion, reconciliation and root-recovery handles, the threads that   *)
(* dispose of it, and the shared worker that answers them.                 *)
(*                                                                         *)
(* A call takes the gate (an atomic flag), sends its command on the        *)
(* bounded control channel while it holds the lifecycle mutex, waits for   *)
(* the acknowledgement, and on its way out clears the gate and notifies.   *)
(* A thread that disposes moves the lifecycle on, joins the worker's       *)
(* disposal, and then waits, under the mutex, until the gate is free.      *)
(* What the worker does between accepting a transaction and ending it is   *)
(* SubscriptionCoverage's matter.                                          *)
(***************************************************************************)
EXTENDS Integers, Sequences, FiniteSets

CONSTANTS
  Threads,        \* application threads that share the handles
  None,           \* no thread, no transaction
  Capacity,       \* slots of the control channel, 64 in the code
  MaxGeneration,  \* bound: exclusion generations asked for
  MaxCalls        \* bound: transactions admitted by the gate

ASSUME ThreadsAssumption == None \notin Threads
ASSUME BoundsAssumption ==
  Capacity \in Nat \ {0} /\ MaxGeneration \in Nat /\ MaxCalls \in Nat

VARIABLES
  gate,       \* topology_transaction_in_flight
  lifecycle,  \* "active", "disposing", "disposed"
  lock,       \* the thread that holds the lifecycle mutex
  at,         \* where each thread is
  asked,      \* the generation a thread's replacement asks for; 0: a rebuild
  answer,     \* what the worker sent on a thread's acknowledgement channel
  control,    \* the commands of this subscription on the control channel
  worker,     \* what the worker knows of the subscription
  published,  \* exclusion_generation, which the handles return
  calls       \* transactions admitted by the gate so far

vars == <<gate, lifecycle, lock, at, asked, answer, control, worker,
          published, calls>>

\* Calls that hold the gate, in the order they go through.
InCall == {"gated", "sending", "waiting", "publishing", "leaving"}

\* The thread that disposes, in the order it goes through.
InDisposal == {"requesting", "disposing", "closing", "checking", "parking",
               "parked", "woken"}

\* Threads are between these while they hold the lifecycle mutex.
Holding == {"sending", "checking", "parking"}

Stages == {"idle", "notifying", "joining", "rejoining"} \cup InCall \cup InDisposal

Answers == {"none", "ok", "failed"}

\* A generation of 0 stands for a reconciliation or a root recovery.
Transaction(t, g) == [kind |-> "transaction", of |-> t, generation |-> g]
Disposal(t) == [kind |-> "dispose", of |-> t, generation |-> 0]

Init ==
  /\ gate = FALSE
  /\ lifecycle = "active"
  /\ lock = None
  /\ at = [t \in Threads |-> "idle"]
  /\ asked = [t \in Threads |-> 0]
  /\ answer = [t \in Threads |-> "none"]
  /\ control = <<>>
  /\ worker = [phase |-> "live", running |-> None, generation |-> 0]
  /\ published = 0
  /\ calls = 0

Move(t, stage) == at' = [at EXCEPT ![t] = stage]

----------------------------------------------------------------------------
(* A transaction, seen from its thread.                                    *)

\* Mutant: the gate is set without looking at it.
BeginUngated(t, g) ==
  /\ at[t] = "idle" /\ calls < MaxCalls
  /\ gate' = TRUE
  /\ asked' = [asked EXCEPT ![t] = g]
  /\ answer' = [answer EXCEPT ![t] = "none"]
  /\ calls' = calls + 1
  /\ Move(t, "gated")
  /\ UNCHANGED <<lifecycle, lock, control, worker, published>>

\* The compare-and-swap succeeds; when it fails the call reports a conflict and
\* changes nothing.
Begin(t, g) ==
  /\ at[t] = "idle" /\ ~gate /\ calls < MaxCalls
  /\ gate' = TRUE
  /\ asked' = [asked EXCEPT ![t] = g]
  /\ answer' = [answer EXCEPT ![t] = "none"]
  /\ calls' = calls + 1
  /\ Move(t, "gated")
  /\ UNCHANGED <<lifecycle, lock, control, worker, published>>

Refused(t) ==
  /\ at[t] = "gated" /\ lock = None /\ lifecycle # "active"
  /\ Move(t, "leaving")
  /\ UNCHANGED <<gate, lifecycle, lock, asked, answer, control, worker,
                 published, calls>>

\* Mutant: the mutex is given back between the look and the send.
AdmittedUnlocked(t) ==
  /\ at[t] = "gated" /\ lock = None /\ lifecycle = "active"
  /\ Move(t, "sending")
  /\ UNCHANGED <<gate, lifecycle, lock, asked, answer, control, worker,
                 published, calls>>

Admitted(t) ==
  /\ at[t] = "gated" /\ lock = None /\ lifecycle = "active"
  /\ lock' = t
  /\ Move(t, "sending")
  /\ UNCHANGED <<gate, lifecycle, asked, answer, control, worker, published,
                 calls>>

\* The send blocks while the channel is full, with the mutex held.
Send(t) ==
  /\ at[t] = "sending" /\ Len(control) < Capacity
  /\ control' = Append(control, Transaction(t, asked[t]))
  /\ lock' = None
  /\ Move(t, "waiting")
  /\ UNCHANGED <<gate, lifecycle, asked, answer, worker, published, calls>>

Answered(t) ==
  /\ at[t] = "waiting" /\ answer[t] # "none"
  /\ Move(t, IF answer[t] = "ok" /\ asked[t] > 0 THEN "publishing"
             ELSE "leaving")
  /\ UNCHANGED <<gate, lifecycle, lock, asked, answer, control, worker,
                 published, calls>>

Publish(t) ==
  /\ at[t] = "publishing"
  /\ published' = asked[t]
  /\ Move(t, "leaving")
  /\ UNCHANGED <<gate, lifecycle, lock, asked, answer, control, worker, calls>>

\* InFlightTopologyTransaction is dropped: the flag first,
Leave(t) ==
  /\ at[t] = "leaving"
  /\ gate' = FALSE
  /\ Move(t, "notifying")
  /\ UNCHANGED <<lifecycle, lock, asked, answer, control, worker, published,
                 calls>>

\* then the notification, which only a thread already parked hears.
Notify(t) ==
  /\ at[t] = "notifying"
  /\ at' = [u \in Threads |-> IF u = t THEN "idle"
                              ELSE IF at[u] = "parked" THEN "woken"
                              ELSE at[u]]
  /\ UNCHANGED <<gate, lifecycle, lock, asked, answer, control, worker,
                 published, calls>>

----------------------------------------------------------------------------
(* Disposal, seen from the threads that ask for it.                        *)

BeginDispose(t) ==
  /\ at[t] = "idle" /\ lock = None /\ lifecycle = "active"
  /\ lifecycle' = "disposing"
  /\ answer' = [answer EXCEPT ![t] = "none"]
  /\ Move(t, "requesting")
  /\ UNCHANGED <<gate, lock, asked, control, worker, published, calls>>

\* A second caller waits on the `disposed` condition variable; the mutex is
\* released as it parks.
JoinDisposal(t) ==
  /\ at[t] = "idle" /\ lock = None /\ lifecycle = "disposing"
  /\ Move(t, "joining")
  /\ UNCHANGED <<gate, lifecycle, lock, asked, answer, control, worker,
                 published, calls>>

\* Woken, it looks at the lifecycle again.
Rejoin(t) ==
  /\ at[t] = "rejoining" /\ lock = None
  /\ Move(t, IF lifecycle = "disposing" THEN "joining" ELSE "idle")
  /\ UNCHANGED <<gate, lifecycle, lock, asked, answer, control, worker,
                 published, calls>>

\* Mutant: the dispose command does not wait for a free slot.
RequestDisposalUnbounded(t) ==
  /\ at[t] = "requesting"
  /\ control' = Append(control, Disposal(t))
  /\ Move(t, "disposing")
  /\ UNCHANGED <<gate, lifecycle, lock, asked, answer, worker, published,
                 calls>>

RequestDisposal(t) ==
  /\ at[t] = "requesting" /\ Len(control) < Capacity
  /\ control' = Append(control, Disposal(t))
  /\ Move(t, "disposing")
  /\ UNCHANGED <<gate, lifecycle, lock, asked, answer, worker, published,
                 calls>>

DisposalAcknowledged(t) ==
  /\ at[t] = "disposing" /\ answer[t] # "none"
  /\ Move(t, "closing")
  /\ UNCHANGED <<gate, lifecycle, lock, asked, answer, control, worker,
                 published, calls>>

\* The mutex is taken again, by the thread that comes back from the worker or
\* by the one that was parked on the gate.
Relock(t) ==
  /\ at[t] \in {"closing", "woken"} /\ lock = None
  /\ lock' = t
  /\ Move(t, "checking")
  /\ UNCHANGED <<gate, lifecycle, asked, answer, control, worker, published,
                 calls>>

SeesGate(t) ==
  /\ at[t] = "checking" /\ gate
  /\ Move(t, "parking")
  /\ UNCHANGED <<gate, lifecycle, lock, asked, answer, control, worker,
                 published, calls>>

\* Between the look at the gate and the wait, the gate may open.
Park(t) ==
  /\ at[t] = "parking"
  /\ lock' = None
  /\ Move(t, "parked")
  /\ UNCHANGED <<gate, lifecycle, asked, answer, control, worker, published,
                 calls>>

\* Mutant: disposal does not wait for the gate.
DisposedAtOnce(t) ==
  /\ at[t] = "checking"
  /\ lifecycle' = "disposed"
  /\ lock' = None
  /\ Move(t, "idle")
  /\ UNCHANGED <<gate, asked, answer, control, worker, published, calls>>

Disposed(t) ==
  /\ at[t] = "checking" /\ ~gate
  /\ lifecycle' = "disposed"
  /\ lock' = None
  /\ at' = [u \in Threads |-> IF u = t THEN "idle"
                              ELSE IF at[u] = "joining" THEN "rejoining"
                              ELSE at[u]]
  /\ UNCHANGED <<gate, asked, answer, control, worker, published, calls>>

\* A condition variable may wake a thread nobody notified.
SpuriousWakeup(t) ==
  /\ at[t] \in {"parked", "joining"}
  /\ Move(t, IF at[t] = "parked" THEN "woken" ELSE "rejoining")
  /\ UNCHANGED <<gate, lifecycle, lock, asked, answer, control, worker,
                 published, calls>>

----------------------------------------------------------------------------
(* The shared worker.                                                      *)

Answer(t, result) == answer' = [answer EXCEPT ![t] = result]

\* What the worker can tell without looking at the subscription's root.
Acceptable(c) ==
  /\ worker.phase = "live" /\ worker.running = None
  /\ c.generation > 0 => c.generation > worker.generation

TransactionNext == control # <<>> /\ Head(control).kind = "transaction"

Accept ==
  /\ TransactionNext /\ Acceptable(Head(control))
  /\ worker' = [worker EXCEPT !.running = Head(control).of]
  /\ control' = Tail(control)
  /\ UNCHANGED <<gate, lifecycle, lock, at, asked, answer, published, calls>>

\* Closed, conflicting or stale; or, in any state, a policy or a root that does
\* not allow the transaction.
Reject ==
  /\ TransactionNext
  /\ Answer(Head(control).of, "failed")
  /\ control' = Tail(control)
  /\ UNCHANGED <<gate, lifecycle, lock, at, asked, worker, published, calls>>

\* Mutant: a failed replacement keeps its generation.
EndKeepsGeneration(result) ==
  LET t == worker.running
  IN  /\ t # None /\ result \in {"ok", "failed"}
      /\ worker' = [worker EXCEPT
           !.running = None,
           !.generation = IF asked[t] > 0 THEN asked[t] ELSE @]
      /\ Answer(t, result)
      /\ UNCHANGED <<gate, lifecycle, lock, at, asked, control, published,
                     calls>>

\* A transaction ends: committed, which for a replacement selects its
\* generation for good, or failed and rolled back.
End(result) ==
  LET t == worker.running
  IN  /\ t # None /\ result \in {"ok", "failed"}
      /\ worker' = [worker EXCEPT
           !.running = None,
           !.generation = IF result = "ok" /\ asked[t] > 0 THEN asked[t] ELSE @]
      /\ Answer(t, result)
      /\ UNCHANGED <<gate, lifecycle, lock, at, asked, control, published,
                     calls>>

\* Mutant: the interrupted transaction is dropped without an answer.
HandleDisposeSilently ==
  /\ worker.phase = "live"
  /\ control # <<>> /\ Head(control).kind = "dispose"
  /\ worker' = [worker EXCEPT !.phase = "disposing", !.running = None]
  /\ control' = Tail(control)
  /\ UNCHANGED <<gate, lifecycle, lock, at, asked, answer, published, calls>>

\* The transaction in progress is interrupted before disposal starts.
HandleDispose ==
  /\ worker.phase = "live"
  /\ control # <<>> /\ Head(control).kind = "dispose"
  /\ worker' = [worker EXCEPT !.phase = "disposing", !.running = None]
  /\ IF worker.running = None THEN UNCHANGED answer
     ELSE Answer(worker.running, "failed")
  /\ control' = Tail(control)
  /\ UNCHANGED <<gate, lifecycle, lock, at, asked, published, calls>>

\* complete_subscription_disposal: the state and its sender are dropped, then
\* the thread that disposes is answered.
CompleteDisposal ==
  /\ worker.phase = "disposing"
  /\ worker' = [worker EXCEPT !.phase = "gone"]
  /\ \E t \in Threads : at[t] = "disposing" /\ Answer(t, "ok")
  /\ UNCHANGED <<gate, lifecycle, lock, at, asked, control, published, calls>>

----------------------------------------------------------------------------
Call(t) == \E g \in 0..MaxGeneration : Begin(t, g)

\* What a thread does on its own once it has called.
Step(t) ==
  \/ Send(t) \/ Answered(t) \/ Publish(t) \/ Leave(t) \/ Notify(t)
  \/ RequestDisposal(t) \/ DisposalAcknowledged(t)
  \/ SeesGate(t) \/ Park(t) \/ Disposed(t)

\* What a thread does when it gets the lifecycle mutex.
Acquire(t) == Refused(t) \/ Admitted(t) \/ Relock(t) \/ Rejoin(t)

Worker ==
  Accept \/ Reject \/ End("ok") \/ End("failed") \/ HandleDispose \/ CompleteDisposal

Next ==
  \/ \E t \in Threads :
       \/ Call(t) \/ BeginDispose(t) \/ JoinDisposal(t)
       \/ Step(t) \/ Acquire(t) \/ SpuriousWakeup(t)
  \/ Worker

Spec == Init /\ [][Next]_vars

\* Threads run, a mutex that is free again and again is not denied to one of
\* them for ever, and the worker's loop goes round.  Nobody has to call, and no
\* condition variable has to wake a thread that was not notified.
Fairness ==
  /\ \A t \in Threads : WF_vars(Step(t)) /\ SF_vars(Acquire(t))
  /\ WF_vars(Worker)

FairSpec == Spec /\ Fairness

----------------------------------------------------------------------------

TypeOK ==
  /\ gate \in BOOLEAN
  /\ lifecycle \in {"active", "disposing", "disposed"}
  /\ lock \in Threads \cup {None}
  /\ at \in [Threads -> Stages]
  /\ asked \in [Threads -> Nat]
  /\ answer \in [Threads -> Answers]
  /\ control \in Seq([kind : {"transaction", "dispose"}, of : Threads,
                      generation : Nat])
  /\ Len(control) <= Capacity
  /\ worker \in [phase : {"live", "disposing", "gone"},
                 running : Threads \cup {None}, generation : Nat]
  /\ published \in Nat
  /\ calls \in Nat

\* The worker never has to refuse a transaction because another one of the same
\* subscription runs: the gate admits one thread at a time, and keeps it until
\* the worker has answered.  (The worker's own conflict branch is a second line
\* of defence.)
NeverInConflict == TransactionNext => worker.running = None

\* The worker begins the disposal of a subscription only after the last of its
\* commands: one admitted under the mutex is always sent before the dispose
\* command, so none is answered by a subscription that is gone.
ClosedIsQuiet ==
  worker.phase # "live" => control = <<>> /\ worker.running = None

\* While no call holds the gate, the generation the handles return is the one
\* the worker last committed: a committed replacement is published before the
\* next call can be admitted, also when disposal interrupts or overtakes it.
GenerationsAgree == ~gate => published = worker.generation

\* Caller's gate, worker and published generation are kept by different threads
\* without a common lock, and still describe the same transaction.
GateKept == NeverInConflict /\ ClosedIsQuiet /\ GenerationsAgree

\* The promise to the callers, see TransactionGate.
Gate == INSTANCE TransactionGate WITH
  running <- {t \in Threads : at[t] \in {"waiting", "publishing"}},
  phase <- lifecycle,
  generation <- published

ImplementsGate == Gate!Spec

\* Every transaction call returns, whatever disposal does meanwhile.
TransactionsReturn ==
  \A t \in Threads : at[t] \in InCall ~> at[t] = "idle"

\* Every call of dispose returns.
DisposalReturns ==
  \A t \in Threads : at[t] \in InDisposal \cup {"joining", "rejoining"}
                      ~> at[t] = "idle"

============================================================================
