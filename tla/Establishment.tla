---------------------------- MODULE Establishment ----------------------------
(***************************************************************************)
(* How a subscription comes to exist, and how the shared runtime it lives  *)
(* in comes and goes (engine/src/lib.rs, engine/src/backend/linux.rs).     *)
(* Every attempt is a thread that binds its cancellation token, resolves   *)
(* the root, leases the process's one runtime (starting it when there is   *)
(* none), sends a Subscribe command and waits for the worker's answer.     *)
(* Anybody may cancel the token at any moment; whoever of the canceller    *)
(* and the worker moves the token first decides.  A refused attempt and a  *)
(* disposed subscription give their lease back, and the last lease stops   *)
(* the worker and joins it, under the lock of the runtime registry.        *)
(*                                                                         *)
(* What the worker scans, watches and tears down is left out: a scan, a    *)
(* teardown and a disposal are a number of turns.                          *)
(***************************************************************************)
EXTENDS Naturals, Sequences, FiniteSets

CONSTANTS
  Attempts,          \* calls of begin_subscribe, each with a token of its own
  None,
  WorkCapacity,      \* WORK_COMMAND_QUEUE_CAPACITY
  ControlCapacity,   \* CONTROL_COMMAND_QUEUE_CAPACITY
  Quanta,            \* bound: further turns a scan or a teardown may take
  DebugAssertions    \* the build evaluates debug_assert!; a release does not

ASSUME ConstantsAssumption ==
  /\ IsFiniteSet(Attempts) /\ None \notin Attempts
  /\ WorkCapacity \in Nat \ {0} /\ ControlCapacity \in Nat \ {0}
  /\ Quanta \in Nat
  /\ DebugAssertions \in BOOLEAN

VARIABLES
  token,      \* EstablishmentCancellationState.state of each attempt
  at,         \* where the attempt's thread is
  outcome,    \* what its caller got
  dropped,    \* attempts whose PendingSubscription was dropped, not waited for
  lock,       \* who holds the registry's mutex across a shutdown
  registered, \* the registry names a runtime
  leases,     \* Runtime.leases
  stopping,   \* Runtime.shutting_down
  control, work,         \* the two command channels
  answer,     \* the acknowledgement waiting for each attempt, if any
  disposed,   \* disposals acknowledged
  worker,     \* the worker thread
  turn,       \* the part of its round the worker is in
  hand,       \* the establishment validated and about to be committed
  subs,       \* Worker.subscriptions
  id, nextId, \* SubscriptionState.id, Worker.next_subscription_id
  allocator, runnable    \* the FairIdQueues allocator_order, topology_runnable

callers == <<at, outcome, dropped>>
runtime == <<lock, registered, leases, stopping>>
channels == <<control, work>>
engine == <<subs, id, nextId, allocator, runnable>>
vars == <<token, callers, runtime, channels, answer, disposed, worker, turn,
          hand, engine>>

Outcomes == {"none", "established", "cancelled", "failed", "internal"}
Stages == {"idle", "bound", "resolved", "acquired", "sending", "pending",
           "established", "disposing", "releasing", "shutting",
           "joining", "done"}
NoSub == [phase |-> "none", left |-> 0, owed |-> FALSE]
NoHand == [of |-> None, ok |-> FALSE]

-----------------------------------------------------------------------------
(* FairIdQueue: a round of ids being served, and the ids scheduled since.  *)

EmptyQueue == [current |-> {}, next |-> {}]
Members(q) == q.current \union q.next
Scheduled(q, a) ==
  IF a \in Members(q) THEN q ELSE [q EXCEPT !.next = @ \union {a}]
Without(q, a) == [current |-> q.current \ {a}, next |-> q.next \ {a}]
Turned(q) ==
  IF q.current = {} THEN [current |-> q.next, next |-> {}] ELSE q
Oldest(ids) == CHOOSE a \in ids : \A b \in ids : id[a] <= id[b]
FirstOf(q) == Oldest(Turned(q).current)
Popped(q) == [Turned(q) EXCEPT !.current = @ \ {FirstOf(q)}]

(* The token. *)

CancelRequested(a) ==
  token[a] \in {"cancel-requested-unbound", "cancel-requested-bound",
                "cancelled"}
AfterFinishAnyway(t) == "cancelled"   \* mutant: finish_cancelled just stores
AfterFinish(t) == IF t = "cancel-requested-bound" THEN "cancelled" ELSE t
CommittedFailure(t) == IF t = "bound" THEN "failed" ELSE t
AfterFailure(t) == AfterFinish(CommittedFailure(t))
ErrorOf(t) == IF t = "failed" THEN "failed" ELSE "cancelled"

Terminal == {"succeeded", "failed", "cancelled"}
Running == worker \in {"running", "shutting"}

-----------------------------------------------------------------------------
Init ==
  /\ token = [a \in Attempts |-> "created"]
  /\ at = [a \in Attempts |-> "idle"]
  /\ outcome = [a \in Attempts |-> "none"]
  /\ dropped = {}
  /\ lock = None /\ registered = FALSE /\ leases = 0 /\ stopping = FALSE
  /\ control = <<>> /\ work = <<>>
  /\ answer = [a \in Attempts |-> "none"]
  /\ disposed = {}
  /\ worker = "none" /\ turn = "control" /\ hand = NoHand
  /\ subs = [a \in Attempts |-> NoSub]
  /\ id = [a \in Attempts |-> 0] /\ nextId = 1
  /\ allocator = EmptyQueue /\ runnable = EmptyQueue

Move(a, stage) == at' = [at EXCEPT ![a] = stage]
Conclude(a, result) == outcome' = [outcome EXCEPT ![a] = result]
Refuse(a, result) ==   \* return an error before any lease was taken
  Move(a, "done") /\ Conclude(a, result) /\ UNCHANGED dropped
GiveBack(a, result) ==   \* return an error through release_runtime
  Move(a, "releasing") /\ Conclude(a, result) /\ UNCHANGED dropped

-----------------------------------------------------------------------------
(* The cancelling party: EstablishmentCancellation::cancel. *)

RequestedCancel(t) ==
  IF t = "created" THEN "cancel-requested-unbound"
  ELSE IF t = "bound" THEN "cancel-requested-bound" ELSE t

Cancel(a) ==
  /\ RequestedCancel(token[a]) # token[a]
  /\ token' = [token EXCEPT ![a] = RequestedCancel(@)]
  /\ UNCHANGED <<callers, runtime, channels, answer, disposed, worker, turn,
                 hand, engine>>

-----------------------------------------------------------------------------
(* The attempt's thread. *)

\* begin_subscribe_validated_options: bind, and return if already cancelled.
Bind(a) ==
  /\ at[a] = "idle"
  /\ \/ /\ token[a] = "created"
        /\ token' = [token EXCEPT ![a] = "bound"]
        /\ Move(a, "bound") /\ UNCHANGED <<outcome, dropped>>
     \/ /\ token[a] = "cancel-requested-unbound"
        /\ token' = [token EXCEPT ![a] = "cancelled"]
        /\ Refuse(a, "cancelled")
  /\ UNCHANGED <<runtime, channels, answer, disposed, worker, turn, hand,
                 engine>>

\* The root and the exclusions are validated; commit_pre_runtime_failure.
Resolve(a) ==
  /\ at[a] = "bound"
  /\ \/ /\ ~CancelRequested(a)
        /\ Move(a, "resolved") /\ UNCHANGED <<token, outcome, dropped>>
     \/ /\ token' = [token EXCEPT ![a] = AfterFailure(@)]
        /\ Refuse(a, ErrorOf(AfterFailure(token[a])))
  /\ UNCHANGED <<runtime, channels, answer, disposed, worker, turn, hand,
                 engine>>

\* acquire_runtime, one critical section of the registry's mutex: lease the
\* registered runtime, or start one.
AcquireRuntime(a) ==
  /\ at[a] = "resolved"
  /\ lock = None
  /\ Move(a, "acquired")
  /\ IF registered /\ ~stopping
     THEN /\ leases' = leases + 1
          /\ UNCHANGED <<registered, stopping, worker, turn, nextId>>
     ELSE /\ registered' = TRUE /\ stopping' = FALSE /\ leases' = 1
          /\ worker' = "running" /\ turn' = "control" /\ nextId' = 1
  /\ UNCHANGED <<token, outcome, dropped, lock, channels, answer, disposed,
                 hand, subs, id, allocator, runnable>>

\* The runtime's budget conflicts, or it cannot be started.
AcquireFails(a) ==
  /\ at[a] = "resolved"
  /\ lock = None
  /\ token' = [token EXCEPT ![a] = AfterFailure(@)]
  /\ Refuse(a, ErrorOf(AfterFailure(token[a])))
  /\ UNCHANGED <<runtime, channels, answer, disposed, worker, turn, hand,
                 engine>>

\* begin_subscribe_admitted_root after attach_runtime: look at the token once
\* more before anything is sent.
Admit(a) ==
  /\ at[a] = "acquired"
  /\ IF CancelRequested(a)
     THEN /\ token' = [token EXCEPT ![a] = AfterFinish(@)]
          /\ GiveBack(a, "cancelled")
     ELSE Move(a, "sending") /\ UNCHANGED <<token, outcome, dropped>>
  /\ UNCHANGED <<runtime, channels, answer, disposed, worker, turn, hand,
                 engine>>

\* Mutant: the command channel takes whatever comes.
SendUnbounded(a) ==
  /\ at[a] = "sending"
  /\ work' = Append(work, a)
  /\ Move(a, "pending")
  /\ UNCHANGED <<token, outcome, dropped, runtime, control, answer, disposed,
                 worker, turn, hand, engine>>

\* Runtime::begin_subscribe: try to send until there is room, the token is
\* cancelled or the channel is closed.  A full channel changes nothing.
SendSubscribe(a) ==
  /\ at[a] = "sending"
  /\ IF CancelRequested(a)
     THEN /\ token' = [token EXCEPT ![a] = AfterFinish(@)]
          /\ GiveBack(a, "cancelled") /\ UNCHANGED work
     ELSE IF ~Running
     THEN /\ token' = [token EXCEPT ![a] = AfterFailure(@)]
          /\ GiveBack(a, "internal") /\ UNCHANGED work
     ELSE /\ Len(work) < WorkCapacity
          /\ work' = Append(work, a)
          /\ Move(a, "pending") /\ UNCHANGED <<token, outcome, dropped>>
  /\ UNCHANGED <<runtime, control, answer, disposed, worker, turn, hand,
                 engine>>

\* Drop for PendingSubscription: cancel, then join the attempt all the same.
DropPending(a) ==
  /\ at[a] = "pending"
  /\ a \notin dropped
  /\ dropped' = dropped \union {a}
  /\ token' = [token EXCEPT ![a] = RequestedCancel(@)]
  /\ UNCHANGED <<at, outcome, runtime, channels, answer, disposed, worker,
                 turn, hand, engine>>

\* PendingSubscription::finish: take the worker's answer, or find that the
\* worker died without one.
Answered(a) ==
  /\ at[a] = "pending"
  /\ answer[a] # "none" \/ ~Running
  /\ IF answer[a] = "established"
     THEN /\ Move(a, "established") /\ Conclude(a, "established")
          /\ UNCHANGED dropped
     ELSE GiveBack(a, IF answer[a] = "none" THEN "internal" ELSE answer[a])
  /\ UNCHANGED <<token, runtime, channels, answer, disposed, worker, turn,
                 hand, engine>>

\* Mutant: the drop of a pending subscription cancels, and that is all.
DisposeUnlessDropped(a) ==
  /\ at[a] = "established" /\ a \notin dropped
  /\ Len(control) < ControlCapacity
  /\ Move(a, "disposing")
  /\ control' = Append(control, [kind |-> "dispose", of |-> a])
  /\ UNCHANGED <<token, outcome, dropped, runtime, work, answer, disposed,
                 worker, turn, hand, engine>>

\* Subscription::dispose, its command and then its acknowledgement.  The drop
\* of a pending subscription that was established after all comes here too.
Dispose(a) ==
  /\ at[a] = "established"
  /\ Len(control) < ControlCapacity \/ ~Running
  /\ Move(a, IF Running THEN "disposing" ELSE "releasing")
  /\ control' = IF Running
                THEN Append(control, [kind |-> "dispose", of |-> a])
                ELSE control
  /\ UNCHANGED <<token, outcome, dropped, runtime, work, answer, disposed,
                 worker, turn, hand, engine>>

DisposalAcknowledged(a) ==
  /\ at[a] = "disposing"
  /\ a \in disposed \/ ~Running
  /\ Move(a, "releasing")
  /\ UNCHANGED <<token, outcome, dropped, runtime, channels, answer, disposed,
                 worker, turn, hand, engine>>

\* Mutant: the registry is unlocked before the worker is joined.
ReleaseUnlocked(a) ==
  /\ at[a] = "releasing"
  /\ lock = None
  /\ leases' = leases - 1
  /\ IF leases = 1
     THEN stopping' = TRUE /\ registered' = FALSE /\ Move(a, "shutting")
     ELSE Move(a, "done") /\ UNCHANGED <<stopping, registered>>
  /\ UNCHANGED <<token, outcome, dropped, lock, channels, answer, disposed,
                 worker, turn, hand, engine>>

\* Mutant: any release stops the worker.
ReleaseStops(a) ==
  /\ at[a] = "releasing"
  /\ lock = None
  /\ leases' = 0 /\ stopping' = TRUE /\ registered' = FALSE /\ lock' = a
  /\ Move(a, "shutting")
  /\ UNCHANGED <<token, outcome, dropped, channels, answer, disposed, worker,
                 turn, hand, engine>>

\* release_runtime: whoever gives the last lease back keeps the registry's
\* mutex until the worker is joined.
ReleaseRuntime(a) ==
  /\ at[a] = "releasing"
  /\ lock = None
  /\ leases' = leases - 1
  /\ IF leases = 1
     THEN /\ stopping' = TRUE /\ registered' = FALSE /\ lock' = a
          /\ Move(a, "shutting")
     ELSE Move(a, "done") /\ UNCHANGED <<stopping, registered, lock>>
  /\ UNCHANGED <<token, outcome, dropped, channels, answer, disposed, worker,
                 turn, hand, engine>>

\* shutdown_and_join: send Shutdown ...
SendShutdown(a) ==
  /\ at[a] = "shutting"
  /\ Len(control) < ControlCapacity \/ ~Running
  /\ Move(a, "joining")
  /\ control' = IF Running
                THEN Append(control, [kind |-> "shutdown", of |-> a])
                ELSE control
  /\ UNCHANGED <<token, outcome, dropped, runtime, work, answer, disposed,
                 worker, turn, hand, engine>>

\* ... and join the worker.  The error of a worker that panicked replaces
\* the attempt's own.
Join(a) ==
  /\ at[a] = "joining"
  /\ ~Running
  /\ Move(a, "done")
  /\ outcome' = [outcome EXCEPT ![a] =
                   IF worker = "panicked" /\ @ # "established"
                   THEN "internal" ELSE @]
  /\ lock' = None
  /\ worker' = "none"
  /\ UNCHANGED <<token, dropped, registered, leases, stopping, channels,
                 answer, disposed, turn, hand, engine>>

-----------------------------------------------------------------------------
(* The worker: Worker::run, its round split where a canceller or a caller  *)
(* can come in between.                                                    *)

TakeDown(a, t) ==   \* send the terminal error and detach the token
  /\ answer' = [answer EXCEPT ![a] = ErrorOf(t)]
  /\ token' = [token EXCEPT ![a] = AfterFinish(t)]

\* begin_subscription_disposal.
BeginDisposal(a) ==
  /\ subs' = [subs EXCEPT ![a] = [phase |-> "disposing", left |-> Quanta,
                                  owed |-> @.owed]]
  /\ allocator' = Without(allocator, a)
  /\ runnable' = Scheduled(Without(runnable, a), a)
  /\ token' = IF subs[a].phase = "scanning" /\ token[a] = "bound"
              THEN [token EXCEPT ![a] = "failed"] ELSE token

\* process_command_turn(CommandLane::Control).
ControlCommand ==
  /\ worker = "running" /\ turn = "control"
  /\ control # <<>>
  /\ control' = Tail(control)
  /\ LET a == Head(control).of IN
     IF Head(control).kind = "shutdown"
     THEN /\ worker' = "shutting"
          /\ UNCHANGED <<token, disposed, subs, allocator, runnable>>
     ELSE /\ UNCHANGED worker
          /\ IF subs[a].phase = "none"
             THEN /\ disposed' = disposed \union {a}
                  /\ UNCHANGED <<token, subs, allocator, runnable>>
             ELSE BeginDisposal(a) /\ UNCHANGED disposed
  /\ UNCHANGED <<callers, runtime, work, answer, turn, hand, id, nextId>>

ControlTurnEnds ==
  /\ worker = "running" /\ turn = "control"
  /\ control = <<>>
  /\ turn' = "work"
  /\ UNCHANGED <<token, callers, runtime, channels, answer, disposed, worker,
                 hand, engine>>

\* process_command_turn(CommandLane::Work), Command::Subscribe: refuse what
\* was cancelled or whose root cannot be captured, else admit it.
WorkCommand ==
  /\ worker = "running" /\ turn = "work"
  /\ work # <<>>
  /\ work' = Tail(work)
  /\ LET a == Head(work) IN
     \/ /\ ~CancelRequested(a)
        /\ subs' = [subs EXCEPT ![a] =
                      [phase |-> "scanning", left |-> Quanta, owed |-> TRUE]]
        /\ id' = [id EXCEPT ![a] = nextId] /\ nextId' = nextId + 1
        /\ allocator' = Scheduled(allocator, a)
        /\ runnable' = Scheduled(runnable, a)
        /\ UNCHANGED <<token, answer>>
     \/ /\ TakeDown(a, AfterFailure(token[a]))
        /\ UNCHANGED engine
  /\ UNCHANGED <<callers, runtime, control, disposed, worker, turn, hand>>

WorkTurnEnds ==
  /\ worker = "running" /\ turn = "work"
  /\ work = <<>>
  /\ turn' = "promotion"
  /\ UNCHANGED <<token, callers, runtime, channels, answer, disposed, worker,
                 hand, engine>>

Panic ==   \* the worker's state and its ends of the channels are dropped
  /\ worker' = "panicked"
  /\ control' = <<>> /\ work' = <<>>
  /\ subs' = [a \in Attempts |-> NoSub]
  /\ allocator' = EmptyQueue /\ runnable' = EmptyQueue
  /\ UNCHANGED <<token, callers, runtime, answer, disposed, turn, hand, id,
                 nextId>>

\* process_promotion_turn: every id of the round is put back, if it still
\* names a subscription; the debug build insists that it does.
PromotionTurn ==
  /\ worker = "running" /\ turn = "promotion"
  /\ LET round == Turned(allocator)
         live == {a \in round.current : subs[a].phase # "none"}
     IN IF DebugAssertions /\ live # round.current
        THEN Panic
        ELSE /\ allocator' = [current |-> {}, next |-> round.next \union live]
             /\ turn' = "topology"
             /\ UNCHANGED <<token, callers, runtime, channels, answer,
                            disposed, worker, hand, subs, id, nextId,
                            runnable>>

-----------------------------------------------------------------------------
(* The topology turn: the first runnable subscription is served.           *)

Serving(a) ==
  /\ \/ worker = "running" /\ turn = "topology"
     \/ worker = "shutting" /\ Members(allocator) = {}
  /\ Members(runnable) # {} /\ a = FirstOf(runnable)

TurnEnds == turn' = "control"

\* Nothing is runnable, or what is has nothing left to do here.
IdleTopologyTurn ==
  /\ worker = "running" /\ turn = "topology"
  /\ Members(runnable) # {} =>
       subs[FirstOf(runnable)].phase \in {"none", "live"}
  /\ runnable' = IF Members(runnable) = {} THEN runnable ELSE Popped(runnable)
  /\ TurnEnds
  /\ UNCHANGED <<token, callers, runtime, channels, answer, disposed, worker,
                 hand, subs, id, nextId, allocator>>

\* Mutant: the caller is answered as soon as the teardown begins.
TeardownAnswersFirst(a, t, left, queue) ==
  /\ TakeDown(a, t)
  /\ \/ /\ subs' = [subs EXCEPT ![a] = NoSub]
        /\ runnable' = queue /\ allocator' = Without(allocator, a)
     \/ /\ left > 0
        /\ subs' = [subs EXCEPT ![a] = [phase |-> "tearing", left |-> left - 1,
                                        owed |-> @.owed]]
        /\ runnable' = Scheduled(queue, a) /\ UNCHANGED allocator
  /\ TurnEnds
  /\ UNCHANGED <<callers, runtime, channels, disposed, worker, id, nextId>>

\* process_establishment_teardown_turn, with the token as the attempt's end
\* left it: the last turn forgets the subscription and answers.  The removals
\* from the two queues stand inside debug_assert!.
TeardownQuantum(a, t, left, queue) ==
  /\ \/ /\ subs' = [subs EXCEPT ![a] = NoSub]
        /\ runnable' = IF DebugAssertions THEN Without(queue, a) ELSE queue
        /\ allocator' = IF DebugAssertions
                        THEN Without(allocator, a) ELSE allocator
        /\ TakeDown(a, t)
     \/ /\ left > 0
        /\ subs' = [subs EXCEPT ![a] = [phase |-> "tearing", left |-> left - 1,
                                        owed |-> @.owed]]
        /\ runnable' = Scheduled(queue, a)
        /\ token' = [token EXCEPT ![a] = t]
        /\ UNCHANGED <<allocator, answer>>
  /\ TurnEnds
  /\ UNCHANGED <<callers, runtime, channels, disposed, worker, id, nextId>>

TeardownTurn(a) ==
  /\ Serving(a)
  /\ subs[a].phase = "tearing"
  /\ TeardownQuantum(a, token[a], subs[a].left, Popped(runnable))
  /\ UNCHANGED hand

\* The scan sees the cancellation, or that its root is lost.
AbandonScan(a) ==
  /\ Serving(a)
  /\ subs[a].phase = "scanning"
  /\ TeardownQuantum(a, CommittedFailure(token[a]), Quanta, Popped(runnable))
  /\ UNCHANGED hand

\* Mutant: an unfinished scan is not scheduled again.
ScanForgotten(a) ==
  /\ Serving(a)
  /\ subs[a].phase = "scanning" /\ subs[a].left > 0
  /\ subs' = [subs EXCEPT ![a].left = @ - 1]
  /\ runnable' = Popped(runnable)
  /\ TurnEnds
  /\ UNCHANGED <<token, callers, runtime, channels, answer, disposed, worker,
                 hand, id, nextId, allocator>>

\* process_topology_turn: the scan's budget for a turn is spent.
ScanTurn(a) ==
  /\ Serving(a)
  /\ subs[a].phase = "scanning" /\ subs[a].left > 0
  /\ ~CancelRequested(a)
  /\ subs' = [subs EXCEPT ![a].left = @ - 1]
  /\ runnable' = Scheduled(Popped(runnable), a)
  /\ TurnEnds
  /\ UNCHANGED <<token, callers, runtime, channels, answer, disposed, worker,
                 hand, id, nextId, allocator>>

\* finish_topology_job, up to the commit: the scan is over and the root is
\* looked at for the last time.
ValidateRoot(a) ==
  /\ Serving(a)
  /\ subs[a].phase = "scanning"
  /\ ~CancelRequested(a)
  /\ \E ok \in BOOLEAN : hand' = [of |-> a, ok |-> ok]
  /\ runnable' = Popped(runnable)
  /\ turn' = "commit"
  /\ UNCHANGED <<token, callers, runtime, channels, answer, disposed, worker,
                 subs, id, nextId, allocator>>

\* Mutant: success is committed without looking at the token again.
CommitRegardless(a) ==
  /\ turn = "commit" /\ hand = [of |-> a, ok |-> TRUE]
  /\ answer' = [answer EXCEPT ![a] = "established"]
  /\ subs' = [subs EXCEPT ![a] = [phase |-> "live", left |-> 0,
                                  owed |-> FALSE]]
  /\ hand' = NoHand
  /\ TurnEnds
  /\ UNCHANGED <<token, callers, runtime, channels, disposed, worker, id,
                 nextId, allocator, runnable>>

\* finish_topology_job, the commit: the token decides.
CommitSuccess(a) ==
  /\ turn = "commit" /\ hand = [of |-> a, ok |-> TRUE]
  /\ token[a] = "bound"
  /\ token' = [token EXCEPT ![a] = "succeeded"]
  /\ answer' = [answer EXCEPT ![a] = "established"]
  /\ subs' = [subs EXCEPT ![a] = [phase |-> "live", left |-> 0,
                                  owed |-> FALSE]]
  /\ hand' = NoHand
  /\ TurnEnds
  /\ UNCHANGED <<callers, runtime, channels, disposed, worker, id, nextId,
                 allocator, runnable>>

CommitFails(a) ==
  /\ turn = "commit" /\ hand.of = a
  /\ hand.ok => token[a] # "bound"
  /\ TeardownQuantum(a, CommittedFailure(token[a]), Quanta, runnable)
  /\ hand' = NoHand

\* Mutant: the disposal is not acknowledged.
DisposalUnacknowledged(a) ==
  /\ Serving(a)
  /\ subs[a].phase = "disposing"
  /\ subs' = [subs EXCEPT ![a] = NoSub]
  /\ runnable' = Popped(runnable)
  /\ TurnEnds
  /\ UNCHANGED <<token, callers, runtime, channels, answer, disposed, worker,
                 hand, id, nextId, allocator>>

\* process_subscription_disposal_turn and complete_subscription_disposal.
DisposalTurn(a) ==
  /\ Serving(a)
  /\ subs[a].phase = "disposing"
  /\ \/ /\ subs[a].left > 0
        /\ subs' = [subs EXCEPT ![a].left = @ - 1]
        /\ runnable' = Scheduled(Popped(runnable), a)
        /\ UNCHANGED <<token, answer, disposed, allocator>>
     \/ /\ subs' = [subs EXCEPT ![a] = NoSub]
        /\ runnable' = Without(Popped(runnable), a)
        /\ allocator' = Without(allocator, a)
        /\ disposed' = disposed \union {a}
        /\ IF subs[a].owed THEN TakeDown(a, token[a])
           ELSE UNCHANGED <<token, answer>>
  /\ TurnEnds
  /\ UNCHANGED <<callers, runtime, channels, worker, hand, id, nextId>>

-----------------------------------------------------------------------------
\* process_shutdown_turn: dispose of every subscription the allocator names
\* (it must name live ones), and stop when none is left.
ShutdownAllocator ==
  /\ worker = "shutting"
  /\ Members(allocator) # {}
  /\ IF subs[FirstOf(allocator)].phase = "none"
     THEN Panic
     ELSE /\ BeginDisposal(FirstOf(allocator))
          /\ UNCHANGED <<callers, runtime, channels, answer, disposed, worker,
                         turn, hand, id, nextId>>

Stop ==
  /\ worker = "shutting"
  /\ Members(allocator) = {} /\ Members(runnable) = {}
  /\ IF \E a \in Attempts : subs[a].phase # "none"
     THEN Panic
     ELSE /\ worker' = "stopped"
          /\ UNCHANGED <<token, callers, runtime, channels, answer, disposed,
                         turn, hand, engine>>

-----------------------------------------------------------------------------
Thread(a) ==
  \/ Bind(a) \/ Resolve(a) \/ AcquireRuntime(a) \/ AcquireFails(a)
  \/ Admit(a) \/ SendSubscribe(a) \/ Answered(a)
  \/ DisposalAcknowledged(a) \/ ReleaseRuntime(a)
  \/ SendShutdown(a) \/ Join(a)

Turn(a) ==
  \/ TeardownTurn(a) \/ AbandonScan(a) \/ ScanTurn(a) \/ ValidateRoot(a)
  \/ CommitSuccess(a) \/ CommitFails(a) \/ DisposalTurn(a)

WorkerStep ==
  \/ ControlCommand \/ ControlTurnEnds \/ WorkCommand \/ WorkTurnEnds
  \/ PromotionTurn \/ IdleTopologyTurn
  \/ \E a \in Attempts : Turn(a)
  \/ ShutdownAllocator \/ Stop

Next ==
  \/ \E a \in Attempts : Cancel(a) \/ DropPending(a) \/ Dispose(a) \/ Thread(a)
  \/ WorkerStep

Spec == Init /\ [][Next]_vars

\* A thread runs on and the worker polls its channels at a bounded interval;
\* the registry's mutex is granted to whoever keeps asking.  Nobody has to
\* begin, cancel or dispose, but a dropped attempt is disposed by its drop.
Fairness ==
  /\ WF_vars(WorkerStep)
  /\ \A a \in Attempts :
       /\ WF_vars(Resolve(a)) /\ WF_vars(Admit(a)) /\ WF_vars(SendSubscribe(a))
       /\ WF_vars(Answered(a)) /\ WF_vars(DisposalAcknowledged(a))
       /\ WF_vars(SendShutdown(a)) /\ WF_vars(Join(a))
       /\ WF_vars(a \in dropped /\ Dispose(a))
       /\ SF_vars(AcquireRuntime(a) \/ AcquireFails(a))
       /\ SF_vars(ReleaseRuntime(a))

FairSpec == Spec /\ Fairness
-----------------------------------------------------------------------------
(* Properties. *)

Queue == [current : SUBSET Attempts, next : SUBSET Attempts]
Commands == [kind : {"dispose", "shutdown"}, of : Attempts]

\* Every variable has its type.
TypeOK ==
  /\ token \in [Attempts -> {"created", "bound", "cancel-requested-unbound",
                             "cancel-requested-bound"} \union Terminal]
  /\ at \in [Attempts -> Stages] /\ outcome \in [Attempts -> Outcomes]
  /\ dropped \subseteq Attempts /\ disposed \subseteq Attempts
  /\ lock \in Attempts \union {None}
  /\ registered \in BOOLEAN /\ stopping \in BOOLEAN /\ leases \in Nat
  /\ control \in Seq(Commands) /\ Len(control) <= ControlCapacity
  /\ work \in Seq(Attempts) /\ Len(work) <= WorkCapacity
  /\ answer \in [Attempts -> {"none", "established", "cancelled", "failed"}]
  /\ worker \in {"none", "running", "shutting", "stopped", "panicked"}
  /\ turn \in {"control", "work", "promotion", "topology", "commit"}
  /\ hand \in [of : Attempts \union {None}, ok : BOOLEAN]
  /\ subs \in [Attempts -> [phase : {"none", "scanning", "tearing", "live",
                                     "disposing"},
                            left : 0 .. Quanta, owed : BOOLEAN]]
  /\ id \in [Attempts -> Nat] /\ nextId \in Nat
  /\ allocator \in Queue /\ runnable \in Queue

Ended(a) == at[a] \in {"established", "disposing", "releasing", "shutting",
                       "joining", "done"}

\* The caller and the token tell the same story, whoever won the race: a
\* subscription is handed out exactly when success was committed, the
\* cancellation error exactly when the cancellation won, a failure only when
\* it was committed; and an attempt that has ended leaves no undecided token.
\* Only a worker that died replaces an error (never a success) by its own.
OneOutcome ==
  \A a \in Attempts : Ended(a) =>
    /\ token[a] \in Terminal
    /\ outcome[a] = "established" <=> token[a] = "succeeded"
    /\ outcome[a] = "cancelled" => token[a] = "cancelled"
    /\ outcome[a] = "failed" => token[a] = "failed"

HoldsLease(a) ==
  at[a] \in {"acquired", "sending", "pending", "established", "disposing",
             "releasing"}

\* The leases are the attempts and subscriptions that still use the runtime,
\* and the worker outlives every one of them: it is stopped only when there
\* is none, by the one thread that holds the registry's mutex (acquire_runtime
\* and release_runtime), so that nobody leases a runtime that is stopping.
LeasesCounted ==
  /\ leases = Cardinality({a \in Attempts : HoldsLease(a)})
  /\ registered <=> leases > 0
  /\ leases > 0 => worker = "running"
  /\ worker \in {"shutting", "stopped", "panicked"} => lock # None
  /\ lock # None => leases = 0 /\ at[lock] \in {"shutting", "joining"}

\* An attempt is rolled back before its caller hears of it, and a disposal is
\* complete before it returns: the worker never holds a subscription whose
\* caller was told it has none (teardown answers last), and a caller that
\* has a subscription finds it in the worker.
NoOrphans ==
  \A a \in Attempts :
    /\ subs[a].phase \in {"scanning", "tearing"} =>
         at[a] = "pending" /\ answer[a] = "none"
    /\ subs[a].phase = "live" => at[a] \in {"pending", "established",
                                             "disposing"}
    /\ at[a] = "established" => subs[a].phase = "live"
    /\ at[a] \in {"releasing", "shutting", "joining", "done"} =>
         subs[a].phase = "none" /\ a \notin Members(runnable)

\* Whatever needs a turn is runnable or being committed, and every
\* subscription not yet disposing is known to the allocator: what
\* process_shutdown_turn's panic calls "allocator or topology membership".
EverybodyScheduled ==
  \A a \in Attempts :
    /\ subs[a].phase \in {"scanning", "tearing", "disposing"} =>
         a \in Members(runnable) \/ hand.of = a
    /\ subs[a].phase \in {"scanning", "tearing", "live"} =>
         a \in Members(allocator)

\* A worker that stopped in order has nothing left: the assertions at the
\* end of Worker::run, and nothing unread in its channels.
StoppedIsEmpty ==
  worker = "stopped" =>
    /\ \A a \in Attempts : subs[a] = NoSub
    /\ Members(allocator) = {} /\ Members(runnable) = {}
    /\ control = <<>> /\ work = <<>> /\ hand = NoHand

\* Around failures, cancellations and the last lease, caller and worker agree on
\* which subscriptions there are: none is left over, none goes missing, none
\* waits for a turn that nobody will give it.
NothingLeftBehind == NoOrphans /\ EverybodyScheduled /\ StoppedIsEmpty

\* Once cancelled, or dropped, an attempt that is not yet committed never
\* becomes a subscription: the token forgets nothing and is decided once.
TokensKept ==
  \A a \in Attempts :
    /\ CancelRequested(a) => token'[a] \in {"cancel-requested-unbound",
                              "cancel-requested-bound", "cancelled"}
    /\ token[a] \in Terminal => token'[a] = token[a]

\* Canceller, caller and worker race for one outcome: it is decided once, and it
\* is what everybody is told.
DecidedOnce == [][TokensKept /\ OneOutcome']_vars

Begun(a) == at[a] \notin {"idle", "established", "done"}

\* Every call returns: an attempt that has begun ends with a subscription or
\* an error, and a disposal ends, whoever cancels and however full the
\* channels are.  A dropped attempt does not leave its subscription behind.
CallsReturn ==
  \A a \in Attempts : /\ Begun(a) ~> at[a] \in {"established", "done"}
                      /\ a \in dropped ~> at[a] = "done"

\* linux.rs:4411 expects of process_shutdown_turn: "allocator membership must
\* name a live subscription".
WorkerNeverPanics == worker # "panicked"
=============================================================================
