---------------------------- MODULE NodeEnvironment ----------------------------
(***************************************************************************)
(* The threads of one Node environment (src/node/src/delivery.rs, lib.rs): *)
(* its dispatcher and its cleanup coordinator, started on demand, stopped  *)
(* when no registration needs them and joined by whoever disposes; the     *)
(* JavaScript thread, which registers, disposes and runs finalizers; and a *)
(* libuv thread per establishment.                                         *)
(*                                                                         *)
(* The dispatcher and the coordinator follow one protocol, written twice   *)
(* in the code: "kind" says which.  A thread is an instance <<kind, n>>,   *)
(* so that a late one and its successor can be told apart.  A step is one  *)
(* hold of EnvironmentInner's mutex; a thread waiting on its condition     *)
(* variable is one whose step is not enabled.                              *)
(***************************************************************************)
EXTENDS Integers, FiniteSets

CONSTANTS
  MaxSubscriptions,   \* bound: subscribe calls
  MaxSpawns,          \* bound: threads of each kind that can be created
  Happens,            \* what happens to a subscription beside a failed
                      \* establishment: a subset of {"publish", "noBridge",
                      \* "delivery", "failure", "dispose"} for each
  Faults              \* a subset of {"noSpawn", "teardown"}

ASSUME BoundsAssumption == MaxSubscriptions \in Nat \ {0} /\ MaxSpawns \in Nat \ {0}

Subs == 1..MaxSubscriptions
Kinds == {"dispatcher", "cleanup"}
None == 0

JS == <<"js", 0>>
Worker(s) == <<"worker", s>>
Instances == Kinds \X (1..MaxSpawns)
Procs == {JS} \union {Worker(s) : s \in Subs} \union Instances

\* An entry of a selection, DispatcherWork: a subscription, and what the thread
\* will do with it whatever becomes of its registration.
Entries == Subs \X {"delivery", "cleanup"}

VARIABLES
  closing,  \* the environment's lifecycle is Closing
  next,     \* the subscription the next subscribe call is for
  reg,      \* RegistrationRecord of each subscription, "present" while registered
  lock,     \* who holds its cleanup_registration mutex across steps
  sub,      \* SubscriptionState and DeliveryState
  life,     \* dispatcher_lifecycle, cleanup_lifecycle
  handle,   \* dispatcher_thread, cleanup_thread: an instance number or None
  born,     \* instances created so far
  at,       \* where each thread is
  cur,      \* the subscription it works on
  work,     \* the rest of its selection, a set of entries
  call      \* the start or join of a managed thread it is inside

threadVars == <<life, handle, born>>
subVars == <<reg, lock, sub>>
pcVars == <<at, cur, work>>
vars == <<closing, next, reg, lock, sub, life, handle, born, at, cur, work, call>>

NoRegistration == [present |-> FALSE, pending |-> FALSE, active |-> FALSE,
                   keep |-> FALSE, fallback |-> FALSE, hold |-> FALSE]
NoCall == [at |-> "none", kind |-> "dispatcher", took |-> None, ok |-> TRUE]

Init ==
  /\ closing = FALSE
  /\ next = 1
  /\ reg = [s \in Subs |-> NoRegistration]
  /\ lock = [s \in Subs |-> <<>>]
  /\ sub = [s \in Subs |->
       [tsfn |-> "none", owed |-> FALSE, published |-> FALSE, started |-> FALSE,
        cleaned |-> FALSE, finalizing |-> FALSE, finished |-> FALSE, held |-> TRUE,
        promise |-> "none"]]
  /\ life = [k \in Kinds |-> "stopped"]
  /\ handle = [k \in Kinds |-> None]
  /\ born = [k \in Kinds |-> 0]
  /\ at = [p \in Procs |-> IF p = JS THEN "loop" ELSE "unborn"]
  /\ cur = [p \in Procs |-> None]
  /\ work = [p \in Procs |-> {}]
  /\ call = [p \in Procs |-> NoCall]

-----------------------------------------------------------------------------
(* Starting and joining a managed thread: a call a thread is inside until  *)
(* it returns.                                                             *)

\* keeps_dispatcher_alive, and cleanup_hold for the coordinator.
Needed(k) ==
  \E s \in Subs : /\ reg[s].present
                  /\ IF k = "cleanup" THEN reg[s].hold
                     ELSE reg[s].active \/ reg[s].pending \/ reg[s].keep \/ reg[s].fallback

Gone(k, n) == n # None => at[<<k, n>>] = "gone"

Start(p, k) == call' = [call EXCEPT ![p] = [at |-> "start", kind |-> k, took |-> None, ok |-> TRUE]]
Join(p, k) == call' = [call EXCEPT ![p] = [at |-> "join", kind |-> k, took |-> None, ok |-> TRUE]]
Return(p, ok) == call' = [call EXCEPT ![p] = [NoCall EXCEPT !.ok = ok]]
Free(p) == call[p].at = "none"
Forget(p) == call' = [call EXCEPT ![p] = NoCall]

\* ensure_dispatcher and request_cleanup, a turn of their loop under the mutex.
StartTurn(p) ==
  LET k == call[p].kind IN
  /\ call[p].at = "start"
  /\ \/ /\ k = "dispatcher" /\ closing
        /\ Return(p, FALSE)
        /\ UNCHANGED threadVars
     \/ /\ ~(k = "dispatcher" /\ closing) /\ life[k] = "running"
        /\ Return(p, TRUE)
        /\ UNCHANGED threadVars
     \/ /\ ~(k = "dispatcher" /\ closing) /\ life[k] = "stopped" /\ handle[k] # None
        /\ life' = [life EXCEPT ![k] = "stopping"]
        /\ handle' = [handle EXCEPT ![k] = None]
        /\ call' = [call EXCEPT ![p].at = "reaping", ![p].took = handle[k]]
        /\ UNCHANGED born
     \/ /\ ~(k = "dispatcher" /\ closing) /\ life[k] = "stopped" /\ handle[k] = None
        /\ life' = [life EXCEPT ![k] = "starting"]
        /\ call' = [call EXCEPT ![p].at = "spawning"]
        /\ UNCHANGED <<handle, born>>
  /\ UNCHANGED <<closing, next, pcVars, subVars>>

\* ensure_dispatcher and request_cleanup, after joining the thread that ended.
Reap(p) ==
  LET k == call[p].kind IN
  /\ call[p].at = "reaping" /\ Gone(k, call[p].took)
  /\ life' = [life EXCEPT ![k] = "stopped"]
  /\ call' = [call EXCEPT ![p].at = "start", ![p].took = None]
  /\ UNCHANGED <<closing, next, handle, born, pcVars, subVars>>

\* spawn_dispatcher, spawn_cleanup_coordinator: the thread runs at once.
Spawn(p) ==
  LET k == call[p].kind IN
  /\ call[p].at = "spawning" /\ born[k] < MaxSpawns
  /\ born' = [born EXCEPT ![k] = @ + 1]
  /\ at' = [at EXCEPT ![<<k, born[k] + 1>>] = "born"]
  /\ call' = [call EXCEPT ![p].at = "spawned", ![p].took = born[k] + 1]
  /\ UNCHANGED <<closing, next, life, handle, cur, work, subVars>>

SpawnFails(p) ==
  LET k == call[p].kind IN
  /\ call[p].at = "spawning" /\ ("noSpawn" \in Faults \/ born[k] = MaxSpawns)
  /\ life' = [life EXCEPT ![k] = "stopped"]
  /\ Return(p, FALSE)
  /\ UNCHANGED <<closing, next, handle, born, pcVars, subVars>>

\* Mutant of Started: the thread is detached.
StartedDetached(p) ==
  LET k == call[p].kind IN
  /\ call[p].at = "spawned"
  /\ life' = [life EXCEPT ![k] = "running"]
  /\ Return(p, TRUE)
  /\ UNCHANGED <<closing, next, handle, born, pcVars, subVars>>

\* ensure_dispatcher and request_cleanup, storing the handle.
Started(p) ==
  LET k == call[p].kind IN
  /\ call[p].at = "spawned"
  /\ handle' = [handle EXCEPT ![k] = call[p].took]
  /\ life' = [life EXCEPT ![k] = "running"]
  /\ Return(p, TRUE)
  /\ UNCHANGED <<closing, next, born, pcVars, subVars>>

\* join_dispatcher_if_inactive and join_cleanup_if_inactive, under the mutex.
\* Who finds the thread stopped and its handle taken has nothing to join.
JoinTurn(p) ==
  LET k == call[p].kind IN
  /\ call[p].at = "join"
  /\ \/ /\ Needed(k)
        /\ Return(p, TRUE)
        /\ UNCHANGED threadVars
     \/ /\ ~Needed(k) /\ life[k] = "stopped"
        /\ life' = [life EXCEPT ![k] = IF handle[k] # None THEN "stopping" ELSE @]
        /\ handle' = [handle EXCEPT ![k] = None]
        /\ call' = [call EXCEPT ![p].at = "joining", ![p].took = handle[k]]
        /\ UNCHANGED born
  /\ UNCHANGED <<closing, next, pcVars, subVars>>

\* Mutant of Joined: the lifecycle stays Stopping.
JoinedStaysStopping(p) ==
  /\ call[p].at = "joining" /\ Gone(call[p].kind, call[p].took)
  /\ Return(p, TRUE)
  /\ UNCHANGED <<closing, next, life, handle, born, pcVars, subVars>>

\* ..., after the join, under the mutex again.
Joined(p) ==
  LET k == call[p].kind IN
  /\ call[p].at = "joining" /\ Gone(k, call[p].took)
  /\ life' = [life EXCEPT ![k] = IF @ = "stopping" THEN "stopped" ELSE @]
  /\ Return(p, TRUE)
  /\ UNCHANGED <<closing, next, handle, born, pcVars, subVars>>

Managing(p) ==
  StartTurn(p) \/ Reap(p) \/ Spawn(p) \/ SpawnFails(p) \/ Started(p) \/ JoinTurn(p) \/ Joined(p)

-----------------------------------------------------------------------------
(* Steps several threads take. *)

Goto(p, pc) == at' = [at EXCEPT ![p] = pc]
WorkOn(p, s) == cur' = [cur EXCEPT ![p] = s]
Leaves(p) == WorkOn(p, None)

\* request_background_cleanup up to asking for the coordinator; the
\* registration's mutex is kept until the answer is stored.
Request(p, s, ret) ==
  /\ lock[s] = <<>>
  /\ \/ /\ ~reg[s].present
        /\ Goto(p, ret)
        /\ UNCHANGED <<reg, lock, cur, call>>
     \/ /\ reg[s].present
        /\ reg' = [reg EXCEPT ![s].keep = IF reg[s].hold THEN @ ELSE TRUE,
                              ![s].pending = IF reg[s].hold THEN @ ELSE FALSE,
                              ![s].active = IF reg[s].hold THEN @ ELSE FALSE,
                              ![s].hold = TRUE]
        /\ lock' = [lock EXCEPT ![s] = p]
        /\ Start(p, "cleanup")
        /\ Goto(p, "assigning")
        /\ WorkOn(p, s)

\* Mutant of Assign: a failure to start the coordinator is not reassigned.
AssignUnheeded(p, s, ret) ==
  /\ at[p] = "assigning" /\ Free(p)
  /\ reg' = [reg EXCEPT ![s].keep = FALSE]
  /\ lock' = [lock EXCEPT ![s] = <<>>]
  /\ Goto(p, ret)
  /\ Leaves(p)
  /\ Forget(p)
  /\ UNCHANGED <<closing, next, sub, threadVars, work>>

\* request_background_cleanup: coordinator_ready or coordinator_failed.
Assign(p, s, ret) ==
  /\ at[p] = "assigning" /\ Free(p)
  /\ reg' = [reg EXCEPT ![s].keep = FALSE, ![s].fallback = @ \/ ~call[p].ok]
  /\ lock' = [lock EXCEPT ![s] = <<>>]
  /\ Goto(p, ret)
  /\ Leaves(p)
  /\ Forget(p)
  /\ UNCHANGED <<closing, next, sub, threadVars, work>>

\* perform_engine_cleanup: the registration surrenders its claims on the
\* dispatcher, which all but the dispatcher itself then join.
CleanEngine(p, s) ==
  /\ at[p] = "owning" /\ Free(p) /\ lock[s] = <<>>
  /\ reg' = [reg EXCEPT ![s].active = FALSE, ![s].pending = FALSE, ![s].keep = FALSE,
                        ![s].fallback = @ /\ p[1] = "dispatcher"]
  /\ IF p[1] = "dispatcher" THEN UNCHANGED call ELSE Join(p, "dispatcher")
  /\ Goto(p, "cleaning")
  /\ UNCHANGED <<closing, next, lock, sub, threadVars, cur, work>>

\* perform_engine_cleanup, its result.
EngineCleaned(p, s) ==
  /\ at[p] = "cleaning" /\ Free(p)
  /\ sub' = [sub EXCEPT ![s].cleaned = TRUE]
  /\ Goto(p, "draining")
  /\ UNCHANGED <<closing, next, reg, lock, threadVars, cur, work, call>>

\* finalize_cleanup, by the first thread that gets there.
Release(p, s) ==
  /\ sub' = [sub EXCEPT ![s].finalizing = TRUE,
                        ![s].tsfn = IF @ = "live" THEN "released" ELSE @]
  /\ Goto(p, "releasing")

\* Mutant of Finish: the bridge is released, and its finalizer not awaited.
FinishUnfinalized(p, s, ret) ==
  /\ at[p] = "releasing"
  /\ lock[s] = <<>>
  /\ reg' = [reg EXCEPT ![s] = NoRegistration]
  /\ sub' = [sub EXCEPT ![s].finished = TRUE,
                        ![s].promise = IF @ = "asked" /\ ~closing THEN "queued" ELSE @]
  /\ Goto(p, ret)
  /\ Leaves(p)
  /\ UNCHANGED <<closing, next, lock, threadVars, work, call>>

\* finalize_cleanup: the registration is dropped, the result stored, and the
\* promise completed, unless the environment is closing.
Finish(p, s, ret) ==
  /\ at[p] = "releasing"
  /\ closing \/ sub[s].tsfn = "finalized"
  /\ lock[s] = <<>>
  /\ reg' = [reg EXCEPT ![s] = NoRegistration]
  /\ sub' = [sub EXCEPT ![s].finished = TRUE,
                        ![s].promise = IF @ = "asked" /\ ~closing THEN "queued" ELSE @]
  /\ Goto(p, ret)
  /\ Leaves(p)
  /\ UNCHANGED <<closing, next, lock, threadVars, work, call>>

-----------------------------------------------------------------------------
(* The JavaScript thread. *)

InLoop == at[JS] = "loop" /\ Free(JS)

\* prepare_subscribe, register
Register ==
  /\ InLoop /\ ~closing /\ next <= MaxSubscriptions
  /\ reg' = [reg EXCEPT ![next] = [NoRegistration EXCEPT !.present = TRUE, !.pending = TRUE]]
  /\ Start(JS, "dispatcher")
  /\ Goto(JS, "registering")
  /\ UNCHANGED <<closing, next, lock, sub, threadVars, cur, work>>

\* register, prepare_subscribe: no dispatcher; no callback bridge; or the
\* establishment goes to a libuv thread.
Registered ==
  /\ at[JS] = "registering" /\ Free(JS)
  /\ next' = next + 1
  /\ \/ /\ ~call[JS].ok
        /\ reg' = [reg EXCEPT ![next] = NoRegistration]
        /\ Goto(JS, "loop")
        /\ Forget(JS)
        /\ UNCHANGED sub
     \/ /\ call[JS].ok /\ "noBridge" \in Happens[next]
        /\ reg' = [reg EXCEPT ![next] = NoRegistration]
        /\ Join(JS, "dispatcher")
        /\ Goto(JS, "loop")
        /\ UNCHANGED sub
     \/ /\ call[JS].ok
        /\ sub' = [sub EXCEPT ![next].tsfn = "live"]
        /\ at' = [at EXCEPT ![JS] = "loop", ![Worker(next)] = "establishing"]
        /\ UNCHANGED <<reg, call>>
  /\ UNCHANGED <<closing, lock, threadVars, cur, work>>

\* NativeSubscription::dispose, on an object JavaScript still has.
Visible(s) == at[Worker(s)] = "resolved" /\ sub[s].held
Dispose(s) ==
  /\ "dispose" \in Happens[s]
  /\ InLoop /\ ~closing /\ Visible(s) /\ sub[s].promise = "none"
  /\ IF sub[s].finished
       THEN /\ sub' = [sub EXCEPT ![s].promise = "queued"]
            /\ UNCHANGED <<reg, lock, at, cur, call>>
       ELSE /\ sub' = [sub EXCEPT ![s].promise = "asked"]
            /\ Request(JS, s, "loop")
  /\ UNCHANGED <<closing, next, threadVars, work>>

\* Drop of NativeSubscription: the object is collected, disposed or not.
Collect(s) ==
  /\ "dispose" \in Happens[s]
  /\ InLoop /\ ~closing /\ Visible(s)
  /\ sub' = [sub EXCEPT ![s].held = FALSE,
                        ![s].owed = @ /\ (sub[s].finished \/ sub[s].promise # "none")]
  /\ IF sub[s].finished THEN UNCHANGED <<reg, lock, at, cur, call>>
                        ELSE Request(JS, s, "loop")
  /\ UNCHANGED <<closing, next, threadVars, work>>

JsAssigns == Assign(JS, cur[JS], "loop")

\* finalize_delivery_context
FinalizeBridge(s) ==
  /\ InLoop /\ ~closing /\ sub[s].tsfn = "released"
  /\ sub' = [sub EXCEPT ![s].tsfn = "finalized", ![s].owed = FALSE]
  /\ UNCHANGED <<closing, next, reg, lock, threadVars, pcVars, call>>

\* finish_delivery: the consumer's callback is done.
Settle(s) ==
  /\ InLoop /\ ~closing /\ sub[s].owed
  /\ sub' = [sub EXCEPT ![s].owed = FALSE]
  /\ UNCHANGED <<closing, next, reg, lock, threadVars, pcVars, call>>

\* Mutant of Complete: only the coordinator is joined.
CompleteUnjoined(s) ==
  /\ InLoop /\ ~closing /\ sub[s].promise = "queued"
  /\ sub' = [sub EXCEPT ![s].promise = "joining"]
  /\ WorkOn(JS, s)
  /\ Goto(JS, "joiningDispatcher")
  /\ UNCHANGED <<closing, next, reg, lock, threadVars, work, call>>

\* call_js_dispose_completion: both threads are joined on the JavaScript thread
\* before the promise settles.
Complete(s) ==
  /\ InLoop /\ ~closing /\ sub[s].promise = "queued"
  /\ sub' = [sub EXCEPT ![s].promise = "joining"]
  /\ WorkOn(JS, s)
  /\ Join(JS, "dispatcher")
  /\ Goto(JS, "joiningDispatcher")
  /\ UNCHANGED <<closing, next, reg, lock, threadVars, work>>

CompleteJoinsCleanup ==
  /\ at[JS] = "joiningDispatcher" /\ Free(JS)
  /\ Join(JS, "cleanup")
  /\ Goto(JS, "joiningCleanup")
  /\ UNCHANGED <<closing, next, subVars, threadVars, cur, work>>

Settled ==
  /\ at[JS] = "joiningCleanup" /\ Free(JS)
  /\ sub' = [sub EXCEPT ![cur[JS]].promise = "settled"]
  /\ Goto(JS, "loop")
  /\ Leaves(JS)
  /\ UNCHANGED <<closing, next, reg, lock, threadVars, work, call>>

\* begin_environment_teardown: every published registration is held for
\* cleanup, every bridge aborted, every waiting promise given up.
Teardown ==
  /\ "teardown" \in Faults /\ InLoop /\ ~closing
  /\ closing' = TRUE
  /\ reg' = [s \in Subs |->
       IF ~reg[s].present THEN reg[s]
       ELSE [reg[s] EXCEPT !.pending = FALSE, !.active = FALSE,
                           !.keep = @ \/ sub[s].published,
                           !.hold = @ \/ sub[s].published]]
  /\ sub' = [s \in Subs |->
       [sub[s] EXCEPT !.tsfn = IF reg[s].present /\ @ = "live" THEN "released" ELSE @,
                      !.promise = IF @ \in {"asked", "queued"} THEN "aborted" ELSE @]]
  /\ IF \E s \in Subs : reg[s].present /\ sub[s].published
       THEN Start(JS, "cleanup") /\ Goto(JS, "tearingDown")
       ELSE Goto(JS, "exited") /\ UNCHANGED call
  /\ UNCHANGED <<next, lock, threadVars, cur, work>>

\* assign_environment_cleanup_to_coordinator, ..._to_dispatcher
TornDown ==
  /\ at[JS] = "tearingDown" /\ Free(JS)
  /\ reg' = [s \in Subs |->
       IF ~reg[s].hold THEN reg[s]
       ELSE [reg[s] EXCEPT !.keep = FALSE, !.fallback = @ \/ ~call[JS].ok]]
  /\ Goto(JS, "exited")
  /\ Forget(JS)
  /\ UNCHANGED <<closing, next, lock, sub, threadVars, cur, work>>

JavaScript ==
  \/ Managing(JS)
  \/ Register \/ Registered \/ JsAssigns
  \/ \E s \in Subs : FinalizeBridge(s) \/ Settle(s) \/ Complete(s)
  \/ CompleteJoinsCleanup \/ Settled \/ TornDown

-----------------------------------------------------------------------------
(* The libuv thread of an establishment: SubscribeTask::compute. *)

\* It failed, or was cancelled by the teardown: cleanup_unpublished_delivery.
EstablishmentFails(s) ==
  /\ at[Worker(s)] = "establishing"
  /\ reg' = [reg EXCEPT ![s] = NoRegistration]
  /\ sub' = [sub EXCEPT ![s].tsfn = IF @ = "live" THEN "released" ELSE @]
  /\ Goto(Worker(s), "unpublishing")
  /\ UNCHANGED <<closing, next, lock, threadVars, cur, work, call>>

\* cleanup_unpublished_delivery, once the bridge is finalized.
Unpublish(s) ==
  /\ at[Worker(s)] = "unpublishing" /\ (closing \/ sub[s].tsfn = "finalized")
  /\ Join(Worker(s), "dispatcher")
  /\ Goto(Worker(s), "failing")
  /\ UNCHANGED <<closing, next, subVars, threadVars, cur, work>>

\* publish_delivery, with the registration's mutex held; refused by a teardown,
\* which leaves the undoing to dispose_join_and_drain.
Publish(s) ==
  /\ "publish" \in Happens[s]
  /\ at[Worker(s)] = "establishing" /\ lock[s] = <<>>
  /\ \/ /\ closing
        /\ sub' = [sub EXCEPT ![s].started = TRUE]
        /\ Goto(Worker(s), "owning")
        /\ UNCHANGED <<reg, lock, call>>
     \/ /\ ~closing
        /\ reg' = [reg EXCEPT ![s].pending = FALSE, ![s].active = TRUE]
        /\ sub' = [sub EXCEPT ![s].published = TRUE]
        /\ lock' = [lock EXCEPT ![s] = Worker(s)]
        /\ Start(Worker(s), "dispatcher")
        /\ Goto(Worker(s), "publishing")
  /\ UNCHANGED <<closing, next, threadVars, cur, work>>

\* publish_delivery and environment.publish, the dispatcher's answer.
Published(s) ==
  /\ at[Worker(s)] = "publishing" /\ Free(Worker(s))
  /\ lock' = [lock EXCEPT ![s] = <<>>]
  /\ \/ /\ call[Worker(s)].ok
        /\ Goto(Worker(s), "resolved")
        /\ UNCHANGED <<reg, sub>>
     \/ /\ ~call[Worker(s)].ok
        /\ reg' = [reg EXCEPT ![s].active = FALSE, ![s].keep = TRUE]
        /\ Goto(Worker(s), IF sub[s].started THEN "awaiting" ELSE "owning")
        /\ sub' = [sub EXCEPT ![s].started = TRUE]
  /\ Forget(Worker(s))
  /\ UNCHANGED <<closing, next, threadVars, cur, work>>

\* dispose_join_and_drain of the owner: drained, or the environment closes.
WorkerDrained(s) ==
  /\ at[Worker(s)] = "draining" /\ (closing \/ ~sub[s].owed)
  /\ IF sub[s].finalizing
       THEN Goto(Worker(s), "awaiting") /\ UNCHANGED sub
       ELSE Release(Worker(s), s)
  /\ UNCHANGED <<closing, next, reg, lock, threadVars, cur, work, call>>

\* dispose_join_and_drain: wait_for_cleanup, then the final joins.
WorkerAwaits(s) ==
  /\ at[Worker(s)] = "awaiting" /\ sub[s].finished
  /\ Join(Worker(s), "dispatcher")
  /\ Goto(Worker(s), "joiningDispatcher")
  /\ UNCHANGED <<closing, next, subVars, threadVars, cur, work>>

WorkerJoinsCleanup(s) ==
  /\ at[Worker(s)] = "joiningDispatcher" /\ Free(Worker(s))
  /\ Join(Worker(s), "cleanup")
  /\ Goto(Worker(s), "failing")
  /\ UNCHANGED <<closing, next, subVars, threadVars, cur, work>>

Rejected(s) ==
  /\ at[Worker(s)] = "failing" /\ Free(Worker(s))
  /\ Goto(Worker(s), "rejected")
  /\ UNCHANGED <<closing, next, subVars, threadVars, cur, work, call>>

Libuv(s) ==
  \/ Managing(Worker(s))
  \/ EstablishmentFails(s) \/ Unpublish(s) \/ Publish(s) \/ Published(s)
  \/ CleanEngine(Worker(s), s) \/ EngineCleaned(Worker(s), s) \/ WorkerDrained(s)
  \/ Finish(Worker(s), s, "awaiting")
  \/ WorkerAwaits(s) \/ WorkerJoinsCleanup(s) \/ Rejected(s)

-----------------------------------------------------------------------------
(* The dispatcher and the coordinator: an instance i of a kind. *)

\* The selection of a round: fair_round_dispatcher, fair_round_cleanup.  It
\* decides what each entry is.
Selected(k) ==
  {e \in Entries : LET r == reg[e[1]] IN
     /\ r.present
     /\ IF e[2] = "cleanup" THEN r.hold /\ (k = "cleanup" \/ r.fallback)
                           ELSE r.active /\ k = "dispatcher" /\ ~r.fallback}

\* dispatcher_loop, cleanup_loop: the thread waits until its starter is done.
Enter(i) ==
  /\ at[i] = "born" /\ life[i[1]] # "starting"
  /\ Goto(i, "selecting")
  /\ UNCHANGED <<closing, next, subVars, threadVars, cur, work, call>>

Select(i) ==
  /\ at[i] = "selecting" /\ Free(i) /\ work[i] = {}
  /\ \/ /\ Selected(i[1]) # {}
        /\ work' = [work EXCEPT ![i] = Selected(i[1])]
        /\ UNCHANGED <<life, at>>
     \/ /\ Selected(i[1]) = {} /\ ~Needed(i[1])
        /\ life' = [life EXCEPT ![i[1]] = "stopping"]
        /\ Goto(i, "leaving")
        /\ UNCHANGED work
  /\ UNCHANGED <<closing, next, subVars, handle, born, cur, call>>

\* ManagedThreadExit::drop
Leave(i) ==
  /\ at[i] = "leaving"
  /\ life' = [life EXCEPT ![i[1]] = "stopped"]
  /\ Goto(i, "gone")
  /\ UNCHANGED <<closing, next, subVars, handle, born, cur, work, call>>

\* The entries are taken in the order of their registrations, as they were selected.
Turn(i, e) ==
  /\ at[i] = "selecting" /\ Free(i) /\ e \in work[i]
  /\ \A f \in work[i] : e[1] <= f[1]
  /\ work' = [work EXCEPT ![i] = @ \ {e}]

\* dispatch_one: a batch may be admitted, or the engine's output is gone or the
\* bridge failed, and the dispatcher asks for cleanup itself.
Dispatch(i, s) ==
  /\ Turn(i, <<s, "delivery">>)
  /\ \/ UNCHANGED <<reg, lock, sub, at, cur, call>>
     \/ /\ "delivery" \in Happens[s] /\ reg[s].active /\ ~closing /\ ~sub[s].owed
        /\ sub' = [sub EXCEPT ![s].owed = TRUE]
        /\ UNCHANGED <<reg, lock, at, cur, call>>
     \/ /\ "failure" \in Happens[s] /\ ~closing /\ ~sub[s].owed /\ ~reg[s].hold
        /\ Request(i, s, "selecting")
        /\ UNCHANGED sub
  /\ UNCHANGED <<closing, next, threadVars>>

DispatcherAssigns(i) == i[1] = "dispatcher" /\ Assign(i, cur[i], "selecting")

\* advance_background_cleanup: the first thread to try owns the cleanup; later
\* turns finalize it once the engine is done and nothing is owed, a dispatcher's
\* also when its registration has been taken from it since the selection.
Advance(i, s) ==
  /\ Turn(i, <<s, "cleanup">>)
  /\ \/ /\ sub[s].finished
        /\ UNCHANGED <<sub, at, cur>>
     \/ /\ ~sub[s].finished /\ ~sub[s].started
        /\ sub' = [sub EXCEPT ![s].started = TRUE]
        /\ Goto(i, "owning")
        /\ WorkOn(i, s)
     \/ /\ ~sub[s].finished /\ sub[s].started
        /\ IF sub[s].cleaned /\ (closing \/ ~sub[s].owed) /\ ~sub[s].finalizing
             THEN Release(i, s) /\ WorkOn(i, s)
             ELSE UNCHANGED <<sub, at, cur>>
  /\ UNCHANGED <<closing, next, reg, lock, threadVars, call>>

\* advance_background_cleanup, the rest of the owner's turn.
AdvanceOwned(i) ==
  /\ at[i] = "draining"
  /\ IF (closing \/ ~sub[cur[i]].owed) /\ ~sub[cur[i]].finalizing
       THEN Release(i, cur[i]) /\ UNCHANGED cur
       ELSE Goto(i, "selecting") /\ Leaves(i) /\ UNCHANGED sub
  /\ UNCHANGED <<closing, next, reg, lock, threadVars, work, call>>

Managed(i) ==
  \/ Managing(i)
  \/ Enter(i) \/ Select(i) \/ Leave(i)
  \/ \E s \in Subs : Dispatch(i, s) \/ Advance(i, s)
  \/ DispatcherAssigns(i)
  \/ cur[i] # None /\ (CleanEngine(i, cur[i]) \/ EngineCleaned(i, cur[i])
                       \/ Finish(i, cur[i], "selecting"))
  \/ AdvanceOwned(i)

-----------------------------------------------------------------------------
Next ==
  \/ JavaScript \/ Teardown
  \/ \E s \in Subs : Dispose(s) \/ Collect(s) \/ Libuv(s)
  \/ \E i \in Instances : Managed(i)

Spec == Init /\ [][Next]_vars

\* Every thread is scheduled, and a callback in the consumer's hands returns.
FairSpec ==
  /\ Spec
  /\ WF_vars(JavaScript)
  /\ \A s \in Subs : WF_vars(Libuv(s)) /\ WF_vars(FinalizeBridge(s))
                     /\ WF_vars(Settle(s)) /\ WF_vars(Complete(s))
  /\ \A i \in Instances : WF_vars(Managed(i))

-----------------------------------------------------------------------------
(* Properties. *)

Alive(k) == {n \in 1..MaxSpawns : at[<<k, n>>] \notin {"unborn", "gone"}}

\* Every thread, registration and call is in one of the states the code has, and
\* a running thread's handle is there for whoever joins it.
TypeOK ==
  /\ closing \in BOOLEAN
  /\ next \in 1..(MaxSubscriptions + 1)
  /\ reg \in [Subs -> [present : BOOLEAN, pending : BOOLEAN, active : BOOLEAN,
                       keep : BOOLEAN, fallback : BOOLEAN, hold : BOOLEAN]]
  /\ lock \in [Subs -> {<<>>} \union Procs]
  /\ sub \in [Subs ->
       [tsfn : {"none", "live", "released", "finalized"}, owed : BOOLEAN,
        published : BOOLEAN, started : BOOLEAN, cleaned : BOOLEAN,
        finalizing : BOOLEAN, finished : BOOLEAN, held : BOOLEAN,
        promise : {"none", "asked", "queued", "joining", "settled", "aborted"}]]
  /\ life \in [Kinds -> {"stopped", "starting", "running", "stopping"}]
  /\ handle \in [Kinds -> 0..MaxSpawns]
  /\ \A k \in Kinds : life[k] = "running" => handle[k] # None
  /\ born \in [Kinds -> 0..MaxSpawns]
  /\ at \in [Procs -> {"loop", "registering", "assigning", "joiningDispatcher",
                       "joiningCleanup", "tearingDown", "exited", "unborn",
                       "establishing", "unpublishing", "failing", "publishing",
                       "resolved", "owning", "cleaning", "draining", "releasing",
                       "awaiting", "rejected", "born", "selecting", "leaving", "gone"}]
  /\ cur \in [Procs -> Subs \union {None}]
  /\ work \in [Procs -> SUBSET Entries]
  /\ call \in [Procs -> [at : {"none", "start", "reaping", "spawning", "spawned",
                             "join", "joining"},
                       kind : Kinds, took : 0..MaxSpawns, ok : BOOLEAN]]

\* A registration held for its cleanup is never forgotten: a coordinator that
\* has not decided to stop, the dispatcher the cleanup was reassigned to, the
\* libuv thread that owns it, the thread that releases its bridge or one still
\* asking for a coordinator takes it.
Serves(k) == \E n \in Alive(k) : at[<<k, n>>] # "leaving"
Asking(s) ==
  at[JS] = "tearingDown" \/ \E p \in Procs : at[p] = "assigning" /\ lock[s] = p
Owning(s) ==
  \/ at[Worker(s)] \in {"owning", "cleaning", "draining", "releasing"}
  \/ \E i \in Instances : at[i] = "releasing" /\ cur[i] = s
CleanupHasOwner ==
  \A s \in Subs : reg[s].hold =>
    \/ Serves("cleanup")
    \/ reg[s].fallback /\ Serves("dispatcher")
    \/ Owning(s) \/ Asking(s)

\* When dispose() is completed, its callbacks are done, its bridge is finalized, its
\* registration is gone and no thread is at its cleanup: none that finds it
\* finished has overtaken the one that finishes it (lib.rs:1853, dispose_completion.rs:103).
CompletedIsCleanedUp ==
  \A s \in Subs : sub[s].promise \in {"queued", "joining", "settled"} =>
    /\ ~sub[s].owed /\ sub[s].tsfn = "finalized" /\ ~reg[s].present
    /\ \A p \in {Worker(s)} \union {i \in Instances : cur[i] = s} :
         at[p] \notin {"owning", "cleaning", "releasing"}

\* When dispose() settles, none of the environment's threads is left but for
\* another subscription that is neither rejected nor settled yet (delivery.rs:577,
\* dispose_completion.rs:203).
Over(s) == at[Worker(s)] \in {"unborn", "rejected"} \/ sub[s].promise = "settled"
JoinedMeansEnded ==
  [][\A s \in Subs, k \in Kinds :
       sub[s].promise = "joining" /\ sub'[s].promise = "settled" =>
         Alive(k) = {} \/ \E r \in Subs \ {s} : ~Over(r)]_vars

\* Whoever waits for a managed thread to end waits for one that has made its last
\* selection: a dispatcher that is joined is inactive.
JoinedIsInactive ==
  \A p \in Procs :
    call[p].at \in {"reaping", "joining"} /\ call[p].took # None =>
      at[<<call[p].kind, call[p].took>>] \in {"leaving", "gone"}

\* The JavaScript thread joins the dispatcher, which waits for a finalizer that only
\* the JavaScript thread can run.  Nothing in the registry keeps the joiner away: the
\* dispatcher is at a cleanup it selected before the coordinator took it over
\* (delivery.rs:1094, lib.rs:1862).
JoinsItsWaiter ==
  /\ ~closing /\ ~Needed("dispatcher")
  /\ call[JS].kind = "dispatcher" /\ call[JS].at \in {"join", "joining"}
  /\ \E n \in Alive("dispatcher") :
       LET i == <<"dispatcher", n>> IN
       at[i] = "releasing" /\ sub[cur[i]].tsfn # "finalized"

\* subscribe() and every other call on the JavaScript thread returns, every
\* establishment ends, and dispose() settles unless a teardown aborts it, so that in
\* the end no call waits (there are only so many); and a torn down environment gets
\* rid of its threads.  One wait has no end, and nothing else keeps a call from its
\* answer: that of JoinsItsWaiter.
Waiting(s) ==
  \/ at[Worker(s)] \notin {"unborn", "resolved", "rejected"}
  \/ sub[s].promise \in {"asked", "queued", "joining"}
CallWaits ==
  at[JS] \notin {"loop", "exited"} \/ ~Free(JS) \/ \E s \in Subs : Waiting(s)
CallsReturn ==
  /\ CallWaits ~> ~CallWaits \/ JoinsItsWaiter
  /\ closing ~> \A k \in Kinds : Alive(k) = {}

=============================================================================
