# Watchbound, modelled in TLA+

Watchbound watches directory trees and tells its consumers which paths to look
at again.  It promises *invalidations*, not events: whatever a consumer has not
been told must still be on its way, or the coverage it reads must say that
something was missed.  This directory models the parts of the program that keep
that promise, checks the models with TLC on small instances, and proves the
central invariants with TLAPS for every value of the constants.

Paths below are relative to the repository; `linux.rs` is
`engine/src/backend/linux.rs` and `lib.rs` is `engine/src/lib.rs`.

## The system

One process holds one shared *runtime*: an inotify descriptor, a worker thread
and the subscriptions it serves (`linux.rs`).  Engine handles (`lib.rs`) send it
commands over two bounded channels and wait for their acknowledgements.  The
Node addon (`node/src`) moves batches from the engine to JavaScript callbacks
through one dispatcher thread per environment, and the JavaScript layer (`js/`)
wraps that in promises, abort signals and an automatic reconciliation
controller.

| component | state | operations | talks to |
|---|---|---|---|
| Subscription coverage (`SubscriptionState`) | pending paths and the generation that selected them, uncertainty, barriers, topology jobs, deferred directories, the three pending transactions, the root's identity and attachment | kernel events, `flush`, `mark_uncertain`, `mark_root_lost`, exclusion replacement, reconciliation, root recovery, topology turns, promotion, maintenance, disposal | consumer queue (`try_send`), file system, kernel event queue, caller (acknowledgement) |
| Native watch table (`Worker`) | live watches by descriptor, their lifetimes and interests, identity index, retired lifetimes, quarantined descriptors | `add_interest`, `remove_interest`, `handle_ignored`, sweeps, promotion, rejection of a reused descriptor | kernel (add and remove watch, IN_IGNORED), every subscription that shares a watch |
| Fair queues (`FairIdQueue`) | the round being served and the next one | `schedule`, `pop_next`, `remove`, `ready_len` | worker loop |
| Establishment (`lib.rs`, `linux.rs`) | attempt token (one atomic), provisional subscription in the worker | bind, cancel, admit, validate, commit, tear down, drop | caller, canceller, worker |
| Runtime lease and shutdown | registry of the shared runtime, leases, command channels, the worker thread | acquire, release, shut down, join | every engine |
| Transaction gate and handles (`lib.rs`) | one atomic flag per subscription, the lifecycle mutex, two condition variables, the published generation | replace exclusions, reconcile, recover, dispose | callers on several threads, worker |
| Node delivery (`node/src/delivery.rs`) | registration phase, one in-flight delivery, credit, abandonment | publish, admit, roll back, complete, abandon, finalize | dispatcher, JavaScript thread |
| Node dispatcher and cleanup threads | thread handles, environment phase, registrations, cleanup queue | ensure, stop, join, tear down | environment hooks, deliveries |
| Node establishment and disposal (`node/src/lib.rs`, `dispose_completion.rs`) | attempt outcome, provisional native state, dispose completion | compute, settle, cancel, dispose | engine, delivery, JavaScript thread |
| Automatic reconciliation (`js/automatic-reconciliation.js`) | status, attempt counter, timer, generation, root state | observe, schedule, run, exhaust, recover, dispose | subscription handle, timers |
| JavaScript wrapper (`js/index.js`, `js/native-establishment.js`) | callback holder, abort listeners | establish, stop, dispose | addon |

What is hard here is the interleaving.  The worker is one thread, but each
transaction takes many of its turns, and between two turns anything else can
happen to the same subscription: more events, a kernel overflow, a full queue, a
root that is replaced, comes back or goes for good, a disposal.  Kernel records
arrive after the state they speak of has changed, and are attributed by numbers
the kernel uses again.  Callers, cancellers, the worker, the dispatcher and the
JavaScript thread race over one-shot outcomes (an establishment, a delivery, a
disposal).  The hazards are listed at their lines in `PROJECT.json`, each with
the properties that would catch it going wrong.

What makes each part correct:

* coverage: nothing invalidated is lost silently; uncertainty ends only with a
  rebuild that began after the loss; generations are reported in order; every
  transaction is answered and no two overlap; work is never left unscheduled;
* watch table: an IN_IGNORED record is never taken for another watch than the
  one it ends; the table, the kernel and the subscriptions agree; every
  directory is watched, deferred, on its way, or reported uncertain;
* handles: one transaction at a time, none behind the back of a disposal, and
  every call returns;
* establishment and runtime: one outcome per attempt, whoever wins the race;
  nothing of a refused attempt left behind; the worker outlives every lease and
  no lease outlives the worker;
* delivery: one batch in the consumer's hands at a time and in order, none
  offered once the bridge is shut, a loss that shuts it, a blocking wake-up that
  never blocks;
* Node establishment: a cancelled attempt goes quiet, a rejected one leaves
  nothing, what was begun settles;
* Node threads: every cleanup has a thread that will do it, and a settled
  `dispose()` has joined what there was to join;
* automatic reconciliation: one thing at a time, every loss has an attempt
  coming or the policy says that it gave up, "recovered" is never said over a
  newer loss.

## Modules

### `SubscriptionCoverage`: one subscription inside the worker

`sub` is the worker's `SubscriptionState`, `fsRoot` the identity now found at
the root path, `growth` a bound.  The worker handles a command, an event, a
topology turn or a maintenance pass to its end before the next, so each is one
action, and the functions they call (`queue_path`, `mark_uncertain`, `flush`,
`mark_root_lost`, the `progress_*` functions) are operators from state to state,
composed in the order of the code.

| action | code |
|---|---|
| `ReplaceExclusions`, `Reconcile`, `RecoverRoot` | the accepting branches of the commands; a rejection changes nothing and is no step |
| `Event`, `RootSelf`, `RootIgnored`, `Loss` | `handle_event`, `handle_ignored`, overflow and read errors |
| `Turn` | `process_topology_turn` with the `progress_*` function of the transaction in progress |
| `Promote` | `process_promotion_turn` |
| `Maintenance` | `run_maintenance`: root and boundary checks, batch window, unstable candidates |
| `Dispose`, `Receive`, `TakeReply`, `SwapRoot` | disposal, the consumer, the caller, the file system |

Two ghosts record the promise: `owed`, what has been invalidated and not sent,
and `gap`, whether events were lost before or after the current rebuild began.  Directory
names and observed boundaries, evidence kinds, sequence numbers, root
generations and statistics are left out; the uncertainty epoch is the outcome of
its one comparison.

### `WatchLifetimes`: watches, descriptors and their lifetimes

`kernel` is the inotify instance (live watches, queued records), `worker` the
registries (watches with lifetime, interests and the expected record; identity
index; retired ranges; quarantine) and the subscriptions' paths, `opening` the
directory being opened.  Opening a directory takes several system calls with the
file system moving between them: `Open` (identify), `AddWatch` (or `Share`, or
`Defer` at the budget), `Confirm` (identify again) and `Read` are steps of their
own, and everything else a handler does is one step.  Paths are siblings below a
watched parent; roots, unmounts and the recursive descent are left to
`SubscriptionCoverage`.

### `SubscriptionControl` and `TransactionGate`: the handles of a subscription

`SubscriptionControl` has the threads of callers and disposers, each at a stage
of its call: the compare-and-swap on the gate, the lifecycle mutex, the send
into the bounded control channel (with the mutex held), the acknowledgement, the
published generation, the clearing and the notification of the gate, and
disposal with its two condition variables, spurious wake-ups included.
`TransactionGate` says what all this is for: transactions begin one at a time,
while the subscription is active; a disposal closes it once and returns once
the last transaction has left.  `ImplementsGate` is the refinement.

### `Establishment`: attempts, leases and the life of the runtime

Every attempt is a thread that binds its token, resolves the root, leases or
starts the runtime under the registry's mutex (`acquire_runtime`), sends
`Subscribe` into the bounded work channel, and takes the worker's answer; it may
be cancelled at any moment and its pending subscription may be dropped.  The
worker's round (`Worker::run`) is split where somebody can come in between:
control commands, work commands, the promotion turn, the topology turn, and the
commit of an establishment after its last validation.  A scan, a teardown and a
disposal are numbers of turns.  The last lease keeps the mutex while the worker
is shut down and joined.  The two `FairIdQueue`s are modelled as they are, with
the round being served and the next one.  `DebugAssertions` is the build:
`debug_assert!` is evaluated or not, and one of them has an effect.  An orphaned
establishment (the receiver of the answer gone) cannot happen as long as the
caller joins its attempt, which `PendingSubscription` does even when dropped, and
is left out.

### `DeliveryBridge`, `SingleCredit` and `NodeSubscription`: one subscription in Node

`DeliveryBridge` is `DeliveryState` and its thread-safe function, between three
threads: the dispatcher receives a batch and admits it (`try_admit_with`, credit,
slot and wake-up under one hold of the environment's barrier), the JavaScript
thread takes it from the slot and settles it (`invoke_callback`,
`complete_delivery`), and whoever owns the cleanup drains and releases the
function.  The wake-up may fail, the conversion for JavaScript may fail, the
callback may throw or own the completion, tickets come twice or late, the object
is collected, the environment is torn down.  When the wrapper does any of it is
left open.  `SingleCredit` is the promise to one consumer and `ImplementsCredit`
the refinement.

`NodeSubscription` composes the bridge with what is around it: the cancellable
attempt, the libuv task of `SubscribeTask::compute`, the wrapper's
`establishNativeSubscription` with its abort listener and its commit, the buffer
that keeps a batch that comes before the subscription is built, and the callback
holder that may be collected.  Every step of it is a step of the bridge or leaves
the bridge alone, which is proved.

### `NodeEnvironment`: the threads of one Node environment

The dispatcher and the cleanup coordinator follow one protocol, written twice in
`delivery.rs`: started on demand, stopped by themselves when no registration
needs them, joined by whoever disposes.  A thread is an instance, so that one
that is leaving and its successor can be told apart; `call` is where a thread is
inside a start or a join, and a step is one hold of the environment's mutex.  The
JavaScript thread registers, disposes, finalizes and completes promises (and
blocks while it joins), a libuv thread per establishment publishes or undoes it.
A coordinator that cannot be created hands its cleanups to the dispatcher.  What a
thread selects in a round are entries that say what they are (`Entries`, the code's
`DispatcherWork`): a cleanup stays one when its registration is taken from the
dispatcher before its turn, and may then find the cleanup finished, wait for its
next turn, or be the one that releases the bridge.

### `AutomaticReconciliation`: the policy of the JavaScript wrapper

The policy's variables are one record and its functions operators on it, in the
order of `automatic-reconciliation.js`; promises settle and batches arrive on
their own, late and in any order between the two.

The `MC*` modules instantiate these for TLC.

## What the runs check

| run | states | question |
|---|---|---|
| `AllCalls` | 730 000 | the three transactions one after the other with every event, loss, promotion and root change between their turns: the coverage promise, honest batches, barriers, answers and wake-ups |
| `OneTransaction` | 248 000 | one kind of transaction per behaviour, two identities coming and going at the root path while it is recovered: every call is answered, what is owed is followed by a batch, only the identity found at commit is attached and its root invalidation goes with it |
| `Watches` | 484 000 | two subscriptions share, move, lose, promote, reconcile and give back watches through three changes of the file system, with one watch allowed or two and descriptors used again |
| `OverflowForgotten` | violated | an overflow record that waits hides the loss of a creation |
| `ControlBlock` | 130 000 | three threads, two calls each, a channel of one slot: the gate is implemented and calls return |
| `DisposalHangs` | violated | the wake-up of a disposal is lost |
| `Establishment` | 47 000 | two attempts, each cancelled or dropped at any moment, one runtime of the release build: one outcome, leases, nothing left behind, every call returns |
| `StaleAllocator` | violated | a stale allocator entry makes the stopping worker panic |
| `Subscription` | 17 000 | one Node subscription from `subscribe()` to the end of its cleanup, with four batches: the single credit, cancellation, rejection, early batches, teardown, and that all of it settles |
| `Environment` | 443 000 | two subscriptions share the two threads of an environment, which may fail to start, until it is torn down: owners of cleanups, joins, and that every call returns but for one wait, described below |
| `IdleJoiner` | violated | a thread that found no dispatcher to join stores the lifecycle late; a later one joins a dispatcher that serves it |
| `AutoReconcile` | 235 000 | two attempts, four losses, any outcome, recoveries and disposal in any order |

All runs switch deadlock checking off, because each system may really stop: a
subscription is disposed, the changes of the file system are used up, the
threads have made their calls.  That nobody waits for ever is stated by the
liveness properties instead.

**Bounds.**  `MaxGeneration`, `MaxJobs` and `MaxGrowth` bound the generations
asked for, the queued jobs and the directories created (directories appear in
`AllCalls` alone, where the other run asks for liveness, and mixes no
transactions: `MCOneTransaction`; once the last directory has appeared the root
path changes no more, `GrowsLast`); one excludable path and
the root are enough for detail, collapse to the root and a partly covered batch
(`MaxBatchPaths = 1` makes every second path a collapse), a queue of one slot
makes every batch meet a full queue, and two identities let the root be replaced
and put back.  `MaxChanges` bounds the changes of the file system; five are a
move away, a recreation and their undoing with the records of all of them
queued (`OverflowForgotten` needs them), three and the two subscriptions reach
every action, and `LastLifetime` is reached in `Watches`.  What that bound means
for `DirectoriesAccountedFor` is said below.  `MaxCalls`, `Capacity = 1`
and three threads give a caller that blocks on a full channel while another
disposes and a third joins it.  Two attempts with `WorkCapacity = 1` give a full
channel, a shared runtime, one that is stopped under an attempt about to lease
it, and a second runtime after the first; `Quanta = 1` separates the first from
the last turn of a scan, a teardown and a disposal.  Four batches
are one in flight, one lost, and two that show whether anything still passes;
`MaxSubscriptions = 2` with `MaxSpawns = 2` give a second registration that comes
while the first one's thread is leaving, and a thread that succeeds another;
everything happens to the first subscription, the second one is published, or
fails before or after it has its callback bridge (`Happens`): it can begin a
cleanup of its own only at the teardown, and it can make the JavaScript thread join.
Two subscriptions are too few for the late stores of `IdleJoiner`, which takes
five of them and three dispatchers: `JoinedMeansEnded` and `CallsReturn` are
checked for two subscriptions at a time and do not hold for five.
`MaxAttempts = 2` and four losses exhaust the policy and start it again.  What
bounds a sequence in the code (channels, queues) bounds it in the model.

**Fairness.**  `Worker::run` takes a topology turn and a maintenance pass in
every round and polls for at most 5 ms, so worker steps are weakly fair, and a
topology turn that is due infinitely often makes progress infinitely often
(strong fairness of `Progress`: a turn does a bounded share of a finite amount
of work).  The consumer drains its queue.  A thread runs on when it can (weak
fairness) and is granted a mutex it keeps asking for (strong fairness of taking
the lifecycle mutex and the registry's mutex).  In Node the two
threads and libuv run, the event loop turns while no function of it is on the
stack, functions return, timers fire and native calls answer; a consumer may keep
a delivery for ever (`ConsumerKeeps` is the premise of `EverythingSettles`; in
`NodeEnvironment` it gives it back).  Nothing is assumed of
cancellers, of callers that have not called, of spurious wake-ups, of the kernel
or of the file system.

**What the violated runs show.**

* `OverflowForgotten`: records behind a waiting `IN_Q_OVERFLOW` are dropped
  without a second overflow record; a removal queued before a reconciliation then
  removes the watch the reconciliation has just installed, and the creation that
  would have put it back is lost: a directory is unwatched under complete
  coverage.
* `DisposalHangs`: the gate is cleared and notified without the mutex disposal
  holds between its test and its wait.
* `StaleAllocator`: `process_establishment_teardown_turn` removes the id from the
  allocator inside `debug_assert!`; in a release build it stays, and a shutdown
  that comes before the next promotion turn panics.
* `IdleJoiner`: `join_dispatcher_if_inactive` releases the mutex between finding
  the dispatcher stopped with its handle taken (so there is nothing to join) and
  storing `Stopped` over any `Stopping` it finds when it locks again.  Delayed in
  between, it resets a `Stopping` that is not its own.  One such reset lets a
  joiner take the handle of a dispatcher that is still leaving, a second lets the
  next registration start another dispatcher beside it; when the first is gone it
  stores `Stopped` over the other's `Running`, and the next `ensure_dispatcher`
  joins a dispatcher that is alive and serves the caller's own registration.  That
  `subscribe()`, or the JavaScript thread if it makes the next registration, waits
  until the environment is torn down.

**The wait that `CallsReturn` excepts.**  A dispatcher entry is chosen under the
mutex (`delivery.rs:897`) and carried out without it (`delivery.rs:535`).  A
dispatcher that waits for a finalizer must not be joined by the JavaScript thread,
which alone can run one: `docs/node-binding.md:314` calls the fallback cycle-safe,
and the comment at `node/src/lib.rs:1102` avoids such a wait in the step next to
the join of item 5.  TLC finds an order in which nothing prevents it:

1. subscription 1 is published; the JavaScript thread calls `dispose()`, the
   coordinator cannot be created, and the cleanup falls back to the dispatcher;
2. the dispatcher selects it as a cleanup;
3. the object is collected; this second request gets a coordinator, whose
   `prepare_engine_cleanup` clears the fallback (`delivery.rs:1095`) while the
   JavaScript thread has registered subscription 2, so that the coordinator's own
   join of the dispatcher returns at once;
4. the dispatcher comes to its entry, finds the engine cleaned, and is first at
   the bridge: it releases it and waits for the finalizer (`node/src/lib.rs:1864`);
5. subscription 2 gets no callback bridge: the JavaScript thread drops its
   registration and joins the dispatcher, which nothing needs any more
   (`node/src/lib.rs:1080`).

Both wait until the process ends: a teardown runs on the same thread.  `JoinsItsWaiter`
describes this state and no other: the JavaScript thread is inside a join of the
dispatcher, the registry has nothing that keeps the dispatcher, and a dispatcher
waits for a finalizer that has not run.  `CallsReturn` says that any other wait
ends.  Without the exception the run violates it, in 30 steps; a run that does
so is not kept beside this one.  As long as the registration is still reassigned to
the dispatcher, `Needed` makes the join return at once.

Smaller divergences were met on the way and are not kept as runs:

* a kernel overflow followed by a root loss in the middle of an exclusion update
  is reported as `topology-race` (`queue_path` overwrites the stronger reason);
* a root recovery that flushes into a full queue and then fails leaves uncertain
  coverage without a queued root invalidation;
* `run_maintenance` compares the root path with the lost root's identity while a
  recovery scans an accepted replacement, and may fail the recovery as
  `identity-unstable` although the candidate never changed
  (`docs/root-replacement-follow-up.md:190` speaks of an identity change);
* a loss batch of an older root generation that is delivered after a recovery was
  committed latches the automatic policy in "blocked"
  (`automatic-reconciliation.js:124` does not compare generations outside a
  recovery; `docs/root-replacement-follow-up.md:76` does).

**How far `DirectoriesAccountedFor` goes.**  It is the one invariant here that is
known to hold in a part of the program only.  `Watches` checks it with two
subscriptions and three changes of the file system and no record dropped.

With six changes it is violated even for one subscription (`Subs = {s}`, two
paths, inodes and descriptors, `Budgets = {2}`, `LastLifetime = 2`,
`QueueLimit = 4`, `Lossy = FALSE`, `MaxChanges = 6`; 34 steps).  An IN_DELETE_SELF
is handled for whatever watch its descriptor has now (`linux.rs:2163`): one that
is left of a former watch makes the live one expect its IN_IGNORED.  The
uncertainty that came with the reuse of the descriptor ends with the next
reconciliation, the expectation stays.  When an open is then answered with that
descriptor although it looked for another directory,
`reject_colliding_native_watch` removes the watch, although the registry entry it
takes for an ended one is live; a reconciliation shares the entry and commits, and
the IN_IGNORED read afterwards is taken for the expected one: a directory is
unwatched under complete coverage.  With five changes the same instance has no
violation, and none with six if `HandleDeleteSelf` leaves live watches alone,
which points at that handler as the one cause within these bounds.

There is a second cause, and it takes six changes and a queue that holds seven
records (23 steps).  `add_interest` compares the identity of a directory before
and after it adds the watch.  A directory `i` at a path is identified, removed
and replaced by `k`; the watch is added, to `k`; `k` is removed, but still held
open by somebody, and a directory with the number `i` is back when the comparison
is made, which therefore passes, and the registry keeps the watch of `k` as the
watch of `i`.  The directory then moves, a reconciliation opens its new path and
shares the entry, and once the records of the old path are read the entry has that
path alone: until `k` is freed and the end of its watch is read, a directory is
unwatched under complete coverage.

As long as the kernel drops nothing, a directory is forgotten only in behaviours
of these two kinds: the theorem `NoDirectoryForgotten` says so for every value of
the constants.  Its hypothesis `RegisteredAsFound` is about the step `Confirm`
alone: if the comparison passes, the watch that enters the registry is alive and
on the directory that was identified, and no IN_DELETE_SELF of a former watch of
its descriptor is still queued.  A kernel whose records of a former watch are read
before its descriptor is reused satisfies it as long as no path has another
directory, or none, between two looks at the same one.  The hypothesis
excludes a little more than goes wrong: if the first directory comes back because
it was moved away, and not because its number is used again, its records are
enough to repair the entry in every case that was looked at (the behaviours of
six changes in which it leaves, another directory takes its place and goes, it comes
back and moves on).  What is left, records dropped by an overflow, is
`OverflowForgotten`.

## What is proved

| module | theorem | statement |
|---|---|---|
| `SubscriptionCoverageProofs` | `TypeCorrect`, `NothingLostSilently`, `GapsVisible`, `WorkAgreed` | the invariants `TypeOK`, `NoSilentLoss`, `GapIsVisible` and `WorkAccountedFor` of `AllCalls` |
| `CoverageTransactionProofs` | `BatchesAreHonest` | its invariant `BatchesHonest` |
| `CoverageTransactionProofs` | `ReconciliationsAreSent`, `LossesAreReported`, `RecoveriesAttachTheRoot` | the action properties of `AllCalls` and `OneTransaction` |
| `SubscriptionControlProofs` | `TypesHold`, `GateIsKept` | the invariants of `ControlBlock` |
| `SubscriptionControlProofs` | `Implements` | `Spec => ImplementsGate`, the whole refinement |
| `EstablishmentProofs` | `TypesHold`, `LeasesAreCounted`, `NothingIsLeftBehind` | the invariants of `Establishment` |
| `EstablishmentProofs` | `TokensAreDecidedOnce` | `Spec => DecidedOnce`, an action property |
| `EstablishmentProofs` | `DebugBuildNeverPanics` | `DebugAssertions` gives `Spec => []WorkerNeverPanics` |
| `DeliveryProofs` | `TypesHold`, `NeverBlocks`, `LossesShut`, `Implements` | types, `WakeUpNeverBlocks`, `LossShutsTheBridge` and `ImplementsCredit` of the bridge |
| `DeliveryProofs` | `RefinesBridge`, `SubNeverBlocks`, `SubLossesShut`, `SubImplements` | `SubSpec => Spec` of the bridge, and what that gives a whole subscription |
| `DeliveryProofs` | `SubTypesHold`, `CancellationHolds`, `RejectionLeavesNothing` | the invariants `SubTypeOK`, `CancelledIsQuiet` and `RejectedLeavesNothing` of `Subscription` |
| `NodeEnvironmentProofs` | `EnvironmentTypes`, `HeldCleanupIsOwned` | the invariants `TypeOK` and `CleanupHasOwner` of `Environment` |
| `NodeEnvironmentProofs` | `CleanupHasOneOwner` | no two threads clean up one subscription together |
| `NodeEnvironmentProofs` | `CompletionFollowsCleanup` | the invariant `CompletedIsCleanedUp` of `Environment` |
| `WatchLifetimesProofs` | `TypeCorrect`, `TableAgrees` | the invariants `TypeOK` and `WatchesAgree` of `Watches`, whether the kernel queue overflows or not |
| `WatchLifetimesProofs` | `EndsAttributed` | its invariant `LifetimesAttributed`, as long as the kernel drops nothing |
| `WatchLifetimesProofs` | `RetiredInOrder`, `OnlyDeadDetached` | retired lifetimes keep their order, and `IgnoredDetachesOnlyDead`, even if it does |
| `WatchLifetimesProofs` | `NoDirectoryForgotten` | its invariant `DirectoriesAccountedFor`, as long as the kernel drops nothing and every watch is registered as found |
| `AutomaticReconciliationProofs` | `TypesHold`, `OneThingHolds`, `LossesHavePlans`, `RecoveredMeansIt` | the invariants of `AutoReconcile` |

They hold for any number of paths, identities, threads, calls and batches, any capacity
and any bound, from the named assumptions on the constants in the modules.

*Coverage.*  The type invariant is inductive once it also says that a recovery
past its first phase has captured a real candidate (`CandidateCaptured`): the
identity it may install is never that of a missing directory.  The proof gives
every helper a typing lemma and one step per action.  Honesty adds two facts
that are inductive together: what is owed is pending, represented by the root,
or covered by a reason (`Accounted`); and a gap noted as new can only lie after
the start of the rebuild in progress, so that a rebuild that stayed quiet may end
the reason (`GapOlder`).  Without the second, a rebuild overtaken by a loss could
clear it.

That barriers, runnable queue and acknowledgement agree needs to know whose work
it is (`Owned`): the call awaits exactly while there is a transaction, there is
at most one, and a recovery is the one transaction a lost root has, and only a
lost root has it.  The barriers are then those of the jobs and one for the
transaction that holds its own (`Balanced`), and whatever is runnable is queued
(`Awake`).  From that balance follows that a batch is sent under the generation
its paths were selected under: nothing is flushed while an update holds a
barrier, so the generation in force is the committed one or the newer one being
installed (`Chosen`); and what is owed is queued path by path unless a rebuild
stands for it (`Kept`).

The boundaries are about what one step of the worker does, which is a chain of
up to a dozen helpers.  Each helper is shown to do one of two things: it stands
by what was reported (`Standing`: uncertainty, a lost root and the call stay as
they are, and the batches sent say so), or it commits a rebuild and names the
root in the last batch it sends (`Commits`); nothing is sent after a commit, so
the chain as a whole does one or the other.  The attempt to prove
`RecoveryBoundary` corrected it: with a queue of two slots a recovery sends what
was pending and its root in one step, so the property asks for the last batch
of the step, not for exactly one.

*Watch table.*  That an ignored record is read for the watch it ends is a count:
the records queued for a descriptor are those of its retired lifetimes and one for
an entry, or an open under way, whose watch the kernel has ended.  `TableInv` has
three parts.  The registry agrees with itself (`Registry`): an entry has an
interest, a lifetime that directly follows the retired ones, and an identity the
index leads back from, and no more entries than the budget.  It follows the kernel
(`Follows`): a live watch has an entry or is about to get one, a quarantined
descriptor has none, and the count holds: as an equality for a queue that
drops nothing, as "not more than" for one that does.  And the open under way
belongs to it (`Opens`): what an added watch is for is not in the index yet, and
there is room for it.  The inequality is enough for the action property: a record
that is read although no retired lifetime is awaited must be the one of an ended
watch, so a live one is never detached.  A quarantined descriptor is left out of
the count: the record of the collision's watch comes on top of it.  The lemmas
count records in a queue through each of the kernel's operations, and show of each
registry operation what it keeps.

*Directories.*  That none is forgotten is about the order of the queue, not about
counts, and its invariant `CoverInv` stands on the one above.  A directory that
is there has its creation queued behind every removal of its path (`Followed`),
so a removal that takes away a new watch is made good.  A registered watch is on
the identity the registry has for it, or has ended with the record queued; one
that expects its end, or whose directory's end is queued, has ended (`Tied`,
`Ended`): this is where the hypothesis on `Confirm` is needed, for a descriptor
that was reused.  Of a quarantined descriptor at least the ends of its former
watches are queued (`Owed`).  A watched path is where its watch is, or its
removal is queued (`Located`).  A path without a watch is deferred, has a job, a
creation in the queue or an open under way, unless its subscription is uncertain
and no reconciliation can end that (`Accounts`); and a reconciliation that has not
found a path yet will still be sent there (`Traversed`), without which a commit
could clear the uncertainty too early.  Each action of the file system, of the
worker and of the registry keeps these, a lemma each; the removals share one
(`RemovalCovers`).  Before the proof TLC checked the parts as invariants under the
hypothesis: one subscription with five changes and a queue of five and with six
and six, and two subscriptions with four and four.

*Control.*  The invariant says who may be where: the gate is closed exactly
while one thread is between its compare-and-swap and its clearing
(`Exclusive`); commands in the channel, answers and acknowledgements belong to
the thread whose stage waits for them, and a transaction's command never stands
behind a disposal's (`Ordered`, in the parts `Transactions`, `Disposals`,
`Unanswered`, `Running`, `Gone`); and the published generation is the committed
one except between commit and publication (`Current`).  Mutual exclusion alone is
not inductive, because the mutex is held across a blocking send.

*Establishment.*  No property above is inductive by itself: that a refused
attempt leaves nothing behind depends on what every earlier stage says of its
token, its answer and its subscription (`Placed`); that a command finds what it
names depends on the channels holding one command per attempt and the shutdown
alone (`Channelled`); that the last lease stops an idle worker depends on the
count and on who holds the mutex (`Leased`); and that every subscription gets
its turn depends on the two queues and the establishment in hand (`Working`).
Each part is shown to be kept with the help of the others, and the types with
the help of `Leased`, without which the lease count could go below zero.  Only
a step's own attempt is looked at: lemmas say that it leaves the others alone.
From the same invariant a debug build never reaches the panic that
`StaleAllocator` finds in a release build.

*Delivery.*  That the blocking wake-up finds room needs the whole life of a
delivery.  `IInv` is `TypeOK` with: the credit is away exactly while one delivery
is in flight, and a queued wake-up is for the batch in the slot or the admission
was shut (`OneDelivery`); cleanup, release and teardown come after the admission
was shut, and the function is released only when nothing is outstanding or the
environment goes (`Closed`); a callback under way is for the delivery in flight
as long as the environment lives (`OnTheThread`); a batch that waits for its
callback is newer than any the callback had (`Ordered`).  The refinement to
`SingleCredit` follows from the same invariant, one step at a time; and because
every step of `NodeSubscription` is a step of the bridge, it holds of the
composition without another induction.  That a lost batch shuts the bridge is an
induction of its own (`Losing`): the one later batch that may still reach the
callback is in the slot or with the dispatcher, never in both, and while a
failure waits to be recorded nothing newer than the lost batch was handed over.

*Attempt and wrapper.*  Cancellation, task and wrapper each know only a part of
what the others did, so the invariant `SInv` says how far apart they can be: a
state is attached before it is published, and the wrapper goes on after the task
(`Attempt`); a cancellation that found no state leaves it to the task not to
publish one, any other has shut the admission when it is over (`Cancelled`);
while the wrapper awaits, the batch its buffer keeps is the one in flight
(`Early`); a delivery is given up before the wrapper goes on, and what rejected
has waited for the finalizer (`Rejecting`).  That nothing opens the admission
again and nobody else settles the buffered delivery is shown once for the bridge
(`StepOnward`, `HandedStaysInFlight`).

*Environment.*  That a held cleanup has an owner is a question about threads that
may be leaving, may not have been created, or have not stored that they run.
`IInv` says that whoever asks for the coordinator keeps the dispatcher until it
has its answer, by the registration's keepalive or because it is the dispatcher
(`Held`, `Claimed`); that a lifecycle that says Running, or a start that
succeeded, speaks of a thread that serves (`Running`), which fails only while the
environment closes and, of the coordinator, only when nothing is held; that the
mutex of a registration is with who publishes it or asks for its cleanup
(`Locked`); that its record agrees with where its establishment is (`Records`);
and that one thread at a time owns a cleanup and one releases the bridge
(`Owners`), which is a theorem of its own.  An entry is part of `Records`: a
cleanup that was selected is still held, and a dispatcher's is either still
reassigned to it or begun by somebody else (`EntryOf`), so a stale one never
becomes the owner, but it may release the bridge; `Owners` therefore says nothing
of a fallback for a dispatcher that does, and `CleanupHasOwner` counts whoever
releases the bridge as an owner: it may be the only one left, when a libuv thread
that drained leaves the rest to it.  An action moves one thread and those
it wakes, so there is a lemma per conjunct on what a step that leaves it alone
keeps, and one per action on what it disturbs.  None of this needs the lifecycle
to be right once a thread has stopped, which is why it survives the late stores
of `IdleJoiner`, and `JoinedMeansEnded` does not.

What `dispose()` promises when it is completed rests on a second invariant on top
of that one (`Ends`): a cleanup is finished by the thread that released the
bridge, and no other is releasing it, so that a coordinator and a libuv thread
that both drained cannot overtake each other; it is finished only once the bridge
is finalized or the environment closes, and a completion that waits is given up
when it closes; and a registration whose engine side is cleaned, or whose bridge
is released, no longer claims the dispatcher, so no delivery can follow the
finalizer that cleared what was owed.

*Automatic reconciliation.*  The policy is a record and its functions are
operators, so each is shown to keep one predicate (`Consistent`) and the actions
follow.  The properties are not inductive alone: a latched policy whose attempt
is still under way must be blocked by a lost root, or an attempt that fails would
mark a loss as pending that nothing waits for; a timer is only set below the
limit of attempts; and what a recovery puts aside is itself a state without an
attempt in progress (`Restorable`), so that restoring it is safe.

Only model-checked: liveness, which this prover does not reach;
`DirectoriesAccountedFor` of the watch table without the hypothesis of its theorem,
where it is not an invariant of the whole program (above); `JoinedMeansEnded` of `NodeEnvironment` (no thread is left),
which holds for two subscriptions only, because of the late stores of `IdleJoiner`, and
`CallsReturn`, which is liveness, has an exception, and holds for two.

## Not modelled

Byte-level parsing of kernel records (its outcomes are the inputs of the core);
option validation, statistics and error construction; capability checks and addon
loading; benchmarks and release tooling; the observed state and the path
conversions of the wrapper.  Of the Node environment its own start
(`prepare`, the cleanup hook's installation) and the quantum of a fair round are
left out, of the watch table the recursive descent, roots and unmounts.

## Plan

1. `SubscriptionCoverage`, its runs and proofs.  Done.
2. `WatchLifetimes`, with proofs.  Done.
3. `SubscriptionControl` refining `TransactionGate`, with proofs.  Done.
4. `Establishment`, with proofs.  Done.
5. `DeliveryBridge` refining `SingleCredit`, and `NodeSubscription` around it,
   with proofs.  Done.
6. `NodeEnvironment`, with proofs of its invariants.  Done.
7. `AutomaticReconciliation`, with proofs.  Done.
8. The invariants and action properties of the core as theorems.  Done.
9. `DirectoriesAccountedFor` under the hypothesis that marks where it ends.  Done.
