--------------------------- MODULE WatchLifetimes ---------------------------
(***************************************************************************)
(* The worker's table of native watches (engine/src/backend/linux.rs): one *)
(* inotify watch per directory, shared by the (subscription, path)         *)
(* interests on it, and numbered by a descriptor the kernel may use again  *)
(* while records of its former watch are still queued.                     *)
(*                                                                         *)
(* The worker is one thread, but a directory is opened in several system   *)
(* calls with the file system moving between them; each call is a step.    *)
(* The rest of a handler is one step.                                      *)
(*                                                                         *)
(* Abstractions.  The paths are sibling directories below a watched parent *)
(* that every subscription covers, so each change of a path is reported to *)
(* all of them; a job opens one path.  The three uncertainty reasons and   *)
(* the epoch are one set of uncertain subscriptions and, per               *)
(* reconciliation, whether anything was marked since it began.  Roots,     *)
(* unmounts and per-subscription limits are left out.                      *)
(***************************************************************************)
EXTENDS Integers, Sequences, SequencesExt, FiniteSets, FiniteSetsExt

CONSTANTS
  Subs,           \* subscriptions
  Paths,          \* directory paths
  Inodes,         \* directory identities
  Descriptors,    \* inotify watch descriptors
  None,           \* no directory, no descriptor
  Budgets,        \* the values native_watch_budget may have
  LastLifetime,   \* u64::MAX
  QueueLimit,     \* the kernel's max_queued_events
  Lossy,          \* whether the kernel queue may overflow
  MaxChanges      \* bound: changes of the file system, in all

ASSUME KernelAssumption ==
  /\ None \notin Inodes \cup Descriptors
  /\ IsFiniteSet(Descriptors)
  /\ Cardinality(Descriptors) >= Cardinality(Inodes)
ASSUME LimitsAssumption ==
  /\ Budgets \subseteq Nat \ {0}
  /\ LastLifetime \in Nat \ {0}
  /\ QueueLimit \in Nat \ {0}
  /\ Lossy \in BOOLEAN
  /\ MaxChanges \in Nat

VARIABLES
  fs,       \* the directory at each path
  kernel,   \* the inotify instance: live watches and queued records
  worker,   \* the worker's registries and subscriptions
  opening,  \* the directory the worker is opening
  changes   \* file system changes left

vars == <<fs, kernel, worker, opening, changes>>

Interests == Subs \X Paths

----------------------------------------------------------------------------
(* The kernel.                                                             *)

Record(kind, of) == [kind |-> kind, of |-> of]
Overflow == Record("overflow", None)

\* A full queue takes one overflow record and drops everything after it.
Reported(k, records) ==
  LET room  == QueueLimit - Len(k.queue)
      taken == k.queue \o SubSeq(records, 1, room)
  IN  [k EXCEPT !.queue =
         IF ~Lossy \/ Len(records) <= room THEN k.queue \o records
         ELSE IF Contains(k.queue, Overflow) THEN taken
         ELSE Append(taken, Overflow)]

\* inotify_rm_watch, which fails harmlessly on a watch already gone.
RmWatches(k, ds) ==
  LET live == {d \in ds : k.watch[d] # None}
  IN  Reported([k EXCEPT !.watch = [d \in Descriptors |->
                                      IF d \in live THEN None ELSE @[d]]],
               [n \in 1..Cardinality(live) |->
                  Record("ignored", SetToSeq(live)[n])])

\* inotify_add_watch returns the watch's descriptor if the directory has one.
Returned(k, inode) ==
  LET same == {d \in Descriptors : k.watch[d] = inode}
  IN  IF same # {} THEN same ELSE {d \in Descriptors : k.watch[d] = None}

InUse == {fs[p] : p \in Paths} \cup {kernel.watch[d] : d \in Descriptors}

Quiet == Lossy \/ Len(kernel.queue) < QueueLimit

Changing ==
  /\ Quiet
  /\ changes > 0 /\ changes' = changes - 1

----------------------------------------------------------------------------
(* The registry of watches.                                                *)

Absent == [lifetime |-> 0, identity |-> None, interests |-> {}, expects |-> FALSE]
NoRange == [first |-> 0, last |-> 0]

Present(w) == {d \in Descriptors : w.watches[d] # Absent}

\* Mutant: only a live watch is counted on from.
NextLiveLifetime(w, d) == w.watches[d].lifetime + 1

\* The lifetime after the latest one known of the descriptor.
NextLifetime(w, d) ==
  Max({w.retired[d].last, w.watches[d].lifetime}) + 1

\* Mutant: a range that is still awaited is started afresh.
RetiredAgain(range, lifetime) == [first |-> lifetime, last |-> lifetime]

Retired(range, lifetime) ==
  CASE range = NoRange -> [first |-> lifetime, last |-> lifetime]
    [] range # NoRange /\ range.last + 1 = lifetime ->
         [range EXCEPT !.last = lifetime]
    [] OTHER -> range

Gap(range, lifetime) ==
  range # NoRange /\ lifetime \notin {range.last, range.last + 1}

\* expect_ignored, for every descriptor of ds and the lifetime it had.
ExpectIgnored(w, ds, lifetime) ==
  [w EXCEPT
     !.retired = [d \in Descriptors |->
                    IF d \in ds THEN Retired(@[d], lifetime[d]) ELSE @[d]],
     !.exhausted = @ \cup {d \in ds : Gap(w.retired[d], lifetime[d])}]

Touched(w, gone, d) == {x \in gone : w.watched[x] = d}

\* The watches that lose their last interest with the interests of "gone".
Emptied(w, gone) ==
  {d \in Present(w) : /\ Touched(w, gone, d) # {}
                      /\ w.watches[d].interests \subseteq Touched(w, gone, d)}

Unregistered(w, gone) ==
  LET last == Emptied(w, gone)
  IN  [w EXCEPT
         !.watches = [d \in Descriptors |->
                        IF d \in last THEN Absent
                        ELSE [w.watches[d] EXCEPT !.interests = @ \ Touched(w, gone, d)]],
         !.index = [i \in Inodes |->
                      IF i \in {w.watches[d].identity : d \in last} THEN None ELSE @[i]],
         !.watched = [x \in Interests |-> IF x \in gone THEN None ELSE @[x]]]

\* Mutant: the removal of a watch announces no ignored record.
RemoveInterestsUnexpected(w, gone) == Unregistered(w, gone)

\* remove_interest, and the removal from watched_paths before it.
RemoveInterests(w, gone) ==
  ExpectIgnored(Unregistered(w, gone), Emptied(w, gone),
                [d \in Descriptors |-> w.watches[d].lifetime])

MarkUncertain(w, ss) ==
  [w EXCEPT !.uncertain = @ \cup ss, !.quiet = @ \ ss]

MarkReused(w, s, d) ==
  IF w.retired[d] # NoRange THEN MarkUncertain(w, {s}) ELSE w

InsertInterest(w, x, d) ==
  [w EXCEPT !.watches[d].interests = @ \cup {x},
            !.watched[x] = d,
            !.deferred[x] = "no"]

\* An error is remembered unless the budget already stands against the path.
DeferError(w, x) ==
  [w EXCEPT !.deferred[x] = IF @ = "budget" THEN @ ELSE "error"]

\* Mutant: one watch too many.
RuntimeOverfull(w) == Cardinality(Present(w)) > w.budget

RuntimeFull(w) == Cardinality(Present(w)) >= w.budget

----------------------------------------------------------------------------
(* The file system.  The watched parent reports every change of a path.    *)

CreateDir(p, i) ==
  /\ Changing
  /\ fs[p] = None /\ i \notin InUse
  /\ fs' = [fs EXCEPT ![p] = i]
  /\ kernel' = Reported(kernel, <<Record("created", p)>>)
  /\ UNCHANGED <<worker, opening>>

RemoveDir(p) ==
  /\ Changing
  /\ fs[p] # None
  /\ fs' = [fs EXCEPT ![p] = None]
  /\ kernel' = Reported(kernel, <<Record("removed", p)>>)
  /\ UNCHANGED <<worker, opening>>

MoveDir(p, q) ==
  /\ Changing
  /\ fs[p] # None /\ fs[q] = None
  /\ fs' = [fs EXCEPT ![p] = None, ![q] = fs[p]]
  /\ kernel' = Reported(kernel, <<Record("removed", p), Record("created", q)>>)
  /\ UNCHANGED <<worker, opening>>

\* A directory that is at no path any more, and no longer open, is freed.
Evict(d) ==
  /\ Quiet
  /\ kernel.watch[d] # None /\ \A p \in Paths : fs[p] # kernel.watch[d]
  /\ kernel' = Reported([kernel EXCEPT !.watch[d] = None],
                        <<Record("deleteself", d), Record("ignored", d)>>)
  /\ UNCHANGED <<fs, worker, opening, changes>>

----------------------------------------------------------------------------
(* The records the worker reads.                                           *)

Active(w) == Subs \ w.disposing

HandleCreated(w, p) == [w EXCEPT !.jobs = @ \cup (Active(w) \X {p})]

\* remove_subscription_subtree, for every subscription.
Forgotten(w, xs) ==
  [w EXCEPT !.deferred = [x \in Interests |-> IF x \in xs THEN "no" ELSE @[x]]]

Watched(w, xs) == {x \in xs : w.watched[x] # None}

HandleRemoved(w, p) ==
  LET xs == Active(w) \X {p}
  IN  Forgotten(RemoveInterests(w, Watched(w, xs)), xs)

\* Only the live watch of the descriptor is told to expect its ignored record.
HandleDeleteSelf(w, d) ==
  [w EXCEPT !.watches[d].expects =
     @ \/ \E x \in w.watches[d].interests : x[1] \in Active(w)]

ConsumeExpected(w, d) ==
  LET range == w.retired[d]
  IN  [w EXCEPT !.retired[d] = IF range.first = range.last THEN NoRange
                               ELSE [range EXCEPT !.first = @ + 1]]

\* The watch is gone; who held it unprepared is uncertain.
Lost(w, d) ==
  LET watch == w.watches[d]
      held  == {x \in watch.interests : x[1] \in Active(w)}
      lost  == [w EXCEPT
                  !.watches[d] = Absent,
                  !.index = [i \in Inodes |-> IF @[i] = d THEN None ELSE @[i]],
                  !.watched = [x \in Interests |-> IF x \in held THEN None ELSE @[x]]]
  IN  IF watch.expects THEN lost ELSE MarkUncertain(lost, {x[1] : x \in held})

\* Mutant: retired lifetimes are not looked at.
HandleIgnoredAtOnce(w, d) == IF d \in Present(w) THEN Lost(w, d) ELSE w

HandleIgnored(w, d) ==
  CASE w.retired[d] # NoRange -> ConsumeExpected(w, d)
    [] w.retired[d] = NoRange /\ d \in Present(w) -> Lost(w, d)
    [] OTHER -> w

Handled(w, r) ==
  CASE r.kind = "created"    -> HandleCreated(w, r.of)
    [] r.kind = "removed"    -> HandleRemoved(w, r.of)
    [] r.kind = "deleteself" -> HandleDeleteSelf(w, r.of)
    [] r.kind = "ignored"    -> HandleIgnored(w, r.of)
    [] r.kind = "overflow"   -> MarkUncertain(w, Active(w))

\* The descriptors whose watch a step takes out of the registry.
Released(w, v) == Present(w) \ Present(v)

NotOpening == [stage |-> "none", of |-> <<None, None>>, identity |-> None,
               wd |-> None]
Opening(stage, x, i, d) == [stage |-> stage, of |-> x, identity |-> i, wd |-> d]

HandleRecord ==
  /\ opening = NotOpening
  /\ kernel.queue # <<>>
  /\ LET r == Head(kernel.queue)
         rest == [kernel EXCEPT !.queue = Tail(@)]
     IN  /\ worker' = Handled(worker, r)
         /\ kernel' = IF r.kind # "removed" THEN rest
                      ELSE RmWatches(rest, Released(worker, Handled(worker, r)))
  /\ UNCHANGED <<fs, opening, changes>>

----------------------------------------------------------------------------
(* Opening a directory: open_topology_directory and add_interest.          *)

\* The watch of a path a reconciliation finds on another directory.
Stale(w, x) ==
  {y \in Watched(w, {x}) :
     x[1] \in w.recon /\ w.watches[w.watched[x]].identity # fs[x[2]]}

\* directory_identity, after dropping the watch of a former directory.
OpenPath(w, x) ==
  LET v == RemoveInterests(w, Stale(w, x))
  IN  /\ kernel' = RmWatches(kernel, Released(w, v))
      /\ CASE v.watched[x] # None ->
                /\ worker' = v
                /\ opening' = Opening("reading", x, fs[x[2]], v.watched[x])
           [] v.watched[x] = None /\ fs[x[2]] = None ->
                /\ worker' = Forgotten(v, {x})
                /\ opening' = NotOpening
           [] OTHER ->
                /\ worker' = v
                /\ opening' = Opening("identified", x, fs[x[2]], None)
      /\ UNCHANGED <<fs, changes>>

Open(x) ==
  /\ opening = NotOpening
  /\ Quiet
  /\ x \in worker.jobs
  /\ OpenPath([worker EXCEPT
                  !.jobs = @ \ {x},
                  !.found = IF x[1] \in worker.recon THEN @ \cup {x} ELSE @], x)

\* process_promotion_turn: a path deferred for the budget gets another try.
TokenAvailable(w, p) ==
  ~RuntimeFull(w) \/ (fs[p] # None /\ w.index[fs[p]] # None)

Promote(x) ==
  /\ opening = NotOpening
  /\ Quiet
  /\ x[1] \in Active(worker) \ worker.recon
  /\ worker.deferred[x] = "budget"
  /\ TokenAvailable(worker, x[2])
  /\ OpenPath(worker, x)

Failed(w, x) == DeferError(MarkUncertain(w, {x[1]}), x)

\* The directory already has a watch: look again, then share it.
Share ==
  /\ opening.stage = "identified"
  /\ worker.index[opening.identity] # None
  /\ LET x == opening.of
         d == worker.index[opening.identity]
     IN  IF fs[x[2]] # opening.identity
         THEN /\ worker' = Failed(worker, x)
              /\ opening' = NotOpening
         ELSE /\ worker' = InsertInterest(MarkReused(worker, x[1], d), x, d)
              /\ opening' = Opening("reading", x, opening.identity, d)
  /\ UNCHANGED <<fs, kernel, changes>>

Defer ==
  /\ opening.stage = "identified"
  /\ worker.index[opening.identity] = None
  /\ RuntimeFull(worker)
  /\ worker' = [worker EXCEPT !.deferred[opening.of] = "budget"]
  /\ opening' = NotOpening
  /\ UNCHANGED <<fs, kernel, changes>>

\* Mutant: a watch on a live descriptor is taken for the one that is registered.
NeverCollides(w, d, i) == FALSE

Collides(w, d, i) == w.watches[d].identity \notin {None, i}

\* Mutant: only the quarantine is looked at.
QuarantinedOnly(w, d) == d \in w.exhausted

\* claim_new_watch_lifetime: no lifetime is left for the descriptor.
Unclaimable(w, d) == d \in w.exhausted \/ NextLifetime(w, d) > LastLifetime

Rejected(w, d) ==
  \/ Collides(w, d, opening.identity)
  \/ d \notin Present(w) /\ Unclaimable(w, d)

\* inotify_add_watch, and the refusal of a descriptor that cannot be trusted.
AddWatch(d) ==
  /\ opening.stage = "identified"
  /\ worker.index[opening.identity] = None
  /\ ~RuntimeFull(worker)
  /\ LET x == opening.of
         added == [kernel EXCEPT !.watch[d] = fs[x[2]]]
     IN  /\ fs[x[2]] # None
         /\ d \in Returned(kernel, fs[x[2]])
         /\ IF Rejected(worker, d)
            THEN /\ kernel' = RmWatches(added, {d})
                 /\ worker' = [Failed(worker, x) EXCEPT !.exhausted = @ \cup {d}]
                 /\ opening' = NotOpening
            ELSE /\ kernel' = added
                 /\ opening' = Opening("added", x, opening.identity, d)
                 /\ UNCHANGED worker
  /\ UNCHANGED <<fs, changes>>

AddWatchFails ==
  /\ opening.stage = "identified"
  /\ worker.index[opening.identity] = None
  /\ ~RuntimeFull(worker)
  /\ fs[opening.of[2]] = None
  /\ worker' = Forgotten(worker, {opening.of})
  /\ opening' = NotOpening
  /\ UNCHANGED <<fs, kernel, changes>>

\* A new watch enters the registry; an existing one is shared.
Registered(w, i, d) ==
  [w EXCEPT !.watches[d] = IF d \in Present(w) THEN @
                           ELSE [lifetime |-> NextLifetime(w, d), identity |-> i,
                                 interests |-> {}, expects |-> FALSE],
            !.index[i] = d]

\* Mutant: the directory is not looked at again after the watch went in.
ConfirmBlindly ==
  /\ opening.stage = "added"
  /\ LET x == opening.of
         i == opening.identity
         d == opening.wd
     IN  /\ worker' = InsertInterest(
                        Registered(MarkReused(worker, x[1], d), i, d), x, d)
         /\ opening' = Opening("reading", x, i, d)
  /\ UNCHANGED <<fs, kernel, changes>>

\* The identity check after the watch went in.
Confirm ==
  /\ opening.stage = "added"
  /\ LET x == opening.of
         i == opening.identity
         d == opening.wd
         created == {d} \ Present(worker)
     IN  IF fs[x[2]] # i
         THEN /\ worker' = Failed(ExpectIgnored(worker, created,
                               [e \in Descriptors |-> NextLifetime(worker, e)]), x)
              /\ kernel' = RmWatches(kernel, created)
              /\ opening' = NotOpening
         ELSE /\ worker' = InsertInterest(
                             Registered(MarkReused(worker, x[1], d), i, d), x, d)
              /\ opening' = Opening("reading", x, i, d)
              /\ UNCHANGED kernel
  /\ UNCHANGED <<fs, changes>>

\* read_topology_directory: a directory that vanished is forgotten.
Read ==
  /\ opening.stage = "reading"
  /\ LET x == opening.of
         gone == IF fs[x[2]] = None THEN Watched(worker, {x}) ELSE {}
         v == Forgotten(RemoveInterests(worker, gone), {x})
     IN  /\ worker' = v
         /\ kernel' = RmWatches(kernel, Released(worker, v))
  /\ opening' = NotOpening
  /\ UNCHANGED <<fs, changes>>

----------------------------------------------------------------------------
(* Reconciliation and disposal.                                            *)

Of(xs, s) == xs \cap ({s} \X Paths)

\* The traversal opens every directory it finds in the parent.
Reconcile(s) ==
  /\ opening = NotOpening
  /\ s \in Active(worker) \ worker.recon
  /\ Of(worker.jobs, s) = {}
  /\ worker' = [worker EXCEPT !.recon = @ \cup {s}, !.quiet = @ \cup {s},
                              !.found = @ \ ({s} \X Paths),
                              !.jobs = @ \cup ({s} \X {p \in Paths : fs[p] # None})]
  /\ UNCHANGED <<fs, kernel, opening, changes>>

\* What the traversal has to sweep: interests it did not come across.
Unfound(w, s) ==
  {x \in Of(Interests, s) \ w.found : w.watched[x] # None \/ w.deferred[x] # "no"}

Sweep(x) ==
  /\ opening = NotOpening
  /\ Quiet
  /\ x[1] \in worker.recon
  /\ Of(worker.jobs, x[1]) = {}
  /\ x \in Unfound(worker, x[1])
  /\ worker' = Forgotten(RemoveInterests(worker, Watched(worker, {x})), {x})
  /\ kernel' = RmWatches(kernel, Released(worker, worker'))
  /\ UNCHANGED <<fs, opening, changes>>

CommitReconciliation(s) ==
  /\ opening = NotOpening
  /\ s \in worker.recon
  /\ Of(worker.jobs, s) = {}
  /\ Unfound(worker, s) = {}
  /\ worker' = [worker EXCEPT
                  !.recon = @ \ {s}, !.found = @ \ ({s} \X Paths),
                  !.quiet = @ \ {s},
                  !.uncertain = IF s \in worker.quiet THEN @ \ {s} ELSE @]
  /\ UNCHANGED <<fs, kernel, opening, changes>>

BeginDisposal(s) ==
  /\ opening = NotOpening
  /\ s \in Active(worker)
  /\ worker' = [worker EXCEPT
                  !.disposing = @ \cup {s}, !.recon = @ \ {s}, !.quiet = @ \ {s},
                  !.found = @ \ ({s} \X Paths),
                  !.jobs = @ \ ({s} \X Paths),
                  !.deferred = [x \in Interests |-> IF x[1] = s THEN "no" ELSE @[x]]]
  /\ UNCHANGED <<fs, kernel, opening, changes>>

\* Bounded turns give the interests back, one path at a time.
DisposeInterest(x) ==
  /\ opening = NotOpening
  /\ Quiet
  /\ x[1] \in worker.disposing /\ worker.watched[x] # None
  /\ worker' = RemoveInterests(worker, {x})
  /\ kernel' = RmWatches(kernel, Released(worker, worker'))
  /\ UNCHANGED <<fs, opening, changes>>

----------------------------------------------------------------------------
(* The specification.                                                      *)

Init ==
  /\ fs = [p \in Paths |-> None]
  /\ kernel = [watch |-> [d \in Descriptors |-> None], queue |-> <<>>]
  /\ \E budget \in Budgets :
     worker = [budget |-> budget,
               watches |-> [d \in Descriptors |-> Absent],
               index |-> [i \in Inodes |-> None],
               retired |-> [d \in Descriptors |-> NoRange],
               exhausted |-> {},
               watched |-> [x \in Interests |-> None],
               deferred |-> [x \in Interests |-> "no"],
               jobs |-> {}, found |-> {}, uncertain |-> {}, recon |-> {}, quiet |-> {},
               disposing |-> {}]
  /\ opening = NotOpening
  /\ changes = MaxChanges

Next ==
  \/ \E p \in Paths, i \in Inodes : CreateDir(p, i)
  \/ \E p \in Paths : RemoveDir(p)
  \/ \E p, q \in Paths : MoveDir(p, q)
  \/ \E d \in Descriptors : Evict(d)
  \/ HandleRecord
  \/ \E x \in Interests : Open(x) \/ Promote(x) \/ Sweep(x) \/ DisposeInterest(x)
  \/ Share
  \/ Defer
  \/ \E d \in Descriptors : AddWatch(d)
  \/ AddWatchFails
  \/ Confirm
  \/ Read
  \/ \E s \in Subs : Reconcile(s) \/ CommitReconciliation(s) \/ BeginDisposal(s)

Spec == Init /\ [][Next]_vars

----------------------------------------------------------------------------
(* The properties.                                                         *)

Watches ==
  [lifetime : 0..LastLifetime, identity : Inodes \cup {None},
   interests : SUBSET Interests, expects : BOOLEAN]
Ranges == [first : 0..LastLifetime, last : 0..LastLifetime]
Workers ==
  [budget : Budgets,
   watches : [Descriptors -> Watches], index : [Inodes -> Descriptors \cup {None}],
   retired : [Descriptors -> Ranges], exhausted : SUBSET Descriptors,
   watched : [Interests -> Descriptors \cup {None}],
   deferred : [Interests -> {"no", "budget", "error"}],
   jobs : SUBSET Interests, found : SUBSET Interests,
   uncertain : SUBSET Subs, recon : SUBSET Subs, quiet : SUBSET Subs, disposing : SUBSET Subs]

\* The registries stay well formed; a lifetime never passes its largest value.
TypeOK ==
  /\ worker \in Workers
  /\ \A d \in Descriptors : worker.retired[d].first <= worker.retired[d].last

\* The three registries tell one story: a subscription's path is watched on the
\* descriptor that lists it, each watch has an interest, and the identity index
\* finds exactly the watch of that identity.
RegistriesAgree ==
  /\ \A x \in Interests, d \in Descriptors :
       /\ x \in worker.watches[d].interests => worker.watched[x] = d
       /\ (worker.watched[x] = d /\ x[1] \in Active(worker))
            => x \in worker.watches[d].interests
  /\ \A d \in Present(worker) : worker.watches[d].interests # {}
  /\ \A i \in Inodes, d \in Descriptors :
       worker.index[i] = d <=> worker.watches[d].identity = i

IgnoredCount(d) ==
  Cardinality({n \in 1..Len(kernel.queue) : kernel.queue[n] = Record("ignored", d)})
Awaited(d) ==
  IF worker.retired[d] = NoRange THEN 0
  ELSE worker.retired[d].last - worker.retired[d].first + 1

\* As long as the kernel drops nothing, the ignored records queued for a
\* descriptor are those of its retired lifetimes and that of an entry (or of the
\* one about to be made) whose watch is gone: each is consumed for the watch it ends.
IgnoredRecordsAttributed ==
  \A d \in Descriptors \ worker.exhausted :
    IgnoredCount(d) = Awaited(d)
      + (IF /\ kernel.watch[d] = None
            /\ d \in Present(worker) \/ (opening.stage = "added" /\ opening.wd = d)
         THEN 1 ELSE 0)

\* Every live kernel watch is in the registry, or about to be: no path of an
\* open, a removal or a disposal leaks one.
NoWatchLeaks ==
  \A d \in Descriptors :
    kernel.watch[d] # None =>
      d \in Present(worker) \/ (opening.stage = "added" /\ opening.wd = d)

\* The kernel never holds more watches than the budget, the one being added
\* included.
BudgetKept ==
  Cardinality({d \in Descriptors : kernel.watch[d] # None}) <= worker.budget

\* Through moves, reuse, refusals and disposals the registries, the kernel's
\* watches and the budget stay the same count of the same watches.
WatchesAgree == RegistriesAgree /\ NoWatchLeaks /\ BudgetKept

\* The watch is on the directory, or its end is still to be read.
Watching(d, i) ==
  kernel.watch[d] = i \/ Contains(kernel.queue, Record("ignored", d))

Announced(p) == Contains(kernel.queue, Record("created", p))

\* A subscription that claims complete coverage watches every directory there
\* is, or has a record, a job or an open under way that will make it.
DirectoriesAccountedFor ==
  \A x \in Interests :
    \/ fs[x[2]] = None
    \/ x[1] \in worker.uncertain \cup worker.disposing
    \/ worker.watched[x] # None /\ Watching(worker.watched[x], fs[x[2]])
    \/ worker.deferred[x] # "no"
    \/ x \in worker.jobs \/ Announced(x[2])
    \/ opening.of = x /\ opening.stage # "reading"
    \/ Contains(kernel.queue, Overflow)

\* The lifetimes of a descriptor are retired in the order they were given out: a
\* live one directly follows those whose ignored records are awaited, so the
\* compact range never has the gap that would quarantine the descriptor.
LifetimesOrdered ==
  \A d \in Present(worker) :
    worker.retired[d] # NoRange =>
      worker.watches[d].lifetime = worker.retired[d].last + 1

\* Every ignored record in the queue belongs to one lifetime of its descriptor,
\* and the worker will know which.
LifetimesAttributed == IgnoredRecordsAttributed /\ LifetimesOrdered

\* An ignored record never takes a live watch out of the registry.
IgnoredDetachesOnlyDead ==
  [][\A d \in Descriptors :
       (/\ kernel.queue # <<>> /\ Head(kernel.queue) = Record("ignored", d)
        /\ kernel'.queue = Tail(kernel.queue)
        /\ d \in Present(worker) /\ d \notin Present(worker'))
          => kernel.watch[d] = None]_vars
=============================================================================
