------------------------ MODULE SubscriptionCoverage ------------------------
(***************************************************************************)
(* One established subscription inside the shared Linux worker             *)
(* (engine/src/backend/linux.rs): what it still owes its consumer, which   *)
(* uncertainty it reports, and the three topology transactions - exclusion *)
(* replacement, reconciliation and root recovery - that take turns on it.  *)
(*                                                                         *)
(* The worker is one thread.  It handles a command, a kernel event, a      *)
(* topology turn or a maintenance pass to the end before the next, so each *)
(* of those is one action, and the helpers they call are operators from    *)
(* state to state.  What interleaves with them is the file system, the     *)
(* kernel event queue, the consumer and the caller.                        *)
(*                                                                         *)
(* Abstractions.  Paths are the directories below the root that the        *)
(* exclusion policy can name, each with its subtree.  A topology job is    *)
(* counted, not stored.  Deferred directories and pending promotions are   *)
(* one flag, the only thing coverage reads of them.  The uncertainty epoch *)
(* is only ever compared with the value a transaction captured, so each    *)
(* transaction carries the outcome of that comparison ("quiet").  Sequence *)
(* numbers count accepted batches and are left out, as is the evidence     *)
(* kind of a root loss, which nothing branches on.  A policy is a set of   *)
(* excluded prefixes; the empty prefix excludes the root itself.  Observed *)
(* boundaries and directory names, which queue and rescan in the same way, *)
(* are left out.                                                           *)
(***************************************************************************)
EXTENDS Integers, Sequences, FiniteSets

CONSTANTS
  Paths,                \* included or excluded subtrees below the root
  Root,                 \* the root's own path
  Identities,           \* (device, inode) pairs a directory at the root can have
  Missing,              \* no directory at the root path
  MaxBatchPaths,        \* options.max_batch_paths
  OutputQueueCapacity,  \* options.output_queue_capacity
  Calls,                \* which of the three transactions the caller uses
  MaxGeneration,        \* bound: largest exclusion generation a caller asks for
  MaxJobs,              \* bound: topology jobs queued at once by events
  MaxGrowth             \* bound: directories created or promoted, in all

ASSUME PathsAssumption ==
  /\ IsFiniteSet(Paths)
  /\ Root \notin Paths
ASSUME IdentitiesAssumption == Missing \notin Identities /\ Identities # {}
ASSUME OptionsAssumption ==
  /\ MaxBatchPaths \in Nat \ {0}
  /\ OutputQueueCapacity \in Nat \ {0}
ASSUME BoundsAssumption ==
  /\ MaxGeneration \in Nat
  /\ MaxJobs \in Nat
  /\ MaxGrowth \in Nat

VARIABLES
  sub,      \* the worker's SubscriptionState, with the ghosts "owed" and "gap"
  fsRoot,   \* the identity now found at the root path
  growth    \* creations and promotions left

vars == <<sub, fsRoot, growth>>

----------------------------------------------------------------------------
(* Uncertainty reasons, and the state of a subscription.                   *)

Backpressure == "consumer-backpressure"
TopologyRace == "topology-race"
RootReplaced == "root-replaced"
EventOverflow == "event-overflow"
Reasons == {Backpressure, TopologyRace, RootReplaced, EventOverflow}
NoReason == "none"

Priority(reason) ==
  CASE reason = NoReason      -> 0
    [] reason = Backpressure  -> 1
    [] reason = TopologyRace  -> 2
    [] reason = RootReplaced  -> 3
    [] reason = EventOverflow -> 4

Strongest(current, candidate) ==
  IF Priority(current) >= Priority(candidate) THEN current ELSE candidate

Recoverable(reason) == reason \in {EventOverflow, TopologyRace, Backpressure}

Unselected == -1
Monus(n, k) == IF n >= k THEN n - k ELSE 0

Policies == (SUBSET Paths) \cup {{Root}}
Excludes(policy, p) == p \in policy \/ Root \in policy

NoUpdate == [phase |-> "none", gen |-> 0, policy |-> {}, prev |-> {}]
NoRecon  == [phase |-> "none", reason |-> NoReason, quiet |-> TRUE]
NoRecov  == [phase |-> "none", candidate |-> Missing, reason |-> NoReason,
             quiet |-> TRUE, later |-> NoReason, unstable |-> FALSE]

Transacting(s) ==
  \/ s.update.phase # "none"
  \/ s.recon.phase # "none"
  \/ s.recov.phase # "none"

\* Mutant: deferred directories mask uncertainty.
CoveragePartialFirst(s) ==
  CASE s.deferred -> "partial"
    [] ~s.deferred /\ s.uncertain # NoReason -> s.uncertain
    [] OTHER -> "complete"

Coverage(s) ==
  CASE s.uncertain # NoReason -> s.uncertain
    [] s.uncertain = NoReason /\ s.deferred -> "partial"
    [] OTHER -> "complete"

Idle(s) == s.jobs = 0 /\ s.barriers = 0

----------------------------------------------------------------------------
(* Invalidations: queueing, marking uncertain, flushing.                   *)

\* queue_path for every path of ps.  Detail selected under another generation
\* collapses to the root, and the reported reason becomes topology-race.
QueuePaths(s, ps) ==
  LET mixed == s.pendingGen # Unselected /\ s.pendingGen # s.selection
      kept  == IF mixed THEN {Root} ELSE s.pending
  IN  IF ps = {} THEN s
      ELSE [s EXCEPT !.pending = IF Root \in ps THEN {Root}
                                 ELSE IF Root \in kept THEN kept
                                 ELSE kept \cup ps,
                     !.pendingGen = s.selection,
                     !.uncertain = IF mixed THEN TopologyRace ELSE @]

QueuePath(s, p) == QueuePaths(s, {p})

\* Ghost: a loss of events, as opposed to one of detail, is repaired only by
\* a rebuild that starts after it.
Rebuilding(s) ==
  \/ s.recon.phase \in {"scanning", "sweeping"}
  \/ s.recov.phase # "none"

NoteLoss(s, reason) ==
  IF reason = Backpressure THEN s
  ELSE [s EXCEPT !.owed = @ \cup {Root},
                 !.gap = IF Rebuilding(s) THEN "new" ELSE "old"]

Marked(s, reason) ==
  [NoteLoss(s, reason) EXCEPT
     !.uncertain = Strongest(@, reason),
     !.recon.quiet = s.recon.phase = "none",
     !.recov.quiet = s.recov.phase = "none",
     !.recov.later = IF s.recov.phase = "none" THEN @ ELSE Strongest(@, reason)]

MarkUncertain(s, reason) == QueuePath(Marked(s, reason), Root)

ClearPending(s) == [s EXCEPT !.pending = {}, !.pendingGen = Unselected]

Full(s) == Len(s.out) >= OutputQueueCapacity

Batch(s, gen, paths, coverage) ==
  [gen |-> gen, paths |-> paths, coverage |-> coverage, lost |-> s.lost]

\* Mutant: a delivered batch ends the uncertainty.
AcceptAndForgive(s, batch) ==
  [s EXCEPT !.out = Append(@, batch),
            !.uncertain = NoReason,
            !.owed = IF Root \in batch.paths THEN {} ELSE @ \ batch.paths]

\* try_send succeeded: the consumer will re-evaluate every path of the batch.
Accept(s, batch) ==
  [s EXCEPT !.out = Append(@, batch),
            !.owed = IF Root \in batch.paths THEN {} ELSE @ \ batch.paths]

Collapse(s) ==
  IF Cardinality(s.pending) > MaxBatchPaths
  THEN MarkUncertain(s, Backpressure) ELSE s

Flushed(s) ==
  LET c == Collapse(s)
      gen == IF c.pendingGen = Unselected THEN c.selection ELSE c.pendingGen
  IN  Accept(ClearPending(c), Batch(c, gen, c.pending, Coverage(c)))

\* Mutant: a batch refused by the full queue is dropped without a mark.
FlushDropsQuietly(s) ==
  CASE s.pending = {} -> s
    [] s.pending # {} /\ Full(s) -> ClearPending(Collapse(s))
    [] OTHER -> Flushed(s)

Flush(s) ==
  CASE s.pending = {} -> s
    [] s.pending # {} /\ Full(s) ->
         MarkUncertain(ClearPending(Collapse(s)), Backpressure)
    [] OTHER -> Flushed(s)

AtBound(s) == Cardinality(s.pending) >= MaxBatchPaths

\* Mutant: nothing is sent while the root is lost.
FlushIfAttached(s, due) ==
  IF due /\ s.barriers = 0 /\ ~s.lost THEN Flush(s) ELSE s

FlushIf(s, due) == IF due /\ s.barriers = 0 THEN Flush(s) ELSE s

\* The gate in front of the native reader: with a topology barrier up and no
\* transaction to absorb the detail, events wait in the kernel queue.
BlockingPressure(s) == ~Transacting(s) /\ s.barriers > 0 /\ AtBound(s)

----------------------------------------------------------------------------
(* Root loss.                                                              *)

\* Mutant: the policy is rolled back and the selecting generation is not.
RolledBackPolicyOnly(s) ==
  IF s.update.phase = "none" THEN s
  ELSE [s EXCEPT !.policy = s.update.prev, !.update = NoUpdate]

RolledBack(s) ==
  IF s.update.phase = "none" THEN s
  ELSE [s EXCEPT !.policy = s.update.prev, !.selection = s.exclGen,
                 !.update = NoUpdate]

\* Mutant: an interrupted exclusion update is not answered.
InterruptedSilently(s) ==
  [RolledBack(s) EXCEPT
     !.lost = TRUE, !.barriers = 0, !.recon = NoRecon,
     !.ack = IF s.recon.phase # "none" THEN "failed" ELSE @]

Interrupted(s) ==
  [RolledBack(s) EXCEPT
     !.lost = TRUE, !.barriers = 0, !.recon = NoRecon,
     !.ack = IF Transacting(s) THEN "failed" ELSE @]

Detached(s) ==
  IF s.recov.phase = "none" THEN Interrupted(s)
  ELSE [s EXCEPT !.lost = TRUE, !.recov.unstable = TRUE]

MarkRootLost(s) == MarkUncertain(Detached(s), RootReplaced)

----------------------------------------------------------------------------
(* Exclusion replacement.  Every Progress operator runs its stages in the  *)
(* code's order within one turn; "more" says the bounded turn ran out of   *)
(* work before the removal, sweep or drain stage was through.              *)

Reincluded(s) ==
  {p \in s.update.prev : ~Excludes(s.update.policy, p)}

\* Mutant: the batch refused at the boundary is not made up for.
BoundaryDropIgnored(s, dropped) == s

BoundaryDrop(s, dropped) ==
  IF dropped THEN MarkUncertain(s, Backpressure) ELSE s

\* The new policy selects events from here on; an excluded root loses its watch.
Selected(s) ==
  LET hidden == Excludes(s.update.policy, Root)
  IN  [ClearPending(s) EXCEPT
         !.update.phase = "removing",
         !.policy = s.update.policy,
         !.selection = s.update.gen,
         !.barriers = 1,
         !.interests = IF hidden /\ @ = "all" THEN "noroot" ELSE @,
         !.rootEvents = IF hidden THEN {} ELSE @]

UpdateStart(s, root) ==
  LET flushed == Flush(s)
  IN  CASE ~(s.update.phase = "waiting" /\ Idle(s)) -> s
        [] s.update.phase = "waiting" /\ Idle(s) /\ root # s.identity ->
             MarkRootLost(s)
        [] OTHER -> BoundaryDrop(Selected(flushed), flushed.pending # {})

\* Mutant: scans of re-included subtrees put up no barrier.
UpdateRemoveUnbarred(s, more) ==
  IF s.update.phase # "removing" \/ more THEN s
  ELSE [s EXCEPT !.update.phase = "scanning",
                 !.interests = IF Root \in Reincluded(s) THEN "all" ELSE @,
                 !.jobs = @ + Cardinality(Reincluded(s))]

UpdateRemove(s, more) ==
  IF s.update.phase # "removing" \/ more THEN s
  ELSE [s EXCEPT !.update.phase = "scanning",
                 !.interests = IF Root \in Reincluded(s) THEN "all" ELSE @,
                 !.jobs = @ + Cardinality(Reincluded(s)),
                 !.barriers = @ + Cardinality(Reincluded(s))]

Committing(s) ==
  [s EXCEPT !.barriers = Monus(@, 1),
            !.exclGen = s.update.gen,
            !.update = NoUpdate,
            !.owed = @ \cup Reincluded(s),
            !.ack = "ok"]

UpdateCommit(s, root) ==
  LET ready == s.update.phase = "scanning" /\ s.jobs = 0 /\ s.barriers = 1
  IN  CASE ~ready -> s
        [] ready /\ root # s.identity -> MarkRootLost(s)
        [] OTHER -> QueuePaths(Committing(s), Reincluded(s))

ProgressUpdate(s, root, more) ==
  UpdateCommit(UpdateRemove(UpdateStart(s, root), more), root)

----------------------------------------------------------------------------
(* Reconciliation.                                                         *)

Traversing(s) ==
  [ClearPending(s) EXCEPT
     !.recon = [phase |-> "scanning", reason |-> s.uncertain, quiet |-> TRUE],
     !.gap = IF @ = "none" THEN @ ELSE "old",
     !.barriers = 2,
     !.jobs = @ + 1]

ReconStart(s, root) ==
  LET flushed == Flush(s)
      ready == s.recon.phase = "waiting" /\ Idle(s)
  IN  CASE ~ready -> s
        [] ready /\ root # s.identity -> MarkRootLost(ClearPending(flushed))
        [] OTHER -> Traversing(flushed)

ReconScanned(s) ==
  IF s.recon.phase = "scanning" /\ s.jobs = 0 /\ s.barriers = 1
  THEN [s EXCEPT !.recon.phase = "sweeping"] ELSE s

\* Mutant: a loss during the traversal does not stand in the way.
ClearsOvertaken(s) == s.uncertain = NoReason \/ Recoverable(s.uncertain)

Clears(s) ==
  /\ s.recon.quiet
  /\ s.uncertain = s.recon.reason
  /\ s.uncertain = NoReason \/ Recoverable(s.uncertain)

\* Ghost: a finished rebuild repairs the losses that came before it.
Rebuilt(gap) == IF gap = "new" THEN "old" ELSE "none"

ReconClosed(s) ==
  [ClearPending(s) EXCEPT
     !.barriers = Monus(@, 1),
     !.recon = NoRecon,
     !.uncertain = IF Clears(s) THEN NoReason ELSE @,
     !.gap = Rebuilt(@),
     !.ack = "ok"]

ReconAccepted(s) ==
  LET closed == ReconClosed(s)
  IN  Accept(closed, Batch(s, s.exclGen, {Root}, Coverage(closed)))

ReconGivenUp(s) ==
  [ClearPending(s) EXCEPT !.barriers = Monus(@, 1), !.recon = NoRecon,
                          !.ack = "failed"]

ReconRefused(s) ==
  LET closed == ReconGivenUp(s)
      marked == IF s.recon.quiet
                THEN [closed EXCEPT !.uncertain = Backpressure]
                ELSE MarkUncertain(closed, Backpressure)
  IN  QueuePath(marked, Root)

\* Mutant: a reconciliation whose batch was refused reports success.
ReconCommitUnsent(s, root) ==
  CASE root # s.identity -> MarkRootLost([s EXCEPT !.barriers = Monus(@, 1)])
    [] root = s.identity /\ Full(s) -> [ReconRefused(s) EXCEPT !.ack = "ok"]
    [] OTHER -> ReconAccepted(s)

ReconCommit(s, root) ==
  CASE root # s.identity -> MarkRootLost([s EXCEPT !.barriers = Monus(@, 1)])
    [] root = s.identity /\ Full(s) -> ReconRefused(s)
    [] OTHER -> ReconAccepted(s)

ReconSweep(s, root, more) ==
  IF s.recon.phase = "sweeping" /\ ~more THEN ReconCommit(s, root) ELSE s

ProgressReconciliation(s, root, more) ==
  ReconSweep(ReconScanned(ReconStart(s, root)), root, more)

----------------------------------------------------------------------------
(* Root recovery.                                                          *)

\* One bounded drain pass: watched paths go first, the root before the rest.
Drain(s, more) ==
  IF more
  THEN [s EXCEPT !.interests = IF @ = "all" THEN "noroot" ELSE @,
                 !.rootEvents = {}]
  ELSE [s EXCEPT !.interests = "none", !.rootEvents = {},
                 !.deferred = FALSE, !.jobs = 0]

RecoveryFailed(s) ==
  [s EXCEPT !.recov = NoRecov, !.barriers = 0, !.ack = "failed"]

\* The reason that is left once the root is attached again.
Discharged(s) ==
  CASE s.recov.reason # RootReplaced -> s.uncertain
    [] s.recov.reason = RootReplaced /\ s.recov.later # NoReason -> s.recov.later
    [] OTHER -> IF s.recov.quiet THEN NoReason ELSE s.uncertain

Attached(s) ==
  [ClearPending(s) EXCEPT
     !.recov = NoRecov,
     !.barriers = 0,
     !.identity = s.recov.candidate,
     !.lost = FALSE,
     !.armed = TRUE,
     !.uncertain = Discharged(s),
     !.gap = Rebuilt(@),
     !.ack = "ok"]

CommitRecovery(s) ==
  LET a == Attached(s)
  IN  IF Full(s) THEN MarkUncertain(a, Backpressure)
      ELSE Accept(a, Batch(a, a.exclGen, {Root}, Coverage(a)))

\* How a directory is opened: its watch is installed; installed on a descriptor
\* whose former life may still have records queued; refused; or the directory is
\* swapped while the watch goes in.
Opened == {"installed", "reused", "refused", "swapped"}

CandidateScanning(s) ==
  [s EXCEPT !.barriers = 2, !.jobs = @ + 1, !.interests = "all",
            !.recov.phase = "scanning"]

AfterDrain(s, root, opened) ==
  LET scanning == CandidateScanning(s)
      stable == ~s.recov.unstable /\ root = s.recov.candidate
  IN  CASE ~stable -> RecoveryFailed(s)
        [] stable /\ Excludes(s.policy, Root) -> CommitRecovery(s)
        [] stable /\ ~Excludes(s.policy, Root) /\ opened = "refused" ->
             RecoveryFailed(s)
        [] stable /\ ~Excludes(s.policy, Root) /\ opened = "swapped" ->
             RecoveryFailed(MarkUncertain(s, TopologyRace))
        [] OTHER -> IF opened = "reused" THEN MarkUncertain(scanning, TopologyRace)
                    ELSE scanning

RecoveryDrain(s, root, more, opened) ==
  LET drained == Drain(s, more)
  IN  CASE more -> drained
        [] ~more /\ s.recov.phase = "cleaning" -> RecoveryFailed(drained)
        [] OTHER -> AfterDrain(drained, root, opened)

\* Mutant: the candidate is not looked at again before it is adopted.
RecoveryScannedBlindly(s, root) ==
  IF s.recov.unstable
  THEN [s EXCEPT !.barriers = 1, !.recov.phase = "cleaning"]
  ELSE CommitRecovery(s)

RecoveryScanned(s, root) ==
  IF s.recov.unstable \/ root # s.recov.candidate
  THEN [s EXCEPT !.barriers = 1, !.recov.phase = "cleaning"]
  ELSE CommitRecovery(s)

ProgressRecovery(s, root, more, opened) ==
  CASE s.recov.phase \in {"removing", "cleaning"} ->
         RecoveryDrain(s, root, more, opened)
    [] s.recov.phase = "scanning" /\ s.jobs = 0 /\ s.barriers = 1 ->
         RecoveryScanned(s, root)
    [] OTHER -> s

RecoveryRunnable(s) ==
  /\ s.recov.phase # "none"
  /\ \/ s.recov.phase \in {"removing", "cleaning"}
     \/ s.recov.unstable
     \/ s.recov.phase = "scanning" /\ s.jobs = 0 /\ s.barriers = 1

\* Mutant: an unfinished sweep or removal does not ask for another turn.
RunnableWithJobs(s) == s.jobs > 0 \/ RecoveryRunnable(s)

Runnable(s) ==
  \/ s.jobs > 0
  \/ s.update.phase \in {"removing", "scanning"}
  \/ s.recon.phase = "sweeping"
  \/ RecoveryRunnable(s)

\* Mutant: the last handler decides whether a turn is due.
ScheduleAnew(s, when) == [s EXCEPT !.runnable = when]

\* schedule_topology only ever adds the subscription to the runnable queue.
Schedule(s, when) == [s EXCEPT !.runnable = @ \/ when]

----------------------------------------------------------------------------
(* Kernel events.                                                          *)

Kinds == {"file", "created", "removed"}

\* Mutant: a lost root's events keep their own paths.
QueueEventInDetail(s, p) ==
  CASE /\ Transacting(s) /\ s.barriers > 0 /\ AtBound(s)
       /\ p \notin s.pending /\ Root \notin s.pending ->
         MarkUncertain(s, Backpressure)
    [] s.recon.phase # "none" \/ s.recov.phase # "none" -> QueuePath(s, Root)
    [] OTHER -> QueuePath(s, p)

QueueEvent(s, p) ==
  CASE /\ Transacting(s) /\ s.barriers > 0 /\ AtBound(s)
       /\ p \notin s.pending /\ Root \notin s.pending ->
         MarkUncertain(s, Backpressure)
    [] s.recon.phase # "none" \/ s.recov.phase # "none" \/ s.lost ->
         QueuePath(s, Root)
    [] OTHER -> QueuePath(s, p)

AddJob(s) ==
  [s EXCEPT !.recon.phase = IF @ \in {"none", "waiting"} THEN @ ELSE "scanning",
            !.jobs = @ + 1,
            !.barriers = @ + 1,
            !.runnable = TRUE]

\* A lost root's subscription records invalidations and does nothing else.
Frozen(s) == s.lost /\ s.recov.phase = "none"

\* An event below a watched, included directory.
HandleEvent(s, p, kind) ==
  LET queued == QueueEvent([s EXCEPT !.owed = @ \cup {p}], p)
      grown  == IF kind = "created" THEN AddJob(queued) ELSE queued
  IN  IF Frozen(s) THEN queued
      ELSE Schedule(FlushIf(grown, AtBound(grown)), grown.recov.unstable)

\* IN_MOVE_SELF or IN_DELETE_SELF on the root itself.
HandleRootSelf(s) ==
  LET lost == QueueEvent(MarkRootLost([s EXCEPT !.rootEvents = @ \ {"self"}]),
                         Root)
  IN  IF s.recov.phase = "none" THEN lost
      ELSE Schedule(FlushIf(lost, AtBound(lost)), TRUE)

\* IN_IGNORED for the live root watch.
HandleRootIgnored(s) ==
  LET lost == MarkRootLost([s EXCEPT !.rootEvents = {},
                                     !.interests = "noroot"])
  IN  Schedule(lost, lost.recov.unstable)

----------------------------------------------------------------------------
(* Topology turn and maintenance.                                          *)

\* A promoted directory is announced and scanned like a new one.
Promoted(s, p) ==
  LET queued == QueuePath([s EXCEPT !.owed = @ \cup {p}], p)
  IN  [queued EXCEPT !.jobs = @ + 1, !.barriers = @ + 1, !.runnable = TRUE]

ScanJobs(s, finished, deferred, race) ==
  LET scanned == [s EXCEPT !.jobs = @ - finished,
                           !.barriers = Monus(@, finished),
                           !.deferred = deferred]
  IN  IF race THEN MarkUncertain(scanned, TopologyRace) ELSE scanned

TopologyTurn(s, root, finished, deferred, race, more, opened) ==
  LET popped  == [s EXCEPT !.runnable = FALSE]
      failing == [popped EXCEPT !.barriers = 1, !.recov.phase = "cleaning"]
      scanned == ScanJobs(popped, finished, deferred, race)
      done    == ProgressRecovery(
                   ProgressReconciliation(
                     ProgressUpdate(scanned, root, more), root, more),
                   root, more, opened)
  IN  CASE s.recov.unstable -> ProgressRecovery(failing, root, more, opened)
        [] Frozen(s) -> popped
        [] OTHER -> Schedule(done, Runnable(done))

\* The periodic root identity check.
Checked(s, root, checkDue) ==
  IF checkDue /\ s.armed /\ root # s.identity
  THEN MarkRootLost([s EXCEPT !.armed = FALSE]) ELSE s

Swept(s, windowElapsed) ==
  FlushIf(s, s.pending # {} /\ (AtBound(s) \/ windowElapsed))

\* Mutant: an unstable recovery is left for a kernel event to schedule.
MaintainUnscheduled(s, root, checkDue, windowElapsed) ==
  Swept(Checked(s, root, checkDue), windowElapsed)

Maintain(s, root, checkDue, windowElapsed) ==
  LET swept == Swept(Checked(s, root, checkDue), windowElapsed)
  IN  Schedule(swept, swept.recov.unstable)

----------------------------------------------------------------------------
(* The actions.                                                            *)

Init ==
  /\ fsRoot \in Identities
  /\ growth = MaxGrowth
  /\ \E policy \in Policies, deferred \in BOOLEAN :
       sub = [uncertain |-> NoReason, pending |-> {}, pendingGen |-> Unselected,
              out |-> <<>>, exclGen |-> 0, selection |-> 0, policy |-> policy,
              barriers |-> 0, jobs |-> 0, deferred |-> deferred, lost |-> FALSE,
              identity |-> fsRoot, armed |-> TRUE,
              interests |-> IF Excludes(policy, Root) THEN "none" ELSE "all",
              rootEvents |-> {}, update |-> NoUpdate, recon |-> NoRecon,
              recov |-> NoRecov, ack |-> "idle", runnable |-> FALSE,
              disposed |-> FALSE, owed |-> {}, gap |-> "none"]

ReplaceExclusions(g, policy, more) ==
  /\ "replace" \in Calls
  /\ ~sub.disposed /\ sub.ack = "idle" /\ ~sub.lost
  /\ g > sub.exclGen
  /\ LET asked == [sub EXCEPT !.update = [phase |-> "waiting", gen |-> g,
                                          policy |-> policy, prev |-> sub.policy],
                              !.ack = "awaiting"]
         done == ProgressUpdate(asked, fsRoot, more)
     IN  sub' = Schedule(done, Runnable(done))
  /\ UNCHANGED <<fsRoot, growth>>

Reconcile ==
  /\ "reconcile" \in Calls
  /\ ~sub.disposed /\ sub.ack = "idle" /\ ~sub.lost
  /\ LET asked == [sub EXCEPT !.recon.phase = "waiting", !.ack = "awaiting"]
         done == ProgressReconciliation(asked, fsRoot, FALSE)
     IN  sub' = Schedule(done, Runnable(done))
  /\ UNCHANGED <<fsRoot, growth>>

\* Mutant: a missing root is taken for a replacement.
CandidateUnchecked(s, root, acceptReplacement) ==
  root = s.identity \/ acceptReplacement

CandidateAccepted(s, root, acceptReplacement) ==
  root # Missing /\ (root = s.identity \/ acceptReplacement)

RecoverRoot(acceptReplacement, more, opened) ==
  /\ "recover" \in Calls
  /\ ~sub.disposed /\ sub.ack = "idle" /\ sub.lost
  /\ CandidateAccepted(sub, fsRoot, acceptReplacement)
  /\ opened # "installed" => ~more
  /\ LET flushed == ClearPending(Flush(sub))
         asked == [flushed EXCEPT
                     !.barriers = 1,
                     !.ack = "awaiting",
                     !.gap = IF @ = "none" THEN @ ELSE "old",
                     !.recov = [phase |-> "removing", candidate |-> fsRoot,
                                reason |-> flushed.uncertain, quiet |-> TRUE,
                                later |-> NoReason, unstable |-> FALSE]]
         done == ProgressRecovery(asked, fsRoot, more, opened)
     IN  sub' = Schedule(done, Runnable(done))
  /\ UNCHANGED <<fsRoot, growth>>

Event(p, kind) ==
  /\ ~sub.disposed /\ ~BlockingPressure(sub)
  /\ sub.interests # "none"
  /\ ~Excludes(sub.policy, p)
  /\ kind = "created" => growth > 0 /\ sub.jobs < MaxJobs
  /\ \E deferred \in BOOLEAN :
       /\ deferred # sub.deferred =>
            kind = "removed" /\ sub.deferred /\ ~Frozen(sub)
       /\ sub' = HandleEvent([sub EXCEPT !.deferred = deferred], p, kind)
  /\ growth' = IF kind = "created" THEN growth - 1 ELSE growth
  /\ UNCHANGED fsRoot

RootSelf ==
  /\ ~sub.disposed /\ ~BlockingPressure(sub)
  /\ "self" \in sub.rootEvents
  /\ sub' = HandleRootSelf(sub)
  /\ UNCHANGED <<fsRoot, growth>>

RootIgnored ==
  /\ ~sub.disposed /\ ~BlockingPressure(sub)
  /\ sub.rootEvents = {"ignored"}
  /\ sub' = HandleRootIgnored(sub)
  /\ UNCHANGED <<fsRoot, growth>>

\* IN_Q_OVERFLOW; or a race: an unmount, a watch the kernel dropped, a torn or
\* failed native read.
Loss(reason) ==
  /\ ~sub.disposed
  /\ reason = EventOverflow => ~BlockingPressure(sub)
  /\ sub' = MarkUncertain(sub, reason)
  /\ UNCHANGED <<fsRoot, growth>>

\* A deferred directory is opened; refused, it stays deferred or is dropped.
Promote(p, opened, deferred) ==
  /\ ~sub.disposed /\ sub.deferred /\ ~sub.lost /\ ~Transacting(sub)
  /\ sub.jobs < MaxJobs
  /\ ~Excludes(sub.policy, p)
  /\ opened \in {"installed", "reused"} => deferred /\ growth > 0
  /\ LET tried == [sub EXCEPT !.deferred = deferred]
     IN  sub' = CASE opened = "installed" -> Promoted(tried, p)
                  [] opened = "refused"   -> tried
                  [] opened = "swapped"   -> MarkUncertain(tried, TopologyRace)
                  [] opened = "reused"    ->
                       Promoted(MarkUncertain(tried, TopologyRace), p)
  /\ growth' = IF opened \in {"installed", "reused"} THEN growth - 1
             ELSE growth
  /\ UNCHANGED fsRoot

Turn(finished, race, more, opened) ==
  /\ ~sub.disposed /\ sub.runnable
  /\ finished <= sub.jobs
  /\ race => sub.jobs > 0
  /\ more => Transacting(sub)
  /\ opened # "installed" => sub.recov.phase = "removing" /\ ~more
  /\ \E deferred \in BOOLEAN :
       /\ deferred # sub.deferred => sub.jobs > 0 \/ Transacting(sub)
       /\ sub' = TopologyTurn(sub, fsRoot, finished, deferred, race, more, opened)
  /\ UNCHANGED <<fsRoot, growth>>

Maintenance(checkDue, windowElapsed) ==
  /\ ~sub.disposed
  /\ sub' = Maintain(sub, fsRoot, checkDue, windowElapsed)
  /\ UNCHANGED <<fsRoot, growth>>

\* begin_subscription_disposal: transactions are interrupted, nothing is sent.
Dispose ==
  /\ ~sub.disposed
  /\ sub' = [ClearPending(sub) EXCEPT
               !.disposed = TRUE, !.barriers = 0, !.runnable = FALSE,
               !.armed = FALSE, !.update = NoUpdate, !.recon = NoRecon,
               !.recov = NoRecov, !.jobs = 0, !.deferred = FALSE,
               !.interests = "none", !.rootEvents = {}, !.owed = {},
               !.ack = IF @ = "awaiting" THEN "failed" ELSE @]
  /\ UNCHANGED <<fsRoot, growth>>

Receive ==
  /\ sub.out # <<>>
  /\ sub' = [sub EXCEPT !.out = Tail(@)]
  /\ UNCHANGED <<fsRoot, growth>>

TakeReply ==
  /\ sub.ack \in {"ok", "failed"}
  /\ sub' = [sub EXCEPT !.ack = "idle"]
  /\ UNCHANGED <<fsRoot, growth>>

\* The directory the root watch is on.
Watched(s) ==
  IF s.recov.phase = "none" THEN s.identity ELSE s.recov.candidate

\* The file system: the directory at the root path is replaced, removed or
\* put back, by an operation on the root itself or on an ancestor (which the
\* watch on the root never reports).
SwapRoot(identity, records) ==
  /\ ~sub.disposed
  /\ identity # fsRoot
  /\ fsRoot' = identity
  /\ sub' = [sub EXCEPT
               !.rootEvents = IF sub.interests = "all" /\ fsRoot = Watched(sub)
                              THEN @ \cup records ELSE @]
  /\ UNCHANGED growth

RootRecords == {{}, {"self"}, {"self", "ignored"}}

Next ==
  \/ \E g \in 1..MaxGeneration, policy \in Policies, more \in BOOLEAN :
       ReplaceExclusions(g, policy, more)
  \/ Reconcile
  \/ \E accept \in BOOLEAN, more \in BOOLEAN, opened \in Opened :
       RecoverRoot(accept, more, opened)
  \/ \E p \in Paths, kind \in Kinds : Event(p, kind)
  \/ RootSelf
  \/ RootIgnored
  \/ \E reason \in {EventOverflow, TopologyRace} : Loss(reason)
  \/ \E p \in Paths, opened \in Opened, deferred \in BOOLEAN :
       Promote(p, opened, deferred)
  \/ \E finished \in 0..sub.jobs, race \in BOOLEAN, more \in BOOLEAN,
        opened \in Opened : Turn(finished, race, more, opened)
  \/ \E checkDue \in BOOLEAN, windowElapsed \in BOOLEAN :
       Maintenance(checkDue, windowElapsed)
  \/ Dispose
  \/ Receive
  \/ TakeReply
  \/ \E identity \in Identities \cup {Missing}, records \in RootRecords :
       SwapRoot(identity, records)

Spec == Init /\ [][Next]_vars

\* The worker loop runs a topology turn and a maintenance pass in every round;
\* each bounded turn does a share of a finite amount of work, so of infinitely
\* many turns infinitely many finish a job and the stage they are in; and the
\* consumer drains its queue.
TurnDue == sub.runnable /\ ~sub.disposed
Progress ==
  \E finished \in 0..sub.jobs, opened \in Opened :
    (sub.jobs > 0 => finished > 0) /\ Turn(finished, FALSE, FALSE, opened)

MaintenanceDue ==
  ~sub.disposed /\ Maintain(sub, fsRoot, TRUE, TRUE) # sub

\* SF, WF and WF of the three steps; TurnDue and MaintenanceDue say when the
\* first two are enabled (TLC is slow to find that out by itself).
Fairness ==
  /\ <>[](~TurnDue) \/ []<><<Progress>>_vars
  /\ []<>(~MaintenanceDue) \/ []<><<Maintenance(TRUE, TRUE)>>_vars
  /\ WF_vars(Receive)

FairSpec == Spec /\ Fairness

----------------------------------------------------------------------------
(* The properties.                                                         *)

Updates ==
  [phase : {"none", "waiting", "removing", "scanning"},
   gen : 0..MaxGeneration, policy : Policies \cup {{}}, prev : Policies \cup {{}}]
Recons ==
  [phase : {"none", "waiting", "scanning", "sweeping"},
   reason : Reasons \cup {NoReason}, quiet : BOOLEAN]
Recovs ==
  [phase : {"none", "removing", "scanning", "cleaning"},
   candidate : Identities \cup {Missing},
   reason : Reasons \cup {NoReason}, quiet : BOOLEAN,
   later : Reasons \cup {NoReason}, unstable : BOOLEAN]
Batches ==
  [gen : 0..MaxGeneration, paths : SUBSET (Paths \cup {Root}),
   coverage : Reasons \cup {"partial", "complete"}, lost : BOOLEAN]
Subscriptions ==
  [uncertain : Reasons \cup {NoReason}, pending : SUBSET (Paths \cup {Root}),
   pendingGen : -1..MaxGeneration, out : Seq(Batches),
   exclGen : 0..MaxGeneration, selection : 0..MaxGeneration, policy : Policies,
   barriers : Nat, jobs : Nat, deferred : BOOLEAN, lost : BOOLEAN,
   identity : Identities, armed : BOOLEAN,
   interests : {"all", "noroot", "none"},
   rootEvents : SUBSET {"self", "ignored"},
   update : Updates, recon : Recons, recov : Recovs,
   ack : {"idle", "awaiting", "ok", "failed"}, runnable : BOOLEAN,
   disposed : BOOLEAN, owed : SUBSET (Paths \cup {Root}),
   gap : {"none", "old", "new"}]

\* Every field keeps a value the worker can give it: in particular the barrier
\* and job counters stay natural numbers through every early reset, and the
\* identity a recovery installs is never that of a missing directory.
TypeOK ==
  /\ sub \in Subscriptions
  /\ fsRoot \in Identities \cup {Missing}
  /\ growth \in 0..MaxGrowth

\* Every invalidation the consumer has not been sent is still queued for it,
\* itself or as the root, or the coverage the subscription reports is uncertain:
\* a full queue, a transaction boundary or a lost root never drops one silently.
NoSilentLoss ==
  \A p \in sub.owed :
    p \in sub.pending \/ Root \in sub.pending \/ sub.uncertain # NoReason

\* After events were lost, coverage stays uncertain until a traversal that began
\* after the loss commits: a reconciliation or recovery overtaken by a second
\* loss does not clear the reason it started with.
GapIsVisible == sub.gap # "none" => sub.uncertain # NoReason

\* A subscription with work its turn could do is in the runnable queue: no
\* handler leaves a job or a finished phase behind without scheduling it.  (An
\* unstable recovery is rescheduled by maintenance, a lost root by recovery.)
NoLostWakeup ==
  (Runnable(sub) /\ ~sub.disposed /\ ~Frozen(sub) /\ ~sub.recov.unstable)
    => sub.runnable

\* Barriers count what holds batches back: one for each topology job, and one
\* for the transaction past its waiting phase.  A count too high would hold the
\* queue and the transaction for ever, one too low would commit before the scan.
\* (A recovery that drains or fails resets the count on its next step.)
BarriersBalanced ==
  \/ sub.disposed
  \/ Frozen(sub)
  \/ sub.recov.phase \in {"removing", "cleaning"} \/ sub.recov.unstable
  \/ sub.barriers = sub.jobs
       + (IF \/ sub.update.phase \in {"removing", "scanning"}
             \/ sub.recon.phase \in {"scanning", "sweeping"}
             \/ sub.recov.phase = "scanning" THEN 1 ELSE 0)

\* A call waits for its answer exactly while one of the three transactions is
\* in progress, and two are never in progress at once: no path answers a call
\* and leaves its transaction, or drops the transaction without an answer.
OneTransactionOwnsTheCall ==
  /\ (sub.ack = "awaiting") <=> Transacting(sub)
  /\ Cardinality({t \in {"update", "recon", "recov"} :
                    sub[t].phase # "none"}) <= 1

\* The consumer sees committed exclusion generations only, in order: detail
\* selected under a generation that was rolled back never reaches the queue.
BatchGenerationsCommitted ==
  /\ \A i \in 1..Len(sub.out) : sub.out[i].gen <= sub.exclGen
  /\ \A i, j \in 1..Len(sub.out) : i <= j => sub.out[i].gen <= sub.out[j].gen

\* A batch about a lost root names the root and nothing else: the flag and the
\* paths are read at one moment.
LostRootBatchesNameTheRoot ==
  \A i \in 1..Len(sub.out) : sub.out[i].lost => sub.out[i].paths = {Root}

\* What is owed is queued, not merely reported as uncertain coverage - outside
\* a transaction, whose own boundary batch stands for it, and on a root that is
\* still watched.
LossStaysQueued ==
  (/\ sub.owed # {} /\ ~Transacting(sub) /\ ~sub.disposed
   /\ ~(sub.lost /\ sub.interests = "none"))
    => sub.pending # {}

\* Around a full queue, a rolled back policy and a lost root, what the consumer
\* gets or is still to get is neither dropped nor from another time.
BatchesHonest ==
  BatchGenerationsCommitted /\ LostRootBatchesNameTheRoot /\ LossStaysQueued

\* The barriers, the runnable queue and the acknowledgement - three records of
\* the work in progress, kept by different handlers - never disagree about it.
WorkAccountedFor ==
  BarriersBalanced /\ NoLostWakeup /\ OneTransactionOwnsTheCall

Committed(phase) == sub[phase].phase # "none" /\ sub'.ack = "ok"
\* The last batch this step sent names the attached root (a recovery may flush
\* what was pending before it).
SentRoot ==
  /\ Len(sub'.out) > Len(sub.out)
  /\ \E coverage \in Reasons \cup {"partial", "complete"} :
       sub'.out[Len(sub'.out)] = [gen |-> sub'.exclGen, paths |-> {Root},
                                  coverage |-> coverage, lost |-> FALSE]

\* A successful reconciliation answer means that its root invalidation entered
\* the consumer's queue in the same step, with the root still the one attached.
ReconciliationBoundary ==
  [][sub.ack # "ok" /\ Committed("recon") => SentRoot /\ fsRoot = sub'.identity]_vars

\* A recovery attaches only the identity found at the root path when it commits,
\* and the root invalidation is then sent, or queued with uncertain coverage.
RecoveryBoundary ==
  [][sub.lost /\ ~sub'.lost =>
       /\ sub'.identity = fsRoot
       /\ SentRoot \/ (sub'.pending = {Root} /\ sub'.uncertain # NoReason)]_vars

\* Uncertainty ends only in the step that commits a rebuild and sends the root:
\* nothing else a worker does makes coverage look better than it was.
OnlyARebuildClears ==
  sub.uncertain # NoReason /\ sub'.uncertain = NoReason =>
    /\ sub.recon.phase # "none" \/ sub.lost
    /\ sub'.ack = "ok" /\ SentRoot

\* A batch accepted between a loss of events and the rebuild that repairs it
\* carries uncertain coverage.
GapIsReported ==
  Len(sub'.out) > Len(sub.out) /\ sub.gap # "none" /\ sub'.gap # "none" =>
    sub'.out[Len(sub'.out)].coverage \in Reasons

\* From a loss to the rebuild that repairs it every batch says that coverage is
\* uncertain, and nothing but that rebuild takes it back.
LossesReported == [][OnlyARebuildClears /\ GapIsReported]_vars

\* Every transaction is answered.
Answered == sub.ack = "awaiting" ~> sub.ack # "awaiting"

\* While something is owed the consumer keeps being sent batches, unless the
\* subscription is disposed or a failed recovery left its lost root without
\* watches: a debt never sits beside an empty queue for ever.
Delivered ==
  sub.owed # {} ~> \/ sub.owed = {} \/ sub.out # <<>> \/ sub.disposed
                   \/ sub.lost /\ sub.interests = "none"

\* The two things a consumer waits for: the answer to a call, and the batch about
\* an invalidation.
NothingWithheld == Answered /\ Delivered

=============================================================================
