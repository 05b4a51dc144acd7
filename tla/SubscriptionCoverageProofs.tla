---------------------- MODULE SubscriptionCoverageProofs -----------------------
(***************************************************************************)
(* Theorems about SubscriptionCoverage, for every set of paths and         *)
(* identities, every bound and every capacity: what its state is made of   *)
(* (TypeOK), that nothing is lost silently (NoSilentLoss, GapIsVisible)    *)
(* and that the records of the work in progress agree (WorkAccountedFor).  *)
(*                                                                         *)
(* A step of the program is a chain of helpers.  Each section shows its    *)
(* invariant of the helpers one by one, for any subscription they are      *)
(* called on, then of the actions.                                         *)
(***************************************************************************)
EXTENDS SubscriptionCoverage, FiniteSetTheorems, TLAPS

\* A recovery in progress captured a directory that was there, and only a
\* recovery in progress is unstable.
CandidateCaptured(s) ==
  /\ s.recov.phase # "none" => s.recov.candidate \in Identities
  /\ s.recov.unstable => s.recov.phase # "none"

Typed(s) == s \in Subscriptions /\ CandidateCaptured(s)

PathSets == SUBSET (Paths \cup {Root})

----------------------------------------------------------------------------
(* Invalidations and flushing keep a subscription typed.                   *)

LEMMA SelectionTyped ==
  ASSUME NEW s, Typed(s)
  PROVE  s.selection \in -1..MaxGeneration /\ Unselected \in -1..MaxGeneration
<1>1. s.selection \in 0..MaxGeneration
  BY DEF Typed, Subscriptions
<1> QED BY <1>1, BoundsAssumption DEF Unselected

LEMMA QueuePathsTyped ==
  ASSUME NEW s, Typed(s), NEW ps \in PathSets
  PROVE  Typed(QueuePaths(s, ps))
<1> DEFINE mixed == s.pendingGen # Unselected /\ s.pendingGen # s.selection
           kept  == IF mixed THEN {Root} ELSE s.pending
           queued == IF Root \in ps THEN {Root}
                     ELSE IF Root \in kept THEN kept ELSE kept \cup ps
           reason == IF mixed THEN TopologyRace ELSE s.uncertain
<1>1. queued \in PathSets
  BY DEF Typed, Subscriptions, PathSets
<1>2. reason \in Reasons \cup {NoReason}
  BY DEF Typed, Subscriptions, Reasons
<1>3. s.selection \in -1..MaxGeneration
  BY SelectionTyped
<1> HIDE DEF queued, reason
<1>4. Typed([s EXCEPT !.pending = queued, !.pendingGen = s.selection,
                      !.uncertain = reason])
  BY <1>1, <1>2, <1>3 DEF Typed, CandidateCaptured, Subscriptions, PathSets
<1> QED BY <1>4 DEF queued, reason, QueuePaths

LEMMA NoteLossTyped ==
  ASSUME NEW s, Typed(s), NEW reason
  PROVE  /\ Typed(NoteLoss(s, reason))
         /\ NoteLoss(s, reason).uncertain = s.uncertain
         /\ NoteLoss(s, reason).recon = s.recon
         /\ NoteLoss(s, reason).recov = s.recov
<1> DEFINE owed == s.owed \cup {Root}
           gap == IF Rebuilding(s) THEN "new" ELSE "old"
           noted == [s EXCEPT !.owed = owed, !.gap = gap]
<1>1. owed \in SUBSET (Paths \cup {Root}) /\ gap \in {"none", "old", "new"}
  BY DEF Typed, Subscriptions
<1>2. NoteLoss(s, reason) = s \/ NoteLoss(s, reason) = noted
  BY DEF NoteLoss
<1> HIDE DEF owed, gap
<1>3. /\ Typed(noted)
      /\ noted.uncertain = s.uncertain
      /\ noted.recon = s.recon /\ noted.recov = s.recov
  BY <1>1, ZenonT(60) DEF Typed, CandidateCaptured, Subscriptions
<1> HIDE DEF noted
<1> QED BY <1>2, <1>3

LEMMA MarkedTyped ==
  ASSUME NEW s, Typed(s), NEW reason \in Reasons
  PROVE  Typed(Marked(s, reason))
<1> DEFINE noted == NoteLoss(s, reason)
           none == s.recov.phase = "none"
           recon == [s.recon EXCEPT !.quiet = s.recon.phase = "none"]
           recov == [s.recov EXCEPT !.quiet = none,
                       !.later = IF none THEN @ ELSE Strongest(@, reason)]
           uncertain == Strongest(s.uncertain, reason)
           marked == [noted EXCEPT !.uncertain = uncertain, !.recon = recon,
                                   !.recov = recov]
<1>1. /\ Typed(noted) /\ noted.uncertain = s.uncertain
      /\ noted.recon = s.recon /\ noted.recov = s.recov
  BY NoteLossTyped
<1>2. uncertain \in Reasons \cup {NoReason} /\ recon \in Recons
  BY DEF Typed, Subscriptions, Strongest, Recons
<1>3. /\ recov \in Recovs
      /\ recov.phase = s.recov.phase /\ recov.candidate = s.recov.candidate
      /\ recov.unstable = s.recov.unstable
  BY ZenonT(60) DEF Typed, Subscriptions, Recovs, Strongest
<1>4. Marked(s, reason) = marked
  BY <1>1 DEF Marked
<1> HIDE DEF noted, uncertain, recon, recov
<1>5. Typed(marked)
  BY <1>1, <1>2, <1>3, ZenonT(60) DEF Typed, CandidateCaptured, Subscriptions
<1> QED BY <1>4, <1>5

LEMMA MarkUncertainTyped ==
  ASSUME NEW s, Typed(s), NEW reason \in Reasons
  PROVE  Typed(MarkUncertain(s, reason))
BY MarkedTyped, QueuePathsTyped DEF MarkUncertain, QueuePath, PathSets

LEMMA ClearPendingTyped ==
  ASSUME NEW s, Typed(s)
  PROVE  Typed(ClearPending(s))
BY SelectionTyped DEF Typed, CandidateCaptured, Subscriptions, ClearPending

LEMMA CoverageTyped ==
  ASSUME NEW s, Typed(s)
  PROVE  Coverage(s) \in Reasons \cup {"partial", "complete"}
BY DEF Typed, Subscriptions, Coverage

LEMMA AcceptTyped ==
  ASSUME NEW s, Typed(s), NEW batch \in Batches
  PROVE  Typed(Accept(s, batch))
<1>1. Append(s.out, batch) \in Seq(Batches)
  BY DEF Typed, Subscriptions
<1> DEFINE owed == IF Root \in batch.paths THEN {} ELSE s.owed \ batch.paths
<1>2. owed \in PathSets
  BY DEF Typed, Subscriptions, PathSets
<1> HIDE DEF owed
<1>3. Typed([s EXCEPT !.out = Append(s.out, batch), !.owed = owed])
  BY <1>1, <1>2 DEF Typed, CandidateCaptured, Subscriptions, PathSets
<1> QED BY <1>3 DEF owed, Accept

LEMMA FlushTyped ==
  ASSUME NEW s, Typed(s)
  PROVE  Typed(Flush(s))
<1> DEFINE c == Collapse(s)
           gen == IF c.pendingGen = Unselected THEN c.selection ELSE c.pendingGen
           batch == Batch(c, gen, c.pending, Coverage(c))
<1>1. Typed(c)
  BY MarkUncertainTyped DEF Collapse, Reasons
<1>2. Typed(ClearPending(c))
  BY <1>1, ClearPendingTyped
<1> HIDE DEF c
<1>3. gen \in 0..MaxGeneration
  <2>1. c.pendingGen \in -1..MaxGeneration /\ c.selection \in 0..MaxGeneration
    BY <1>1 DEF Typed, Subscriptions
  <2> QED BY <2>1, BoundsAssumption DEF Unselected
<1>4. batch \in Batches
  BY <1>1, <1>3, CoverageTyped DEF Batch, Batches, Typed, Subscriptions
<1>5. Typed(Accept(ClearPending(c), batch))
  BY <1>2, <1>4, AcceptTyped
<1>6. Typed(Flushed(s))
  BY <1>5 DEF Flushed, c
<1>7. Typed(MarkUncertain(ClearPending(c), Backpressure))
  BY <1>2, MarkUncertainTyped DEF Reasons
<1> QED BY <1>6, <1>7 DEF Flush, c

LEMMA FlushIfTyped ==
  ASSUME NEW s, Typed(s), NEW due
  PROVE  Typed(FlushIf(s, due))
BY FlushTyped DEF FlushIf

----------------------------------------------------------------------------
(* Root loss and exclusion replacement.                                    *)

LEMMA PolicyTyped ==
  Policies \cup {{}} = Policies /\ Policies \subseteq PathSets
BY DEF Policies, PathSets

LEMMA UpdateTyped ==
  ASSUME NEW s, Typed(s)
  PROVE  /\ s.update.policy \in Policies /\ s.update.prev \in Policies
         /\ s.update.gen \in 0..MaxGeneration
<1>1. s.update \in Updates
  BY DEF Typed, Subscriptions
<1> QED BY <1>1, PolicyTyped DEF Updates

LEMMA NothingInProgressTyped ==
  NoUpdate \in Updates /\ NoRecon \in Recons /\ NoRecov \in Recovs
<1>1. 0 \in 0..MaxGeneration
  BY BoundsAssumption
<1> QED BY <1>1 DEF Updates, NoUpdate, Recons, NoRecon, Recovs, NoRecov

LEMMA RolledBackTyped ==
  ASSUME NEW s, Typed(s)
  PROVE  Typed(RolledBack(s))
<1> DEFINE policy == s.update.prev
<1>1. policy \in Policies
  BY UpdateTyped
<1> HIDE DEF policy
<1>2. Typed([s EXCEPT !.policy = policy, !.selection = s.exclGen,
                      !.update = NoUpdate])
  BY <1>1, NothingInProgressTyped DEF Typed, CandidateCaptured, Subscriptions
<1> QED BY <1>2 DEF RolledBack, policy

LEMMA DetachedTyped ==
  ASSUME NEW s, Typed(s)
  PROVE  Typed(Detached(s))
<1>1. NoUpdate \in Updates /\ NoRecon \in Recons
  BY NothingInProgressTyped
<1>2. Typed(RolledBack(s))
  BY RolledBackTyped
<1>3. Typed(Interrupted(s))
  BY <1>1, <1>2, ZenonT(60) DEF Typed, CandidateCaptured, Subscriptions, Interrupted
<1>4. ASSUME s.recov.phase # "none"
      PROVE  Typed([s EXCEPT !.lost = TRUE, !.recov.unstable = TRUE])
  <2> DEFINE recov == [s.recov EXCEPT !.unstable = TRUE]
  <2>1. /\ recov \in Recovs /\ recov.candidate \in Identities
        /\ recov.phase # "none"
    BY <1>4 DEF Typed, CandidateCaptured, Subscriptions, Recovs
  <2> HIDE DEF recov
  <2>2. Typed([s EXCEPT !.lost = TRUE, !.recov = recov])
    BY <2>1 DEF Typed, CandidateCaptured, Subscriptions
  <2> QED BY <2>2 DEF recov
<1> QED BY <1>3, <1>4 DEF Detached

LEMMA MarkRootLostTyped ==
  ASSUME NEW s, Typed(s)
  PROVE  Typed(MarkRootLost(s))
BY DetachedTyped, MarkUncertainTyped DEF MarkRootLost, Reasons

LEMMA ReincludedTyped ==
  ASSUME NEW s, Typed(s)
  PROVE  /\ Reincluded(s) \in PathSets
         /\ Cardinality(Reincluded(s)) \in Nat
<1>1. s.update.prev \in PathSets
  BY UpdateTyped, PolicyTyped
<1>2. Reincluded(s) \subseteq Paths \cup {Root}
  BY <1>1 DEF Reincluded, PathSets
<1>3. IsFiniteSet(Paths \cup {Root})
  BY PathsAssumption, FS_AddElement
<1> QED BY <1>2, <1>3, FS_Subset, FS_CardinalityType DEF PathSets

LEMMA SelectedTyped ==
  ASSUME NEW s, Typed(s)
  PROVE  Typed(Selected(s))
<1> DEFINE hidden == Excludes(s.update.policy, Root)
           interests == IF hidden /\ s.interests = "all" THEN "noroot"
                        ELSE s.interests
           events == IF hidden THEN {} ELSE s.rootEvents
           c == ClearPending(s)
           update == [c.update EXCEPT !.phase = "removing"]
           policy == s.update.policy
           gen == s.update.gen
           selected == [c EXCEPT !.update = update, !.policy = policy,
                          !.selection = gen, !.barriers = 1,
                          !.interests = interests, !.rootEvents = events]
<1>1. Typed(c)
  BY ClearPendingTyped
<1>2. /\ interests \in {"all", "noroot", "none"}
      /\ events \in SUBSET {"self", "ignored"}
  BY DEF Typed, Subscriptions
<1>3. policy \in Policies /\ gen \in 0..MaxGeneration
  BY UpdateTyped
<1>4. Selected(s) = selected
  BY DEF Selected, ClearPending
<1> HIDE DEF interests, events, c, policy, gen
<1>5. update \in Updates
  <2>1. c.update \in Updates
    BY <1>1 DEF Typed, Subscriptions
  <2> QED BY <2>1 DEF Updates
<1> HIDE DEF update
<1>6. selected \in Subscriptions /\ selected.recov = c.recov
  BY <1>1, <1>2, <1>3, <1>5 DEF Typed, Subscriptions
<1> HIDE DEF selected
<1> QED BY <1>1, <1>4, <1>6 DEF Typed, CandidateCaptured

LEMMA UpdateStartTyped ==
  ASSUME NEW s, Typed(s), NEW root
  PROVE  Typed(UpdateStart(s, root))
<1>1. Typed(Flush(s)) /\ Typed(Selected(Flush(s)))
  BY FlushTyped, SelectedTyped
<1>2. Typed(BoundaryDrop(Selected(Flush(s)), Flush(s).pending # {}))
  BY <1>1, MarkUncertainTyped DEF BoundaryDrop, Reasons
<1> QED BY <1>2, MarkRootLostTyped DEF UpdateStart

LEMMA UpdateRemoveTyped ==
  ASSUME NEW s, Typed(s), NEW more
  PROVE  Typed(UpdateRemove(s, more))
<1> DEFINE n == Cardinality(Reincluded(s))
<1>1. s.jobs + n \in Nat /\ s.barriers + n \in Nat
  BY ReincludedTyped DEF Typed, Subscriptions
<1> DEFINE update == [s.update EXCEPT !.phase = "scanning"]
           interests == IF Root \in Reincluded(s) THEN "all" ELSE s.interests
<1>2. update \in Updates /\ interests \in {"all", "noroot", "none"}
  BY DEF Typed, Subscriptions, Updates
<1> HIDE DEF n, update, interests
<1>3. Typed([s EXCEPT !.update = update, !.interests = interests,
                      !.jobs = s.jobs + n, !.barriers = s.barriers + n])
  BY <1>1, <1>2, ZenonT(60) DEF Typed, CandidateCaptured, Subscriptions
<1> QED BY <1>3 DEF UpdateRemove, n, update, interests

LEMMA MonusTyped ==
  ASSUME NEW n \in Nat, NEW k \in Nat
  PROVE  Monus(n, k) \in Nat
BY DEF Monus

LEMMA CommittingTyped ==
  ASSUME NEW s, Typed(s)
  PROVE  Typed(Committing(s))
<1> DEFINE barriers == Monus(s.barriers, 1)
           owed == s.owed \cup Reincluded(s)
<1>1. barriers \in Nat /\ owed \in PathSets
  BY MonusTyped, ReincludedTyped DEF Typed, Subscriptions, PathSets
<1> HIDE DEF barriers, owed
<1>2. Typed([s EXCEPT !.barriers = barriers, !.exclGen = s.update.gen,
                      !.update = NoUpdate, !.owed = owed, !.ack = "ok"])
  BY <1>1, UpdateTyped, NothingInProgressTyped
  DEF Typed, CandidateCaptured, Subscriptions, PathSets
<1> QED BY <1>2 DEF Committing, barriers, owed

LEMMA UpdateCommitTyped ==
  ASSUME NEW s, Typed(s), NEW root
  PROVE  Typed(UpdateCommit(s, root))
BY CommittingTyped, ReincludedTyped, QueuePathsTyped, MarkRootLostTyped
DEF UpdateCommit

LEMMA ProgressUpdateTyped ==
  ASSUME NEW s, Typed(s), NEW root, NEW more
  PROVE  Typed(ProgressUpdate(s, root, more))
BY UpdateStartTyped, UpdateRemoveTyped, UpdateCommitTyped DEF ProgressUpdate

----------------------------------------------------------------------------
(* Reconciliation.                                                         *)

LEMMA TraversingTyped ==
  ASSUME NEW s, Typed(s)
  PROVE  Typed(Traversing(s))
<1> DEFINE c == ClearPending(s)
           recon == [phase |-> "scanning", reason |-> s.uncertain, quiet |-> TRUE]
           gap == IF c.gap = "none" THEN c.gap ELSE "old"
           jobs == c.jobs + 1
           started == [c EXCEPT !.recon = recon, !.gap = gap, !.barriers = 2,
                                !.jobs = jobs]
<1>1. Typed(c)
  BY ClearPendingTyped
<1> HIDE DEF c
<1>2. recon \in Recons /\ gap \in {"none", "old", "new"} /\ jobs \in Nat
  BY <1>1 DEF Typed, Subscriptions, Recons
<1> HIDE DEF recon, gap, jobs
<1>3. started \in Subscriptions /\ started.recov = c.recov
  BY <1>1, <1>2, ZenonT(60) DEF Typed, Subscriptions
<1> HIDE DEF started
<1>4. Typed(started)
  BY <1>1, <1>3 DEF Typed, CandidateCaptured
<1> QED BY <1>4 DEF Traversing, c, recon, gap, jobs, started

LEMMA ReconStartTyped ==
  ASSUME NEW s, Typed(s), NEW root
  PROVE  Typed(ReconStart(s, root))
<1>1. /\ Typed(Traversing(Flush(s)))
      /\ Typed(MarkRootLost(ClearPending(Flush(s))))
  BY FlushTyped, ClearPendingTyped, TraversingTyped, MarkRootLostTyped
<1> QED BY <1>1 DEF ReconStart

LEMMA ReconScannedTyped ==
  ASSUME NEW s, Typed(s)
  PROVE  Typed(ReconScanned(s))
<1> DEFINE recon == [s.recon EXCEPT !.phase = "sweeping"]
<1>1. recon \in Recons
  BY DEF Typed, Subscriptions, Recons
<1> HIDE DEF recon
<1>2. Typed([s EXCEPT !.recon = recon])
  BY <1>1 DEF Typed, CandidateCaptured, Subscriptions
<1> QED BY <1>2 DEF ReconScanned, recon

LEMMA ReconClosedTyped ==
  ASSUME NEW s, Typed(s)
  PROVE  Typed(ReconClosed(s))
<1> DEFINE c == ClearPending(s)
           barriers == Monus(c.barriers, 1)
           uncertain == IF Clears(s) THEN NoReason ELSE c.uncertain
           gap == Rebuilt(c.gap)
           closed == [c EXCEPT !.barriers = barriers, !.recon = NoRecon,
                        !.uncertain = uncertain, !.gap = gap, !.ack = "ok"]
<1>1. Typed(c)
  BY ClearPendingTyped
<1> HIDE DEF c
<1>2. /\ barriers \in Nat /\ uncertain \in Reasons \cup {NoReason}
      /\ gap \in {"none", "old", "new"}
  BY <1>1, MonusTyped DEF Typed, Subscriptions, Rebuilt
<1> HIDE DEF barriers, uncertain, gap
<1>3. closed \in Subscriptions /\ closed.recov = c.recov
  BY <1>1, <1>2, NothingInProgressTyped, ZenonT(60) DEF Typed, Subscriptions
<1> HIDE DEF closed
<1>4. Typed(closed)
  BY <1>1, <1>3 DEF Typed, CandidateCaptured
<1> QED BY <1>4 DEF ReconClosed, barriers, uncertain, gap, c, closed

LEMMA ReconAcceptedTyped ==
  ASSUME NEW s, Typed(s)
  PROVE  Typed(ReconAccepted(s))
<1> DEFINE closed == ReconClosed(s)
           batch == Batch(s, s.exclGen, {Root}, Coverage(closed))
<1>1. Typed(closed)
  BY ReconClosedTyped
<1> HIDE DEF closed
<1>2. batch \in Batches
  BY <1>1, CoverageTyped DEF Batch, Batches, Typed, Subscriptions
<1> HIDE DEF batch
<1> QED BY <1>1, <1>2, AcceptTyped DEF ReconAccepted, batch, closed

LEMMA ReconGivenUpTyped ==
  ASSUME NEW s, Typed(s)
  PROVE  Typed(ReconGivenUp(s))
<1> DEFINE c == ClearPending(s)
           barriers == Monus(c.barriers, 1)
<1>1. Typed(c)
  BY ClearPendingTyped
<1> HIDE DEF c
<1>2. barriers \in Nat
  BY <1>1, MonusTyped DEF Typed, Subscriptions
<1> HIDE DEF barriers
<1>3. Typed([c EXCEPT !.barriers = barriers, !.recon = NoRecon, !.ack = "failed"])
  BY <1>1, <1>2, NothingInProgressTyped, ZenonT(60) DEF Typed, CandidateCaptured, Subscriptions
<1> QED BY <1>3 DEF ReconGivenUp, barriers, c

LEMMA ReconRefusedTyped ==
  ASSUME NEW s, Typed(s)
  PROVE  Typed(ReconRefused(s))
<1> DEFINE c == ReconGivenUp(s)
<1>1. Typed(c)
  BY ReconGivenUpTyped
<1> HIDE DEF c
<1>2. Typed([c EXCEPT !.uncertain = Backpressure])
  BY <1>1 DEF Typed, CandidateCaptured, Subscriptions, Reasons
<1>3. Typed(MarkUncertain(c, Backpressure))
  BY <1>1, MarkUncertainTyped DEF Reasons
<1> QED BY <1>2, <1>3, QueuePathsTyped DEF ReconRefused, QueuePath, PathSets, c

LEMMA ProgressReconciliationTyped ==
  ASSUME NEW s, Typed(s), NEW root, NEW more
  PROVE  Typed(ProgressReconciliation(s, root, more))
<1> DEFINE r == ReconScanned(ReconStart(s, root))
           barriers == Monus(r.barriers, 1)
<1>1. Typed(r)
  BY ReconStartTyped, ReconScannedTyped
<1> HIDE DEF r
<1>2. barriers \in Nat
  BY <1>1, MonusTyped DEF Typed, Subscriptions
<1> HIDE DEF barriers
<1>3. Typed([r EXCEPT !.barriers = barriers])
  BY <1>1, <1>2, ZenonT(60) DEF Typed, CandidateCaptured, Subscriptions
<1>4. Typed(ReconCommit(r, root))
  BY <1>1, <1>3, MarkRootLostTyped, ReconRefusedTyped, ReconAcceptedTyped
  DEF ReconCommit, barriers
<1> QED BY <1>1, <1>4 DEF ProgressReconciliation, ReconSweep, r

----------------------------------------------------------------------------
(* Root recovery.                                                          *)

LEMMA DrainTyped ==
  ASSUME NEW s, Typed(s), NEW more
  PROVE  Typed(Drain(s, more))
<1>1. Typed([s EXCEPT !.interests = IF s.interests = "all" THEN "noroot"
                                    ELSE s.interests,
                      !.rootEvents = {}])
  BY DEF Typed, CandidateCaptured, Subscriptions
<1>2. Typed([s EXCEPT !.interests = "none", !.rootEvents = {},
                      !.deferred = FALSE, !.jobs = 0])
  BY ZenonT(60) DEF Typed, CandidateCaptured, Subscriptions
<1> QED BY <1>1, <1>2 DEF Drain

LEMMA RecoveryFailedTyped ==
  ASSUME NEW s, Typed(s)
  PROVE  Typed(RecoveryFailed(s))
BY NothingInProgressTyped
DEF Typed, CandidateCaptured, Subscriptions, RecoveryFailed, NoRecov

\* What a recovery attaches is a directory: here the captured candidate is needed.
LEMMA AttachedTyped ==
  ASSUME NEW s, Typed(s), s.recov.phase # "none"
  PROVE  Typed(Attached(s))
<1> DEFINE c == ClearPending(s)
           uncertain == Discharged(s)
           gap == Rebuilt(c.gap)
           candidate == s.recov.candidate
           attached == [c EXCEPT !.recov = NoRecov, !.barriers = 0,
                          !.identity = candidate, !.lost = FALSE, !.armed = TRUE,
                          !.uncertain = uncertain, !.gap = gap, !.ack = "ok"]
<1>1. Typed(c)
  BY ClearPendingTyped
<1>2. /\ uncertain \in Reasons \cup {NoReason}
      /\ gap \in {"none", "old", "new"}
      /\ candidate \in Identities
  <2>1. s.recov \in Recovs /\ s.uncertain \in Reasons \cup {NoReason}
    BY DEF Typed, Subscriptions
  <2>2. uncertain \in Reasons \cup {NoReason}
    BY <2>1 DEF Discharged, Recovs
  <2> QED BY <2>2 DEF Rebuilt, Typed, CandidateCaptured
<1>3. Attached(s) = attached
  BY DEF Attached, ClearPending
<1> HIDE DEF c, uncertain, gap, candidate
<1>4. attached \in Subscriptions /\ attached.recov = NoRecov
  BY <1>1, <1>2, NothingInProgressTyped, ZenonT(60) DEF Typed, Subscriptions
<1> HIDE DEF attached
<1> QED BY <1>3, <1>4 DEF Typed, CandidateCaptured, NoRecov

LEMMA CommitRecoveryTyped ==
  ASSUME NEW s, Typed(s), s.recov.phase # "none"
  PROVE  Typed(CommitRecovery(s))
<1> DEFINE a == Attached(s)
           batch == Batch(a, a.exclGen, {Root}, Coverage(a))
<1>1. Typed(a)
  BY AttachedTyped
<1> HIDE DEF a
<1>2. batch \in Batches
  BY <1>1, CoverageTyped DEF Batch, Batches, Typed, Subscriptions
<1> QED BY <1>1, <1>2, AcceptTyped, MarkUncertainTyped
        DEF CommitRecovery, Reasons, a

LEMMA CandidateScanningTyped ==
  ASSUME NEW s, Typed(s), s.recov.phase # "none"
  PROVE  Typed(CandidateScanning(s))
<1> DEFINE recov == [s.recov EXCEPT !.phase = "scanning"]
           jobs == s.jobs + 1
<1>1. /\ recov \in Recovs /\ recov.candidate \in Identities
      /\ recov.phase # "none" /\ jobs \in Nat
  BY DEF Typed, CandidateCaptured, Subscriptions, Recovs
<1> HIDE DEF recov, jobs
<1>2. Typed([s EXCEPT !.barriers = 2, !.jobs = jobs, !.interests = "all",
                      !.recov = recov])
  BY <1>1 DEF Typed, CandidateCaptured, Subscriptions
<1> QED BY <1>2 DEF CandidateScanning, recov, jobs

LEMMA AfterDrainTyped ==
  ASSUME NEW s, Typed(s), s.recov.phase # "none", NEW root, NEW opened
  PROVE  Typed(AfterDrain(s, root, opened))
<1>1. /\ Typed(CandidateScanning(s))
      /\ Typed(MarkUncertain(CandidateScanning(s), TopologyRace))
      /\ Typed(MarkUncertain(s, TopologyRace))
  BY CandidateScanningTyped, MarkUncertainTyped DEF Reasons
<1> QED BY <1>1, RecoveryFailedTyped, CommitRecoveryTyped DEF AfterDrain

LEMMA FailingTyped ==
  ASSUME NEW s, Typed(s), s.recov.phase # "none"
  PROVE  Typed([[s EXCEPT !.runnable = FALSE] EXCEPT
                  !.barriers = 1, !.recov.phase = "cleaning"])
<1> DEFINE popped == [s EXCEPT !.runnable = FALSE]
           recov == [s.recov EXCEPT !.phase = "cleaning"]
           failing == [popped EXCEPT !.barriers = 1, !.recov = recov]
<1>1. Typed(popped) /\ popped.recov = s.recov
  BY DEF Typed, CandidateCaptured, Subscriptions
<1>2. /\ recov \in Recovs /\ recov.candidate \in Identities
      /\ recov.phase # "none"
  BY DEF Typed, CandidateCaptured, Subscriptions, Recovs
<1>3. [popped EXCEPT !.barriers = 1, !.recov.phase = "cleaning"] = failing
  BY <1>1
<1> HIDE DEF recov
<1>4. Typed(failing)
  <2> HIDE DEF popped
  <2> QED BY <1>1, <1>2 DEF Typed, CandidateCaptured, Subscriptions
<1> QED BY <1>3, <1>4

LEMMA ProgressRecoveryTyped ==
  ASSUME NEW s, Typed(s), NEW root, NEW more, NEW opened
  PROVE  Typed(ProgressRecovery(s, root, more, opened))
<1>1. ASSUME s.recov.phase \in {"removing", "cleaning"}
      PROVE  Typed(RecoveryDrain(s, root, more, opened))
  <2>1. Typed(Drain(s, more))
    BY DrainTyped
  <2>2. Drain(s, more).recov = s.recov
    BY DEF Drain, Typed, Subscriptions
  <2> QED BY <1>1, <2>1, <2>2, RecoveryFailedTyped, AfterDrainTyped DEF RecoveryDrain
<1>2. ASSUME s.recov.phase = "scanning"
      PROVE  Typed(RecoveryScanned(s, root))
  <2> DEFINE recov == [s.recov EXCEPT !.phase = "cleaning"]
  <2>1. /\ recov \in Recovs /\ recov.candidate \in Identities
        /\ recov.phase # "none"
    BY <1>2 DEF Typed, CandidateCaptured, Subscriptions, Recovs
  <2> HIDE DEF recov
  <2>2. Typed([s EXCEPT !.barriers = 1, !.recov = recov])
    BY <2>1 DEF Typed, CandidateCaptured, Subscriptions
  <2> QED BY <1>2, <2>2, CommitRecoveryTyped DEF RecoveryScanned, recov
<1> QED BY <1>1, <1>2 DEF ProgressRecovery

----------------------------------------------------------------------------
(* Events, topology turns and maintenance.                                 *)

LEMMA ScheduleTyped ==
  ASSUME NEW s, Typed(s), NEW when \in BOOLEAN
  PROVE  Typed(Schedule(s, when))
BY DEF Typed, CandidateCaptured, Subscriptions, Schedule

LEMMA RunnableTyped ==
  ASSUME NEW s
  PROVE  Runnable(s) \in BOOLEAN
BY DEF Runnable, RecoveryRunnable

LEMMA QueueEventTyped ==
  ASSUME NEW s, Typed(s), NEW p \in Paths \cup {Root}
  PROVE  Typed(QueueEvent(s, p))
<1>1. Typed(QueuePath(s, p)) /\ Typed(QueuePath(s, Root))
  BY QueuePathsTyped DEF QueuePath, PathSets
<1> QED BY <1>1, MarkUncertainTyped DEF QueueEvent, Reasons

LEMMA AddJobTyped ==
  ASSUME NEW s, Typed(s)
  PROVE  Typed(AddJob(s))
<1> DEFINE phase == IF s.recon.phase \in {"none", "waiting"} THEN s.recon.phase
                    ELSE "scanning"
           recon == [s.recon EXCEPT !.phase = phase]
           jobs == s.jobs + 1
           barriers == s.barriers + 1
<1>1. recon \in Recons /\ jobs \in Nat /\ barriers \in Nat
  BY DEF Typed, Subscriptions, Recons
<1> HIDE DEF recon, jobs, barriers
<1>2. Typed([s EXCEPT !.recon = recon, !.jobs = jobs, !.barriers = barriers,
                      !.runnable = TRUE])
  BY <1>1 DEF Typed, CandidateCaptured, Subscriptions
<1> QED BY <1>2 DEF AddJob, recon, jobs, barriers

LEMMA UnstableTyped ==
  ASSUME NEW s, Typed(s)
  PROVE  s.recov.unstable \in BOOLEAN
BY DEF Typed, Subscriptions, Recovs

LEMMA HandleEventTyped ==
  ASSUME NEW s, Typed(s), NEW p \in Paths, NEW kind
  PROVE  Typed(HandleEvent(s, p, kind))
<1> DEFINE owed == s.owed \cup {p}
           queued == QueueEvent([s EXCEPT !.owed = owed], p)
           grown == IF kind = "created" THEN AddJob(queued) ELSE queued
           flushed == FlushIf(grown, AtBound(grown))
<1>1. owed \in PathSets
  BY DEF Typed, Subscriptions, PathSets
<1> HIDE DEF owed
<1>2. Typed([s EXCEPT !.owed = owed])
  BY <1>1 DEF Typed, CandidateCaptured, Subscriptions, PathSets
<1>3. Typed(queued)
  BY <1>2, QueueEventTyped
<1>4. Typed(grown)
  BY <1>3, AddJobTyped
<1>5. Typed(flushed)
  BY <1>4, FlushIfTyped
<1> HIDE DEF queued, grown, flushed
<1>6. Typed(Schedule(flushed, grown.recov.unstable))
  BY <1>4, <1>5, ScheduleTyped, UnstableTyped
<1> QED BY <1>3, <1>6 DEF HandleEvent, owed, queued, grown, flushed

LEMMA HandleRootSelfTyped ==
  ASSUME NEW s, Typed(s)
  PROVE  Typed(HandleRootSelf(s))
<1> DEFINE events == s.rootEvents \ {"self"}
           lost == QueueEvent(MarkRootLost([s EXCEPT !.rootEvents = events]), Root)
<1>1. events \in SUBSET {"self", "ignored"}
  BY DEF Typed, Subscriptions
<1> HIDE DEF events
<1>2. Typed([s EXCEPT !.rootEvents = events])
  BY <1>1 DEF Typed, CandidateCaptured, Subscriptions
<1>3. Typed(lost)
  BY <1>2, MarkRootLostTyped, QueueEventTyped
<1>4. Typed(Schedule(FlushIf(lost, AtBound(lost)), TRUE))
  BY <1>3, FlushIfTyped, ScheduleTyped
<1> QED BY <1>3, <1>4 DEF HandleRootSelf, events

LEMMA HandleRootIgnoredTyped ==
  ASSUME NEW s, Typed(s)
  PROVE  Typed(HandleRootIgnored(s))
<1>1. Typed([s EXCEPT !.rootEvents = {}, !.interests = "noroot"])
  BY DEF Typed, CandidateCaptured, Subscriptions
<1> QED BY <1>1, MarkRootLostTyped, ScheduleTyped, UnstableTyped
        DEF HandleRootIgnored

LEMMA PromotedTyped ==
  ASSUME NEW s, Typed(s), NEW p \in Paths
  PROVE  Typed(Promoted(s, p))
<1> DEFINE owed == s.owed \cup {p}
           queued == QueuePath([s EXCEPT !.owed = owed], p)
           jobs == queued.jobs + 1
           barriers == queued.barriers + 1
<1>1. owed \in PathSets
  BY DEF Typed, Subscriptions, PathSets
<1> HIDE DEF owed
<1>2. Typed([s EXCEPT !.owed = owed])
  BY <1>1 DEF Typed, CandidateCaptured, Subscriptions, PathSets
<1>3. Typed(queued)
  BY <1>2, QueuePathsTyped DEF QueuePath, PathSets
<1> HIDE DEF queued
<1>4. jobs \in Nat /\ barriers \in Nat
  BY <1>3 DEF Typed, Subscriptions
<1> HIDE DEF jobs, barriers
<1>5. Typed([queued EXCEPT !.jobs = jobs, !.barriers = barriers, !.runnable = TRUE])
  BY <1>3, <1>4, ZenonT(60) DEF Typed, CandidateCaptured, Subscriptions
<1> QED BY <1>5 DEF Promoted, queued, owed, jobs, barriers

LEMMA ScanJobsTyped ==
  ASSUME NEW s, Typed(s), NEW finished \in 0..s.jobs, NEW deferred \in BOOLEAN,
         NEW race
  PROVE  Typed(ScanJobs(s, finished, deferred, race))
<1> DEFINE jobs == s.jobs - finished
           barriers == Monus(s.barriers, finished)
           scanned == [s EXCEPT !.jobs = jobs, !.barriers = barriers,
                                !.deferred = deferred]
<1>1. jobs \in Nat /\ barriers \in Nat
  <2>1. s.jobs \in Nat /\ s.barriers \in Nat
    BY DEF Typed, Subscriptions
  <2>2. finished \in Nat /\ s.jobs - finished \in Nat
    BY <2>1
  <2> QED BY <2>1, <2>2, MonusTyped
<1> HIDE DEF jobs, barriers
<1>2. Typed(scanned)
  BY <1>1 DEF Typed, CandidateCaptured, Subscriptions
<1> QED BY <1>2, MarkUncertainTyped DEF ScanJobs, Reasons, jobs, barriers

LEMMA TopologyTurnTyped ==
  ASSUME NEW s, Typed(s), NEW root, NEW finished \in 0..s.jobs,
         NEW deferred \in BOOLEAN, NEW race, NEW more, NEW opened
  PROVE  Typed(TopologyTurn(s, root, finished, deferred, race, more, opened))
<1> DEFINE popped == [s EXCEPT !.runnable = FALSE]
           failing == [popped EXCEPT !.barriers = 1, !.recov.phase = "cleaning"]
           done == ProgressRecovery(
                     ProgressReconciliation(
                       ProgressUpdate(ScanJobs(popped, finished, deferred, race),
                                      root, more), root, more),
                     root, more, opened)
<1>1. Typed(popped) /\ popped.jobs = s.jobs
  BY DEF Typed, CandidateCaptured, Subscriptions
<1>2. ASSUME s.recov.unstable
      PROVE  Typed(ProgressRecovery(failing, root, more, opened))
  <2>1. Typed(failing)
    BY <1>2, FailingTyped DEF Typed, CandidateCaptured
  <2> HIDE DEF failing
  <2> QED BY <2>1, ProgressRecoveryTyped
<1>3. Typed(done)
  BY <1>1, ScanJobsTyped, ProgressUpdateTyped, ProgressReconciliationTyped,
     ProgressRecoveryTyped
<1>4. Typed(Schedule(done, Runnable(done)))
  BY <1>3, ScheduleTyped, RunnableTyped
<1> QED BY <1>1, <1>2, <1>4 DEF TopologyTurn

LEMMA MaintainTyped ==
  ASSUME NEW s, Typed(s), NEW root, NEW checkDue, NEW windowElapsed
  PROVE  Typed(Maintain(s, root, checkDue, windowElapsed))
<1>1. Typed([s EXCEPT !.armed = FALSE])
  BY DEF Typed, CandidateCaptured, Subscriptions
<1>2. Typed(Checked(s, root, checkDue))
  BY <1>1, MarkRootLostTyped DEF Checked
<1>3. Typed(Swept(Checked(s, root, checkDue), windowElapsed))
  BY <1>2, FlushIfTyped DEF Swept
<1> QED BY <1>3, ScheduleTyped, UnstableTyped DEF Maintain

----------------------------------------------------------------------------
(* The actions, and the type invariant of the specification.               *)

IInv ==
  /\ Typed(sub)
  /\ fsRoot \in Identities \cup {Missing}
  /\ growth \in 0..MaxGrowth

LEMMA InitTyped == Init => IInv
<1> SUFFICES ASSUME Init PROVE IInv
  OBVIOUS
<1>1. PICK policy \in Policies, deferred \in BOOLEAN :
        sub = [uncertain |-> NoReason, pending |-> {}, pendingGen |-> Unselected,
              out |-> <<>>, exclGen |-> 0, selection |-> 0, policy |-> policy,
              barriers |-> 0, jobs |-> 0, deferred |-> deferred, lost |-> FALSE,
              identity |-> fsRoot, armed |-> TRUE,
              interests |-> IF Excludes(policy, Root) THEN "none" ELSE "all",
              rootEvents |-> {}, update |-> NoUpdate, recon |-> NoRecon,
              recov |-> NoRecov, ack |-> "idle", runnable |-> FALSE,
              disposed |-> FALSE, owed |-> {}, gap |-> "none"]
  BY DEF Init
<1>2. 0 \in 0..MaxGeneration /\ Unselected \in -1..MaxGeneration
  BY BoundsAssumption DEF Unselected
<1>3. sub \in Subscriptions
  BY <1>1, <1>2, NothingInProgressTyped DEF Init, Subscriptions
<1>4. CandidateCaptured(sub)
  BY <1>1 DEF CandidateCaptured, NoRecov
<1> QED BY <1>3, <1>4, BoundsAssumption DEF Init, IInv, Typed

LEMMA ReplaceExclusionsTyped ==
  ASSUME Typed(sub), NEW g \in 1..MaxGeneration, NEW policy \in Policies,
         NEW more, ReplaceExclusions(g, policy, more)
  PROVE  Typed(sub')
<1> DEFINE update == [phase |-> "waiting", gen |-> g, policy |-> policy,
                      prev |-> sub.policy]
           asked == [sub EXCEPT !.update = update, !.ack = "awaiting"]
           done == ProgressUpdate(asked, fsRoot, more)
<1>1. update \in Updates
  <2>1. g \in 0..MaxGeneration
    BY BoundsAssumption
  <2>2. sub.policy \in Policies
    BY DEF Typed, Subscriptions
  <2> QED BY <2>1, <2>2 DEF Updates
<1> HIDE DEF update
<1>2. Typed(asked)
  BY <1>1 DEF Typed, CandidateCaptured, Subscriptions
<1> HIDE DEF asked
<1>3. Typed(done)
  BY <1>2, ProgressUpdateTyped
<1> HIDE DEF done
<1>4. Typed(Schedule(done, Runnable(done)))
  BY <1>3, ScheduleTyped, RunnableTyped
<1> QED BY <1>4 DEF ReplaceExclusions, update, asked, done

LEMMA ReconcileTyped ==
  ASSUME Typed(sub), Reconcile
  PROVE  Typed(sub')
<1> DEFINE recon == [sub.recon EXCEPT !.phase = "waiting"]
           asked == [sub EXCEPT !.recon = recon, !.ack = "awaiting"]
           done == ProgressReconciliation(asked, fsRoot, FALSE)
<1>1. recon \in Recons
  BY DEF Typed, Subscriptions, Recons
<1> HIDE DEF recon
<1>2. Typed(asked)
  BY <1>1 DEF Typed, CandidateCaptured, Subscriptions
<1> HIDE DEF asked
<1>3. Typed(done)
  BY <1>2, ProgressReconciliationTyped
<1> HIDE DEF done
<1>4. Typed(Schedule(done, Runnable(done)))
  BY <1>3, ScheduleTyped, RunnableTyped
<1> QED BY <1>4 DEF Reconcile, recon, asked, done

\* The only step that captures a candidate: CandidateAccepted refuses Missing.
LEMMA RecoverRootTyped ==
  ASSUME IInv, NEW accept, NEW more, NEW opened, RecoverRoot(accept, more, opened)
  PROVE  Typed(sub')
<1> DEFINE f == ClearPending(Flush(sub))
           gap == IF f.gap = "none" THEN f.gap ELSE "old"
           recov == [phase |-> "removing", candidate |-> fsRoot,
                     reason |-> f.uncertain, quiet |-> TRUE,
                     later |-> NoReason, unstable |-> FALSE]
           asked == [f EXCEPT !.barriers = 1, !.ack = "awaiting", !.gap = gap,
                              !.recov = recov]
           done == ProgressRecovery(asked, fsRoot, more, opened)
<1>1. Typed(f)
  BY FlushTyped, ClearPendingTyped DEF IInv
<1> HIDE DEF f
<1>2. fsRoot \in Identities
  BY DEF RecoverRoot, CandidateAccepted, IInv
<1>3. gap \in {"none", "old", "new"} /\ f.uncertain \in Reasons \cup {NoReason}
  BY <1>1 DEF Typed, Subscriptions
<1>4. /\ recov \in Recovs /\ recov.candidate \in Identities
      /\ recov.phase # "none"
  BY <1>2, <1>3 DEF Recovs
<1> HIDE DEF gap, recov
<1>5. Typed(asked)
  BY <1>1, <1>3, <1>4, ZenonT(60) DEF Typed, CandidateCaptured, Subscriptions
<1> HIDE DEF asked
<1>6. Typed(done)
  BY <1>5, ProgressRecoveryTyped
<1> HIDE DEF done
<1>7. Typed(Schedule(done, Runnable(done)))
  BY <1>6, ScheduleTyped, RunnableTyped
<1> QED BY <1>7 DEF RecoverRoot, f, gap, recov, asked, done

LEMMA EventTyped ==
  ASSUME Typed(sub), NEW p \in Paths, NEW kind, Event(p, kind)
  PROVE  Typed(sub')
<1>1. PICK deferred \in BOOLEAN :
        sub' = HandleEvent([sub EXCEPT !.deferred = deferred], p, kind)
  BY DEF Event
<1>2. Typed([sub EXCEPT !.deferred = deferred])
  BY DEF Typed, CandidateCaptured, Subscriptions
<1> QED BY <1>1, <1>2, HandleEventTyped

LEMMA PromoteTyped ==
  ASSUME Typed(sub), NEW p \in Paths, NEW opened \in Opened,
         NEW deferred \in BOOLEAN, Promote(p, opened, deferred)
  PROVE  Typed(sub')
<1> DEFINE tried == [sub EXCEPT !.deferred = deferred]
<1>1. Typed(tried)
  BY DEF Typed, CandidateCaptured, Subscriptions
<1> HIDE DEF tried
<1>2. Typed(MarkUncertain(tried, TopologyRace))
  BY <1>1, MarkUncertainTyped DEF Reasons
<1>3. Typed(Promoted(tried, p))
      /\ Typed(Promoted(MarkUncertain(tried, TopologyRace), p))
  BY <1>1, <1>2, PromotedTyped
<1> QED BY <1>1, <1>2, <1>3 DEF Promote, Opened, tried

LEMMA TurnTyped ==
  ASSUME Typed(sub), NEW finished \in 0..sub.jobs, NEW race, NEW more, NEW opened,
         Turn(finished, race, more, opened)
  PROVE  Typed(sub')
<1>1. PICK deferred \in BOOLEAN :
        sub' = TopologyTurn(sub, fsRoot, finished, deferred, race, more, opened)
  BY DEF Turn
<1> QED BY <1>1, TopologyTurnTyped

LEMMA DisposeTyped ==
  ASSUME Typed(sub), Dispose
  PROVE  Typed(sub')
<1> DEFINE c == ClearPending(sub)
           ack == IF c.ack = "awaiting" THEN "failed" ELSE c.ack
           quiesced == [c EXCEPT
               !.disposed = TRUE, !.barriers = 0, !.runnable = FALSE,
               !.armed = FALSE, !.update = NoUpdate, !.recon = NoRecon,
               !.recov = NoRecov]
           closed == [quiesced EXCEPT
               !.jobs = 0, !.deferred = FALSE, !.interests = "none",
               !.rootEvents = {}, !.owed = {}, !.ack = ack]
<1>1. Typed(c)
  BY ClearPendingTyped
<1> HIDE DEF c
<1>2. ack \in {"idle", "awaiting", "ok", "failed"}
  BY <1>1 DEF Typed, Subscriptions
<1> HIDE DEF ack
<1>3. quiesced \in Subscriptions /\ quiesced.recov = NoRecov
  BY <1>1, NothingInProgressTyped DEF Typed, Subscriptions
<1>4. sub' = closed
  BY DEF Dispose, c, ack, ClearPending
<1> HIDE DEF quiesced
<1>5. closed \in Subscriptions /\ closed.recov = NoRecov
  BY <1>2, <1>3, ZenonT(60) DEF Subscriptions
<1> HIDE DEF closed
<1> QED BY <1>4, <1>5 DEF Typed, CandidateCaptured, NoRecov

LEMMA ReceiveTyped ==
  ASSUME Typed(sub), Receive
  PROVE  Typed(sub')
<1>1. Tail(sub.out) \in Seq(Batches)
  BY DEF Typed, Subscriptions, Receive
<1> QED BY <1>1 DEF Typed, CandidateCaptured, Subscriptions, Receive

LEMMA TakeReplyTyped ==
  ASSUME Typed(sub), TakeReply
  PROVE  Typed(sub')
BY DEF Typed, CandidateCaptured, Subscriptions, TakeReply

LEMMA SwapRootTyped ==
  ASSUME Typed(sub), NEW identity, NEW records \in RootRecords,
         SwapRoot(identity, records)
  PROVE  Typed(sub')
<1> DEFINE events == IF sub.interests = "all" /\ fsRoot = Watched(sub)
                     THEN sub.rootEvents \cup records ELSE sub.rootEvents
<1>1. events \in SUBSET {"self", "ignored"}
  BY DEF Typed, Subscriptions, RootRecords
<1> HIDE DEF events
<1>2. Typed([sub EXCEPT !.rootEvents = events])
  BY <1>1 DEF Typed, CandidateCaptured, Subscriptions
<1> QED BY <1>2 DEF SwapRoot, events

LEMMA NextTyped == IInv /\ [Next]_vars => IInv'
<1> SUFFICES ASSUME IInv, [Next]_vars PROVE IInv'
  OBVIOUS
<1> USE DEF IInv
<1>1. ASSUME NEW g \in 1..MaxGeneration, NEW policy \in Policies,
             NEW more \in BOOLEAN, ReplaceExclusions(g, policy, more)
      PROVE  IInv'
  BY <1>1, ReplaceExclusionsTyped DEF ReplaceExclusions
<1>2. CASE Reconcile
  BY <1>2, ReconcileTyped DEF Reconcile
<1>3. ASSUME NEW accept \in BOOLEAN, NEW more \in BOOLEAN, NEW opened \in Opened,
             RecoverRoot(accept, more, opened)
      PROVE  IInv'
  BY <1>3, RecoverRootTyped DEF RecoverRoot
<1>4. ASSUME NEW p \in Paths, NEW kind \in Kinds, Event(p, kind)
      PROVE  IInv'
  <2>1. growth' \in 0..MaxGrowth /\ fsRoot' = fsRoot
    BY <1>4, BoundsAssumption DEF Event
  <2> QED BY <1>4, <2>1, EventTyped
<1>5. CASE RootSelf
  BY <1>5, HandleRootSelfTyped DEF RootSelf
<1>6. CASE RootIgnored
  BY <1>6, HandleRootIgnoredTyped DEF RootIgnored
<1>7. ASSUME NEW reason \in {EventOverflow, TopologyRace}, Loss(reason)
      PROVE  IInv'
  BY <1>7, MarkUncertainTyped DEF Loss, Reasons
<1>8. ASSUME NEW p \in Paths, NEW opened \in Opened, NEW deferred \in BOOLEAN,
             Promote(p, opened, deferred)
      PROVE  IInv'
  <2>1. growth' \in 0..MaxGrowth /\ fsRoot' = fsRoot
    BY <1>8, BoundsAssumption DEF Promote
  <2> QED BY <1>8, <2>1, PromoteTyped
<1>9. ASSUME NEW finished \in 0..sub.jobs, NEW race \in BOOLEAN,
             NEW more \in BOOLEAN, NEW opened \in Opened,
             Turn(finished, race, more, opened)
      PROVE  IInv'
  BY <1>9, TurnTyped DEF Turn
<1>10. ASSUME NEW checkDue \in BOOLEAN, NEW windowElapsed \in BOOLEAN,
              Maintenance(checkDue, windowElapsed)
       PROVE  IInv'
  BY <1>10, MaintainTyped DEF Maintenance
<1>11. CASE Dispose
  BY <1>11, DisposeTyped DEF Dispose
<1>12. CASE Receive
  BY <1>12, ReceiveTyped DEF Receive
<1>13. CASE TakeReply
  BY <1>13, TakeReplyTyped DEF TakeReply
<1>14. ASSUME NEW identity \in Identities \cup {Missing},
              NEW records \in RootRecords, SwapRoot(identity, records)
       PROVE  IInv'
  <2>1. fsRoot' = identity /\ growth' = growth
    BY <1>14 DEF SwapRoot
  <2> QED BY <1>14, <2>1, SwapRootTyped
<1>15. CASE UNCHANGED vars
  BY <1>15 DEF vars
<1> HIDE DEF IInv
<1> QED BY <1>1, <1>2, <1>3, <1>4, <1>5, <1>6, <1>7, <1>8, <1>9, <1>10, <1>11,
           <1>12, <1>13, <1>14, <1>15 DEF Next

LEMMA Inductive == Spec => []IInv
BY InitTyped, NextTyped, PTL DEF Spec

\* The type invariant.  It needs the captured candidate: a recovery attaches the
\* identity it captured turns earlier, which is a directory because RecoverRoot
\* refuses a missing root before it captures.
THEOREM TypeCorrect == Spec => []TypeOK
<1>1. IInv => TypeOK
  BY DEF IInv, TypeOK, Typed
<1> QED BY <1>1, Inductive, PTL

-----------------------------------------------------------------------------
(***************************************************************************)
(* A subscription never loses an invalidation silently and never hides a   *)
(* gap: NoSilentLoss and GapIsVisible hold in every reachable state of     *)
(* SubscriptionCoverage, for every value of its constants.                 *)
(*                                                                         *)
(* GapIsVisible is not inductive.  A rebuild clears the reason it started  *)
(* with when no loss was marked meanwhile ("quiet"), which is right only   *)
(* because a quiet rebuild has no loss newer than its start: GapOlder.     *)
(***************************************************************************)

\* Everything owed is queued, or coverage is uncertain.
Accounted(s) ==
  \A p \in s.owed : p \in s.pending \/ Root \in s.pending \/ s.uncertain # NoReason

\* A gap shows, and no loss is newer than the start of a quiet rebuild.
GapOlder(s) ==
  /\ s.gap # "none" => s.uncertain # NoReason
  /\ s.recon.phase \in {"scanning", "sweeping"} /\ s.recon.quiet => s.gap # "new"
  /\ s.recov.phase # "none" /\ s.recov.quiet => s.gap # "new"

Honest(s) == Accounted(s) /\ GapOlder(s)

\* The fields honesty is about.
Alike(s, t) ==
  /\ t.owed = s.owed /\ t.pending = s.pending /\ t.uncertain = s.uncertain
  /\ t.gap = s.gap /\ t.recon = s.recon /\ t.recov = s.recov

LEMMA AlikeHonest ==
  ASSUME NEW s, NEW t, Honest(s), Alike(s, t)
  PROVE  Honest(t)
BY DEF Honest, Accounted, GapOlder, Alike

----------------------------------------------------------------------------
(* Queueing, marking and flushing.                                         *)

\* Queueing may settle a debt that was just taken on.
LEMMA QueuePathsHonest ==
  ASSUME NEW s, Typed(s), GapOlder(s), NEW ps \in PathSets,
         \A p \in s.owed : \/ p \in s.pending \cup ps
                           \/ Root \in s.pending \cup ps
                           \/ s.uncertain # NoReason
  PROVE  Honest(QueuePaths(s, ps))
<1> DEFINE t == QueuePaths(s, ps)
           mixed == s.pendingGen # Unselected /\ s.pendingGen # s.selection
<1>1. CASE ps = {}
  BY <1>1 DEF QueuePaths, Honest, Accounted
<1>2. CASE ps # {}
  <2>1. /\ t.owed = s.owed /\ t.gap = s.gap
        /\ t.recon = s.recon /\ t.recov = s.recov
    BY DEF QueuePaths, Typed, Subscriptions
  <2>2. mixed => t.uncertain # NoReason
    BY <1>2 DEF QueuePaths, Typed, Subscriptions, TopologyRace, NoReason
  <2>3. ~mixed => /\ t.uncertain = s.uncertain
                  /\ t.pending = IF Root \in ps THEN {Root}
                                 ELSE IF Root \in s.pending THEN s.pending
                                 ELSE s.pending \cup ps
    BY <1>2 DEF QueuePaths, Typed, Subscriptions
  <2> HIDE DEF t, mixed
  <2>4. GapOlder(t)
    BY <2>1, <2>2, <2>3 DEF GapOlder
  <2>5. Accounted(t)
    BY <2>1, <2>2, <2>3 DEF Accounted
  <2> QED BY <2>4, <2>5 DEF Honest, t
<1> QED BY <1>1, <1>2

LEMMA StrongestIsReason ==
  ASSUME NEW current \in Reasons \cup {NoReason}, NEW reason \in Reasons
  PROVE  Strongest(current, reason) # NoReason
<1>1. CASE current = NoReason
  BY <1>1 DEF Strongest, Priority, Reasons, NoReason, Backpressure, TopologyRace,
              RootReplaced, EventOverflow
<1>2. CASE current # NoReason
  BY <1>2 DEF Strongest, Reasons, NoReason, Backpressure, TopologyRace,
              RootReplaced, EventOverflow
<1> QED BY <1>1, <1>2

\* Marking a loss makes the subscription honest whatever it was before.
LEMMA MarkUncertainHonest ==
  ASSUME NEW s, Typed(s), NEW reason \in Reasons
  PROVE  Honest(MarkUncertain(s, reason))
<1> DEFINE noted == NoteLoss(s, reason)
           m == Marked(s, reason)
<1>1. /\ Typed(noted) /\ noted.uncertain = s.uncertain
      /\ noted.recon = s.recon /\ noted.recov = s.recov
  BY NoteLossTyped
<1>2. /\ m.uncertain = Strongest(s.uncertain, reason)
      /\ m.recon.phase = s.recon.phase /\ m.recon.quiet = (s.recon.phase = "none")
      /\ m.recov.phase = s.recov.phase /\ m.recov.quiet = (s.recov.phase = "none")
  <2> HIDE DEF noted
  <2> QED BY <1>1 DEF Marked, Typed, Subscriptions, Recons, Recovs, noted
<1>3. m.uncertain # NoReason
  BY <1>2, StrongestIsReason DEF Typed, Subscriptions
<1>4. GapOlder(m)
  BY <1>2, <1>3 DEF GapOlder
<1>5. Typed(m)
  BY MarkedTyped
<1> HIDE DEF m
<1>6. Honest(QueuePaths(m, {Root}))
  BY <1>3, <1>4, <1>5, QueuePathsHonest DEF PathSets
<1> QED BY <1>6 DEF MarkUncertain, QueuePath, m

LEMMA MarkUncertainMarks ==
  ASSUME NEW s, Typed(s), NEW reason \in Reasons
  PROVE  MarkUncertain(s, reason).uncertain # NoReason
<1> DEFINE noted == NoteLoss(s, reason)
           m == Marked(s, reason)
<1>1. Typed(noted) /\ noted.uncertain = s.uncertain
  BY NoteLossTyped
<1>2. m.uncertain = Strongest(s.uncertain, reason)
  <2> HIDE DEF noted
  <2> QED BY <1>1 DEF Marked, Typed, Subscriptions, noted
<1>3. m.uncertain # NoReason
  BY <1>2, StrongestIsReason DEF Typed, Subscriptions
<1>4. Typed(m)
  BY MarkedTyped
<1> HIDE DEF m
<1>5. QueuePaths(m, {Root}).uncertain # NoReason
  BY <1>3, <1>4 DEF QueuePaths, Typed, Subscriptions, TopologyRace, NoReason
<1> QED BY <1>5 DEF MarkUncertain, QueuePath, m

LEMMA MarkRootLostHonest ==
  ASSUME NEW s, Typed(s)
  PROVE  Honest(MarkRootLost(s))
BY DetachedTyped, MarkUncertainHonest DEF MarkRootLost, Reasons

LEMMA CollapseHonest ==
  ASSUME NEW s, Typed(s), Honest(s)
  PROVE  Typed(Collapse(s)) /\ Honest(Collapse(s))
BY MarkUncertainTyped, MarkUncertainHonest DEF Collapse, Reasons

\* A batch settles what it carries; what it leaves was covered by the reason.
LEMMA AcceptHonest ==
  ASSUME NEW s, Typed(s), GapOlder(s), NEW batch,
         \A p \in s.owed : \/ p \in batch.paths \/ Root \in batch.paths
                           \/ s.uncertain # NoReason
  PROVE  Honest(Accept(s, batch))
<1> DEFINE t == Accept(s, batch)
<1>1. /\ t.pending = s.pending /\ t.uncertain = s.uncertain
      /\ t.gap = s.gap /\ t.recon = s.recon /\ t.recov = s.recov
      /\ t.owed = IF Root \in batch.paths THEN {} ELSE s.owed \ batch.paths
  BY DEF Accept, Typed, Subscriptions
<1> HIDE DEF t
<1>2. GapOlder(t)
  BY <1>1 DEF GapOlder
<1>3. Accounted(t)
  BY <1>1 DEF Accounted
<1> QED BY <1>2, <1>3 DEF Honest, t

LEMMA FlushHonest ==
  ASSUME NEW s, Typed(s), Honest(s)
  PROVE  Honest(Flush(s))
<1> DEFINE c == Collapse(s)
           e == ClearPending(c)
           gen == IF c.pendingGen = Unselected THEN c.selection ELSE c.pendingGen
           batch == Batch(c, gen, c.pending, Coverage(c))
<1>1. Typed(c) /\ Honest(c)
  BY CollapseHonest
<1> HIDE DEF c
<1>2. /\ e.owed = c.owed /\ e.uncertain = c.uncertain /\ e.gap = c.gap
      /\ e.recon = c.recon /\ e.recov = c.recov
  BY <1>1 DEF ClearPending, Typed, Subscriptions
<1>3. Typed(e)
  BY <1>1, ClearPendingTyped
<1>4. Honest(MarkUncertain(e, Backpressure))
  BY <1>3, MarkUncertainHonest DEF Reasons
<1>5. batch.paths = c.pending
  BY DEF Batch
<1> HIDE DEF e, batch
<1>6. Honest(Accept(e, batch))
  <2>1. GapOlder(e)
    BY <1>1, <1>2 DEF Honest, GapOlder
  <2>2. \A p \in e.owed : \/ p \in batch.paths \/ Root \in batch.paths
                           \/ e.uncertain # NoReason
    BY <1>1, <1>2, <1>5 DEF Honest, Accounted
  <2> QED BY <1>3, <2>1, <2>2, AcceptHonest
<1> QED BY <1>4, <1>6 DEF Flush, Flushed, c, e, batch

\* What a flush leaves queued, it leaves behind a reason.
LEMMA FlushEmptiesOrMarks ==
  ASSUME NEW s, Typed(s)
  PROVE  Flush(s).pending = {} \/ Flush(s).uncertain # NoReason
<1> DEFINE c == Collapse(s)
           e == ClearPending(c)
<1>1. Typed(c)
  BY MarkUncertainTyped DEF Collapse, Reasons
<1> HIDE DEF c
<1>2. Typed(e) /\ e.pending = {}
  BY <1>1, ClearPendingTyped DEF ClearPending, Typed, Subscriptions
<1> HIDE DEF e
<1>3. \A batch : Accept(e, batch).pending = {}
  BY <1>2 DEF Accept, Typed, Subscriptions
<1>4. MarkUncertain(e, Backpressure).uncertain # NoReason
  BY <1>2, MarkUncertainMarks DEF Reasons
<1> QED BY <1>3, <1>4 DEF Flush, Flushed, c, e

LEMMA FlushIfHonest ==
  ASSUME NEW s, Typed(s), Honest(s), NEW due
  PROVE  Honest(FlushIf(s, due))
BY FlushHonest DEF FlushIf

----------------------------------------------------------------------------
(* Exclusion replacement.                                                  *)

LEMMA UpdateStartHonest ==
  ASSUME NEW s, Typed(s), Honest(s), NEW root
  PROVE  Honest(UpdateStart(s, root))
<1> DEFINE f == Flush(s)
           e == Selected(f)
<1>1. Typed(f) /\ Honest(f)
  BY FlushTyped, FlushHonest
<1> HIDE DEF f
<1>2. Typed(e)
  BY <1>1, SelectedTyped
<1>3. CASE f.pending = {}
  <2>1. Alike(f, e)
    BY <1>1, <1>3 DEF Alike, Selected, ClearPending, Typed, Subscriptions
  <2> QED BY <1>1, <1>3, <2>1, AlikeHonest, MarkRootLostHonest
          DEF UpdateStart, BoundaryDrop, f
<1>4. CASE f.pending # {}
  BY <1>2, <1>4, MarkUncertainHonest, MarkRootLostHonest
  DEF UpdateStart, BoundaryDrop, Reasons, f
<1> QED BY <1>3, <1>4

LEMMA UpdateRemoveHonest ==
  ASSUME NEW s, Typed(s), Honest(s), NEW more
  PROVE  Honest(UpdateRemove(s, more))
<1>1. Alike(s, UpdateRemove(s, more))
  BY DEF Alike, UpdateRemove, Typed, Subscriptions
<1> QED BY <1>1, AlikeHonest

\* The re-included subtrees are owed and queued in one step.
LEMMA UpdateCommitHonest ==
  ASSUME NEW s, Typed(s), Honest(s), NEW root
  PROVE  Honest(UpdateCommit(s, root))
<1> DEFINE c == Committing(s)
           ps == Reincluded(s)
<1>1. Typed(c) /\ ps \in PathSets
  BY CommittingTyped, ReincludedTyped
<1>2. /\ c.owed = s.owed \cup ps
      /\ c.pending = s.pending /\ c.uncertain = s.uncertain /\ c.gap = s.gap
      /\ c.recon = s.recon /\ c.recov = s.recov
  BY DEF Committing, Typed, Subscriptions
<1> HIDE DEF c, ps
<1>3. GapOlder(c)
  BY <1>2 DEF Honest, GapOlder
<1>4. \A p \in c.owed : \/ p \in c.pending \cup ps \/ Root \in c.pending
                         \/ c.uncertain # NoReason
  BY <1>2 DEF Honest, Accounted
<1>5. Honest(QueuePaths(c, ps))
  BY <1>1, <1>3, <1>4, QueuePathsHonest
<1> QED BY <1>5, MarkRootLostHonest DEF UpdateCommit, c, ps

LEMMA ProgressUpdateHonest ==
  ASSUME NEW s, Typed(s), Honest(s), NEW root, NEW more
  PROVE  Honest(ProgressUpdate(s, root, more))
BY UpdateStartTyped, UpdateRemoveTyped, UpdateStartHonest, UpdateRemoveHonest,
   UpdateCommitHonest DEF ProgressUpdate

----------------------------------------------------------------------------
(* Reconciliation.                                                         *)

LEMMA ReconStartHonest ==
  ASSUME NEW s, Typed(s), Honest(s), NEW root
  PROVE  Honest(ReconStart(s, root))
<1> DEFINE f == Flush(s)
           t == Traversing(f)
<1>1. Typed(f) /\ Honest(f) /\ (f.pending = {} \/ f.uncertain # NoReason)
  BY FlushTyped, FlushHonest, FlushEmptiesOrMarks
<1> HIDE DEF f
<1>2. /\ t.owed = f.owed /\ t.uncertain = f.uncertain /\ t.recov = f.recov
      /\ t.gap = IF f.gap = "none" THEN "none" ELSE "old"
  BY <1>1 DEF Traversing, ClearPending, Typed, Subscriptions
<1> HIDE DEF t
<1>3. Accounted(t)
  BY <1>1, <1>2 DEF Honest, Accounted
<1>4. GapOlder(t)
  BY <1>1, <1>2 DEF Honest, GapOlder
<1>5. Typed(ClearPending(f))
  BY <1>1, ClearPendingTyped
<1>6. Honest(MarkRootLost(ClearPending(f)))
  BY <1>5, MarkRootLostHonest
<1>7. Honest(t)
  BY <1>3, <1>4 DEF Honest
<1> QED BY <1>6, <1>7 DEF ReconStart, f, t

LEMMA ReconScannedHonest ==
  ASSUME NEW s, Typed(s), Honest(s)
  PROVE  Honest(ReconScanned(s))
<1> DEFINE t == ReconScanned(s)
<1>1. /\ t.owed = s.owed /\ t.pending = s.pending /\ t.uncertain = s.uncertain
      /\ t.gap = s.gap /\ t.recov = s.recov
      /\ t.recon.quiet = s.recon.quiet
      /\ t.recon.phase = s.recon.phase \/ s.recon.phase = "scanning"
  BY DEF ReconScanned, Typed, Subscriptions, Recons
<1> HIDE DEF t
<1>2. Accounted(t)
  BY <1>1 DEF Honest, Accounted
<1>3. GapOlder(t)
  BY <1>1 DEF Honest, GapOlder
<1> QED BY <1>2, <1>3 DEF Honest, t

\* A quiet traversal has no newer loss, so the reason may go; the batch names the
\* root, so nothing is owed.
LEMMA ReconAcceptedHonest ==
  ASSUME NEW s, Typed(s), Honest(s), s.recon.phase = "sweeping"
  PROVE  Honest(ReconAccepted(s))
<1> DEFINE c == ReconClosed(s)
           batch == Batch(s, s.exclGen, {Root}, Coverage(c))
<1>1. /\ c.uncertain = IF Clears(s) THEN NoReason ELSE s.uncertain
      /\ c.gap = Rebuilt(s.gap) /\ c.recon = NoRecon /\ c.recov = s.recov
  BY DEF ReconClosed, ClearPending, Typed, Subscriptions
<1>2. Typed(c)
  BY ReconClosedTyped
<1> HIDE DEF c
<1>3. GapOlder(c)
  <2>1. s.gap \in {"none", "old", "new"}
    BY DEF Typed, Subscriptions
  <2>2. c.gap # "new"
    BY <1>1 DEF Rebuilt
  <2>3. c.gap # "none" => c.uncertain # NoReason
    BY <1>1, <2>1 DEF Honest, GapOlder, Clears, Rebuilt
  <2> QED BY <1>1, <2>2, <2>3 DEF GapOlder
<1>4. Root \in batch.paths
  BY DEF Batch
<1> HIDE DEF batch
<1>5. Honest(Accept(c, batch))
  BY <1>2, <1>3, <1>4, AcceptHonest
<1> QED BY <1>5 DEF ReconAccepted, c, batch

LEMMA ReconRefusedHonest ==
  ASSUME NEW s, Typed(s), Honest(s)
  PROVE  Honest(ReconRefused(s))
<1> DEFINE c == ReconGivenUp(s)
           blamed == [c EXCEPT !.uncertain = Backpressure]
           marked == MarkUncertain(c, Backpressure)
<1>1. /\ c.gap = s.gap /\ c.recon = NoRecon /\ c.recov = s.recov
  BY DEF ReconGivenUp, ClearPending, Typed, Subscriptions
<1>2. Typed(c)
  BY ReconGivenUpTyped
<1> HIDE DEF c
<1>3. Typed(blamed)
  BY <1>2 DEF Typed, CandidateCaptured, Subscriptions, Reasons
<1>4. Typed(marked) /\ Honest(marked)
  BY <1>2, MarkUncertainTyped, MarkUncertainHonest DEF Reasons
<1>5. Honest(blamed)
  <2>1. /\ blamed.uncertain = Backpressure /\ blamed.gap = s.gap
        /\ blamed.recon = NoRecon /\ blamed.recov = s.recov
    BY <1>1, <1>2 DEF Typed, Subscriptions
  <2> HIDE DEF blamed
  <2> QED BY <2>1 DEF Honest, Accounted, GapOlder, NoRecon, Backpressure, NoReason
<1>6. \A t : Typed(t) /\ Honest(t) => Honest(QueuePath(t, Root))
  BY QueuePathsHonest DEF Honest, Accounted, QueuePath, PathSets
<1> QED BY <1>3, <1>4, <1>5, <1>6 DEF ReconRefused, c

LEMMA ProgressReconciliationHonest ==
  ASSUME NEW s, Typed(s), Honest(s), NEW root, NEW more
  PROVE  Honest(ProgressReconciliation(s, root, more))
<1> DEFINE r == ReconScanned(ReconStart(s, root))
           barriers == Monus(r.barriers, 1)
<1>1. Typed(r) /\ Honest(r)
  BY ReconStartTyped, ReconScannedTyped, ReconStartHonest, ReconScannedHonest
<1> HIDE DEF r
<1>2. barriers \in Nat
  BY <1>1, MonusTyped DEF Typed, Subscriptions
<1> HIDE DEF barriers
<1>3. Typed([r EXCEPT !.barriers = barriers])
  BY <1>1, <1>2, ZenonT(60) DEF Typed, CandidateCaptured, Subscriptions
<1>4. r.recon.phase = "sweeping" => Honest(ReconCommit(r, root))
  BY <1>1, <1>3, MarkRootLostHonest, ReconRefusedHonest, ReconAcceptedHonest
  DEF ReconCommit, barriers
<1> QED BY <1>1, <1>4 DEF ProgressReconciliation, ReconSweep, r

----------------------------------------------------------------------------
(* Root recovery.                                                          *)

LEMMA RecoveryFailedHonest ==
  ASSUME NEW s, Typed(s), Honest(s)
  PROVE  Honest(RecoveryFailed(s))
<1> DEFINE t == RecoveryFailed(s)
<1>1. /\ t.owed = s.owed /\ t.pending = s.pending /\ t.uncertain = s.uncertain
      /\ t.gap = s.gap /\ t.recon = s.recon /\ t.recov = NoRecov
  BY DEF RecoveryFailed, Typed, Subscriptions
<1> HIDE DEF t
<1>2. Accounted(t)
  BY <1>1 DEF Honest, Accounted
<1>3. GapOlder(t)
  BY <1>1 DEF Honest, GapOlder, NoRecov
<1> QED BY <1>2, <1>3 DEF Honest, t

\* The reason a recovery discharges covered no loss newer than its start.
LEMMA CommitRecoveryHonest ==
  ASSUME NEW s, Typed(s), Honest(s), s.recov.phase # "none"
  PROVE  Honest(CommitRecovery(s))
<1> DEFINE a == Attached(s)
           batch == Batch(a, a.exclGen, {Root}, Coverage(a))
<1>1. /\ a.uncertain = Discharged(s) /\ a.gap = Rebuilt(s.gap)
      /\ a.recon = s.recon /\ a.recov = NoRecov
  BY DEF Attached, ClearPending, Typed, Subscriptions
<1>2. Typed(a)
  BY AttachedTyped
<1> HIDE DEF a
<1>3. GapOlder(a)
  <2>1. s.gap \in {"none", "old", "new"}
    BY DEF Typed, Subscriptions
  <2>2. a.gap # "new"
    BY <1>1 DEF Rebuilt
  <2>3. a.gap # "none" => s.gap = "new"
    BY <1>1 DEF Rebuilt
  <2>4. s.gap = "new" => a.uncertain # NoReason
    BY <1>1 DEF Honest, GapOlder, Discharged
  <2> QED BY <1>1, <2>2, <2>3, <2>4 DEF GapOlder, NoRecov
<1>4. Root \in batch.paths
  BY DEF Batch
<1> HIDE DEF batch
<1>5. Honest(Accept(a, batch))
  BY <1>2, <1>3, <1>4, AcceptHonest
<1>6. Honest(MarkUncertain(a, Backpressure))
  BY <1>2, MarkUncertainHonest DEF Reasons
<1> QED BY <1>5, <1>6 DEF CommitRecovery, a, batch

LEMMA RecoveryPhaseHonest ==
  ASSUME NEW s, Honest(s), s.recov.phase # "none", NEW t,
         t.owed = s.owed, t.pending = s.pending, t.uncertain = s.uncertain,
         t.gap = s.gap, t.recon = s.recon, t.recov.quiet = s.recov.quiet
  PROVE  Honest(t)
<1>1. Accounted(t)
  BY DEF Honest, Accounted
<1>2. GapOlder(t)
  BY DEF Honest, GapOlder
<1> QED BY <1>1, <1>2 DEF Honest

LEMMA AfterDrainHonest ==
  ASSUME NEW s, Typed(s), Honest(s), s.recov.phase # "none", NEW root, NEW opened
  PROVE  Honest(AfterDrain(s, root, opened))
<1> DEFINE t == CandidateScanning(s)
           marked == MarkUncertain(s, TopologyRace)
<1>1. /\ t.owed = s.owed /\ t.pending = s.pending /\ t.uncertain = s.uncertain
      /\ t.gap = s.gap /\ t.recon = s.recon /\ t.recov.quiet = s.recov.quiet
  BY DEF CandidateScanning, Typed, Subscriptions, Recovs
<1>2. Typed(t) /\ Typed(marked) /\ Honest(marked)
  BY CandidateScanningTyped, MarkUncertainTyped, MarkUncertainHonest DEF Reasons
<1> HIDE DEF t, marked
<1>3. Honest(t)
  BY <1>1, RecoveryPhaseHonest
<1>4. Honest(MarkUncertain(t, TopologyRace))
  BY <1>2, MarkUncertainHonest DEF Reasons
<1>5. Honest(RecoveryFailed(s)) /\ Honest(RecoveryFailed(marked))
  BY <1>2, RecoveryFailedHonest
<1> QED BY <1>3, <1>4, <1>5, CommitRecoveryHonest DEF AfterDrain, t, marked

LEMMA ProgressRecoveryHonest ==
  ASSUME NEW s, Typed(s), Honest(s), NEW root, NEW more, NEW opened
  PROVE  Honest(ProgressRecovery(s, root, more, opened))
<1>1. ASSUME s.recov.phase \in {"removing", "cleaning"}
      PROVE  Honest(RecoveryDrain(s, root, more, opened))
  <2> DEFINE d == Drain(s, more)
  <2>1. Alike(s, d)
    BY DEF Alike, Drain, Typed, Subscriptions
  <2>2. Typed(d) /\ Honest(d)
    BY <2>1, DrainTyped, AlikeHonest
  <2>3. d.recov.phase # "none"
    BY <1>1, <2>1 DEF Alike
  <2> HIDE DEF d
  <2> QED BY <2>2, <2>3, RecoveryFailedHonest, AfterDrainHonest
          DEF RecoveryDrain, d
<1>2. ASSUME s.recov.phase = "scanning"
      PROVE  Honest(RecoveryScanned(s, root))
  <2> DEFINE t == [s EXCEPT !.barriers = 1, !.recov.phase = "cleaning"]
  <2>1. /\ t.owed = s.owed /\ t.pending = s.pending /\ t.uncertain = s.uncertain
        /\ t.gap = s.gap /\ t.recon = s.recon /\ t.recov.quiet = s.recov.quiet
    BY DEF Typed, Subscriptions, Recovs
  <2> HIDE DEF t
  <2>2. Honest(t)
    BY <1>2, <2>1, RecoveryPhaseHonest
  <2> QED BY <1>2, <2>2, CommitRecoveryHonest DEF RecoveryScanned, t
<1> QED BY <1>1, <1>2 DEF ProgressRecovery

----------------------------------------------------------------------------
(* Events, topology turns and maintenance.                                 *)

LEMMA ScheduleHonest ==
  ASSUME NEW s, Typed(s), Honest(s), NEW when
  PROVE  Honest(Schedule(s, when))
<1>1. Alike(s, Schedule(s, when))
  BY DEF Alike, Schedule, Typed, Subscriptions
<1> QED BY <1>1, AlikeHonest

LEMMA QueueEventHonest ==
  ASSUME NEW s, Typed(s), GapOlder(s), NEW p \in Paths \cup {Root},
         \A q \in s.owed : \/ q \in s.pending \cup {p} \/ Root \in s.pending
                           \/ s.uncertain # NoReason
  PROVE  Honest(QueueEvent(s, p))
<1>1. {p} \in PathSets /\ {Root} \in PathSets
  BY DEF PathSets
<1>2. Honest(QueuePaths(s, {p}))
  BY <1>1, QueuePathsHonest
<1>3. Honest(QueuePaths(s, {Root}))
  BY <1>1, QueuePathsHonest
<1>4. Honest(MarkUncertain(s, Backpressure))
  BY MarkUncertainHonest DEF Reasons
<1> QED BY <1>2, <1>3, <1>4 DEF QueueEvent, QueuePath

LEMMA AddJobHonest ==
  ASSUME NEW s, Typed(s), Honest(s)
  PROVE  Honest(AddJob(s))
<1> DEFINE t == AddJob(s)
<1>1. /\ t.owed = s.owed /\ t.pending = s.pending /\ t.uncertain = s.uncertain
      /\ t.gap = s.gap /\ t.recov = s.recov /\ t.recon.quiet = s.recon.quiet
      /\ t.recon.phase = IF s.recon.phase \in {"none", "waiting"}
                         THEN s.recon.phase ELSE "scanning"
  BY DEF AddJob, Typed, Subscriptions, Recons
<1>2. s.recon.phase \in {"none", "waiting", "scanning", "sweeping"}
  BY DEF Typed, Subscriptions, Recons
<1> HIDE DEF t
<1>3. Accounted(t)
  BY <1>1 DEF Honest, Accounted
<1>4. GapOlder(t)
  BY <1>1, <1>2 DEF Honest, GapOlder
<1> QED BY <1>3, <1>4 DEF Honest, t

\* A path that is owed and about to be queued.
LEMMA OwingHonest ==
  ASSUME NEW s, Typed(s), Honest(s), NEW p \in Paths
  PROVE  LET t == [s EXCEPT !.owed = @ \cup {p}]
         IN  /\ Typed(t) /\ GapOlder(t)
             /\ \A q \in t.owed : \/ q \in t.pending \cup {p} \/ Root \in t.pending
                                  \/ t.uncertain # NoReason
<1> DEFINE owed == s.owed \cup {p}
           t == [s EXCEPT !.owed = owed]
<1>1. owed \in PathSets
  BY DEF Typed, Subscriptions, PathSets
<1>2. /\ t.owed = owed /\ t.pending = s.pending /\ t.uncertain = s.uncertain
      /\ t.gap = s.gap /\ t.recon = s.recon /\ t.recov = s.recov
  BY DEF Typed, Subscriptions
<1> HIDE DEF owed
<1>3. Typed(t)
  BY <1>1 DEF Typed, CandidateCaptured, Subscriptions, PathSets
<1> HIDE DEF t
<1>4. GapOlder(t)
  BY <1>2 DEF Honest, GapOlder
<1>5. \A q \in t.owed : \/ q \in t.pending \cup {p} \/ Root \in t.pending
                        \/ t.uncertain # NoReason
  BY <1>2 DEF Honest, Accounted, owed
<1> QED BY <1>3, <1>4, <1>5 DEF t, owed

LEMMA HandleEventHonest ==
  ASSUME NEW s, Typed(s), Honest(s), NEW p \in Paths, NEW kind
  PROVE  Honest(HandleEvent(s, p, kind))
<1> DEFINE owing == [s EXCEPT !.owed = @ \cup {p}]
           queued == QueueEvent(owing, p)
           grown == IF kind = "created" THEN AddJob(queued) ELSE queued
           flushed == FlushIf(grown, AtBound(grown))
<1>1. Typed(queued) /\ Honest(queued)
  BY OwingHonest, QueueEventTyped, QueueEventHonest
<1> HIDE DEF queued
<1>2. Typed(grown) /\ Honest(grown)
  BY <1>1, AddJobTyped, AddJobHonest
<1> HIDE DEF grown
<1>3. Typed(flushed) /\ Honest(flushed)
  BY <1>2, FlushIfTyped, FlushIfHonest
<1> HIDE DEF flushed
<1>4. Honest(Schedule(flushed, grown.recov.unstable))
  BY <1>3, ScheduleHonest
<1> QED BY <1>1, <1>4 DEF HandleEvent, queued, grown, flushed

LEMMA HandleRootSelfHonest ==
  ASSUME NEW s, Typed(s)
  PROVE  Honest(HandleRootSelf(s))
<1> DEFINE events == s.rootEvents \ {"self"}
           gone == MarkRootLost([s EXCEPT !.rootEvents = events])
           lost == QueueEvent(gone, Root)
<1>1. events \in SUBSET {"self", "ignored"}
  BY DEF Typed, Subscriptions
<1> HIDE DEF events
<1>2. Typed([s EXCEPT !.rootEvents = events])
  BY <1>1 DEF Typed, CandidateCaptured, Subscriptions
<1>3. Typed(gone) /\ Honest(gone)
  BY <1>2, MarkRootLostTyped, MarkRootLostHonest
<1> HIDE DEF gone
<1>4. Typed(lost) /\ Honest(lost)
  BY <1>3, QueueEventTyped, QueueEventHonest DEF Honest, Accounted
<1> HIDE DEF lost
<1>5. Typed(FlushIf(lost, AtBound(lost))) /\ Honest(FlushIf(lost, AtBound(lost)))
  BY <1>4, FlushIfTyped, FlushIfHonest
<1>6. Honest(Schedule(FlushIf(lost, AtBound(lost)), TRUE))
  BY <1>5, ScheduleHonest
<1> QED BY <1>4, <1>6 DEF HandleRootSelf, events, gone, lost

LEMMA HandleRootIgnoredHonest ==
  ASSUME NEW s, Typed(s)
  PROVE  Honest(HandleRootIgnored(s))
<1>1. Typed([s EXCEPT !.rootEvents = {}, !.interests = "noroot"])
  BY DEF Typed, CandidateCaptured, Subscriptions
<1> QED BY <1>1, MarkRootLostTyped, MarkRootLostHonest, ScheduleHonest
        DEF HandleRootIgnored

LEMMA PromotedHonest ==
  ASSUME NEW s, Typed(s), Honest(s), NEW p \in Paths
  PROVE  Honest(Promoted(s, p))
<1> DEFINE owing == [s EXCEPT !.owed = @ \cup {p}]
           queued == QueuePaths(owing, {p})
<1>1. Typed(owing) /\ GapOlder(owing) /\ {p} \in PathSets
  BY OwingHonest DEF PathSets
<1>2. \A q \in owing.owed : \/ q \in owing.pending \cup {p}
                            \/ Root \in owing.pending \/ owing.uncertain # NoReason
  BY OwingHonest
<1> HIDE DEF owing
<1>3. Typed(queued) /\ Honest(queued)
  BY <1>1, <1>2, QueuePathsTyped, QueuePathsHonest
<1> HIDE DEF queued
<1>4. Alike(queued, [queued EXCEPT !.jobs = @ + 1, !.barriers = @ + 1,
                                   !.runnable = TRUE])
  BY <1>3 DEF Alike, Typed, Subscriptions
<1> QED BY <1>3, <1>4, AlikeHonest DEF Promoted, QueuePath, queued, owing

LEMMA ScanJobsHonest ==
  ASSUME NEW s, Typed(s), Honest(s), NEW finished \in 0..s.jobs,
         NEW deferred \in BOOLEAN, NEW race
  PROVE  Honest(ScanJobs(s, finished, deferred, race))
<1> DEFINE scanned == [s EXCEPT !.jobs = @ - finished,
                                !.barriers = Monus(@, finished),
                                !.deferred = deferred]
<1>1. Alike(s, scanned)
  BY DEF Alike, Typed, Subscriptions
<1>2. ScanJobs(s, finished, deferred, FALSE) = scanned
  BY DEF ScanJobs
<1>3. Typed(scanned)
  <2>1. Typed(ScanJobs(s, finished, deferred, FALSE))
    BY ScanJobsTyped
  <2> QED BY <1>2, <2>1
<1> HIDE DEF scanned
<1>4. Honest(scanned) /\ Honest(MarkUncertain(scanned, TopologyRace))
  BY <1>1, <1>3, AlikeHonest, MarkUncertainHonest DEF Reasons
<1> QED BY <1>4 DEF ScanJobs, scanned

LEMMA TopologyTurnHonest ==
  ASSUME NEW s, Typed(s), Honest(s), NEW root, NEW finished \in 0..s.jobs,
         NEW deferred \in BOOLEAN, NEW race, NEW more, NEW opened
  PROVE  Honest(TopologyTurn(s, root, finished, deferred, race, more, opened))
<1> DEFINE popped == [s EXCEPT !.runnable = FALSE]
           failing == [popped EXCEPT !.barriers = 1, !.recov.phase = "cleaning"]
           scanned == ScanJobs(popped, finished, deferred, race)
           updated == ProgressUpdate(scanned, root, more)
           reconciled == ProgressReconciliation(updated, root, more)
           done == ProgressRecovery(reconciled, root, more, opened)
<1>1. Typed(popped) /\ popped.jobs = s.jobs /\ Alike(s, popped)
  BY DEF Alike, Typed, CandidateCaptured, Subscriptions
<1>2. Honest(popped)
  BY <1>1, AlikeHonest
<1>3. ASSUME s.recov.unstable
      PROVE  Honest(ProgressRecovery(failing, root, more, opened))
  <2>1. s.recov.phase # "none"
    BY <1>3 DEF Typed, CandidateCaptured
  <2>2. /\ failing.owed = s.owed /\ failing.pending = s.pending
        /\ failing.uncertain = s.uncertain /\ failing.gap = s.gap
        /\ failing.recon = s.recon /\ failing.recov.quiet = s.recov.quiet
    BY DEF Typed, Subscriptions, Recovs
  <2>3. Typed(failing)
    BY <2>1, FailingTyped
  <2> HIDE DEF failing
  <2>4. Honest(failing)
    BY <2>1, <2>2, RecoveryPhaseHonest
  <2> QED BY <2>3, <2>4, ProgressRecoveryHonest
<1> HIDE DEF popped
<1>4. Typed(scanned) /\ Honest(scanned)
  BY <1>1, <1>2, ScanJobsTyped, ScanJobsHonest
<1> HIDE DEF scanned
<1>5. Typed(updated) /\ Honest(updated)
  BY <1>4, ProgressUpdateTyped, ProgressUpdateHonest
<1> HIDE DEF updated
<1>6. Typed(reconciled) /\ Honest(reconciled)
  BY <1>5, ProgressReconciliationTyped, ProgressReconciliationHonest
<1> HIDE DEF reconciled
<1>7. Typed(done) /\ Honest(done)
  BY <1>6, ProgressRecoveryTyped, ProgressRecoveryHonest
<1> HIDE DEF done
<1>8. Honest(Schedule(done, Runnable(done)))
  BY <1>7, ScheduleHonest
<1> QED BY <1>2, <1>3, <1>8
        DEF TopologyTurn, popped, scanned, updated, reconciled, done

LEMMA MaintainHonest ==
  ASSUME NEW s, Typed(s), Honest(s), NEW root, NEW checkDue, NEW windowElapsed
  PROVE  Honest(Maintain(s, root, checkDue, windowElapsed))
<1> DEFINE c == Checked(s, root, checkDue)
           w == Swept(c, windowElapsed)
<1>1. Typed([s EXCEPT !.armed = FALSE])
  BY DEF Typed, CandidateCaptured, Subscriptions
<1>2. Typed(c) /\ Honest(c)
  BY <1>1, MarkRootLostTyped, MarkRootLostHonest DEF Checked
<1> HIDE DEF c
<1>3. Typed(w) /\ Honest(w)
  BY <1>2, FlushIfTyped, FlushIfHonest DEF Swept
<1> HIDE DEF w
<1>4. Honest(Schedule(w, w.recov.unstable))
  BY <1>3, ScheduleHonest
<1> QED BY <1>4 DEF Maintain, c, w

----------------------------------------------------------------------------
(* The actions.                                                            *)

LEMMA InitHonest == Init => Honest(sub)
BY DEF Init, Honest, Accounted, GapOlder, NoRecon, NoRecov

LEMMA ReplaceExclusionsHonest ==
  ASSUME Typed(sub), Honest(sub), NEW g \in 1..MaxGeneration,
         NEW policy \in Policies, NEW more, ReplaceExclusions(g, policy, more)
  PROVE  Honest(sub')
<1> DEFINE update == [phase |-> "waiting", gen |-> g, policy |-> policy,
                      prev |-> sub.policy]
           asked == [sub EXCEPT !.update = update, !.ack = "awaiting"]
           done == ProgressUpdate(asked, fsRoot, more)
<1>1. update \in Updates
  <2>1. g \in 0..MaxGeneration /\ sub.policy \in Policies
    BY BoundsAssumption DEF Typed, Subscriptions
  <2> QED BY <2>1 DEF Updates
<1> HIDE DEF update
<1>2. Typed(asked)
  BY <1>1 DEF Typed, CandidateCaptured, Subscriptions
<1>3. Alike(sub, asked)
  BY DEF Alike, Typed, Subscriptions
<1> HIDE DEF asked
<1>4. Typed(done) /\ Honest(done)
  BY <1>2, <1>3, AlikeHonest, ProgressUpdateTyped, ProgressUpdateHonest
<1> HIDE DEF done
<1>5. Honest(Schedule(done, Runnable(done)))
  BY <1>4, ScheduleHonest
<1> QED BY <1>5 DEF ReplaceExclusions, update, asked, done

LEMMA ReconcileHonest ==
  ASSUME Typed(sub), Honest(sub), Reconcile
  PROVE  Honest(sub')
<1> DEFINE recon == [sub.recon EXCEPT !.phase = "waiting"]
           asked == [sub EXCEPT !.recon = recon, !.ack = "awaiting"]
           done == ProgressReconciliation(asked, fsRoot, FALSE)
<1>1. recon \in Recons /\ recon.phase = "waiting"
  BY DEF Typed, Subscriptions, Recons
<1> HIDE DEF recon
<1>2. Typed(asked)
  BY <1>1 DEF Typed, CandidateCaptured, Subscriptions
<1>3. /\ asked.owed = sub.owed /\ asked.pending = sub.pending
      /\ asked.uncertain = sub.uncertain /\ asked.gap = sub.gap
      /\ asked.recon.phase = "waiting" /\ asked.recov = sub.recov
  BY <1>1 DEF Typed, Subscriptions
<1> HIDE DEF asked
<1>4. Honest(asked)
  BY <1>3 DEF Honest, Accounted, GapOlder
<1>5. Typed(done) /\ Honest(done)
  BY <1>2, <1>4, ProgressReconciliationTyped, ProgressReconciliationHonest
<1> HIDE DEF done
<1>6. Honest(Schedule(done, Runnable(done)))
  BY <1>5, ScheduleHonest
<1> QED BY <1>6 DEF Reconcile, recon, asked, done

\* The flush in front of a recovery may leave the root queued, and the clear
\* that follows drops it: it is the reason left behind that accounts for it.
LEMMA RecoverRootHonest ==
  ASSUME IInv, Honest(sub), NEW accept, NEW more, NEW opened,
         RecoverRoot(accept, more, opened)
  PROVE  Honest(sub')
<1> DEFINE flushed == Flush(sub)
           f == ClearPending(flushed)
           gap == IF f.gap = "none" THEN f.gap ELSE "old"
           recov == [phase |-> "removing", candidate |-> fsRoot,
                     reason |-> f.uncertain, quiet |-> TRUE,
                     later |-> NoReason, unstable |-> FALSE]
           asked == [f EXCEPT !.barriers = 1, !.ack = "awaiting", !.gap = gap,
                              !.recov = recov]
           done == ProgressRecovery(asked, fsRoot, more, opened)
<1>1. /\ Typed(flushed) /\ Honest(flushed)
      /\ flushed.pending = {} \/ flushed.uncertain # NoReason
  BY FlushTyped, FlushHonest, FlushEmptiesOrMarks DEF IInv
<1> HIDE DEF flushed
<1>2. /\ f.owed = flushed.owed /\ f.uncertain = flushed.uncertain
      /\ f.gap = flushed.gap /\ f.recon = flushed.recon /\ f.pending = {}
  BY <1>1 DEF ClearPending, Typed, Subscriptions
<1>3. Typed(f)
  BY <1>1, ClearPendingTyped
<1> HIDE DEF f
<1>4. fsRoot \in Identities
  BY DEF RecoverRoot, CandidateAccepted, IInv
<1>5. gap \in {"none", "old", "new"} /\ f.uncertain \in Reasons \cup {NoReason}
  BY <1>3 DEF Typed, Subscriptions
<1>6. gap # "new" /\ (gap # "none" => f.gap # "none")
  OBVIOUS
<1>7. /\ recov \in Recovs /\ recov.candidate \in Identities
      /\ recov.phase # "none"
  BY <1>4, <1>5 DEF Recovs
<1> HIDE DEF gap, recov
<1>8. Typed(asked)
  BY <1>3, <1>5, <1>7, ZenonT(60) DEF Typed, CandidateCaptured, Subscriptions
<1>9. /\ asked.owed = f.owed /\ asked.pending = f.pending
      /\ asked.uncertain = f.uncertain /\ asked.gap = gap
  BY <1>3 DEF Typed, Subscriptions
<1> HIDE DEF asked
<1>10. Accounted(asked)
  BY <1>1, <1>2, <1>9 DEF Honest, Accounted
<1>11. GapOlder(asked)
  BY <1>1, <1>2, <1>6, <1>9 DEF Honest, GapOlder
<1>12. Typed(done) /\ Honest(done)
  BY <1>8, <1>10, <1>11, ProgressRecoveryTyped, ProgressRecoveryHonest DEF Honest
<1> HIDE DEF done
<1>13. Honest(Schedule(done, Runnable(done)))
  BY <1>12, ScheduleHonest
<1> QED BY <1>13 DEF RecoverRoot, flushed, f, gap, recov, asked, done

LEMMA EventHonest ==
  ASSUME Typed(sub), Honest(sub), NEW p \in Paths, NEW kind, Event(p, kind)
  PROVE  Honest(sub')
<1>1. PICK deferred \in BOOLEAN :
        sub' = HandleEvent([sub EXCEPT !.deferred = deferred], p, kind)
  BY DEF Event
<1> DEFINE t == [sub EXCEPT !.deferred = deferred]
<1>2. Typed(t) /\ Alike(sub, t)
  BY DEF Typed, CandidateCaptured, Subscriptions, Alike
<1> HIDE DEF t
<1>3. Honest(HandleEvent(t, p, kind))
  BY <1>2, AlikeHonest, HandleEventHonest
<1> QED BY <1>1, <1>3 DEF t

LEMMA PromoteHonest ==
  ASSUME Typed(sub), Honest(sub), NEW p \in Paths, NEW opened \in Opened,
         NEW deferred \in BOOLEAN, Promote(p, opened, deferred)
  PROVE  Honest(sub')
<1> DEFINE tried == [sub EXCEPT !.deferred = deferred]
<1>1. Typed(tried) /\ Alike(sub, tried)
  BY DEF Typed, CandidateCaptured, Subscriptions, Alike
<1> HIDE DEF tried
<1>2. /\ Typed(MarkUncertain(tried, TopologyRace))
      /\ Honest(MarkUncertain(tried, TopologyRace)) /\ Honest(tried)
  BY <1>1, AlikeHonest, MarkUncertainTyped, MarkUncertainHonest DEF Reasons
<1>3. /\ Honest(Promoted(tried, p))
      /\ Honest(Promoted(MarkUncertain(tried, TopologyRace), p))
  BY <1>1, <1>2, PromotedHonest
<1> QED BY <1>2, <1>3 DEF Promote, Opened, tried

LEMMA TurnHonest ==
  ASSUME Typed(sub), Honest(sub), NEW finished \in 0..sub.jobs, NEW race, NEW more,
         NEW opened, Turn(finished, race, more, opened)
  PROVE  Honest(sub')
<1>1. PICK deferred \in BOOLEAN :
        sub' = TopologyTurn(sub, fsRoot, finished, deferred, race, more, opened)
  BY DEF Turn
<1> QED BY <1>1, TopologyTurnHonest

LEMMA DisposeHonest ==
  ASSUME Typed(sub), Honest(sub), Dispose
  PROVE  Honest(sub')
<1> DEFINE c == ClearPending(sub)
<1>1. Typed(c) /\ c.gap = sub.gap /\ c.uncertain = sub.uncertain
  BY ClearPendingTyped DEF ClearPending, Typed, Subscriptions
<1> HIDE DEF c
<1>2. /\ sub'.owed = {} /\ sub'.gap = sub.gap /\ sub'.uncertain = sub.uncertain
      /\ sub'.recon = NoRecon /\ sub'.recov = NoRecov
  BY <1>1 DEF Dispose, Typed, Subscriptions, c
<1> QED BY <1>2 DEF Honest, Accounted, GapOlder, NoRecon, NoRecov

LEMMA SwapRootHonest ==
  ASSUME Typed(sub), Honest(sub), NEW identity, NEW records,
         SwapRoot(identity, records)
  PROVE  Honest(sub')
<1>1. /\ sub'.owed = sub.owed /\ sub'.pending = sub.pending
      /\ sub'.uncertain = sub.uncertain /\ sub'.gap = sub.gap
      /\ sub'.recon = sub.recon /\ sub'.recov.phase = sub.recov.phase
      /\ sub'.recov.quiet = sub.recov.quiet
  BY DEF SwapRoot, Typed, Subscriptions, Recovs
<1> QED BY <1>1 DEF Honest, Accounted, GapOlder

----------------------------------------------------------------------------
(* The specification.                                                      *)

\* The inductive invariant.
HonestInv == IInv /\ Honest(sub)

LEMMA NextHonest == HonestInv /\ [Next]_vars => HonestInv'
<1> SUFFICES ASSUME IInv, Honest(sub), [Next]_vars PROVE Honest(sub')
  BY NextTyped DEF HonestInv, Honest, Accounted, GapOlder
<1>0. Typed(sub)
  BY DEF IInv
<1>1. ASSUME NEW g \in 1..MaxGeneration, NEW policy \in Policies,
             NEW more \in BOOLEAN, ReplaceExclusions(g, policy, more)
      PROVE  Honest(sub')
  BY <1>0, <1>1, ReplaceExclusionsHonest
<1>2. CASE Reconcile
  BY <1>0, <1>2, ReconcileHonest
<1>3. ASSUME NEW accept \in BOOLEAN, NEW more \in BOOLEAN, NEW opened \in Opened,
             RecoverRoot(accept, more, opened)
      PROVE  Honest(sub')
  BY <1>3, RecoverRootHonest
<1>4. ASSUME NEW p \in Paths, NEW kind \in Kinds, Event(p, kind)
      PROVE  Honest(sub')
  BY <1>0, <1>4, EventHonest
<1>5. CASE RootSelf
  BY <1>0, <1>5, HandleRootSelfHonest DEF RootSelf
<1>6. CASE RootIgnored
  BY <1>0, <1>6, HandleRootIgnoredHonest DEF RootIgnored
<1>7. ASSUME NEW reason \in {EventOverflow, TopologyRace}, Loss(reason)
      PROVE  Honest(sub')
  BY <1>0, <1>7, MarkUncertainHonest DEF Loss, Reasons
<1>8. ASSUME NEW p \in Paths, NEW opened \in Opened, NEW deferred \in BOOLEAN,
             Promote(p, opened, deferred)
      PROVE  Honest(sub')
  BY <1>0, <1>8, PromoteHonest
<1>9. ASSUME NEW finished \in 0..sub.jobs, NEW race \in BOOLEAN,
             NEW more \in BOOLEAN, NEW opened \in Opened,
             Turn(finished, race, more, opened)
      PROVE  Honest(sub')
  BY <1>0, <1>9, TurnHonest
<1>10. ASSUME NEW checkDue \in BOOLEAN, NEW windowElapsed \in BOOLEAN,
              Maintenance(checkDue, windowElapsed)
       PROVE  Honest(sub')
  BY <1>0, <1>10, MaintainHonest DEF Maintenance
<1>11. CASE Dispose
  BY <1>0, <1>11, DisposeHonest
<1>12. CASE Receive
  <2>1. Alike(sub, sub')
    BY <1>0, <1>12 DEF Receive, Alike, Typed, Subscriptions
  <2> QED BY <2>1, AlikeHonest
<1>13. CASE TakeReply
  <2>1. Alike(sub, sub')
    BY <1>0, <1>13 DEF TakeReply, Alike, Typed, Subscriptions
  <2> QED BY <2>1, AlikeHonest
<1>14. ASSUME NEW identity \in Identities \cup {Missing},
              NEW records \in RootRecords, SwapRoot(identity, records)
       PROVE  Honest(sub')
  BY <1>0, <1>14, SwapRootHonest
<1>15. CASE UNCHANGED vars
  BY <1>15 DEF vars
<1> QED BY <1>1, <1>2, <1>3, <1>4, <1>5, <1>6, <1>7, <1>8, <1>9, <1>10, <1>11,
           <1>12, <1>13, <1>14, <1>15 DEF Next

LEMMA AlwaysHonest == Spec => []HonestInv
BY InitTyped, InitHonest, NextHonest, PTL DEF Spec, HonestInv

\* Whatever the queue bounds, the calls and the order of events: an invalidation
\* the consumer was not sent is still queued for it, or coverage says so.
THEOREM NothingLostSilently == Spec => []NoSilentLoss
<1>1. HonestInv => NoSilentLoss
  BY DEF HonestInv, Honest, Accounted, NoSilentLoss
<1> QED BY <1>1, AlwaysHonest, PTL

\* After events were lost, coverage stays uncertain until a rebuild that began
\* after the last loss commits.
THEOREM GapsVisible == Spec => []GapIsVisible
<1>1. HonestInv => GapIsVisible
  BY DEF HonestInv, Honest, GapOlder, GapIsVisible
<1> QED BY <1>1, AlwaysHonest, PTL

-----------------------------------------------------------------------------
(***************************************************************************)
(* The three records of the work in progress - the barriers, the runnable  *)
(* queue and the acknowledgement - agree in every reachable state of       *)
(* SubscriptionCoverage: WorkAccountedFor, for every value of its          *)
(* constants.                                                              *)
(*                                                                         *)
(* It is not inductive.  A rollback answers the call and forgets the       *)
(* transaction because a root that is not being recovered has none left    *)
(* once it is lost, and a barrier count survives a reset because a lost    *)
(* root is in progress only as a recovery: Owned says both.                *)
(***************************************************************************)

\* At most one transaction, which the call waits for; a recovery is the one a
\* lost root can have, and only a lost root has it.
Owned(s) ==
  /\ (s.ack = "awaiting") <=> Transacting(s)
  /\ s.update.phase # "none" => s.recon.phase = "none"
  /\ s.update.phase # "none" \/ s.recon.phase # "none" => ~s.lost
  /\ s.recov.phase # "none" => s.lost

\* The transaction holds a barrier of its own.
Holding(s) ==
  \/ s.update.phase \in {"removing", "scanning"}
  \/ s.recon.phase \in {"scanning", "sweeping"}
  \/ s.recov.phase = "scanning"

\* BarriersBalanced, of any subscription.
Balanced(s) ==
  \/ Frozen(s)
  \/ s.recov.phase \in {"removing", "cleaning"} \/ s.recov.unstable
  \/ s.barriers = s.jobs + (IF Holding(s) THEN 1 ELSE 0)

Working(s) == Owned(s) /\ Balanced(s)

\* NoLostWakeup, of any subscription.
Awake(s) ==
  (Runnable(s) /\ ~s.disposed /\ ~Frozen(s) /\ ~s.recov.unstable) => s.runnable

\* The fields the records of the work are kept in; queueing, marking and
\* flushing leave them alone.
SameWork(s, t) ==
  /\ t.update = s.update /\ t.jobs = s.jobs /\ t.barriers = s.barriers
  /\ t.lost = s.lost /\ t.ack = s.ack /\ t.runnable = s.runnable
  /\ t.disposed = s.disposed /\ t.exclGen = s.exclGen
  /\ t.selection = s.selection /\ t.policy = s.policy
  /\ t.identity = s.identity /\ t.interests = s.interests
  /\ t.recon.phase = s.recon.phase /\ t.recov.phase = s.recov.phase
  /\ t.recov.candidate = s.recov.candidate
  /\ t.recov.unstable = s.recov.unstable

LEMMA SameWorkWorks ==
  ASSUME NEW s, NEW t, SameWork(s, t)
  PROVE  /\ Owned(s) => Owned(t)
         /\ Working(s) => Working(t)
         /\ Awake(s) => Awake(t)
         /\ Runnable(t) <=> Runnable(s)
BY DEF SameWork, Working, Owned, Balanced, Awake, Transacting, Holding, Frozen,
       Runnable, RecoveryRunnable

----------------------------------------------------------------------------
(* Queueing, marking and flushing.                                         *)

LEMMA QueuePathsSameWork ==
  ASSUME NEW s, Typed(s), NEW ps
  PROVE  SameWork(s, QueuePaths(s, ps))
BY DEF QueuePaths, SameWork, Typed, Subscriptions

LEMMA MarkUncertainSameWork ==
  ASSUME NEW s, Typed(s), NEW reason \in Reasons
  PROVE  SameWork(s, MarkUncertain(s, reason))
<1> DEFINE noted == NoteLoss(s, reason)
           m == Marked(s, reason)
<1>1. Typed(noted) /\ SameWork(s, noted)
  <2>1. CASE reason = Backpressure
    BY <2>1, NoteLossTyped DEF NoteLoss, SameWork
  <2>2. CASE reason # Backpressure
    <3>1. SameWork(s, noted)
      BY <2>2 DEF NoteLoss, SameWork, Typed, Subscriptions
    <3> QED BY <3>1, NoteLossTyped
  <2> QED BY <2>1, <2>2
<1> HIDE DEF noted
<1>2. SameWork(noted, m)
  BY <1>1, ZenonT(60) DEF Marked, SameWork, Typed, Subscriptions, Recons, Recovs, noted
<1>3. Typed(m)
  BY MarkedTyped
<1> HIDE DEF m
<1>4. SameWork(m, QueuePaths(m, {Root}))
  BY <1>3, QueuePathsSameWork
<1> QED BY <1>1, <1>2, <1>4 DEF SameWork, MarkUncertain, QueuePath, m

LEMMA ClearPendingSameWork ==
  ASSUME NEW s, Typed(s)
  PROVE  SameWork(s, ClearPending(s))
BY DEF ClearPending, SameWork, Typed, Subscriptions

LEMMA AcceptSameWork ==
  ASSUME NEW s, Typed(s), NEW batch
  PROVE  SameWork(s, Accept(s, batch))
BY DEF Accept, SameWork, Typed, Subscriptions

LEMMA FlushSameWork ==
  ASSUME NEW s, Typed(s)
  PROVE  SameWork(s, Flush(s))
<1> DEFINE c == Collapse(s)
           e == ClearPending(c)
<1>1. Typed(c) /\ SameWork(s, c)
  BY MarkUncertainTyped, MarkUncertainSameWork DEF Collapse, Reasons, SameWork
<1> HIDE DEF c
<1>2. Typed(e) /\ SameWork(s, e)
  BY <1>1, ClearPendingTyped, ClearPendingSameWork DEF SameWork
<1> HIDE DEF e
<1>3. SameWork(s, MarkUncertain(e, Backpressure))
  BY <1>2, MarkUncertainSameWork DEF Reasons, SameWork
<1>4. \A batch : SameWork(s, Accept(e, batch))
  BY <1>2, AcceptSameWork DEF SameWork
<1>5. SameWork(s, s)
  BY DEF SameWork
<1> QED BY <1>3, <1>4, <1>5 DEF Flush, Flushed, c, e

LEMMA FlushIfSameWork ==
  ASSUME NEW s, Typed(s), NEW due
  PROVE  SameWork(s, FlushIf(s, due))
<1>1. SameWork(s, s)
  BY DEF SameWork
<1> QED BY <1>1, FlushSameWork DEF FlushIf

LEMMA QueueEventSameWork ==
  ASSUME NEW s, Typed(s), NEW p
  PROVE  SameWork(s, QueueEvent(s, p))
BY MarkUncertainSameWork, QueuePathsSameWork DEF QueueEvent, QueuePath, Reasons

----------------------------------------------------------------------------
(* Root loss.                                                              *)

\* Interrupting a transaction answers its call; a recovery only becomes unstable.
LEMMA DetachedWorks ==
  ASSUME NEW s, Typed(s), Owned(s)
  PROVE  LET t == Detached(s)
         IN  /\ Working(t) /\ t.lost /\ t.disposed = s.disposed
             /\ Frozen(t) \/ t.recov.unstable
             /\ t.ack \in {"failed", s.ack}
             /\ t.exclGen = s.exclGen
<1> DEFINE t == Detached(s)
<1>1. CASE s.recov.phase = "none"
  <2> DEFINE r == RolledBack(s)
  <2>1. /\ r.update.phase = "none" /\ r.recov = s.recov /\ r.ack = s.ack
        /\ r.exclGen = s.exclGen /\ r.disposed = s.disposed
        /\ r.recon = s.recon
    BY DEF RolledBack, NoUpdate, Typed, Subscriptions
  <2>2. Typed(r)
    BY <1>1, RolledBackTyped
  <2> HIDE DEF r
  <2>3. /\ t.update.phase = "none" /\ t.recov = s.recov /\ t.lost
        /\ t.recon = NoRecon /\ t.exclGen = s.exclGen
        /\ t.disposed = s.disposed
        /\ t.ack = IF Transacting(s) THEN "failed" ELSE s.ack
    BY <1>1, <2>1, <2>2 DEF Detached, Interrupted, Typed, Subscriptions, r
  <2> QED BY <1>1, <2>3 DEF Working, Owned, Balanced, Frozen, Transacting, NoRecon
<1>2. CASE s.recov.phase # "none"
  <2>1. /\ t.recov.phase = s.recov.phase /\ t.recov.unstable
        /\ t.update = s.update /\ t.recon = s.recon /\ t.ack = s.ack
        /\ t.lost /\ t.exclGen = s.exclGen /\ t.disposed = s.disposed
    BY <1>2 DEF Detached, Typed, Subscriptions, Recovs
  <2> QED BY <1>2, <2>1 DEF Working, Owned, Balanced, Transacting
<1> QED BY <1>1, <1>2

LEMMA MarkRootLostWorks ==
  ASSUME NEW s, Typed(s), Owned(s)
  PROVE  LET t == MarkRootLost(s)
         IN  /\ Working(t) /\ Awake(t) /\ t.lost
             /\ Frozen(t) \/ t.recov.unstable
             /\ t.ack \in {"failed", s.ack}
             /\ t.exclGen = s.exclGen
<1> DEFINE d == Detached(s)
           t == MarkRootLost(s)
<1>1. /\ Working(d) /\ d.lost
      /\ Frozen(d) \/ d.recov.unstable
      /\ d.ack \in {"failed", s.ack} /\ d.exclGen = s.exclGen
  BY DetachedWorks
<1>2. SameWork(d, t)
  BY DetachedTyped, MarkUncertainSameWork DEF MarkRootLost, Reasons
<1> HIDE DEF d, t
<1>3. Frozen(t) \/ t.recov.unstable
  BY <1>1, <1>2 DEF SameWork, Frozen
<1>4. Working(t)
  BY <1>1, <1>2, SameWorkWorks
<1>5. Awake(t)
  BY <1>3 DEF Awake
<1>6. t.lost /\ t.ack \in {"failed", s.ack} /\ t.exclGen = s.exclGen
  BY <1>1, <1>2 DEF SameWork
<1> QED BY <1>3, <1>4, <1>5, <1>6 DEF t

----------------------------------------------------------------------------
(* Exclusion replacement.                                                  *)

\* Every stage keeps the generation unless it commits, and only a commit says
\* "ok".
LEMMA UpdateStartWorks ==
  ASSUME NEW s, Typed(s), Working(s), NEW root
  PROVE  Working(UpdateStart(s, root))
<1> DEFINE f == Flush(s)
           e == Selected(f)
           ready == s.update.phase = "waiting" /\ Idle(s)
<1>1. Typed(f) /\ SameWork(s, f)
  BY FlushTyped, FlushSameWork
<1> HIDE DEF f
<1>2. Typed(e)
  BY <1>1, SelectedTyped
<1>3. /\ e.update.phase = "removing" /\ e.barriers = 1 /\ e.jobs = f.jobs
      /\ e.lost = f.lost /\ e.ack = f.ack
      /\ e.recon = f.recon /\ e.recov = f.recov
  BY <1>1 DEF Selected, ClearPending, Typed, Subscriptions, Updates
<1> HIDE DEF e
<1>4. ASSUME ready PROVE Working(e)
  BY <1>1, <1>3, <1>4 DEF SameWork, Working, Owned, Balanced, Transacting,
                          Holding, Frozen, Idle
<1>5. ASSUME ready PROVE Working(BoundaryDrop(e, f.pending # {}))
  <2>1. SameWork(e, MarkUncertain(e, Backpressure))
    BY <1>2, MarkUncertainSameWork DEF Reasons
  <2> QED BY <1>4, <1>5, <2>1, SameWorkWorks DEF BoundaryDrop
<1>6. Working(MarkRootLost(s))
  BY MarkRootLostWorks DEF Working
<1> QED BY <1>5, <1>6 DEF UpdateStart, f, e

LEMMA UpdateRemoveWorks ==
  ASSUME NEW s, Typed(s), Working(s), NEW more
  PROVE  Working(UpdateRemove(s, more))
<1> DEFINE t == UpdateRemove(s, more)
           n == Cardinality(Reincluded(s))
<1>1. CASE s.update.phase = "removing" /\ ~more
  <2>1. n \in Nat
    BY ReincludedTyped
  <2> HIDE DEF n
  <2>2. /\ t.update.phase = "scanning" /\ t.jobs = s.jobs + n
        /\ t.barriers = s.barriers + n
        /\ t.lost = s.lost /\ t.ack = s.ack
        /\ t.recon = s.recon /\ t.recov = s.recov
    BY <1>1 DEF UpdateRemove, Typed, Subscriptions, Updates, n
  <2>3. s.jobs \in Nat /\ s.barriers \in Nat
    BY DEF Typed, Subscriptions
  <2> HIDE DEF t
  <2>4. Owned(t)
    BY <1>1, <2>2 DEF Working, Owned, Transacting
  <2>5. Balanced(t)
    BY <1>1, <2>1, <2>2, <2>3 DEF Working, Balanced, Holding, Frozen
  <2> QED BY <2>4, <2>5 DEF Working, t
<1>2. CASE ~(s.update.phase = "removing" /\ ~more)
  BY <1>2 DEF UpdateRemove
<1> QED BY <1>1, <1>2

LEMMA UpdateCommitWorks ==
  ASSUME NEW s, Typed(s), Working(s), NEW root
  PROVE  Working(UpdateCommit(s, root))
<1> DEFINE c == Committing(s)
           ready == s.update.phase = "scanning" /\ s.jobs = 0 /\ s.barriers = 1
<1>1. Typed(c)
  BY CommittingTyped
<1>2. /\ c.update.phase = "none" /\ c.jobs = s.jobs /\ c.ack = "ok"
      /\ c.barriers = Monus(s.barriers, 1) /\ c.lost = s.lost
      /\ c.recon = s.recon /\ c.recov = s.recov
  BY DEF Committing, NoUpdate, Typed, Subscriptions
<1> HIDE DEF c
<1>3. ASSUME ready PROVE Working(c)
  BY <1>2, <1>3 DEF Working, Owned, Balanced, Transacting, Holding, Frozen, Monus
<1>4. SameWork(c, QueuePaths(c, Reincluded(s)))
  BY <1>1, QueuePathsSameWork
<1>5. ASSUME ready PROVE Working(QueuePaths(c, Reincluded(s)))
  BY <1>3, <1>4, <1>5, SameWorkWorks
<1>6. Working(MarkRootLost(s))
  BY MarkRootLostWorks DEF Working
<1> QED BY <1>5, <1>6 DEF UpdateCommit, c

LEMMA ProgressUpdateWorks ==
  ASSUME NEW s, Typed(s), Working(s), NEW root, NEW more
  PROVE  Working(ProgressUpdate(s, root, more))
BY UpdateStartTyped, UpdateRemoveTyped, UpdateStartWorks, UpdateRemoveWorks,
   UpdateCommitWorks DEF ProgressUpdate

----------------------------------------------------------------------------
(* Reconciliation.                                                         *)

LEMMA ReconStartWorks ==
  ASSUME NEW s, Typed(s), Working(s), NEW root
  PROVE  Working(ReconStart(s, root))
<1> DEFINE f == Flush(s)
           t == Traversing(f)
           ready == s.recon.phase = "waiting" /\ Idle(s)
<1>1. Typed(f) /\ SameWork(s, f)
  BY FlushTyped, FlushSameWork
<1> HIDE DEF f
<1>2. /\ t.recon.phase = "scanning" /\ t.barriers = 2 /\ t.jobs = f.jobs + 1
      /\ t.lost = f.lost /\ t.ack = f.ack
      /\ t.update = f.update /\ t.recov = f.recov
  BY <1>1 DEF Traversing, ClearPending, Typed, Subscriptions
<1> HIDE DEF t
<1>3. ASSUME ready PROVE Working(t)
  BY <1>1, <1>2, <1>3 DEF SameWork, Working, Owned, Balanced, Transacting,
                          Holding, Frozen, Idle
<1>4. Typed(ClearPending(f)) /\ Owned(ClearPending(f))
  BY <1>1, ClearPendingTyped, ClearPendingSameWork, SameWorkWorks DEF Working
<1>5. Working(MarkRootLost(ClearPending(f)))
  BY <1>4, MarkRootLostWorks
<1> QED BY <1>3, <1>5 DEF ReconStart, f, t

LEMMA ReconScannedWorks ==
  ASSUME NEW s, Typed(s), Working(s)
  PROVE  Working(ReconScanned(s))
<1> DEFINE t == ReconScanned(s)
<1>1. /\ t.update = s.update /\ t.jobs = s.jobs /\ t.barriers = s.barriers
      /\ t.lost = s.lost /\ t.ack = s.ack /\ t.recov = s.recov
      /\ \/ t.recon.phase = s.recon.phase
         \/ s.recon.phase = "scanning" /\ t.recon.phase = "sweeping"
  BY DEF ReconScanned, Typed, Subscriptions, Recons
<1> HIDE DEF t
<1> QED BY <1>1 DEF Working, Owned, Balanced, Transacting, Holding, Frozen, t

\* However a sweep ends - sent, refused, or without its root - it gives its
\* barrier back with the answer.
LEMMA ReconCommitWorks ==
  ASSUME NEW s, Typed(s), Working(s), s.recon.phase = "sweeping", NEW root
  PROVE  Working(ReconCommit(s, root))
<1> DEFINE Ended(t) ==
             /\ t.recon.phase = "none" /\ t.jobs = s.jobs
             /\ t.barriers = Monus(s.barriers, 1) /\ t.lost = s.lost
             /\ t.ack \in {"ok", "failed"}
             /\ t.update = s.update /\ t.recov = s.recov
<1>1. \A t : Ended(t) => Working(t)
  <2>1. s.jobs \in Nat /\ s.barriers \in Nat
    BY DEF Typed, Subscriptions
  <2> QED BY <2>1 DEF Working, Owned, Balanced, Transacting, Holding, Frozen, Monus
<1>2. ASSUME root # s.identity PROVE Working(ReconCommit(s, root))
  <2> DEFINE b == Monus(s.barriers, 1)
             t == [s EXCEPT !.barriers = b]
  <2>1. b \in Nat
    BY MonusTyped DEF Typed, Subscriptions
  <2> HIDE DEF b
  <2>2. Typed(t)
    BY <2>1 DEF Typed, CandidateCaptured, Subscriptions
  <2>3. Owned(t)
    BY DEF Working, Owned, Transacting, Typed, Subscriptions
  <2> HIDE DEF t
  <2>4. Working(MarkRootLost(t))
    BY <2>2, <2>3, MarkRootLostWorks
  <2> QED BY <1>2, <2>4 DEF ReconCommit, b, t
<1>3. Working(ReconAccepted(s))
  <2> DEFINE c == ReconClosed(s)
  <2>1. Ended(c)
    BY DEF ReconClosed, ClearPending, NoRecon, Typed, Subscriptions
  <2>2. Typed(c)
    BY ReconClosedTyped
  <2> HIDE DEF c, Ended
  <2>3. \A batch : SameWork(c, Accept(c, batch))
    BY <2>2, AcceptSameWork
  <2> QED BY <1>1, <2>1, <2>3, SameWorkWorks DEF ReconAccepted, c
<1>4. Working(ReconRefused(s))
  <2> DEFINE c == ReconGivenUp(s)
             n == [c EXCEPT !.uncertain = Backpressure]
             m == MarkUncertain(c, Backpressure)
  <2>1. Ended(c)
    BY DEF ReconGivenUp, ClearPending, NoRecon, Typed, Subscriptions
  <2>2. Typed(c)
    BY ReconGivenUpTyped
  <2> HIDE DEF c, Ended
  <2>3. Working(c)
    BY <1>1, <2>1
  <2>4. Typed(n) /\ SameWork(c, n)
    BY <2>2 DEF Typed, CandidateCaptured, Subscriptions, SameWork, Reasons
  <2>5. Typed(m) /\ SameWork(c, m)
    BY <2>2, MarkUncertainTyped, MarkUncertainSameWork DEF Reasons
  <2> HIDE DEF n, m
  <2>6. /\ Working(n) /\ Working(m)
        /\ SameWork(n, QueuePaths(n, {Root})) /\ SameWork(m, QueuePaths(m, {Root}))
    BY <2>3, <2>4, <2>5, SameWorkWorks, QueuePathsSameWork
  <2>7. Working(QueuePaths(n, {Root})) /\ Working(QueuePaths(m, {Root}))
    BY <2>6, SameWorkWorks
  <2> QED BY <2>7 DEF ReconRefused, QueuePath, c, n, m
<1> QED BY <1>2, <1>3, <1>4 DEF ReconCommit

LEMMA ProgressReconciliationWorks ==
  ASSUME NEW s, Typed(s), Working(s), NEW root, NEW more
  PROVE  Working(ProgressReconciliation(s, root, more))
<1> DEFINE t == ReconScanned(ReconStart(s, root))
<1>1. Typed(t) /\ Working(t)
  BY ReconStartTyped, ReconScannedTyped, ReconStartWorks, ReconScannedWorks
<1> HIDE DEF t
<1> QED BY <1>1, ReconCommitWorks DEF ProgressReconciliation, ReconSweep, t

----------------------------------------------------------------------------
(* Root recovery.                                                          *)

LEMMA DrainWorks ==
  ASSUME NEW s, Typed(s), Owned(s), NEW more
  PROVE  LET t == Drain(s, more)
         IN  /\ Owned(t) /\ t.recov = s.recov /\ t.runnable = s.runnable
             /\ t.jobs = (IF more THEN s.jobs ELSE 0)
             /\ t.barriers = s.barriers
BY DEF Drain, Owned, Transacting, Typed, Subscriptions

LEMMA RecoveryFailedWorks ==
  ASSUME NEW s, Typed(s), Owned(s), s.recov.phase # "none"
  PROVE  Working(RecoveryFailed(s)) /\ Frozen(RecoveryFailed(s))
<1> DEFINE t == RecoveryFailed(s)
<1>1. /\ t.recov = NoRecov /\ t.ack = "failed" /\ t.lost = s.lost
      /\ t.update = s.update /\ t.recon = s.recon
  BY DEF RecoveryFailed, Typed, Subscriptions
<1> HIDE DEF t
<1> QED BY <1>1 DEF Working, Owned, Balanced, Transacting, Frozen, NoRecov, t

\* The drain took every job away, and nothing holds a barrier any more.
LEMMA CommitRecoveryWorks ==
  ASSUME NEW s, Typed(s), Owned(s), s.recov.phase # "none", s.jobs = 0
  PROVE  Working(CommitRecovery(s))
<1> DEFINE a == Attached(s)
<1>1. /\ a.recov = NoRecov /\ a.ack = "ok" /\ ~a.lost
      /\ a.barriers = 0 /\ a.jobs = s.jobs
      /\ a.update = s.update /\ a.recon = s.recon
  BY DEF Attached, ClearPending, Typed, Subscriptions
<1>2. Typed(a)
  BY AttachedTyped
<1> HIDE DEF a
<1>3. Working(a)
  BY <1>1 DEF Working, Owned, Balanced, Transacting, Holding, NoRecov
<1>4. /\ SameWork(a, MarkUncertain(a, Backpressure))
      /\ \A batch : SameWork(a, Accept(a, batch))
  BY <1>2, MarkUncertainSameWork, AcceptSameWork DEF Reasons
<1> QED BY <1>3, <1>4, SameWorkWorks DEF CommitRecovery, a

LEMMA AfterDrainWorks ==
  ASSUME NEW s, Typed(s), Owned(s), s.recov.phase # "none", s.jobs = 0,
         NEW root, NEW opened
  PROVE  Working(AfterDrain(s, root, opened))
<1> DEFINE c == CandidateScanning(s)
           m == MarkUncertain(s, TopologyRace)
<1>1. /\ c.recov.phase = "scanning" /\ c.barriers = 2 /\ c.jobs = 1
      /\ c.update = s.update /\ c.recon = s.recon
      /\ c.ack = s.ack /\ c.lost = s.lost
  BY DEF CandidateScanning, Typed, Subscriptions, Recovs
<1>2. Typed(c)
  BY CandidateScanningTyped
<1> HIDE DEF c
<1>3. Working(c)
  BY <1>1 DEF Working, Owned, Balanced, Transacting, Holding
<1>4. Working(MarkUncertain(c, TopologyRace))
  BY <1>2, <1>3, MarkUncertainSameWork, SameWorkWorks DEF Reasons
<1>5. Typed(m) /\ SameWork(s, m)
  BY MarkUncertainTyped, MarkUncertainSameWork DEF Reasons
<1> HIDE DEF m
<1>6. Owned(m) /\ m.recov.phase # "none"
  BY <1>5, SameWorkWorks DEF SameWork
<1>7. /\ Working(RecoveryFailed(s)) /\ Working(RecoveryFailed(m))
      /\ Working(CommitRecovery(s))
  BY <1>5, <1>6, RecoveryFailedWorks, CommitRecoveryWorks
<1> QED BY <1>3, <1>4, <1>7 DEF AfterDrain, c, m

\* A recovery that drains or fails counts no barriers; whichever stage it
\* leaves, it leaves them balanced or not counted.
LEMMA RecoveryDrainWorks ==
  ASSUME NEW s, Typed(s), Owned(s), s.recov.phase \in {"removing", "cleaning"},
         NEW root, NEW more, NEW opened
  PROVE  Working(RecoveryDrain(s, root, more, opened))
<1> DEFINE d == Drain(s, more)
<1>1. Typed(d) /\ Owned(d) /\ d.recov = s.recov /\ (~more => d.jobs = 0)
  BY DrainTyped, DrainWorks
<1> HIDE DEF d
<1>2. Balanced(d)
  BY <1>1 DEF Balanced
<1>3. Working(RecoveryFailed(d))
  BY <1>1, RecoveryFailedWorks
<1>4. ~more => Working(AfterDrain(d, root, opened))
  BY <1>1, AfterDrainWorks
<1> QED BY <1>1, <1>2, <1>3, <1>4 DEF RecoveryDrain, Working, d

LEMMA RecoveryScannedWorks ==
  ASSUME NEW s, Typed(s), Owned(s), s.recov.phase = "scanning", s.jobs = 0,
         NEW root
  PROVE  Working(RecoveryScanned(s, root))
<1> DEFINE t == [s EXCEPT !.barriers = 1, !.recov.phase = "cleaning"]
<1>1. /\ t.recov.phase = "cleaning"
      /\ t.update = s.update /\ t.recon = s.recon
      /\ t.ack = s.ack /\ t.lost = s.lost
  BY DEF Typed, Subscriptions, Recovs
<1> HIDE DEF t
<1>2. Working(t)
  BY <1>1 DEF Working, Owned, Balanced, Transacting
<1>3. Working(CommitRecovery(s))
  BY CommitRecoveryWorks
<1> QED BY <1>2, <1>3 DEF RecoveryScanned, t

LEMMA ProgressRecoveryWorks ==
  ASSUME NEW s, Typed(s), Working(s), NEW root, NEW more, NEW opened
  PROVE  Working(ProgressRecovery(s, root, more, opened))
BY RecoveryDrainWorks, RecoveryScannedWorks DEF ProgressRecovery, Working

----------------------------------------------------------------------------
(* Scheduling and events.                                                  *)

LEMMA ScheduleWorks ==
  ASSUME NEW s, Typed(s), Working(s), NEW when \in BOOLEAN
  PROVE  Working(Schedule(s, when))
BY DEF Working, Owned, Balanced, Transacting, Holding, Frozen, Schedule, Typed,
       Subscriptions

\* A handler that schedules what is runnable leaves nothing behind.
LEMMA ScheduleRunnableAwake ==
  ASSUME NEW s, Typed(s)
  PROVE  Awake(Schedule(s, Runnable(s)))
<1> DEFINE t == Schedule(s, Runnable(s))
<1>1. /\ t.runnable = (s.runnable \/ Runnable(s))
      /\ t.jobs = s.jobs /\ t.update = s.update /\ t.recon = s.recon
      /\ t.recov = s.recov /\ t.barriers = s.barriers
  BY DEF Schedule, Typed, Subscriptions
<1> HIDE DEF t
<1>2. Runnable(t) = Runnable(s)
  BY <1>1 DEF Runnable, RecoveryRunnable
<1> QED BY <1>1, <1>2 DEF Awake, t

LEMMA ScheduleAwake ==
  ASSUME NEW s, Typed(s), Awake(s), NEW when \in BOOLEAN
  PROVE  Awake(Schedule(s, when))
<1> DEFINE t == Schedule(s, when)
<1>1. /\ t.runnable = (s.runnable \/ when) /\ t.disposed = s.disposed
      /\ t.jobs = s.jobs /\ t.update = s.update /\ t.recon = s.recon
      /\ t.recov = s.recov /\ t.barriers = s.barriers /\ t.lost = s.lost
  BY DEF Schedule, Typed, Subscriptions
<1> HIDE DEF t
<1>2. Runnable(t) = Runnable(s) /\ Frozen(t) = Frozen(s)
  BY <1>1 DEF Runnable, RecoveryRunnable, Frozen
<1> QED BY <1>1, <1>2 DEF Awake, t

LEMMA AddJobWorks ==
  ASSUME NEW s, Typed(s), Working(s)
  PROVE  Working(AddJob(s)) /\ Awake(AddJob(s))
<1> DEFINE t == AddJob(s)
<1>1. /\ t.update = s.update /\ t.recov = s.recov
      /\ t.jobs = s.jobs + 1 /\ t.barriers = s.barriers + 1
      /\ t.lost = s.lost /\ t.ack = s.ack /\ t.runnable = TRUE
      /\ t.recon.phase = IF s.recon.phase \in {"none", "waiting"}
                         THEN s.recon.phase ELSE "scanning"
  BY DEF AddJob, Typed, Subscriptions, Recons
<1>2. s.jobs \in Nat /\ s.barriers \in Nat
  BY DEF Typed, Subscriptions
<1>3. s.recon.phase \in {"none", "waiting", "scanning", "sweeping"}
  BY DEF Typed, Subscriptions, Recons
<1> HIDE DEF t
<1>4. Owned(t)
  BY <1>1, <1>3 DEF Working, Owned, Transacting
<1>5. Balanced(t)
  BY <1>1, <1>2, <1>3 DEF Working, Balanced, Holding, Frozen
<1> QED BY <1>1, <1>4, <1>5 DEF Working, Awake, t

LEMMA OwingTyped ==
  ASSUME NEW s, Typed(s), NEW p \in Paths
  PROVE  LET t == [s EXCEPT !.owed = @ \cup {p}]
         IN  Typed(t) /\ SameWork(s, t)
<1> DEFINE owed == s.owed \cup {p}
<1>1. owed \in PathSets
  BY DEF Typed, Subscriptions, PathSets
<1> HIDE DEF owed
<1>2. Typed([s EXCEPT !.owed = owed])
  BY <1>1 DEF Typed, CandidateCaptured, Subscriptions, PathSets
<1>3. SameWork(s, [s EXCEPT !.owed = owed])
  BY DEF Typed, Subscriptions, SameWork
<1> QED BY <1>2, <1>3 DEF owed

LEMMA HandleEventWorks ==
  ASSUME NEW s, Typed(s), Working(s), Awake(s), NEW p \in Paths, NEW kind
  PROVE  LET t == HandleEvent(s, p, kind)
         IN  Working(t) /\ Awake(t)
<1> DEFINE owing == [s EXCEPT !.owed = @ \cup {p}]
           queued == QueueEvent(owing, p)
           grown == IF kind = "created" THEN AddJob(queued) ELSE queued
           flushed == FlushIf(grown, AtBound(grown))
<1>1. Typed(owing) /\ SameWork(s, owing)
  BY OwingTyped
<1> HIDE DEF owing
<1>2. Typed(queued) /\ SameWork(owing, queued)
  BY <1>1, QueueEventTyped, QueueEventSameWork
<1> HIDE DEF queued
<1>3. Working(queued) /\ Awake(queued)
  BY <1>1, <1>2, SameWorkWorks
<1>4. Typed(grown) /\ Working(grown) /\ Awake(grown)
  BY <1>2, <1>3, AddJobTyped, AddJobWorks
<1> HIDE DEF grown
<1>5. Typed(flushed) /\ Working(flushed) /\ Awake(flushed)
  BY <1>4, FlushIfTyped, FlushIfSameWork, SameWorkWorks
<1> HIDE DEF flushed
<1>6. grown.recov.unstable \in BOOLEAN
  BY <1>4, UnstableTyped
<1>7. /\ Working(Schedule(flushed, grown.recov.unstable))
      /\ Awake(Schedule(flushed, grown.recov.unstable))
  BY <1>5, <1>6, ScheduleWorks, ScheduleAwake
<1> QED BY <1>3, <1>7 DEF HandleEvent, owing, queued, grown, flushed

LEMMA HandleRootSelfWorks ==
  ASSUME NEW s, Typed(s), Working(s)
  PROVE  LET t == HandleRootSelf(s)
         IN  Working(t) /\ Awake(t)
<1> DEFINE e == [s EXCEPT !.rootEvents = @ \ {"self"}]
           gone == MarkRootLost(e)
           lost == QueueEvent(gone, Root)
           flushed == FlushIf(lost, AtBound(lost))
<1>1. Typed(e) /\ SameWork(s, e)
  <2> DEFINE events == s.rootEvents \ {"self"}
  <2>1. events \in SUBSET {"self", "ignored"}
    BY DEF Typed, Subscriptions
  <2> HIDE DEF events
  <2>2. /\ Typed([s EXCEPT !.rootEvents = events])
        /\ SameWork(s, [s EXCEPT !.rootEvents = events])
    BY <2>1 DEF Typed, CandidateCaptured, Subscriptions, SameWork
  <2> QED BY <2>2 DEF events
<1> HIDE DEF e
<1>2. Owned(e)
  BY <1>1, SameWorkWorks DEF Working
<1>3. Typed(gone) /\ Working(gone) /\ Awake(gone)
  BY <1>1, <1>2, MarkRootLostTyped, MarkRootLostWorks
<1> HIDE DEF gone
<1>4. Typed(lost) /\ Working(lost) /\ Awake(lost)
  BY <1>3, QueueEventTyped, QueueEventSameWork, SameWorkWorks
<1> HIDE DEF lost
<1>5. Typed(flushed) /\ Working(flushed) /\ Awake(flushed)
  BY <1>4, FlushIfTyped, FlushIfSameWork, SameWorkWorks
<1> HIDE DEF flushed
<1>6. Working(Schedule(flushed, TRUE)) /\ Awake(Schedule(flushed, TRUE))
  BY <1>5, ScheduleWorks, ScheduleAwake
<1> QED BY <1>4, <1>6 DEF HandleRootSelf, e, gone, lost, flushed

LEMMA HandleRootIgnoredWorks ==
  ASSUME NEW s, Typed(s), Working(s)
  PROVE  LET t == HandleRootIgnored(s)
         IN  Working(t) /\ Awake(t)
<1> DEFINE e == [s EXCEPT !.rootEvents = {}, !.interests = "noroot"]
           lost == MarkRootLost(e)
<1>1. Typed(e)
  BY DEF Typed, CandidateCaptured, Subscriptions
<1>2. Owned(e)
  BY DEF Working, Owned, Transacting, Typed, Subscriptions
<1> HIDE DEF e
<1>3. Typed(lost) /\ Working(lost) /\ Awake(lost)
  BY <1>1, <1>2, MarkRootLostTyped, MarkRootLostWorks
<1> HIDE DEF lost
<1>4. lost.recov.unstable \in BOOLEAN
  BY <1>3 DEF Typed, Subscriptions, Recovs
<1>5. /\ Working(Schedule(lost, lost.recov.unstable))
      /\ Awake(Schedule(lost, lost.recov.unstable))
  BY <1>3, <1>4, ScheduleWorks, ScheduleAwake
<1> QED BY <1>5 DEF HandleRootIgnored, e, lost

LEMMA PromotedWorks ==
  ASSUME NEW s, Typed(s), Working(s), NEW p \in Paths
  PROVE  Working(Promoted(s, p)) /\ Awake(Promoted(s, p))
<1> DEFINE owing == [s EXCEPT !.owed = @ \cup {p}]
           queued == QueuePaths(owing, {p})
           t == [queued EXCEPT !.jobs = @ + 1, !.barriers = @ + 1, !.runnable = TRUE]
<1>1. Typed(owing) /\ SameWork(s, owing)
  BY OwingTyped
<1> HIDE DEF owing
<1>2. Typed(queued) /\ SameWork(owing, queued)
  BY <1>1, QueuePathsTyped, QueuePathsSameWork DEF PathSets
<1> HIDE DEF queued
<1>3. Working(queued)
  BY <1>1, <1>2, SameWorkWorks
<1>4. /\ t.update = queued.update /\ t.recon = queued.recon
      /\ t.recov = queued.recov /\ t.lost = queued.lost
      /\ t.jobs = queued.jobs + 1 /\ t.barriers = queued.barriers + 1
      /\ t.ack = queued.ack /\ t.runnable = TRUE
  BY <1>2 DEF Typed, Subscriptions
<1>5. queued.jobs \in Nat /\ queued.barriers \in Nat
  BY <1>2 DEF Typed, Subscriptions
<1> HIDE DEF t
<1>6. Working(t) /\ Awake(t)
  BY <1>3, <1>4, <1>5 DEF Working, Owned, Balanced, Transacting, Holding, Frozen,
                          Awake
<1> QED BY <1>6 DEF Promoted, QueuePath, queued, owing, t

----------------------------------------------------------------------------
(* Topology turns and maintenance.                                         *)

\* A finished job takes its barrier with it.
LEMMA ScanJobsWorks ==
  ASSUME NEW s, Typed(s), Working(s), NEW finished \in 0..s.jobs,
         NEW deferred \in BOOLEAN, NEW race
  PROVE  Working(ScanJobs(s, finished, deferred, race))
<1> DEFINE t == [s EXCEPT !.jobs = @ - finished,
                          !.barriers = Monus(@, finished),
                          !.deferred = deferred]
<1>1. /\ t.update = s.update /\ t.recon = s.recon /\ t.recov = s.recov
      /\ t.lost = s.lost /\ t.ack = s.ack
      /\ t.jobs = s.jobs - finished /\ t.barriers = Monus(s.barriers, finished)
  BY DEF Typed, Subscriptions
<1>2. Typed(t)
  <2>1. Typed(ScanJobs(s, finished, deferred, FALSE))
    BY ScanJobsTyped
  <2> QED BY <2>1 DEF ScanJobs
<1>3. s.jobs \in Nat /\ s.barriers \in Nat
  BY DEF Typed, Subscriptions
<1> HIDE DEF t
<1>4. Working(t)
  BY <1>1, <1>3 DEF Working, Owned, Balanced, Transacting, Holding, Frozen, Monus
<1>5. Working(MarkUncertain(t, TopologyRace))
  BY <1>2, <1>4, MarkUncertainSameWork, SameWorkWorks DEF Reasons
<1> QED BY <1>4, <1>5 DEF ScanJobs, t

\* The turn that finds its recovery unstable drains what it can and fails it.
LEMMA FailingTurnWorks ==
  ASSUME NEW s, Typed(s), Owned(s), s.recov.phase = "cleaning", s.recov.unstable,
         NEW root, NEW more, NEW opened
  PROVE  LET t == ProgressRecovery(s, root, more, opened)
         IN  Working(t) /\ Awake(t)
<1> DEFINE d == Drain(s, more)
<1>1. Typed(d) /\ Owned(d) /\ d.recov = s.recov
  BY DrainTyped, DrainWorks
<1> HIDE DEF d
<1>2. Working(d) /\ Awake(d)
  BY <1>1 DEF Working, Balanced, Awake
<1>3. Working(RecoveryFailed(d)) /\ Frozen(RecoveryFailed(d))
  BY <1>1, RecoveryFailedWorks
<1>4. Awake(RecoveryFailed(d))
  BY <1>3 DEF Awake
<1> QED BY <1>2, <1>3, <1>4 DEF ProgressRecovery, RecoveryDrain, d

LEMMA TopologyTurnWorks ==
  ASSUME NEW s, Typed(s), Working(s), NEW root, NEW finished \in 0..s.jobs,
         NEW deferred \in BOOLEAN, NEW race, NEW more, NEW opened
  PROVE  LET t == TopologyTurn(s, root, finished, deferred, race, more, opened)
         IN  Working(t) /\ Awake(t)
<1> DEFINE popped == [s EXCEPT !.runnable = FALSE]
           failing == [popped EXCEPT !.barriers = 1, !.recov.phase = "cleaning"]
           scanned == ScanJobs(popped, finished, deferred, race)
           updated == ProgressUpdate(scanned, root, more)
           reconciled == ProgressReconciliation(updated, root, more)
           done == ProgressRecovery(reconciled, root, more, opened)
           failed == ProgressRecovery(failing, root, more, opened)
<1>1. Typed(popped) /\ popped.jobs = s.jobs
  BY DEF Typed, CandidateCaptured, Subscriptions
<1>2. Working(popped) /\ (Frozen(s) => Frozen(popped))
  BY DEF Working, Owned, Balanced, Transacting, Holding, Frozen, Typed,
         Subscriptions
<1>3. ASSUME s.recov.unstable PROVE Working(failed) /\ Awake(failed)
  <2>1. s.recov.phase # "none"
    BY <1>3 DEF Typed, CandidateCaptured
  <2>2. /\ failing.recov.phase = "cleaning" /\ failing.recov.unstable
        /\ failing.update = s.update /\ failing.recon = s.recon
        /\ failing.ack = s.ack /\ failing.lost = s.lost
    BY <1>3 DEF Typed, Subscriptions, Recovs
  <2>3. Typed(failing)
    BY <2>1, FailingTyped
  <2> HIDE DEF failing
  <2>4. Owned(failing)
    BY <2>1, <2>2 DEF Working, Owned, Transacting
  <2> QED BY <2>2, <2>3, <2>4, FailingTurnWorks
<1>4. ASSUME Frozen(s) PROVE Awake(popped)
  BY <1>2, <1>4 DEF Awake
<1> HIDE DEF popped, failed
<1>5. Typed(scanned) /\ Working(scanned)
  BY <1>1, <1>2, ScanJobsTyped, ScanJobsWorks
<1> HIDE DEF scanned
<1>6. Typed(updated) /\ Working(updated)
  BY <1>5, ProgressUpdateTyped, ProgressUpdateWorks
<1> HIDE DEF updated
<1>7. Typed(reconciled) /\ Working(reconciled)
  BY <1>6, ProgressReconciliationTyped, ProgressReconciliationWorks
<1> HIDE DEF reconciled
<1>8. Typed(done) /\ Working(done)
  BY <1>7, ProgressRecoveryTyped, ProgressRecoveryWorks
<1> HIDE DEF done
<1>9. /\ Working(Schedule(done, Runnable(done)))
      /\ Awake(Schedule(done, Runnable(done)))
  BY <1>8, ScheduleWorks, ScheduleRunnableAwake, RunnableTyped
<1> QED BY <1>2, <1>3, <1>4, <1>9
        DEF TopologyTurn, popped, failing, failed, scanned, updated, reconciled, done

LEMMA MaintainWorks ==
  ASSUME NEW s, Typed(s), Working(s), Awake(s), NEW root, NEW checkDue,
         NEW windowElapsed
  PROVE  LET t == Maintain(s, root, checkDue, windowElapsed)
         IN  Working(t) /\ Awake(t)
<1> DEFINE e == [s EXCEPT !.armed = FALSE]
           c == Checked(s, root, checkDue)
           w == Swept(c, windowElapsed)
<1>1. Typed(e) /\ SameWork(s, e)
  BY DEF Typed, CandidateCaptured, Subscriptions, SameWork
<1> HIDE DEF e
<1>2. Owned(e)
  BY <1>1, SameWorkWorks DEF Working
<1>3. /\ Typed(MarkRootLost(e)) /\ Working(MarkRootLost(e))
      /\ Awake(MarkRootLost(e))
  BY <1>1, <1>2, MarkRootLostTyped, MarkRootLostWorks
<1>4. Typed(c) /\ Working(c) /\ Awake(c)
  BY <1>3 DEF Checked, e
<1> HIDE DEF c
<1>5. Typed(w) /\ Working(w) /\ Awake(w)
  BY <1>4, FlushIfTyped, FlushIfSameWork, SameWorkWorks DEF Swept
<1> HIDE DEF w
<1>6. /\ Working(Schedule(w, w.recov.unstable))
      /\ Awake(Schedule(w, w.recov.unstable))
  BY <1>5, ScheduleWorks, ScheduleAwake, UnstableTyped
<1> QED BY <1>6 DEF Maintain, c, w

----------------------------------------------------------------------------
(* The actions.                                                            *)

LEMMA InitWorks == Init => Working(sub) /\ Awake(sub)
BY DEF Init, Working, Owned, Balanced, Transacting, Holding, Frozen, Awake,
       Runnable, RecoveryRunnable, NoUpdate, NoRecon, NoRecov

LEMMA ReplaceExclusionsWorks ==
  ASSUME Typed(sub), Working(sub), NEW g \in 1..MaxGeneration,
         NEW policy \in Policies, NEW more, ReplaceExclusions(g, policy, more)
  PROVE  Working(sub') /\ Awake(sub')
<1> DEFINE update == [phase |-> "waiting", gen |-> g, policy |-> policy,
                      prev |-> sub.policy]
           asked == [sub EXCEPT !.update = update, !.ack = "awaiting"]
           done == ProgressUpdate(asked, fsRoot, more)
<1>1. update \in Updates /\ update.phase = "waiting"
  <2>1. g \in 0..MaxGeneration /\ sub.policy \in Policies
    BY BoundsAssumption DEF Typed, Subscriptions
  <2> QED BY <2>1 DEF Updates
<1> HIDE DEF update
<1>2. Typed(asked)
  BY <1>1 DEF Typed, CandidateCaptured, Subscriptions
<1>3. /\ asked.update.phase = "waiting" /\ asked.ack = "awaiting"
      /\ asked.jobs = sub.jobs /\ asked.barriers = sub.barriers
      /\ asked.lost = sub.lost /\ asked.recon = sub.recon
      /\ asked.recov = sub.recov
  BY <1>1 DEF Typed, Subscriptions
<1>4. sub.ack = "idle" /\ ~sub.lost
  BY DEF ReplaceExclusions
<1> HIDE DEF asked
<1>5. Working(asked)
  BY <1>3, <1>4 DEF Working, Owned, Balanced, Transacting, Holding, Frozen
<1>6. Typed(done) /\ Working(done)
  BY <1>2, <1>5, ProgressUpdateTyped, ProgressUpdateWorks
<1> HIDE DEF done
<1>7. /\ Working(Schedule(done, Runnable(done)))
      /\ Awake(Schedule(done, Runnable(done)))
  BY <1>6, ScheduleWorks, ScheduleRunnableAwake, RunnableTyped
<1> QED BY <1>7 DEF ReplaceExclusions, update, asked, done

LEMMA ReconcileWorks ==
  ASSUME Typed(sub), Working(sub), Reconcile
  PROVE  Working(sub') /\ Awake(sub')
<1> DEFINE recon == [sub.recon EXCEPT !.phase = "waiting"]
           asked == [sub EXCEPT !.recon = recon, !.ack = "awaiting"]
           done == ProgressReconciliation(asked, fsRoot, FALSE)
<1>1. recon \in Recons /\ recon.phase = "waiting"
  BY DEF Typed, Subscriptions, Recons
<1> HIDE DEF recon
<1>2. Typed(asked)
  BY <1>1 DEF Typed, CandidateCaptured, Subscriptions
<1>3. /\ asked.recon.phase = "waiting" /\ asked.ack = "awaiting"
      /\ asked.jobs = sub.jobs /\ asked.barriers = sub.barriers
      /\ asked.lost = sub.lost /\ asked.update = sub.update
      /\ asked.recov = sub.recov
  BY <1>1 DEF Typed, Subscriptions
<1>4. sub.ack = "idle" /\ ~sub.lost
  BY DEF Reconcile
<1> HIDE DEF asked
<1>5. Working(asked)
  BY <1>3, <1>4 DEF Working, Owned, Balanced, Transacting, Holding, Frozen
<1>6. Typed(done) /\ Working(done)
  BY <1>2, <1>5, ProgressReconciliationTyped, ProgressReconciliationWorks
<1> HIDE DEF done
<1>7. /\ Working(Schedule(done, Runnable(done)))
      /\ Awake(Schedule(done, Runnable(done)))
  BY <1>6, ScheduleWorks, ScheduleRunnableAwake, RunnableTyped
<1> QED BY <1>7 DEF Reconcile, recon, asked, done

\* The subscription as RecoverRoot hands it to its first stage.
RecoveryAsked(s, root) ==
  [ClearPending(Flush(s)) EXCEPT
     !.barriers = 1,
     !.ack = "awaiting",
     !.gap = IF @ = "none" THEN @ ELSE "old",
     !.recov = [phase |-> "removing", candidate |-> root,
                reason |-> ClearPending(Flush(s)).uncertain, quiet |-> TRUE,
                later |-> NoReason, unstable |-> FALSE]]

LEMMA RecoveryAskedTyped ==
  ASSUME NEW s, Typed(s), NEW root \in Identities
  PROVE  Typed(ClearPending(Flush(s))) /\ Typed(RecoveryAsked(s, root))
<1> DEFINE f == ClearPending(Flush(s))
           gap == IF f.gap = "none" THEN f.gap ELSE "old"
           recov == [phase |-> "removing", candidate |-> root,
                     reason |-> f.uncertain, quiet |-> TRUE,
                     later |-> NoReason, unstable |-> FALSE]
           t == [f EXCEPT !.barriers = 1, !.ack = "awaiting", !.gap = gap,
                          !.recov = recov]
<1>1. Typed(f)
  BY FlushTyped, ClearPendingTyped
<1>2. t = RecoveryAsked(s, root)
  BY DEF RecoveryAsked, f
<1> HIDE DEF f
<1>3. gap \in {"none", "old", "new"} /\ f.uncertain \in Reasons \cup {NoReason}
  BY <1>1 DEF Typed, Subscriptions
<1>4. /\ recov \in Recovs /\ recov.candidate \in Identities
      /\ recov.phase # "none"
  BY <1>3 DEF Recovs
<1> HIDE DEF gap, recov
<1>5. Typed(t)
  BY <1>1, <1>3, <1>4, ZenonT(60) DEF Typed, CandidateCaptured, Subscriptions
<1> HIDE DEF t
<1> QED BY <1>1, <1>2, <1>5 DEF f

LEMMA RecoveryAskedIs ==
  ASSUME NEW s, Typed(s), NEW root \in Identities,
         NEW f, f = ClearPending(Flush(s)), NEW t, t = RecoveryAsked(s, root)
  PROVE  /\ t.recov.phase = "removing" /\ t.recov.candidate = root
         /\ t.recov.reason = f.uncertain /\ t.recov.quiet
         /\ t.recov.later = NoReason /\ ~t.recov.unstable
         /\ t.uncertain = f.uncertain /\ t.pending = {} /\ t.out = f.out
         /\ t.gap = (IF f.gap = "none" THEN "none" ELSE "old")
         /\ t.ack = "awaiting" /\ t.owed = f.owed /\ t.recon = f.recon
         /\ t.pendingGen = Unselected /\ t.exclGen = f.exclGen
         /\ t.selection = f.selection /\ t.update = f.update
         /\ t.lost = f.lost /\ t.policy = f.policy
<1>1. f.pending = {} /\ f.pendingGen = Unselected
  BY FlushTyped DEF ClearPending, Typed, Subscriptions
<1>2. Typed(f)
  BY RecoveryAskedTyped
<1> DEFINE gap == IF f.gap = "none" THEN f.gap ELSE "old"
           recov == [phase |-> "removing", candidate |-> root,
                     reason |-> f.uncertain, quiet |-> TRUE,
                     later |-> NoReason, unstable |-> FALSE]
<1>3. t = [f EXCEPT !.barriers = 1, !.ack = "awaiting", !.gap = gap,
                    !.recov = recov]
  BY DEF RecoveryAsked
<1>4. /\ recov.phase = "removing" /\ recov.candidate = root
      /\ recov.reason = f.uncertain /\ recov.quiet
      /\ recov.later = NoReason /\ ~recov.unstable
  OBVIOUS
<1> HIDE DEF gap, recov
<1>5. /\ t.recov = recov /\ t.uncertain = f.uncertain /\ t.pending = f.pending
      /\ t.out = f.out /\ t.gap = gap /\ t.ack = "awaiting"
      /\ t.owed = f.owed /\ t.recon = f.recon /\ t.pendingGen = f.pendingGen
      /\ t.exclGen = f.exclGen /\ t.selection = f.selection
      /\ t.update = f.update /\ t.lost = f.lost /\ t.policy = f.policy
  BY <1>2, <1>3 DEF Typed, Subscriptions
<1> QED BY <1>1, <1>4, <1>5 DEF gap

LEMMA RecoverRootIs ==
  ASSUME IInv, NEW accept, NEW more, NEW opened, RecoverRoot(accept, more, opened)
  PROVE  /\ fsRoot \in Identities /\ sub.ack = "idle" /\ sub.lost /\ ~sub.disposed
         /\ LET done == ProgressRecovery(RecoveryAsked(sub, fsRoot), fsRoot, more,
                                         opened)
            IN  sub' = Schedule(done, Runnable(done))
BY DEF RecoverRoot, CandidateAccepted, RecoveryAsked, IInv

LEMMA RecoveryAskedWorks ==
  ASSUME NEW s, Typed(s), Owned(s), s.ack = "idle", s.lost, NEW root \in Identities
  PROVE  Working(RecoveryAsked(s, root))
<1> DEFINE g == Flush(s)
           f == ClearPending(g)
           asked == RecoveryAsked(s, root)
<1>1. /\ asked.recov.phase = "removing" /\ asked.ack = "awaiting"
      /\ asked.lost = f.lost
      /\ asked.update = f.update /\ asked.recon = f.recon
  BY RecoveryAskedIs
<1>2. Typed(g) /\ SameWork(s, g)
  BY FlushTyped, FlushSameWork
<1> HIDE DEF g, asked
<1>3. SameWork(g, f)
  BY <1>2, ClearPendingSameWork
<1> HIDE DEF f
<1>4. Working(asked)
  BY <1>1, <1>2, <1>3 DEF SameWork, Working, Owned, Balanced, Transacting
<1> QED BY <1>4 DEF asked

LEMMA RecoverRootWorks ==
  ASSUME IInv, Working(sub), NEW accept, NEW more, NEW opened,
         RecoverRoot(accept, more, opened)
  PROVE  Working(sub') /\ Awake(sub')
<1> DEFINE asked == RecoveryAsked(sub, fsRoot)
           done == ProgressRecovery(asked, fsRoot, more, opened)
<1>1. /\ fsRoot \in Identities /\ sub.ack = "idle" /\ sub.lost
      /\ sub' = Schedule(done, Runnable(done))
  BY RecoverRootIs
<1>2. Typed(sub) /\ Owned(sub)
  BY DEF IInv, Working
<1>3. Typed(asked) /\ Working(asked)
  BY <1>1, <1>2, RecoveryAskedTyped, RecoveryAskedWorks
<1> HIDE DEF asked
<1>4. Typed(done) /\ Working(done)
  BY <1>3, ProgressRecoveryTyped, ProgressRecoveryWorks
<1> HIDE DEF done
<1>5. /\ Working(Schedule(done, Runnable(done)))
      /\ Awake(Schedule(done, Runnable(done)))
  BY <1>4, ScheduleWorks, ScheduleRunnableAwake, RunnableTyped
<1> QED BY <1>1, <1>5

LEMMA EventWorks ==
  ASSUME Typed(sub), Working(sub), Awake(sub), NEW p \in Paths, NEW kind,
         Event(p, kind)
  PROVE  Working(sub') /\ Awake(sub')
<1>1. PICK deferred \in BOOLEAN :
        sub' = HandleEvent([sub EXCEPT !.deferred = deferred], p, kind)
  BY DEF Event
<1> DEFINE t == [sub EXCEPT !.deferred = deferred]
<1>2. Typed(t) /\ SameWork(sub, t)
  BY DEF Typed, CandidateCaptured, Subscriptions, SameWork
<1> HIDE DEF t
<1>3. Working(HandleEvent(t, p, kind)) /\ Awake(HandleEvent(t, p, kind))
  BY <1>2, SameWorkWorks, HandleEventWorks
<1> QED BY <1>1, <1>3 DEF t

LEMMA PromoteWorks ==
  ASSUME Typed(sub), Working(sub), Awake(sub), NEW p \in Paths,
         NEW opened \in Opened, NEW deferred \in BOOLEAN,
         Promote(p, opened, deferred)
  PROVE  Working(sub') /\ Awake(sub')
<1> DEFINE tried == [sub EXCEPT !.deferred = deferred]
           m == MarkUncertain(tried, TopologyRace)
<1>1. Typed(tried) /\ SameWork(sub, tried)
  BY DEF Typed, CandidateCaptured, Subscriptions, SameWork
<1> HIDE DEF tried
<1>2. Working(tried) /\ Awake(tried)
  BY <1>1, SameWorkWorks
<1>3. Typed(m) /\ SameWork(tried, m)
  BY <1>1, MarkUncertainTyped, MarkUncertainSameWork DEF Reasons
<1> HIDE DEF m
<1>4. Working(m) /\ Awake(m)
  BY <1>2, <1>3, SameWorkWorks
<1>5. /\ Working(Promoted(tried, p)) /\ Awake(Promoted(tried, p))
      /\ Working(Promoted(m, p)) /\ Awake(Promoted(m, p))
  BY <1>1, <1>2, <1>3, <1>4, PromotedWorks
<1>6. sub' \in {tried, m, Promoted(tried, p), Promoted(m, p)}
  BY DEF Promote, Opened, tried, m
<1> QED BY <1>2, <1>4, <1>5, <1>6

LEMMA DisposeWorks ==
  ASSUME Typed(sub), Dispose
  PROVE  Working(sub') /\ Awake(sub')
<1> DEFINE c == ClearPending(sub)
<1>1. Typed(c) /\ c.ack = sub.ack
  BY ClearPendingTyped DEF ClearPending, Typed, Subscriptions
<1> HIDE DEF c
<1>2. /\ sub'.update = NoUpdate /\ sub'.recon = NoRecon /\ sub'.recov = NoRecov
      /\ sub'.barriers = 0 /\ sub'.jobs = 0 /\ sub'.disposed
      /\ sub'.ack = IF sub.ack = "awaiting" THEN "failed" ELSE sub.ack
  BY <1>1 DEF Dispose, Typed, Subscriptions, c
<1> QED BY <1>2 DEF Working, Owned, Balanced, Transacting, Holding, Awake,
                    NoUpdate, NoRecon, NoRecov

LEMMA TakeReplyWorks ==
  ASSUME Typed(sub), Working(sub), Awake(sub), TakeReply
  PROVE  Working(sub') /\ Awake(sub')
<1>1. /\ sub'.update = sub.update /\ sub'.recon = sub.recon
      /\ sub'.recov = sub.recov /\ sub'.barriers = sub.barriers
      /\ sub'.jobs = sub.jobs /\ sub'.disposed = sub.disposed
      /\ sub'.lost = sub.lost /\ sub'.runnable = sub.runnable
      /\ sub'.ack = "idle" /\ sub.ack \in {"ok", "failed"}
  BY DEF TakeReply, Typed, Subscriptions
<1>2. Runnable(sub)' = Runnable(sub) /\ Frozen(sub)' = Frozen(sub)
  BY <1>1 DEF Runnable, RecoveryRunnable, Frozen
<1>3. Awake(sub')
  BY <1>1, <1>2 DEF Awake
<1>4. Working(sub')
  BY <1>1, <1>2 DEF Working, Owned, Balanced, Transacting, Holding
<1> QED BY <1>3, <1>4

----------------------------------------------------------------------------
(* The specification.                                                      *)

\* The inductive invariant.
WorkInv == IInv /\ Working(sub) /\ Awake(sub)

LEMMA NextWorks == WorkInv /\ [Next]_vars => WorkInv'
<1> SUFFICES ASSUME IInv, Working(sub), Awake(sub), [Next]_vars
             PROVE  Working(sub') /\ Awake(sub')
  BY NextTyped DEF WorkInv, Working, Owned, Balanced, Awake, Transacting, Holding,
                   Frozen, Runnable, RecoveryRunnable
<1>0. Typed(sub) /\ Owned(sub)
  BY DEF IInv, Working
<1>1. ASSUME NEW g \in 1..MaxGeneration, NEW policy \in Policies,
             NEW more \in BOOLEAN, ReplaceExclusions(g, policy, more)
      PROVE  Working(sub') /\ Awake(sub')
  BY <1>0, <1>1, ReplaceExclusionsWorks
<1>2. CASE Reconcile
  BY <1>0, <1>2, ReconcileWorks
<1>3. ASSUME NEW accept \in BOOLEAN, NEW more \in BOOLEAN, NEW opened \in Opened,
             RecoverRoot(accept, more, opened)
      PROVE  Working(sub') /\ Awake(sub')
  BY <1>3, RecoverRootWorks
<1>4. ASSUME NEW p \in Paths, NEW kind \in Kinds, Event(p, kind)
      PROVE  Working(sub') /\ Awake(sub')
  BY <1>0, <1>4, EventWorks
<1>5. CASE RootSelf
  BY <1>0, <1>5, HandleRootSelfWorks DEF RootSelf
<1>6. CASE RootIgnored
  BY <1>0, <1>6, HandleRootIgnoredWorks DEF RootIgnored
<1>7. ASSUME NEW reason \in {EventOverflow, TopologyRace}, Loss(reason)
      PROVE  Working(sub') /\ Awake(sub')
  BY <1>0, <1>7, MarkUncertainSameWork, SameWorkWorks DEF Loss, Reasons
<1>8. ASSUME NEW p \in Paths, NEW opened \in Opened, NEW deferred \in BOOLEAN,
             Promote(p, opened, deferred)
      PROVE  Working(sub') /\ Awake(sub')
  BY <1>0, <1>8, PromoteWorks
<1>9. ASSUME NEW finished \in 0..sub.jobs, NEW race \in BOOLEAN,
             NEW more \in BOOLEAN, NEW opened \in Opened,
             Turn(finished, race, more, opened)
      PROVE  Working(sub') /\ Awake(sub')
  BY <1>0, <1>9, TopologyTurnWorks DEF Turn
<1>10. ASSUME NEW checkDue \in BOOLEAN, NEW windowElapsed \in BOOLEAN,
              Maintenance(checkDue, windowElapsed)
       PROVE  Working(sub') /\ Awake(sub')
  BY <1>0, <1>10, MaintainWorks DEF Maintenance
<1>11. CASE Dispose
  BY <1>0, <1>11, DisposeWorks
<1>12. CASE Receive
  <2>1. SameWork(sub, sub')
    BY <1>0, <1>12 DEF Receive, SameWork, Typed, Subscriptions
  <2> QED BY <2>1, SameWorkWorks
<1>13. CASE TakeReply
  BY <1>0, <1>13, TakeReplyWorks
<1>14. ASSUME NEW identity \in Identities \cup {Missing},
              NEW records \in RootRecords, SwapRoot(identity, records)
       PROVE  Working(sub') /\ Awake(sub')
  <2>1. SameWork(sub, sub')
    BY <1>0, <1>14 DEF SwapRoot, SameWork, Typed, Subscriptions
  <2> QED BY <2>1, SameWorkWorks
<1>15. CASE UNCHANGED vars
  BY <1>15 DEF vars
<1> QED BY <1>1, <1>2, <1>3, <1>4, <1>5, <1>6, <1>7, <1>8, <1>9, <1>10, <1>11,
           <1>12, <1>13, <1>14, <1>15 DEF Next

LEMMA AlwaysWorks == Spec => []WorkInv
BY InitTyped, InitWorks, NextWorks, PTL DEF Spec, WorkInv

\* Two transactions never share the acknowledgement.
LEMMA AtMostOne ==
  ASSUME Working(sub)
  PROVE  Cardinality({t \in {"update", "recon", "recov"} :
                        sub[t].phase # "none"}) <= 1
<1> DEFINE S == {t \in {"update", "recon", "recov"} : sub[t].phase # "none"}
<1>1. PICK t \in {"update", "recon", "recov"} : S \subseteq {t}
  <2>1. CASE sub.update.phase # "none"
    BY <2>1 DEF Working, Owned
  <2>2. CASE sub.recon.phase # "none"
    BY <2>2 DEF Working, Owned
  <2>3. CASE sub.update.phase = "none" /\ sub.recon.phase = "none"
    BY <2>3
  <2> QED BY <2>1, <2>2, <2>3
<1> HIDE DEF S
<1>2. IsFiniteSet({t}) /\ Cardinality({t}) = 1
  BY FS_Singleton
<1>3. Cardinality(S) <= Cardinality({t})
  BY <1>1, <1>2, FS_Subset
<1> QED BY <1>2, <1>3 DEF S

\* Whatever the calls, events and losses: the barriers count the work in
\* progress, what can be done is scheduled, and exactly the call in progress is
\* waiting for its answer.
THEOREM WorkAgreed == Spec => []WorkAccountedFor
<1>1. ASSUME WorkInv PROVE WorkAccountedFor
  <2>1. BarriersBalanced
    BY <1>1 DEF WorkInv, Working, Balanced, Holding, BarriersBalanced
  <2>2. NoLostWakeup
    BY <1>1 DEF WorkInv, Awake, NoLostWakeup
  <2>3. OneTransactionOwnsTheCall
    BY <1>1, AtMostOne DEF WorkInv, Working, Owned, OneTransactionOwnsTheCall
  <2> QED BY <2>1, <2>2, <2>3 DEF WorkAccountedFor
<1> QED BY <1>1, AlwaysWorks, PTL

=============================================================================
