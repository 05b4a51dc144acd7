----------------------- MODULE CoverageTransactionProofs -----------------------
(***************************************************************************)
(* Theorems about what SubscriptionCoverage sends, for every value of its  *)
(* constants: its batches are honest (BatchesHonest), and the boundaries   *)
(* of its transactions are where they should be (ReconciliationBoundary,   *)
(* RecoveryBoundary, LossesReported).                                      *)
(*                                                                         *)
(* A batch carries the generation its paths were selected under, and that  *)
(* generation is committed only because nothing is flushed while the one   *)
(* being installed holds a barrier: Chosen, with the balance of the        *)
(* barriers (Balanced).  What is owed stays queued because it is covered   *)
(* path by path wherever no rebuild stands for it: Kept.                   *)
(***************************************************************************)
EXTENDS SubscriptionCoverageProofs

Installing(s) == s.update.phase \in {"removing", "scanning"}

\* Events are selected under the committed generation, or the newer one that an
\* update is installing.
Chosen(s) ==
  /\ s.update.phase # "none" => s.update.gen > s.exclGen
  /\ s.selection = IF Installing(s) THEN s.update.gen ELSE s.exclGen

\* What is queued was selected under the generation in force.
Selecting(s) == Chosen(s) /\ s.pendingGen \in {Unselected, s.selection}

\* The batches sent, and what a lost root has queued.
InOrder(s) ==
  /\ \A i \in 1..Len(s.out) :
       /\ s.out[i].gen <= s.exclGen
       /\ s.out[i].lost => s.out[i].paths = {Root}
  /\ \A i, j \in 1..Len(s.out) : i <= j => s.out[i].gen <= s.out[j].gen
RootOnly(s) == s.lost => s.pending \subseteq {Root}

Covered(s) == \A p \in s.owed : p \in s.pending \/ Root \in s.pending

\* A rebuild stands for what is owed, or the root is lost and not watched.
Exempt(s) ==
  \/ s.recon.phase \in {"scanning", "sweeping"}
  \/ s.recov.phase # "none"
  \/ s.lost /\ s.interests = "none"

Kept(s) == Covered(s) \/ Exempt(s)

Sending(s) == Selecting(s) /\ InOrder(s) /\ RootOnly(s) /\ Kept(s)

\* The fields sending is about.
SameQueue(s, t) ==
  /\ t.owed = s.owed /\ t.pending = s.pending /\ t.pendingGen = s.pendingGen
  /\ t.out = s.out /\ t.exclGen = s.exclGen /\ t.selection = s.selection
  /\ t.update = s.update /\ t.lost = s.lost /\ t.interests = s.interests
  /\ t.recon.phase = s.recon.phase /\ t.recov.phase = s.recov.phase

LEMMA SameQueueSends ==
  ASSUME NEW s, NEW t, Sending(s), SameQueue(s, t)
  PROVE  Sending(t)
BY DEF SameQueue, Sending, Selecting, Chosen, Installing, InOrder, RootOnly, Kept,
       Covered, Exempt

----------------------------------------------------------------------------
(* Queueing, marking and flushing.                                         *)

LEMMA QueuePathsQueues ==
  ASSUME NEW s, Typed(s), NEW ps \in PathSets, ps # {}
  PROVE  LET t == QueuePaths(s, ps)
         IN  /\ t.pendingGen = s.selection /\ t.out = s.out /\ t.owed = s.owed
             /\ Root \in ps => t.pending = {Root}
             /\ ps \subseteq t.pending \/ Root \in t.pending
             /\ s.pending \subseteq t.pending \/ Root \in t.pending
BY DEF QueuePaths, Typed, Subscriptions

\* What is owed may be queued by this very call.
LEMMA QueuePathsSends ==
  ASSUME NEW s, Typed(s), Selecting(s), InOrder(s), RootOnly(s),
         NEW ps \in PathSets, s.lost => ps \subseteq {Root},
         \/ Exempt(s)
         \/ \A p \in s.owed : p \in s.pending \cup ps \/ Root \in s.pending \cup ps
  PROVE  Sending(QueuePaths(s, ps))
<1> DEFINE t == QueuePaths(s, ps)
<1>1. CASE ps = {}
  BY <1>1 DEF QueuePaths, Sending, Kept, Covered
<1>2. CASE ps # {}
  <2>1. SameWork(s, t)
    BY QueuePathsSameWork
  <2>2. /\ t.pendingGen = s.selection /\ t.out = s.out /\ t.owed = s.owed
        /\ Root \in ps => t.pending = {Root}
        /\ ps \subseteq t.pending \/ Root \in t.pending
        /\ s.pending \subseteq t.pending \/ Root \in t.pending
    BY <1>2, QueuePathsQueues
  <2> HIDE DEF t
  <2>3. Selecting(t) /\ InOrder(t)
    BY <2>1, <2>2 DEF SameWork, Selecting, Chosen, Installing, InOrder
  <2>4. RootOnly(t)
    BY <1>2, <2>1, <2>2 DEF SameWork, RootOnly
  <2>5. Kept(t)
    BY <2>1, <2>2 DEF SameWork, Kept, Covered, Exempt
  <2> QED BY <2>3, <2>4, <2>5 DEF Sending, t
<1> QED BY <1>1, <1>2

\* A mark queues the root, which stands for everything.
LEMMA MarkUncertainSends ==
  ASSUME NEW s, Typed(s), Chosen(s), InOrder(s), NEW reason \in Reasons
  PROVE  LET t == MarkUncertain(s, reason)
         IN  Sending(t) /\ t.pending = {Root} /\ t.out = s.out
<1> DEFINE noted == NoteLoss(s, reason)
           m == Marked(s, reason)
           t == QueuePaths(m, {Root})
<1>1. m.out = s.out
  <2>1. CASE reason = Backpressure
    BY <2>1 DEF Marked, NoteLoss, Typed, Subscriptions
  <2>2. CASE reason # Backpressure
    BY <2>2 DEF Marked, NoteLoss, Typed, Subscriptions
  <2> QED BY <2>1, <2>2
<1>2. Typed(m)
  BY MarkedTyped
<1>3. SameWork(s, t)
  BY MarkUncertainSameWork DEF MarkUncertain, QueuePath
<1> HIDE DEF m
<1>4. /\ t.pendingGen = m.selection /\ t.out = m.out /\ t.pending = {Root}
      /\ t.selection = m.selection
  BY <1>2, QueuePathsQueues, QueuePathsSameWork DEF PathSets, SameWork
<1> HIDE DEF t
<1>5. Selecting(t) /\ InOrder(t)
  BY <1>1, <1>3, <1>4 DEF SameWork, Selecting, Chosen, Installing, InOrder
<1>6. RootOnly(t) /\ Kept(t)
  BY <1>4 DEF RootOnly, Kept, Covered
<1> QED BY <1>1, <1>4, <1>5, <1>6 DEF Sending, MarkUncertain, QueuePath, t, m

LEMMA ClearPendingQueue ==
  ASSUME NEW s, Typed(s)
  PROVE  LET t == ClearPending(s)
         IN  /\ t.pending = {} /\ t.pendingGen = Unselected
             /\ t.out = s.out /\ t.owed = s.owed
BY DEF ClearPending, Typed, Subscriptions

\* A batch of the committed generation goes behind all others.
LEMMA AcceptOrdered ==
  ASSUME NEW s, Typed(s), InOrder(s), NEW batch \in Batches,
         batch.gen = s.exclGen, batch.lost => batch.paths = {Root}
  PROVE  LET t == Accept(s, batch)
         IN  /\ InOrder(t) /\ t.pending = s.pending /\ t.pendingGen = s.pendingGen
             /\ t.owed = (IF Root \in batch.paths THEN {} ELSE s.owed \ batch.paths)
             /\ t.out = Append(s.out, batch)
<1> DEFINE t == Accept(s, batch)
<1>1. /\ t.pending = s.pending /\ t.exclGen = s.exclGen
      /\ t.pendingGen = s.pendingGen
      /\ t.owed = (IF Root \in batch.paths THEN {} ELSE s.owed \ batch.paths)
      /\ t.out = Append(s.out, batch)
  BY DEF Accept, Typed, Subscriptions
<1>2. s.out \in Seq(Batches) /\ s.exclGen \in Nat
  BY BoundsAssumption DEF Typed, Subscriptions
<1> HIDE DEF t
<1>3. /\ Len(t.out) = Len(s.out) + 1
      /\ \A i \in 1..Len(s.out) : t.out[i] = s.out[i]
      /\ t.out[Len(s.out) + 1] = batch
  BY <1>1, <1>2
<1>4. Len(s.out) \in Nat
  BY <1>2
<1>5. \A i \in 1..Len(t.out) :
        /\ t.out[i].gen <= t.exclGen
        /\ t.out[i].lost => t.out[i].paths = {Root}
  <2> TAKE i \in 1..Len(t.out)
  <2>1. CASE i = Len(s.out) + 1
    BY <1>1, <1>2, <1>3, <2>1
  <2>2. CASE i \in 1..Len(s.out)
    BY <1>1, <1>3, <2>2 DEF InOrder
  <2> QED BY <1>3, <1>4, <2>1, <2>2
<1>6. \A i, j \in 1..Len(t.out) : i <= j => t.out[i].gen <= t.out[j].gen
  <2> TAKE i, j \in 1..Len(t.out)
  <2> HAVE i <= j
  <2>1. CASE j = Len(s.out) + 1
    BY <1>1, <1>3, <1>5, <2>1
  <2>2. CASE j \in 1..Len(s.out)
    <3>1. i \in 1..Len(s.out)
      BY <1>3, <1>4, <2>2
    <3> QED BY <1>3, <2>2, <3>1 DEF InOrder
  <2> QED BY <1>3, <1>4, <2>1, <2>2
<1> QED BY <1>1, <1>5, <1>6 DEF InOrder, t

\* Collapsing an oversized queue leaves the root in it.
LEMMA CollapseSends ==
  ASSUME NEW s, Typed(s), Sending(s)
  PROVE  LET c == Collapse(s)
         IN  /\ Typed(c) /\ SameWork(s, c) /\ Sending(c) /\ c.out = s.out
             /\ s.pending # {} => c.pending # {}
             /\ Covered(s) => Covered(c)
<1> DEFINE m == MarkUncertain(s, Backpressure)
<1>1. /\ Typed(m) /\ SameWork(s, m) /\ Sending(m) /\ m.out = s.out
      /\ m.pending = {Root}
  BY MarkUncertainTyped, MarkUncertainSameWork, MarkUncertainSends
  DEF Reasons, Sending, Selecting
<1> HIDE DEF m
<1>2. Covered(m)
  BY <1>1 DEF Covered
<1>3. SameWork(s, s)
  BY DEF SameWork
<1> QED BY <1>1, <1>2, <1>3 DEF Collapse, m

\* A flush sends what is queued under the committed generation, or leaves the
\* root queued.
LEMMA FlushSends ==
  ASSUME NEW s, Typed(s), Sending(s), ~Installing(s)
  PROVE  LET t == Flush(s)
         IN  Sending(t) /\ (Covered(s) => Covered(t))
<1> DEFINE c == Collapse(s)
           e == ClearPending(c)
           gen == IF c.pendingGen = Unselected THEN c.selection ELSE c.pendingGen
           batch == Batch(c, gen, c.pending, Coverage(c))
           a == Accept(e, batch)
           m == MarkUncertain(e, Backpressure)
<1>1. /\ Typed(c) /\ SameWork(s, c) /\ Sending(c)
      /\ s.pending # {} => c.pending # {}
      /\ Covered(s) => Covered(c)
  BY CollapseSends
<1> HIDE DEF c
<1>2. Typed(e) /\ SameWork(c, e)
  BY <1>1, ClearPendingTyped, ClearPendingSameWork
<1>3. /\ e.pending = {} /\ e.pendingGen = Unselected /\ e.out = c.out
      /\ e.owed = c.owed
  BY <1>1, ClearPendingQueue
<1> HIDE DEF e
<1>4. /\ gen = c.exclGen /\ c.exclGen \in 0..MaxGeneration
      /\ c.selection = c.exclGen
  BY <1>1 DEF SameWork, Sending, Selecting, Chosen, Installing, Typed, Subscriptions
<1> HIDE DEF gen
<1>5. /\ batch \in Batches /\ batch.gen = c.exclGen /\ batch.paths = c.pending
      /\ batch.lost = c.lost
  BY <1>1, <1>4, CoverageTyped DEF Batch, Batches, Typed, Subscriptions
<1> HIDE DEF batch
<1>6. Chosen(e) /\ InOrder(e)
  BY <1>1, <1>2, <1>3 DEF SameWork, Sending, Selecting, Chosen, Installing, InOrder
<1>7. Sending(m) /\ m.pending = {Root} /\ Covered(m)
  BY <1>2, <1>6, MarkUncertainSends DEF Reasons, Covered
<1> HIDE DEF m
<1>8. ASSUME s.pending # {} PROVE Sending(a) /\ (Covered(s) => Covered(a))
  <2>1. batch.gen = e.exclGen /\ (batch.lost => batch.paths = {Root})
    BY <1>1, <1>2, <1>5, <1>8 DEF SameWork, Sending, RootOnly
  <2>2. /\ InOrder(a) /\ a.pending = {} /\ a.pendingGen = Unselected
        /\ a.owed = (IF Root \in c.pending THEN {} ELSE c.owed \ c.pending)
    BY <1>2, <1>3, <1>5, <1>6, <2>1, AcceptOrdered
  <2>3. SameWork(e, a)
    BY <1>2, AcceptSameWork
  <2> HIDE DEF a
  <2>4. Selecting(a) /\ RootOnly(a)
    BY <1>6, <2>2, <2>3 DEF SameWork, Selecting, Chosen, Installing, RootOnly
  <2>5. Covered(c) => Covered(a)
    BY <2>2 DEF Covered
  <2>6. Exempt(c) => Exempt(a)
    BY <1>2, <2>3 DEF SameWork, Exempt
  <2> QED BY <1>1, <2>2, <2>4, <2>5, <2>6 DEF Sending, Kept
<1> QED BY <1>7, <1>8 DEF Flush, Flushed, c, e, gen, batch, a, m

\* Nothing is flushed while a generation is being installed: it holds a barrier.
LEMMA FlushIfSends ==
  ASSUME NEW s, Typed(s), Sending(s), Working(s), NEW due
  PROVE  Sending(FlushIf(s, due))
<1>1. s.barriers \in Nat /\ s.jobs \in Nat
  BY DEF Typed, Subscriptions
<1>2. Installing(s) => s.barriers # 0
  BY <1>1 DEF Installing, Typed, CandidateCaptured, Working, Owned, Balanced,
              Transacting, Holding, Frozen
<1> QED BY <1>2, FlushSends DEF FlushIf

LEMMA QueueEventSends ==
  ASSUME NEW s, Typed(s), Selecting(s), InOrder(s), RootOnly(s),
         NEW p \in Paths \cup {Root},
         \/ Exempt(s)
         \/ \A q \in s.owed : q \in s.pending \cup {p} \/ Root \in s.pending \cup {p}
  PROVE  Sending(QueueEvent(s, p))
<1>1. Sending(MarkUncertain(s, Backpressure))
  BY MarkUncertainSends DEF Selecting, Reasons
<1>2. Sending(QueuePaths(s, {Root}))
  BY QueuePathsSends DEF PathSets
<1>3. ~s.lost => Sending(QueuePaths(s, {p}))
  BY QueuePathsSends DEF PathSets
<1> QED BY <1>1, <1>2, <1>3 DEF QueueEvent, QueuePath

----------------------------------------------------------------------------
(* Root loss.                                                              *)

\* The rollback takes the selection back with the policy, and the mark that
\* follows regroups what is queued under it.
LEMMA MarkRootLostSends ==
  ASSUME NEW s, Typed(s), Owned(s), Chosen(s), InOrder(s)
  PROVE  Sending(MarkRootLost(s)) /\ MarkRootLost(s).out = s.out
<1> DEFINE d == Detached(s)
<1>1. CASE s.recov.phase = "none"
  <2> DEFINE r == RolledBack(s)
  <2>1. /\ Typed(r) /\ r.out = s.out /\ r.exclGen = s.exclGen
        /\ Chosen(r) /\ r.update.phase = "none"
    BY RolledBackTyped, ZenonT(60) DEF RolledBack, NoUpdate, Chosen, Installing, Typed,
                           Subscriptions
  <2> HIDE DEF r
  <2>2. /\ d.update = r.update /\ d.selection = r.selection
        /\ d.exclGen = r.exclGen /\ d.out = r.out
    BY <1>1, <2>1 DEF Detached, Interrupted, Typed, Subscriptions, r
  <2> QED BY <2>1, <2>2, DetachedTyped, MarkUncertainSends
          DEF MarkRootLost, Reasons, Chosen, Installing, InOrder
<1>2. CASE s.recov.phase # "none"
  <2>1. /\ d.update = s.update /\ d.selection = s.selection
        /\ d.exclGen = s.exclGen /\ d.out = s.out
    BY <1>2 DEF Detached, Typed, Subscriptions
  <2>2. Typed(d)
    BY DetachedTyped
  <2> HIDE DEF d
  <2>3. Chosen(d) /\ InOrder(d)
    BY <2>1 DEF Chosen, Installing, InOrder
  <2> QED BY <2>1, <2>2, <2>3, MarkUncertainSends DEF MarkRootLost, Reasons, d
<1> QED BY <1>1, <1>2

----------------------------------------------------------------------------
(* Exclusion replacement.                                                  *)

LEMMA UpdateStartSends ==
  ASSUME NEW s, Typed(s), Working(s), Sending(s), NEW root
  PROVE  Sending(UpdateStart(s, root))
<1> DEFINE f == Flush(s)
           e == Selected(f)
           ready == s.update.phase = "waiting" /\ Idle(s)
<1>1. Typed(f) /\ SameWork(s, f)
  BY FlushTyped, FlushSameWork
<1>2. ready => Sending(f) /\ Covered(f)
  BY FlushSends DEF Installing, Working, Owned, Sending, Kept, Exempt
<1> HIDE DEF f
<1>3. /\ e.update.phase = "removing" /\ e.update.gen = f.update.gen
      /\ e.selection = f.update.gen /\ e.exclGen = f.exclGen
      /\ e.pending = {} /\ e.pendingGen = Unselected /\ e.out = f.out
      /\ e.owed = f.owed
  BY <1>1 DEF Selected, ClearPending, Typed, Subscriptions, Updates
<1>4. Typed(e)
  BY <1>1, SelectedTyped
<1> HIDE DEF e
<1>5. ASSUME ready PROVE Chosen(e) /\ InOrder(e)
  BY <1>1, <1>2, <1>3, <1>5
  DEF SameWork, Sending, Selecting, Chosen, Installing, InOrder
<1>6. ASSUME ready, f.pending = {} PROVE Sending(e)
  BY <1>2, <1>3, <1>5, <1>6 DEF Sending, Selecting, RootOnly, Kept, Covered
<1>7. ASSUME ready PROVE Sending(MarkUncertain(e, Backpressure))
  BY <1>4, <1>5, <1>7, MarkUncertainSends DEF Reasons
<1>8. Sending(MarkRootLost(s))
  BY MarkRootLostSends DEF Working, Sending, Selecting
<1> QED BY <1>6, <1>7, <1>8 DEF UpdateStart, BoundaryDrop, f, e

LEMMA UpdateRemoveSends ==
  ASSUME NEW s, Typed(s), Working(s), Sending(s), NEW more
  PROVE  Sending(UpdateRemove(s, more))
<1> DEFINE t == UpdateRemove(s, more)
<1>1. CASE s.update.phase = "removing" /\ ~more
  <2>1. /\ t.update.phase = "scanning" /\ t.update.gen = s.update.gen
        /\ t.owed = s.owed /\ t.pending = s.pending
        /\ t.pendingGen = s.pendingGen /\ t.out = s.out
        /\ t.exclGen = s.exclGen /\ t.selection = s.selection /\ t.lost = s.lost
    BY <1>1 DEF UpdateRemove, Typed, Subscriptions, Updates
  <2> HIDE DEF t
  <2>2. Selecting(t) /\ InOrder(t) /\ RootOnly(t)
    BY <1>1, <2>1 DEF Sending, Selecting, Chosen, Installing, InOrder, RootOnly
  <2>3. Covered(t)
    BY <1>1, <2>1 DEF Working, Owned, Sending, Kept, Exempt, Covered
  <2> QED BY <2>2, <2>3 DEF Sending, Kept, t
<1>2. CASE ~(s.update.phase = "removing" /\ ~more)
  BY <1>2 DEF UpdateRemove
<1> QED BY <1>1, <1>2

\* The commit makes the generation that selected the queue the committed one.
LEMMA UpdateCommitSends ==
  ASSUME NEW s, Typed(s), Working(s), Sending(s), NEW root
  PROVE  Sending(UpdateCommit(s, root))
<1> DEFINE c == Committing(s)
           ps == Reincluded(s)
           ready == s.update.phase = "scanning" /\ s.jobs = 0 /\ s.barriers = 1
<1>1. Typed(c) /\ ps \in PathSets
  BY CommittingTyped, ReincludedTyped
<1>2. /\ c.update.phase = "none" /\ c.exclGen = s.update.gen
      /\ c.selection = s.selection /\ c.owed = s.owed \cup ps
      /\ c.pending = s.pending /\ c.pendingGen = s.pendingGen
      /\ c.out = s.out /\ c.lost = s.lost
  BY DEF Committing, NoUpdate, Typed, Subscriptions
<1>3. s.out \in Seq(Batches) /\ s.exclGen \in Nat /\ s.update.gen \in Nat
  BY UpdateTyped, BoundsAssumption DEF Typed, Subscriptions
<1> HIDE DEF c, ps
<1>4. ASSUME ready PROVE Selecting(c) /\ InOrder(c) /\ RootOnly(c)
  <2>1. Selecting(c)
    BY <1>2, <1>4 DEF Sending, Selecting, Chosen, Installing
  <2>2. RootOnly(c)
    BY <1>2 DEF Sending, RootOnly
  <2>3. s.exclGen <= s.update.gen
    BY <1>3, <1>4 DEF Sending, Selecting, Chosen
  <2>4. \A i \in 1..Len(s.out) : s.out[i].gen \in Nat
    <3>1. \A b \in Batches : b.gen \in Nat
      BY BoundsAssumption DEF Batches
    <3> QED BY <1>3, <3>1
  <2>5. InOrder(c)
    BY <1>2, <1>3, <2>3, <2>4 DEF Sending, InOrder
  <2> QED BY <2>1, <2>2, <2>5
<1>5. ASSUME ready PROVE Sending(QueuePaths(c, ps))
  <2>1. Covered(s) /\ ~c.lost
    BY <1>2, <1>5 DEF Working, Owned, Sending, Kept, Exempt
  <2>2. \A p \in c.owed : p \in c.pending \cup ps \/ Root \in c.pending \cup ps
    BY <1>2, <2>1 DEF Covered
  <2> QED BY <1>1, <1>4, <1>5, <2>1, <2>2, QueuePathsSends
<1>6. Sending(MarkRootLost(s))
  BY MarkRootLostSends DEF Working, Sending, Selecting
<1> QED BY <1>5, <1>6 DEF UpdateCommit, c, ps

LEMMA ProgressUpdateSends ==
  ASSUME NEW s, Typed(s), Working(s), Sending(s), NEW root, NEW more
  PROVE  Sending(ProgressUpdate(s, root, more))
BY UpdateStartTyped, UpdateRemoveTyped, UpdateStartWorks, UpdateRemoveWorks,
   UpdateStartSends, UpdateRemoveSends, UpdateCommitSends DEF ProgressUpdate

----------------------------------------------------------------------------
(* Reconciliation.                                                         *)

LEMMA ReconStartSends ==
  ASSUME NEW s, Typed(s), Working(s), Sending(s), NEW root
  PROVE  Sending(ReconStart(s, root))
<1> DEFINE f == Flush(s)
           c == ClearPending(f)
           t == Traversing(f)
           ready == s.recon.phase = "waiting" /\ Idle(s)
<1>1. Typed(f) /\ SameWork(s, f)
  BY FlushTyped, FlushSameWork
<1>2. ready => Sending(f)
  BY FlushSends DEF Installing, Working, Owned
<1> HIDE DEF f
<1>3. /\ t.pending = {} /\ t.pendingGen = Unselected
      /\ t.out = f.out /\ t.exclGen = f.exclGen /\ t.selection = f.selection
      /\ t.update = f.update /\ t.recon.phase = "scanning"
  BY <1>1 DEF Traversing, ClearPending, Typed, Subscriptions
<1> HIDE DEF t
<1>4. ASSUME ready PROVE Sending(t)
  BY <1>2, <1>3, <1>4 DEF Sending, Selecting, Chosen, Installing, InOrder,
                          RootOnly, Kept, Exempt
<1>5. /\ Typed(c) /\ SameWork(f, c) /\ c.out = f.out
  BY <1>1, ClearPendingTyped, ClearPendingSameWork, ClearPendingQueue
<1> HIDE DEF c
<1>6. Owned(c)
  BY <1>1, <1>5, SameWorkWorks DEF Working
<1>7. ASSUME ready PROVE Sending(MarkRootLost(c))
  <2>1. Chosen(c) /\ InOrder(c)
    BY <1>2, <1>5, <1>7
    DEF SameWork, Sending, Selecting, Chosen, Installing, InOrder
  <2> QED BY <1>5, <1>6, <2>1, MarkRootLostSends
<1> QED BY <1>4, <1>7 DEF ReconStart, f, c, t

LEMMA ReconScannedSends ==
  ASSUME NEW s, Typed(s), Sending(s)
  PROVE  Sending(ReconScanned(s))
<1> DEFINE t == ReconScanned(s)
<1>1. /\ t.owed = s.owed /\ t.pending = s.pending /\ t.pendingGen = s.pendingGen
      /\ t.out = s.out /\ t.exclGen = s.exclGen /\ t.selection = s.selection
      /\ t.update = s.update /\ t.lost = s.lost /\ t.interests = s.interests
      /\ t.recov = s.recov
      /\ \/ t.recon.phase = s.recon.phase
         \/ s.recon.phase = "scanning" /\ t.recon.phase = "sweeping"
  BY DEF ReconScanned, Typed, Subscriptions, Recons
<1> HIDE DEF t
<1>2. Sending(t)
  BY <1>1 DEF Sending, Selecting, Chosen, Installing, InOrder, RootOnly, Kept,
              Covered, Exempt
<1> QED BY <1>2 DEF t

LEMMA ReconCommitSends ==
  ASSUME NEW s, Typed(s), Working(s), Sending(s), s.recon.phase = "sweeping",
         NEW root
  PROVE  Sending(ReconCommit(s, root))
<1> DEFINE Closed(t) ==
             /\ t.pending = {} /\ t.pendingGen = Unselected /\ t.out = s.out
             /\ t.exclGen = s.exclGen /\ t.selection = s.selection
             /\ t.update = s.update /\ t.lost = s.lost
<1>1. ~s.lost /\ s.update.phase = "none" /\ s.selection = s.exclGen
  BY DEF Working, Owned, Sending, Selecting, Chosen, Installing
<1>2. \A t : Closed(t) => Selecting(t) /\ Chosen(t) /\ InOrder(t) /\ RootOnly(t)
  BY <1>1 DEF Sending, Selecting, Chosen, Installing, InOrder, RootOnly
<1>3. ASSUME root # s.identity PROVE Sending(ReconCommit(s, root))
  <2> DEFINE b == Monus(s.barriers, 1)
             t == [s EXCEPT !.barriers = b]
  <2>1. b \in Nat
    BY MonusTyped DEF Typed, Subscriptions
  <2> HIDE DEF b
  <2>2. Typed(t)
    BY <2>1 DEF Typed, CandidateCaptured, Subscriptions
  <2>3. Owned(t) /\ Chosen(t) /\ InOrder(t)
    BY DEF Working, Owned, Transacting, Sending, Selecting, Chosen, Installing,
           InOrder, Typed, Subscriptions
  <2> HIDE DEF t
  <2>4. Sending(MarkRootLost(t))
    BY <2>2, <2>3, MarkRootLostSends
  <2> QED BY <1>3, <2>4 DEF ReconCommit, b, t
<1>4. Sending(ReconAccepted(s))
  <2> DEFINE c == ReconClosed(s)
             batch == Batch(s, s.exclGen, {Root}, Coverage(c))
             a == Accept(c, batch)
  <2>1. Closed(c)
    BY DEF ReconClosed, ClearPending, Typed, Subscriptions
  <2>2. Typed(c)
    BY ReconClosedTyped
  <2> HIDE DEF c
  <2>3. /\ batch \in Batches /\ batch.gen = s.exclGen /\ batch.paths = {Root}
    BY <2>2, CoverageTyped DEF Batch, Batches, Typed, Subscriptions
  <2> HIDE DEF batch
  <2>4. /\ InOrder(a) /\ a.pending = {} /\ a.pendingGen = Unselected
        /\ a.owed = {}
    BY <1>2, <2>1, <2>2, <2>3, AcceptOrdered, ZenonT(60)
  <2>5. SameWork(c, a)
    BY <2>2, AcceptSameWork
  <2> HIDE DEF a
  <2>6. Selecting(a) /\ RootOnly(a) /\ Kept(a)
    BY <1>1, <2>1, <2>4, <2>5
    DEF SameWork, Selecting, Chosen, Installing, RootOnly, Kept, Covered
  <2> QED BY <2>4, <2>6 DEF Sending, ReconAccepted, c, batch, a
<1>5. Sending(ReconRefused(s))
  <2> DEFINE c == ReconGivenUp(s)
             n == [c EXCEPT !.uncertain = Backpressure]
             m == MarkUncertain(c, Backpressure)
  <2>1. Closed(c)
    BY DEF ReconGivenUp, ClearPending, Typed, Subscriptions
  <2>2. Typed(c)
    BY ReconGivenUpTyped
  <2> HIDE DEF c
  <2>3. Typed(n) /\ Closed(n)
    BY <2>1, <2>2 DEF Typed, CandidateCaptured, Subscriptions, Reasons
  <2>4. Typed(m) /\ Sending(m)
    BY <1>2, <2>1, <2>2, MarkUncertainTyped, MarkUncertainSends DEF Reasons
  <2> HIDE DEF n, m
  <2>5. Selecting(n) /\ InOrder(n) /\ RootOnly(n)
    BY <1>2, <2>3
  <2>6. Sending(QueuePaths(n, {Root}))
    BY <2>3, <2>5, QueuePathsSends DEF PathSets
  <2>7. Sending(QueuePaths(m, {Root}))
    BY <2>4, QueuePathsSends DEF PathSets, Sending
  <2> QED BY <2>6, <2>7 DEF ReconRefused, QueuePath, c, n, m
<1> QED BY <1>3, <1>4, <1>5 DEF ReconCommit

LEMMA ProgressReconciliationSends ==
  ASSUME NEW s, Typed(s), Working(s), Sending(s), NEW root, NEW more
  PROVE  Sending(ProgressReconciliation(s, root, more))
<1> DEFINE r == ReconStart(s, root)
           t == ReconScanned(r)
<1>1. Typed(r) /\ Working(r) /\ Sending(r)
  BY ReconStartTyped, ReconStartWorks, ReconStartSends
<1> HIDE DEF r
<1>2. Typed(t) /\ Working(t) /\ Sending(t)
  BY <1>1, ReconScannedTyped, ReconScannedWorks, ReconScannedSends
<1> HIDE DEF t
<1> QED BY <1>2, ReconCommitSends DEF ProgressReconciliation, ReconSweep, r, t

----------------------------------------------------------------------------
(* Root recovery.                                                          *)

LEMMA DrainSends ==
  ASSUME NEW s, Typed(s), Sending(s), s.recov.phase # "none", NEW more
  PROVE  LET t == Drain(s, more)
         IN  /\ Sending(t) /\ t.recov = s.recov
             /\ ~more => t.interests = "none" /\ t.jobs = 0
<1> DEFINE t == Drain(s, more)
<1>1. /\ t.owed = s.owed /\ t.pending = s.pending /\ t.pendingGen = s.pendingGen
      /\ t.out = s.out /\ t.exclGen = s.exclGen /\ t.selection = s.selection
      /\ t.update = s.update /\ t.lost = s.lost /\ t.recov = s.recov
      /\ ~more => t.interests = "none" /\ t.jobs = 0
  BY DEF Drain, Typed, Subscriptions
<1> HIDE DEF t
<1>2. Sending(t)
  BY <1>1 DEF Sending, Selecting, Chosen, Installing, InOrder, RootOnly, Kept,
              Exempt
<1> QED BY <1>1, <1>2 DEF t

\* A failed recovery leaves its lost root without watches.
LEMMA RecoveryFailedSends ==
  ASSUME NEW s, Typed(s), Sending(s), s.lost, s.interests = "none"
  PROVE  Sending(RecoveryFailed(s))
<1> DEFINE t == RecoveryFailed(s)
<1>1. /\ t.owed = s.owed /\ t.pending = s.pending /\ t.pendingGen = s.pendingGen
      /\ t.out = s.out /\ t.exclGen = s.exclGen /\ t.selection = s.selection
      /\ t.update = s.update /\ t.lost = s.lost /\ t.interests = s.interests
  BY DEF RecoveryFailed, Typed, Subscriptions
<1> HIDE DEF t
<1>2. Sending(t)
  BY <1>1 DEF Sending, Selecting, Chosen, Installing, InOrder, RootOnly, Kept,
              Exempt
<1> QED BY <1>2 DEF t

LEMMA CommitRecoverySends ==
  ASSUME NEW s, Typed(s), Sending(s), s.recov.phase # "none"
  PROVE  Sending(CommitRecovery(s))
<1> DEFINE c == Attached(s)
           batch == Batch(c, c.exclGen, {Root}, Coverage(c))
           a == Accept(c, batch)
           m == MarkUncertain(c, Backpressure)
<1>1. /\ c.pending = {} /\ c.pendingGen = Unselected /\ c.out = s.out
      /\ c.exclGen = s.exclGen /\ c.selection = s.selection
      /\ c.update = s.update /\ ~c.lost
  BY DEF Attached, ClearPending, Typed, Subscriptions
<1>2. Typed(c)
  BY AttachedTyped
<1> HIDE DEF c
<1>3. Chosen(c) /\ InOrder(c)
  BY <1>1 DEF Sending, Selecting, Chosen, Installing, InOrder
<1>4. Sending(m)
  BY <1>2, <1>3, MarkUncertainSends DEF Reasons
<1>5. /\ batch \in Batches /\ batch.gen = c.exclGen /\ batch.paths = {Root}
  BY <1>2, CoverageTyped DEF Batch, Batches, Typed, Subscriptions
<1> HIDE DEF batch
<1>6. /\ InOrder(a) /\ a.pending = {} /\ a.pendingGen = Unselected
      /\ a.owed = {}
  BY <1>1, <1>2, <1>3, <1>5, AcceptOrdered, ZenonT(60)
<1>7. SameWork(c, a)
  BY <1>2, AcceptSameWork
<1> HIDE DEF a, m
<1>8. Sending(a)
  BY <1>1, <1>3, <1>6, <1>7
  DEF SameWork, Sending, Selecting, Chosen, Installing, RootOnly, Kept, Covered
<1> QED BY <1>4, <1>8 DEF CommitRecovery, c, batch, a, m

LEMMA AfterDrainSends ==
  ASSUME NEW s, Typed(s), Sending(s), Owned(s), s.recov.phase # "none",
         s.interests = "none", NEW root, NEW opened
  PROVE  Sending(AfterDrain(s, root, opened))
<1> DEFINE c == CandidateScanning(s)
           m == MarkUncertain(s, TopologyRace)
<1>1. /\ c.recov.phase = "scanning" /\ c.lost = s.lost
      /\ c.owed = s.owed /\ c.pending = s.pending /\ c.pendingGen = s.pendingGen
      /\ c.out = s.out /\ c.exclGen = s.exclGen /\ c.selection = s.selection
      /\ c.update = s.update
  BY DEF CandidateScanning, Typed, Subscriptions, Recovs
<1>2. Typed(c)
  BY CandidateScanningTyped
<1> HIDE DEF c
<1>3. Sending(c)
  BY <1>1 DEF Sending, Selecting, Chosen, Installing, InOrder, RootOnly, Kept,
              Exempt
<1>4. Sending(MarkUncertain(c, TopologyRace))
  BY <1>2, <1>3, MarkUncertainSends DEF Sending, Selecting, Reasons
<1>5. Typed(m) /\ Sending(m) /\ SameWork(s, m)
  BY MarkUncertainTyped, MarkUncertainSends, MarkUncertainSameWork
  DEF Sending, Selecting, Reasons
<1> HIDE DEF m
<1>6. s.lost /\ m.lost /\ m.interests = "none"
  BY <1>5 DEF Owned, SameWork
<1>7. /\ Sending(RecoveryFailed(s)) /\ Sending(RecoveryFailed(m))
      /\ Sending(CommitRecovery(s))
  BY <1>5, <1>6, RecoveryFailedSends, CommitRecoverySends
<1> QED BY <1>3, <1>4, <1>7 DEF AfterDrain, c, m

LEMMA ProgressRecoverySends ==
  ASSUME NEW s, Typed(s), Owned(s), Sending(s), NEW root, NEW more, NEW opened
  PROVE  Sending(ProgressRecovery(s, root, more, opened))
<1> DEFINE d == Drain(s, more)
           t == [s EXCEPT !.barriers = 1, !.recov.phase = "cleaning"]
<1>1. ASSUME s.recov.phase # "none"
      PROVE  Sending(RecoveryDrain(s, root, more, opened))
  <2>1. /\ Typed(d) /\ Owned(d) /\ Sending(d) /\ d.recov = s.recov
        /\ ~more => d.interests = "none" /\ d.jobs = 0
    BY <1>1, DrainTyped, DrainWorks, DrainSends
  <2> HIDE DEF d
  <2>2. d.lost
    BY <1>1, <2>1 DEF Owned
  <2>3. ~more => Sending(RecoveryFailed(d)) /\ Sending(AfterDrain(d, root, opened))
    BY <1>1, <2>1, <2>2, RecoveryFailedSends, AfterDrainSends
  <2> QED BY <2>1, <2>3 DEF RecoveryDrain, d
<1>2. ASSUME s.recov.phase # "none" PROVE Sending(t)
  <2>1. /\ t.owed = s.owed /\ t.pending = s.pending /\ t.pendingGen = s.pendingGen
        /\ t.out = s.out /\ t.exclGen = s.exclGen /\ t.selection = s.selection
        /\ t.update = s.update /\ t.lost = s.lost
        /\ t.recov.phase = "cleaning"
    BY DEF Typed, Subscriptions, Recovs
  <2> HIDE DEF t
  <2> QED BY <2>1 DEF Sending, Selecting, Chosen, Installing, InOrder, RootOnly,
                      Kept, Exempt
<1>3. s.recov.phase # "none" => Sending(CommitRecovery(s))
  BY CommitRecoverySends
<1> QED BY <1>1, <1>2, <1>3 DEF ProgressRecovery, RecoveryScanned, t

----------------------------------------------------------------------------
(* Events, topology turns and maintenance.                                 *)

LEMMA ScheduleSends ==
  ASSUME NEW s, Typed(s), Sending(s), NEW when
  PROVE  Sending(Schedule(s, when))
<1>1. SameQueue(s, Schedule(s, when))
  BY DEF SameQueue, Schedule, Typed, Subscriptions
<1> QED BY <1>1, SameQueueSends

LEMMA AddJobSends ==
  ASSUME NEW s, Typed(s), Sending(s)
  PROVE  Sending(AddJob(s))
<1> DEFINE t == AddJob(s)
<1>1. /\ t.owed = s.owed /\ t.pending = s.pending /\ t.pendingGen = s.pendingGen
      /\ t.out = s.out /\ t.exclGen = s.exclGen /\ t.selection = s.selection
      /\ t.update = s.update /\ t.lost = s.lost /\ t.interests = s.interests
      /\ t.recov = s.recov
      /\ t.recon.phase = IF s.recon.phase \in {"none", "waiting"}
                         THEN s.recon.phase ELSE "scanning"
  BY DEF AddJob, Typed, Subscriptions, Recons
<1> HIDE DEF t
<1>2. Sending(t)
  BY <1>1 DEF Sending, Selecting, Chosen, Installing, InOrder, RootOnly, Kept,
              Covered, Exempt
<1> QED BY <1>2 DEF t

\* A path that is owed and about to be queued.
LEMMA OwingSends ==
  ASSUME NEW s, Typed(s), Sending(s), NEW p \in Paths
  PROVE  LET t == [s EXCEPT !.owed = @ \cup {p}]
         IN  /\ Selecting(t) /\ InOrder(t) /\ RootOnly(t)
             /\ \/ Exempt(t)
                \/ \A q \in t.owed : \/ q \in t.pending \cup {p}
                                     \/ Root \in t.pending \cup {p}
<1> DEFINE t == [s EXCEPT !.owed = @ \cup {p}]
<1>1. /\ t.owed = s.owed \cup {p} /\ t.pending = s.pending
      /\ t.pendingGen = s.pendingGen
      /\ t.out = s.out /\ t.exclGen = s.exclGen /\ t.selection = s.selection
      /\ t.update = s.update /\ t.lost = s.lost /\ t.interests = s.interests
      /\ t.recon = s.recon /\ t.recov = s.recov
  BY DEF Typed, Subscriptions
<1> HIDE DEF t
<1>2. Selecting(t) /\ InOrder(t) /\ RootOnly(t)
  BY <1>1 DEF Sending, Selecting, Chosen, Installing, InOrder, RootOnly
<1>3. \/ Exempt(t)
      \/ \A q \in t.owed : q \in t.pending \cup {p} \/ Root \in t.pending \cup {p}
  BY <1>1 DEF Sending, Kept, Covered, Exempt
<1> QED BY <1>2, <1>3 DEF t

LEMMA HandleEventSends ==
  ASSUME NEW s, Typed(s), Working(s), Sending(s), NEW p \in Paths, NEW kind
  PROVE  Sending(HandleEvent(s, p, kind))
<1> DEFINE owing == [s EXCEPT !.owed = @ \cup {p}]
           queued == QueueEvent(owing, p)
           grown == IF kind = "created" THEN AddJob(queued) ELSE queued
           flushed == FlushIf(grown, AtBound(grown))
<1>1. /\ Typed(owing) /\ SameWork(s, owing)
      /\ Selecting(owing) /\ InOrder(owing) /\ RootOnly(owing)
      /\ \/ Exempt(owing)
         \/ \A q \in owing.owed : \/ q \in owing.pending \cup {p}
                                  \/ Root \in owing.pending \cup {p}
  BY OwingTyped, OwingSends
<1> HIDE DEF owing
<1>2. Typed(queued) /\ SameWork(owing, queued) /\ Sending(queued)
  BY <1>1, QueueEventTyped, QueueEventSameWork, QueueEventSends
<1> HIDE DEF queued
<1>3. Working(queued)
  BY <1>1, <1>2, SameWorkWorks
<1>4. Typed(grown) /\ Working(grown) /\ Sending(grown)
  BY <1>2, <1>3, AddJobTyped, AddJobWorks, AddJobSends
<1> HIDE DEF grown
<1>5. Typed(flushed) /\ Sending(flushed)
  BY <1>4, FlushIfTyped, FlushIfSends
<1> HIDE DEF flushed
<1>6. Sending(Schedule(flushed, grown.recov.unstable))
  BY <1>5, ScheduleSends
<1> QED BY <1>2, <1>6 DEF HandleEvent, owing, queued, grown, flushed

LEMMA HandleRootSelfSends ==
  ASSUME NEW s, Typed(s), Working(s), Sending(s)
  PROVE  Sending(HandleRootSelf(s))
<1> DEFINE e == [s EXCEPT !.rootEvents = @ \ {"self"}]
           gone == MarkRootLost(e)
           lost == QueueEvent(gone, Root)
           flushed == FlushIf(lost, AtBound(lost))
<1>1. Typed(e) /\ SameWork(s, e) /\ SameQueue(s, e)
  <2> DEFINE events == s.rootEvents \ {"self"}
  <2>1. events \in SUBSET {"self", "ignored"}
    BY DEF Typed, Subscriptions
  <2> HIDE DEF events
  <2>2. /\ Typed([s EXCEPT !.rootEvents = events])
        /\ SameWork(s, [s EXCEPT !.rootEvents = events])
        /\ SameQueue(s, [s EXCEPT !.rootEvents = events])
    BY <2>1 DEF Typed, CandidateCaptured, Subscriptions, SameWork, SameQueue
  <2> QED BY <2>2 DEF events
<1> HIDE DEF e
<1>2. Owned(e) /\ Sending(e)
  BY <1>1, SameWorkWorks, SameQueueSends DEF Working
<1>3. Typed(gone) /\ Working(gone) /\ Sending(gone)
  BY <1>1, <1>2, MarkRootLostTyped, MarkRootLostWorks, MarkRootLostSends
  DEF Sending, Selecting
<1> HIDE DEF gone
<1>4. Typed(lost) /\ Working(lost)
  BY <1>3, QueueEventTyped, QueueEventSameWork, SameWorkWorks
<1>5. Sending(lost)
  BY <1>3, QueueEventSends DEF Sending, Kept, Covered
<1> HIDE DEF lost
<1>6. Typed(flushed) /\ Sending(flushed)
  BY <1>4, <1>5, FlushIfTyped, FlushIfSends
<1> HIDE DEF flushed
<1>7. Sending(Schedule(flushed, TRUE))
  BY <1>6, ScheduleSends
<1> QED BY <1>5, <1>7 DEF HandleRootSelf, e, gone, lost, flushed

LEMMA HandleRootIgnoredSends ==
  ASSUME NEW s, Typed(s), Working(s), Sending(s)
  PROVE  Sending(HandleRootIgnored(s))
<1> DEFINE e == [s EXCEPT !.rootEvents = {}, !.interests = "noroot"]
           lost == MarkRootLost(e)
<1>1. Typed(e)
  BY DEF Typed, CandidateCaptured, Subscriptions
<1>2. Owned(e)
  BY DEF Working, Owned, Transacting, Typed, Subscriptions
<1>3. Chosen(e) /\ InOrder(e)
  BY DEF Sending, Selecting, Chosen, Installing, InOrder, Typed, Subscriptions
<1> HIDE DEF e
<1>4. Typed(lost) /\ Sending(lost)
  BY <1>1, <1>2, <1>3, MarkRootLostTyped, MarkRootLostSends
<1> HIDE DEF lost
<1> QED BY <1>4, ScheduleSends DEF HandleRootIgnored, e, lost

LEMMA PromotedSends ==
  ASSUME NEW s, Typed(s), Sending(s), ~s.lost, NEW p \in Paths
  PROVE  Sending(Promoted(s, p))
<1> DEFINE owing == [s EXCEPT !.owed = @ \cup {p}]
           queued == QueuePaths(owing, {p})
           t == [queued EXCEPT !.jobs = @ + 1, !.barriers = @ + 1, !.runnable = TRUE]
<1>1. /\ Typed(owing) /\ SameWork(s, owing)
      /\ Selecting(owing) /\ InOrder(owing) /\ RootOnly(owing)
      /\ \/ Exempt(owing)
         \/ \A q \in owing.owed : \/ q \in owing.pending \cup {p}
                                  \/ Root \in owing.pending \cup {p}
  <2>1. owing.pending = s.pending
    BY DEF Typed, Subscriptions
  <2> QED BY <2>1, OwingTyped, OwingSends
<1> HIDE DEF owing
<1>2. Typed(queued) /\ Sending(queued)
  BY <1>1, QueuePathsTyped, QueuePathsSends DEF PathSets, SameWork
<1> HIDE DEF queued
<1>3. SameQueue(queued, t)
  BY <1>2 DEF SameQueue, Typed, Subscriptions
<1> HIDE DEF t
<1>4. Sending(t)
  BY <1>2, <1>3, SameQueueSends
<1> QED BY <1>4 DEF Promoted, QueuePath, owing, queued, t

LEMMA ScanJobsSends ==
  ASSUME NEW s, Typed(s), Sending(s), NEW finished \in 0..s.jobs,
         NEW deferred \in BOOLEAN, NEW race
  PROVE  Sending(ScanJobs(s, finished, deferred, race))
<1> DEFINE t == [s EXCEPT !.jobs = @ - finished,
                          !.barriers = Monus(@, finished),
                          !.deferred = deferred]
<1>1. SameQueue(s, t)
  BY DEF SameQueue, Typed, Subscriptions
<1>2. Typed(t)
  <2>1. Typed(ScanJobs(s, finished, deferred, FALSE))
    BY ScanJobsTyped
  <2> QED BY <2>1 DEF ScanJobs
<1> HIDE DEF t
<1>3. Sending(t)
  BY <1>1, SameQueueSends
<1>4. Sending(MarkUncertain(t, TopologyRace))
  BY <1>2, <1>3, MarkUncertainSends DEF Sending, Selecting, Reasons
<1> QED BY <1>3, <1>4 DEF ScanJobs, t

LEMMA TopologyTurnSends ==
  ASSUME NEW s, Typed(s), Working(s), Sending(s), NEW root,
         NEW finished \in 0..s.jobs, NEW deferred \in BOOLEAN, NEW race, NEW more,
         NEW opened
  PROVE  Sending(TopologyTurn(s, root, finished, deferred, race, more, opened))
<1> DEFINE popped == [s EXCEPT !.runnable = FALSE]
           failing == [popped EXCEPT !.barriers = 1, !.recov.phase = "cleaning"]
           scanned == ScanJobs(popped, finished, deferred, race)
           updated == ProgressUpdate(scanned, root, more)
           reconciled == ProgressReconciliation(updated, root, more)
           done == ProgressRecovery(reconciled, root, more, opened)
           failed == ProgressRecovery(failing, root, more, opened)
<1>1. Typed(popped) /\ popped.jobs = s.jobs /\ SameQueue(s, popped)
  BY DEF Typed, CandidateCaptured, Subscriptions, SameQueue
<1>2. Working(popped)
  BY DEF Working, Owned, Balanced, Transacting, Holding, Frozen, Typed,
         Subscriptions
<1>3. ASSUME s.recov.unstable PROVE Sending(failed)
  <2>1. s.recov.phase # "none"
    BY <1>3 DEF Typed, CandidateCaptured
  <2>2. /\ failing.recov.phase = "cleaning"
        /\ failing.update = s.update /\ failing.recon = s.recon
        /\ failing.ack = s.ack /\ failing.lost = s.lost
        /\ failing.owed = s.owed /\ failing.pending = s.pending
        /\ failing.pendingGen = s.pendingGen /\ failing.out = s.out
        /\ failing.exclGen = s.exclGen /\ failing.selection = s.selection
    BY DEF Typed, Subscriptions, Recovs
  <2>3. Typed(failing)
    BY <2>1, FailingTyped
  <2> HIDE DEF failing
  <2>4. Owned(failing)
    BY <2>1, <2>2 DEF Working, Owned, Transacting
  <2>5. Sending(failing)
    BY <2>2 DEF Sending, Selecting, Chosen, Installing, InOrder, RootOnly, Kept,
                Exempt
  <2> QED BY <2>3, <2>4, <2>5, ProgressRecoverySends
<1>4. Sending(popped)
  BY <1>1, SameQueueSends
<1> HIDE DEF popped, failed
<1>5. Typed(scanned) /\ Working(scanned) /\ Sending(scanned)
  BY <1>1, <1>2, <1>4, ScanJobsTyped, ScanJobsWorks, ScanJobsSends
<1> HIDE DEF scanned
<1>6. Typed(updated) /\ Working(updated) /\ Sending(updated)
  BY <1>5, ProgressUpdateTyped, ProgressUpdateWorks, ProgressUpdateSends
<1> HIDE DEF updated
<1>7. Typed(reconciled) /\ Working(reconciled) /\ Sending(reconciled)
  BY <1>6, ProgressReconciliationTyped, ProgressReconciliationWorks,
     ProgressReconciliationSends
<1> HIDE DEF reconciled
<1>8. Typed(done) /\ Sending(done)
  BY <1>7, ProgressRecoveryTyped, ProgressRecoverySends DEF Working
<1> HIDE DEF done
<1>9. Sending(Schedule(done, Runnable(done)))
  BY <1>8, ScheduleSends
<1> QED BY <1>3, <1>4, <1>9
        DEF TopologyTurn, popped, failing, failed, scanned, updated, reconciled, done

LEMMA MaintainSends ==
  ASSUME NEW s, Typed(s), Working(s), Sending(s), NEW root, NEW checkDue,
         NEW windowElapsed
  PROVE  Sending(Maintain(s, root, checkDue, windowElapsed))
<1> DEFINE e == [s EXCEPT !.armed = FALSE]
           c == Checked(s, root, checkDue)
           w == Swept(c, windowElapsed)
<1>1. Typed(e) /\ SameWork(s, e) /\ SameQueue(s, e)
  BY ZenonT(60) DEF Typed, CandidateCaptured, Subscriptions, SameWork, SameQueue
<1> HIDE DEF e
<1>2. Owned(e) /\ Sending(e)
  BY <1>1, SameWorkWorks, SameQueueSends DEF Working
<1>3. /\ Typed(MarkRootLost(e)) /\ Working(MarkRootLost(e))
      /\ Sending(MarkRootLost(e))
  BY <1>1, <1>2, MarkRootLostTyped, MarkRootLostWorks, MarkRootLostSends
  DEF Sending, Selecting
<1>4. Typed(c) /\ Working(c) /\ Sending(c)
  BY <1>3 DEF Checked, e
<1> HIDE DEF c
<1>5. Typed(w) /\ Sending(w)
  BY <1>4, FlushIfTyped, FlushIfSends DEF Swept
<1> HIDE DEF w
<1> QED BY <1>5, ScheduleSends DEF Maintain, c, w

----------------------------------------------------------------------------
(* The actions.                                                            *)

LEMMA InitSends == Init => Sending(sub)
BY DEF Init, Sending, Selecting, Chosen, Installing, InOrder, RootOnly, Kept,
       Covered, NoUpdate, Unselected

\* The generation asked for is newer than the committed one.
LEMMA ReplaceExclusionsSends ==
  ASSUME Typed(sub), Working(sub), Sending(sub), NEW g \in 1..MaxGeneration,
         NEW policy \in Policies, NEW more, ReplaceExclusions(g, policy, more)
  PROVE  Sending(sub')
<1> DEFINE update == [phase |-> "waiting", gen |-> g, policy |-> policy,
                      prev |-> sub.policy]
           asked == [sub EXCEPT !.update = update, !.ack = "awaiting"]
           done == ProgressUpdate(asked, fsRoot, more)
<1>1. update \in Updates /\ update.phase = "waiting" /\ update.gen = g
  <2>1. g \in 0..MaxGeneration /\ sub.policy \in Policies
    BY BoundsAssumption DEF Typed, Subscriptions
  <2> QED BY <2>1 DEF Updates
<1> HIDE DEF update
<1>2. Typed(asked)
  BY <1>1 DEF Typed, CandidateCaptured, Subscriptions
<1>3. /\ asked.update = update /\ asked.ack = "awaiting"
      /\ asked.jobs = sub.jobs /\ asked.barriers = sub.barriers
      /\ asked.lost = sub.lost /\ asked.recon = sub.recon
      /\ asked.recov = sub.recov /\ asked.owed = sub.owed
      /\ asked.pending = sub.pending /\ asked.pendingGen = sub.pendingGen
      /\ asked.out = sub.out /\ asked.exclGen = sub.exclGen
      /\ asked.selection = sub.selection /\ asked.interests = sub.interests
  BY DEF Typed, Subscriptions
<1>4. sub.ack = "idle" /\ ~sub.lost /\ g > sub.exclGen
  BY DEF ReplaceExclusions
<1> HIDE DEF asked
<1>5. Working(asked)
  BY <1>1, <1>3, <1>4 DEF Working, Owned, Balanced, Transacting, Holding, Frozen
<1>6. Sending(asked)
  <2>1. sub.update.phase = "none"
    BY <1>4 DEF Working, Owned, Transacting
  <2> QED BY <1>1, <1>3, <1>4, <2>1
          DEF Sending, Selecting, Chosen, Installing, InOrder, RootOnly, Kept,
              Covered, Exempt
<1>7. Typed(done) /\ Sending(done)
  BY <1>2, <1>5, <1>6, ProgressUpdateTyped, ProgressUpdateSends
<1> HIDE DEF done
<1>8. Sending(Schedule(done, Runnable(done)))
  BY <1>7, ScheduleSends
<1> QED BY <1>8 DEF ReplaceExclusions, update, asked, done

LEMMA ReconcileSends ==
  ASSUME Typed(sub), Working(sub), Sending(sub), Reconcile
  PROVE  Sending(sub')
<1> DEFINE recon == [sub.recon EXCEPT !.phase = "waiting"]
           asked == [sub EXCEPT !.recon = recon, !.ack = "awaiting"]
           done == ProgressReconciliation(asked, fsRoot, FALSE)
<1>1. recon \in Recons /\ recon.phase = "waiting"
  BY DEF Typed, Subscriptions, Recons
<1> HIDE DEF recon
<1>2. Typed(asked)
  BY <1>1 DEF Typed, CandidateCaptured, Subscriptions
<1>3. /\ asked.recon = recon /\ asked.ack = "awaiting"
      /\ asked.jobs = sub.jobs /\ asked.barriers = sub.barriers
      /\ asked.lost = sub.lost /\ asked.update = sub.update
      /\ asked.recov = sub.recov /\ asked.owed = sub.owed
      /\ asked.pending = sub.pending /\ asked.pendingGen = sub.pendingGen
      /\ asked.out = sub.out /\ asked.exclGen = sub.exclGen
      /\ asked.selection = sub.selection /\ asked.interests = sub.interests
  BY DEF Typed, Subscriptions
<1>4. sub.ack = "idle" /\ ~sub.lost
  BY DEF Reconcile
<1> HIDE DEF asked
<1>5. Working(asked)
  BY <1>1, <1>3, <1>4 DEF Working, Owned, Balanced, Transacting, Holding, Frozen
<1>6. Sending(asked)
  <2>1. sub.recon.phase = "none"
    BY <1>4 DEF Working, Owned, Transacting
  <2> QED BY <1>1, <1>3, <2>1
          DEF Sending, Selecting, Chosen, Installing, InOrder, RootOnly, Kept,
              Covered, Exempt
<1>7. Typed(done) /\ Sending(done)
  BY <1>2, <1>5, <1>6, ProgressReconciliationTyped, ProgressReconciliationSends
<1> HIDE DEF done
<1>8. Sending(Schedule(done, Runnable(done)))
  BY <1>7, ScheduleSends
<1> QED BY <1>8 DEF Reconcile, recon, asked, done

LEMMA RecoveryAskedSends ==
  ASSUME NEW s, Typed(s), Owned(s), Sending(s), s.lost, NEW root \in Identities
  PROVE  Sending(RecoveryAsked(s, root))
<1> DEFINE g == Flush(s)
           f == ClearPending(g)
           asked == RecoveryAsked(s, root)
<1>1. /\ asked.recov.phase = "removing" /\ asked.pending = {}
      /\ asked.pendingGen = Unselected /\ asked.out = f.out
      /\ asked.exclGen = f.exclGen /\ asked.selection = f.selection
      /\ asked.update = f.update
  BY RecoveryAskedIs
<1>2. ~Installing(s)
  BY DEF Owned, Installing
<1>3. Typed(g) /\ Sending(g)
  BY <1>2, FlushTyped, FlushSends
<1> HIDE DEF g, asked
<1>4. SameWork(g, f) /\ f.out = g.out
  BY <1>3, ClearPendingSameWork, ClearPendingQueue
<1> HIDE DEF f
<1>5. Sending(asked)
  BY <1>1, <1>3, <1>4
  DEF SameWork, Sending, Selecting, Chosen, Installing, InOrder, RootOnly, Kept,
      Exempt
<1> QED BY <1>5 DEF asked

LEMMA RecoverRootSends ==
  ASSUME IInv, Working(sub), Sending(sub), NEW accept, NEW more, NEW opened,
         RecoverRoot(accept, more, opened)
  PROVE  Sending(sub')
<1> DEFINE asked == RecoveryAsked(sub, fsRoot)
           done == ProgressRecovery(asked, fsRoot, more, opened)
<1>1. /\ fsRoot \in Identities /\ sub.ack = "idle" /\ sub.lost
      /\ sub' = Schedule(done, Runnable(done))
  BY RecoverRootIs
<1>2. Typed(sub) /\ Owned(sub)
  BY DEF IInv, Working
<1>3. Typed(asked) /\ Owned(asked) /\ Sending(asked)
  BY <1>1, <1>2, RecoveryAskedTyped, RecoveryAskedWorks, RecoveryAskedSends
  DEF Working
<1> HIDE DEF asked
<1>4. Typed(done) /\ Sending(done)
  BY <1>3, ProgressRecoveryTyped, ProgressRecoverySends
<1> HIDE DEF done
<1> QED BY <1>1, <1>4, ScheduleSends

LEMMA EventSends ==
  ASSUME Typed(sub), Working(sub), Sending(sub), NEW p \in Paths, NEW kind,
         Event(p, kind)
  PROVE  Sending(sub')
<1>1. PICK deferred \in BOOLEAN :
        sub' = HandleEvent([sub EXCEPT !.deferred = deferred], p, kind)
  BY DEF Event
<1> DEFINE t == [sub EXCEPT !.deferred = deferred]
<1>2. Typed(t) /\ SameWork(sub, t) /\ SameQueue(sub, t)
  BY DEF Typed, CandidateCaptured, Subscriptions, SameWork, SameQueue
<1> HIDE DEF t
<1>3. Sending(HandleEvent(t, p, kind))
  BY <1>2, SameWorkWorks, SameQueueSends, HandleEventSends
<1> QED BY <1>1, <1>3 DEF t

LEMMA PromoteSends ==
  ASSUME Typed(sub), Sending(sub), NEW p \in Paths, NEW opened \in Opened,
         NEW deferred \in BOOLEAN, Promote(p, opened, deferred)
  PROVE  Sending(sub')
<1> DEFINE tried == [sub EXCEPT !.deferred = deferred]
           m == MarkUncertain(tried, TopologyRace)
<1>1. /\ Typed(tried) /\ SameQueue(sub, tried)
      /\ tried.lost = sub.lost
  BY DEF Typed, CandidateCaptured, Subscriptions, SameQueue
<1> HIDE DEF tried
<1>2. Sending(tried) /\ ~tried.lost
  BY <1>1, SameQueueSends DEF Promote
<1>3. Typed(m) /\ SameWork(tried, m) /\ Sending(m)
  BY <1>1, <1>2, MarkUncertainTyped, MarkUncertainSameWork, MarkUncertainSends
  DEF Reasons, Sending, Selecting
<1> HIDE DEF m
<1>4. Sending(Promoted(tried, p)) /\ Sending(Promoted(m, p))
  BY <1>1, <1>2, <1>3, PromotedSends DEF SameWork
<1>5. sub' \in {tried, m, Promoted(tried, p), Promoted(m, p)}
  BY DEF Promote, Opened, tried, m
<1> QED BY <1>2, <1>3, <1>4, <1>5

----------------------------------------------------------------------------
(* The specification.                                                      *)

\* What stays true of a subscription when it is disposed in the middle of a
\* transaction: its selection is left behind, and nothing is sent any more.
Ended(s) == InOrder(s) /\ RootOnly(s) /\ Kept(s)

\* The inductive invariant.
SendInv ==
  /\ WorkInv
  /\ ~sub.disposed => Sending(sub)
  /\ Ended(sub)

\* Once disposed only the consumer takes what was sent, and the answer.
LEMMA DisposeEnds ==
  ASSUME Typed(sub), Ended(sub), Dispose
  PROVE  sub'.disposed /\ Ended(sub')
<1> DEFINE c == ClearPending(sub)
<1>1. /\ Typed(c) /\ c.out = sub.out /\ c.exclGen = sub.exclGen /\ c.pending = {}
  BY ClearPendingTyped, ClearPendingQueue, ClearPendingSameWork DEF SameWork
<1> HIDE DEF c
<1>2. /\ sub'.disposed /\ sub'.owed = {} /\ sub'.pending = {}
      /\ sub'.out = sub.out /\ sub'.exclGen = sub.exclGen
  BY <1>1 DEF Dispose, Typed, Subscriptions, c
<1> QED BY <1>2 DEF Ended, InOrder, RootOnly, Kept, Covered

LEMMA ReceiveSends ==
  ASSUME Typed(sub), Ended(sub), Receive
  PROVE  /\ sub'.disposed = sub.disposed
         /\ Sending(sub) => Sending(sub')
         /\ Ended(sub')
<1>1. /\ sub'.owed = sub.owed /\ sub'.pending = sub.pending
      /\ sub'.pendingGen = sub.pendingGen /\ sub'.exclGen = sub.exclGen
      /\ sub'.selection = sub.selection /\ sub'.update = sub.update
      /\ sub'.lost = sub.lost /\ sub'.interests = sub.interests
      /\ sub'.recon = sub.recon /\ sub'.recov = sub.recov
      /\ sub'.disposed = sub.disposed
      /\ sub'.out = Tail(sub.out) /\ sub.out \in Seq(Batches) /\ sub.out # <<>>
  BY DEF Receive, Typed, Subscriptions
<1>2. /\ Len(sub'.out) = Len(sub.out) - 1 /\ Len(sub.out) \in Nat
      /\ \A i \in 1..Len(sub'.out) : sub'.out[i] = sub.out[i + 1]
  BY <1>1
<1>3. InOrder(sub')
  BY <1>1, <1>2 DEF Ended, InOrder
<1>4. RootOnly(sub') /\ Kept(sub')
  BY <1>1 DEF Ended, RootOnly, Kept, Covered, Exempt
<1>5. Selecting(sub) => Selecting(sub')
  BY <1>1 DEF Selecting, Chosen, Installing
<1> QED BY <1>1, <1>3, <1>4, <1>5 DEF Ended, Sending

LEMMA NextSends == SendInv /\ [Next]_vars => SendInv'
<1> SUFFICES ASSUME WorkInv, ~sub.disposed => Sending(sub), Ended(sub), [Next]_vars
             PROVE  (~sub'.disposed => Sending(sub')) /\ Ended(sub')
  BY NextWorks DEF SendInv, Ended, Sending, Selecting, Chosen, Installing, InOrder,
                   RootOnly, Kept, Covered, Exempt
<1>0. IInv /\ Typed(sub) /\ Working(sub)
  BY DEF WorkInv, IInv
<1>a. Sending(sub') => Ended(sub')
  BY DEF Sending, Ended
<1>b. sub.disposed \/ Sending(sub)
  OBVIOUS
<1>1. ASSUME NEW g \in 1..MaxGeneration, NEW policy \in Policies,
             NEW more \in BOOLEAN, ReplaceExclusions(g, policy, more)
      PROVE  Sending(sub')
  <2>1. ~sub.disposed
    BY <1>1 DEF ReplaceExclusions
  <2> QED BY <1>0, <1>1, <2>1, ReplaceExclusionsSends
<1>2. CASE Reconcile
  <2>1. ~sub.disposed
    BY <1>2 DEF Reconcile
  <2> QED BY <1>0, <1>2, <1>a, <2>1, ReconcileSends
<1>3. ASSUME NEW accept \in BOOLEAN, NEW more \in BOOLEAN, NEW opened \in Opened,
             RecoverRoot(accept, more, opened)
      PROVE  Sending(sub')
  <2>1. ~sub.disposed
    BY <1>3 DEF RecoverRoot
  <2> QED BY <1>0, <1>3, <2>1, RecoverRootSends
<1>4. ASSUME NEW p \in Paths, NEW kind \in Kinds, Event(p, kind)
      PROVE  Sending(sub')
  <2>1. ~sub.disposed
    BY <1>4 DEF Event
  <2> QED BY <1>0, <1>4, <2>1, EventSends
<1>5. CASE RootSelf
  <2>1. ~sub.disposed /\ sub' = HandleRootSelf(sub)
    BY <1>5 DEF RootSelf
  <2> QED BY <1>0, <1>a, <2>1, HandleRootSelfSends
<1>6. CASE RootIgnored
  <2>1. ~sub.disposed /\ sub' = HandleRootIgnored(sub)
    BY <1>6 DEF RootIgnored
  <2> QED BY <1>0, <1>a, <2>1, HandleRootIgnoredSends
<1>7. ASSUME NEW reason \in {EventOverflow, TopologyRace}, Loss(reason)
      PROVE  Sending(sub')
  <2>1. /\ ~sub.disposed /\ sub' = MarkUncertain(sub, reason)
        /\ reason \in Reasons
    BY <1>7 DEF Loss, Reasons
  <2> QED BY <1>0, <2>1, MarkUncertainSends DEF Sending, Selecting
<1>8. ASSUME NEW p \in Paths, NEW opened \in Opened, NEW deferred \in BOOLEAN,
             Promote(p, opened, deferred)
      PROVE  Sending(sub')
  <2>1. ~sub.disposed
    BY <1>8 DEF Promote
  <2> QED BY <1>0, <1>8, <2>1, PromoteSends
<1>9. ASSUME NEW finished \in 0..sub.jobs, NEW race \in BOOLEAN,
             NEW more \in BOOLEAN, NEW opened \in Opened,
             Turn(finished, race, more, opened)
      PROVE  Sending(sub')
  <2>1. ~sub.disposed
    BY <1>9 DEF Turn
  <2> QED BY <1>0, <1>9, <2>1, TopologyTurnSends DEF Turn
<1>10. ASSUME NEW checkDue \in BOOLEAN, NEW windowElapsed \in BOOLEAN,
              Maintenance(checkDue, windowElapsed)
       PROVE  Sending(sub')
  <2>1. ~sub.disposed
    BY <1>10 DEF Maintenance
  <2> QED BY <1>0, <1>10, <2>1, MaintainSends DEF Maintenance
<1>11. CASE Dispose
  BY <1>0, <1>11, DisposeEnds
<1>12. CASE Receive
  BY <1>0, <1>12, ReceiveSends
<1>13. ASSUME SameQueue(sub, sub'), sub'.disposed = sub.disposed
       PROVE  (~sub'.disposed => Sending(sub')) /\ Ended(sub')
  <2>1. Ended(sub')
    BY <1>13 DEF SameQueue, Ended, InOrder, RootOnly, Kept, Covered, Exempt
  <2> QED BY <1>13, <2>1, SameQueueSends
<1>14. CASE TakeReply
  <2>1. SameQueue(sub, sub') /\ sub'.disposed = sub.disposed
    BY <1>0, <1>14 DEF TakeReply, SameQueue, Typed, Subscriptions
  <2> QED BY <1>13, <2>1
<1>15. ASSUME NEW identity \in Identities \cup {Missing},
              NEW records \in RootRecords, SwapRoot(identity, records)
       PROVE  (~sub'.disposed => Sending(sub')) /\ Ended(sub')
  <2>1. SameQueue(sub, sub') /\ sub'.disposed = sub.disposed
    BY <1>0, <1>15 DEF SwapRoot, SameQueue, Typed, Subscriptions
  <2> QED BY <1>13, <2>1
<1>16. CASE UNCHANGED vars
  BY <1>16 DEF vars
<1> QED BY <1>1, <1>2, <1>3, <1>4, <1>5, <1>6, <1>7, <1>8, <1>9, <1>10, <1>11,
           <1>12, <1>14, <1>15, <1>16, <1>a DEF Next

LEMMA AlwaysSends == Spec => []SendInv
<1>1. Init => SendInv
  BY InitTyped, InitWorks, InitSends DEF SendInv, WorkInv, Sending, Ended
<1> QED BY <1>1, NextSends, PTL DEF Spec

\* Around a full queue, a rolled back policy and a lost root: the consumer sees
\* committed generations in order, a batch about a lost root names the root alone,
\* and what is owed to the consumer is queued for it.
THEOREM BatchesAreHonest == Spec => []BatchesHonest
<1>1. ASSUME SendInv PROVE BatchesHonest
  <2>1. BatchGenerationsCommitted /\ LostRootBatchesNameTheRoot
    BY <1>1 DEF SendInv, Ended, InOrder, BatchGenerationsCommitted,
                LostRootBatchesNameTheRoot
  <2>2. LossStaysQueued
    BY <1>1 DEF SendInv, Ended, Kept, Covered, Exempt, Transacting,
                LossStaysQueued
  <2> QED BY <2>1, <2>2 DEF BatchesHonest
<1> QED BY <1>1, AlwaysSends, PTL

-----------------------------------------------------------------------------
(***************************************************************************)
(* The boundaries of the transactions: ReconciliationBoundary,             *)
(* RecoveryBoundary and LossesReported hold of every step of               *)
(* SubscriptionCoverage, for every value of its constants.                 *)
(*                                                                         *)
(* A step is a chain of helpers.  Every one of them either stands by what  *)
(* was reported - it keeps the uncertainty, the lost root and the call as  *)
(* they were, and the batches it sends say so - or is the commit of a      *)
(* rebuild, after which nothing more is sent in that step: Standing and    *)
(* Commits.                                                              *)
(***************************************************************************)

LastOf(out) == out[Len(out)]

\* What was sent on the way from s to t says what s knew.
Told(s, t) ==
  \/ t.out = s.out
  \/ /\ Len(t.out) > Len(s.out)
     /\ s.uncertain # NoReason => LastOf(t.out).coverage \in Reasons

Continues(s, t) ==
  /\ s.uncertain # NoReason => t.uncertain # NoReason
  /\ Told(s, t)

\* No root is attached and no rebuild answered on the way from s to t.
Standing(s, t) ==
  /\ Continues(s, t)
  /\ s.lost => t.lost
  /\ t.ack = "ok" => s.ack = "ok" \/ s.update.phase # "none"
  /\ t.update.phase # "none" => s.update.phase # "none"
  /\ t.recon.phase # "none" => s.recon.phase # "none"
  /\ t.recov.phase # "none" => s.recov.phase # "none"

\* The last batch sent on the way names the root that is attached in t.
Named(s, t) ==
  /\ Len(t.out) > Len(s.out)
  /\ LastOf(t.out) = [gen |-> t.exclGen, paths |-> {Root},
                      coverage |-> Coverage(t), lost |-> FALSE]

\* A rebuild of the directory found at the root path commits in t.
Commits(s, t, root) ==
  /\ t.ack = "ok" /\ ~t.lost /\ t.identity = root
  /\ \/ Named(s, t)
     \/ Told(s, t) /\ t.pending = {Root} /\ t.uncertain # NoReason

LEMMA SentTyped ==
  ASSUME NEW s, Typed(s)
  PROVE  s.out \in Seq(Batches) /\ Len(s.out) \in Nat
<1>1. s.out \in Seq(Batches)
  BY DEF Typed, Subscriptions
<1> QED BY <1>1

LEMMA ContinuesOn ==
  ASSUME NEW s, NEW t, NEW u, Typed(s), Typed(t), Typed(u),
         Continues(s, t), Continues(t, u)
  PROVE  Continues(s, u)
<1>1. Len(s.out) \in Nat /\ Len(t.out) \in Nat /\ Len(u.out) \in Nat
  BY SentTyped
<1> QED BY <1>1 DEF Continues, Told

LEMMA StandingOn ==
  ASSUME NEW s, NEW t, NEW u, Typed(s), Typed(t), Typed(u),
         Standing(s, t), Standing(t, u)
  PROVE  Standing(s, u)
BY ContinuesOn DEF Standing

LEMMA SameWorkStands ==
  ASSUME NEW s, NEW t, SameWork(s, t), Continues(s, t)
  PROVE  Standing(s, t)
BY DEF SameWork, Standing

LEMMA StandsStill ==
  ASSUME NEW s
  PROVE  Standing(s, s)
BY DEF Standing, Continues, Told

LEMMA NamedOn ==
  ASSUME NEW s, NEW t, NEW u, Typed(s), Typed(t), Typed(u),
         Continues(s, t), Named(t, u)
  PROVE  Named(s, u)
<1>1. Len(s.out) \in Nat /\ Len(t.out) \in Nat /\ Len(u.out) \in Nat
  BY SentTyped
<1> QED BY <1>1 DEF Continues, Told, Named

LEMMA CommittedOn ==
  ASSUME NEW s, NEW t, NEW u, Typed(s), Typed(t), Typed(u), NEW root,
         Continues(s, t), Commits(t, u, root)
  PROVE  Commits(s, u, root)
<1>1. Len(s.out) \in Nat /\ Len(t.out) \in Nat /\ Len(u.out) \in Nat
  BY SentTyped
<1>2. Named(t, u) => Named(s, u)
  BY NamedOn
<1>3. Told(t, u) => Told(s, u)
  BY <1>1 DEF Continues, Told
<1> QED BY <1>2, <1>3 DEF Commits

----------------------------------------------------------------------------
(* Queueing, marking and flushing.                                         *)

LEMMA QueuePathsStands ==
  ASSUME NEW s, Typed(s), NEW ps
  PROVE  Standing(s, QueuePaths(s, ps)) /\ QueuePaths(s, ps).out = s.out
<1> DEFINE t == QueuePaths(s, ps)
<1>1. t.out = s.out /\ (s.uncertain # NoReason => t.uncertain # NoReason)
  BY DEF QueuePaths, Typed, Subscriptions, TopologyRace, NoReason
<1>2. SameWork(s, t)
  BY QueuePathsSameWork
<1> HIDE DEF t
<1>3. Standing(s, t)
  BY <1>1, <1>2, SameWorkStands DEF Continues, Told
<1> QED BY <1>1, <1>3 DEF t

LEMMA MarkUncertainStands ==
  ASSUME NEW s, Typed(s), NEW reason \in Reasons
  PROVE  LET t == MarkUncertain(s, reason)
         IN  Standing(s, t) /\ t.out = s.out /\ t.uncertain # NoReason
<1> DEFINE noted == NoteLoss(s, reason)
           m == Marked(s, reason)
           t == QueuePaths(m, {Root})
<1>1. m.out = s.out
  <2>1. CASE reason = Backpressure
    BY <2>1 DEF Marked, NoteLoss, Typed, Subscriptions
  <2>2. CASE reason # Backpressure
    BY <2>2 DEF Marked, NoteLoss, Typed, Subscriptions
  <2> QED BY <2>1, <2>2
<1>2. Typed(m)
  BY MarkedTyped
<1>3. SameWork(s, t) /\ t.uncertain # NoReason
  BY MarkUncertainSameWork, MarkUncertainMarks DEF MarkUncertain, QueuePath
<1> HIDE DEF m
<1>4. t.out = m.out
  BY <1>2, QueuePathsStands
<1> HIDE DEF t
<1>5. Standing(s, t)
  BY <1>1, <1>3, <1>4, SameWorkStands DEF Continues, Told
<1> QED BY <1>1, <1>3, <1>4, <1>5 DEF MarkUncertain, QueuePath, t, m

LEMMA ClearPendingStands ==
  ASSUME NEW s, Typed(s)
  PROVE  LET t == ClearPending(s)
         IN  Standing(s, t) /\ t.uncertain = s.uncertain
<1> DEFINE t == ClearPending(s)
<1>1. t.out = s.out /\ t.uncertain = s.uncertain
  BY DEF ClearPending, Typed, Subscriptions
<1>2. SameWork(s, t)
  BY ClearPendingSameWork
<1> HIDE DEF t
<1> QED BY <1>1, <1>2, SameWorkStands DEF Continues, Told, t

LEMMA AcceptSends ==
  ASSUME NEW s, Typed(s), NEW batch \in Batches
  PROVE  LET t == Accept(s, batch)
         IN  /\ Len(t.out) > Len(s.out) /\ LastOf(t.out) = batch
             /\ t.uncertain = s.uncertain /\ t.deferred = s.deferred
<1> DEFINE t == Accept(s, batch)
<1>1. /\ t.out = Append(s.out, batch)
      /\ t.uncertain = s.uncertain /\ t.deferred = s.deferred
  BY DEF Accept, Typed, Subscriptions
<1>2. s.out \in Seq(Batches)
  BY DEF Typed, Subscriptions
<1> HIDE DEF t
<1> QED BY <1>1, <1>2 DEF LastOf, t

LEMMA CollapseStands ==
  ASSUME NEW s, Typed(s)
  PROVE  Typed(Collapse(s)) /\ Standing(s, Collapse(s)) /\ Collapse(s).out = s.out
<1>1. Backpressure \in Reasons
  BY DEF Reasons
<1> QED BY <1>1, MarkUncertainTyped, MarkUncertainStands, StandsStill DEF Collapse

\* A batch sent while coverage is uncertain says so.
LEMMA FlushStands ==
  ASSUME NEW s, Typed(s)
  PROVE  Standing(s, Flush(s))
<1> DEFINE c == Collapse(s)
           e == ClearPending(c)
           gen == IF c.pendingGen = Unselected THEN c.selection ELSE c.pendingGen
           batch == Batch(c, gen, c.pending, Coverage(c))
           a == Accept(e, batch)
           m == MarkUncertain(e, Backpressure)
<1>1. Typed(c) /\ Standing(s, c)
  BY CollapseStands
<1> HIDE DEF c
<1>2. Typed(e) /\ Standing(c, e) /\ e.uncertain = c.uncertain
  BY <1>1, ClearPendingTyped, ClearPendingStands
<1>3. Standing(s, e)
  BY <1>1, <1>2, StandingOn
<1> HIDE DEF e
<1>4. batch \in Batches /\ batch.coverage = Coverage(c)
  <2>1. gen \in 0..MaxGeneration
    <3>1. c.pendingGen \in -1..MaxGeneration /\ c.selection \in 0..MaxGeneration
      BY <1>1 DEF Typed, Subscriptions
    <3> QED BY <3>1, BoundsAssumption DEF Unselected
  <2> HIDE DEF gen
  <2> QED BY <1>1, <2>1, CoverageTyped DEF Batch, Batches, Typed, Subscriptions
<1> HIDE DEF batch
<1>5. Standing(e, a)
  <2>1. /\ SameWork(e, a) /\ Len(a.out) > Len(e.out) /\ LastOf(a.out) = batch
        /\ a.uncertain = e.uncertain
    BY <1>2, <1>4, AcceptSends, AcceptSameWork
  <2> HIDE DEF a
  <2>2. e.uncertain # NoReason => batch.coverage \in Reasons
    BY <1>1, <1>2, <1>4 DEF Coverage, Typed, Subscriptions
  <2> QED BY <2>1, <2>2, SameWorkStands DEF Continues, Told
<1>6. Typed(a)
  BY <1>2, <1>4, AcceptTyped
<1>7. Typed(m) /\ Standing(e, m)
  BY <1>2, MarkUncertainTyped, MarkUncertainStands DEF Reasons
<1> HIDE DEF a, m
<1>8. Standing(s, a) /\ Standing(s, m)
  BY <1>2, <1>3, <1>5, <1>6, <1>7, StandingOn
<1> QED BY <1>8, StandsStill DEF Flush, Flushed, c, e, gen, batch, a, m

LEMMA FlushIfStands ==
  ASSUME NEW s, Typed(s), NEW due
  PROVE  Standing(s, FlushIf(s, due))
BY FlushStands, StandsStill DEF FlushIf

LEMMA QueueEventStands ==
  ASSUME NEW s, Typed(s), NEW p
  PROVE  Standing(s, QueueEvent(s, p))
<1>1. Backpressure \in Reasons
  BY DEF Reasons
<1> QED BY <1>1, MarkUncertainStands, QueuePathsStands DEF QueueEvent, QueuePath

LEMMA ScheduleStands ==
  ASSUME NEW s, Typed(s), NEW when
  PROVE  LET t == Schedule(s, when)
         IN  /\ Standing(s, t) /\ t.out = s.out /\ t.ack = s.ack
             /\ t.lost = s.lost /\ t.identity = s.identity
             /\ t.pending = s.pending /\ t.uncertain = s.uncertain
             /\ t.exclGen = s.exclGen /\ Coverage(t) = Coverage(s)
<1> DEFINE t == Schedule(s, when)
<1>1. /\ t.out = s.out /\ t.ack = s.ack /\ t.lost = s.lost
      /\ t.identity = s.identity /\ t.pending = s.pending
      /\ t.uncertain = s.uncertain /\ t.exclGen = s.exclGen
      /\ t.deferred = s.deferred /\ t.update = s.update /\ t.recon = s.recon
      /\ t.recov = s.recov
  BY DEF Schedule, Typed, Subscriptions
<1> HIDE DEF t
<1> QED BY <1>1 DEF Standing, Continues, Told, Coverage, t

LEMMA ScheduleCommits ==
  ASSUME NEW s, NEW t, Typed(t), NEW root, NEW when, Commits(s, t, root)
  PROVE  /\ Commits(s, Schedule(t, when), root)
         /\ Named(s, t) => Named(s, Schedule(t, when))
<1> DEFINE u == Schedule(t, when)
<1>1. /\ u.out = t.out /\ u.ack = t.ack /\ u.lost = t.lost
      /\ u.identity = t.identity /\ u.pending = t.pending
      /\ u.uncertain = t.uncertain /\ u.exclGen = t.exclGen
      /\ Coverage(u) = Coverage(t)
  BY ScheduleStands
<1> HIDE DEF u
<1> QED BY <1>1 DEF Commits, Named, Told, u

----------------------------------------------------------------------------
(* Root loss.                                                              *)

LEMMA DetachedStands ==
  ASSUME NEW s, Typed(s)
  PROVE  Standing(s, Detached(s))
<1> DEFINE t == Detached(s)
<1>1. CASE s.recov.phase = "none"
  <2> DEFINE r == RolledBack(s)
  <2>1. /\ Typed(r) /\ r.recov = s.recov /\ r.ack = s.ack
        /\ r.out = s.out /\ r.uncertain = s.uncertain
        /\ r.update.phase = "none"
    BY <1>1, RolledBackTyped, ZenonT(60) DEF RolledBack, NoUpdate, Typed, Subscriptions
  <2> HIDE DEF r
  <2>2. /\ t.update.phase = "none" /\ t.recov = s.recov /\ t.lost
        /\ t.recon = NoRecon /\ t.out = s.out /\ t.uncertain = s.uncertain
        /\ t.ack = IF Transacting(s) THEN "failed" ELSE s.ack
    BY <1>1, <2>1 DEF Detached, Interrupted, Typed, Subscriptions, r
  <2> HIDE DEF t
  <2> QED BY <2>2 DEF Standing, Continues, Told, NoRecon, t
<1>2. CASE s.recov.phase # "none"
  <2>1. /\ t.update = s.update /\ t.recon = s.recon /\ t.lost
        /\ t.ack = s.ack /\ t.out = s.out /\ t.uncertain = s.uncertain
    BY <1>2 DEF Detached, Typed, Subscriptions
  <2> HIDE DEF t
  <2> QED BY <1>2, <2>1 DEF Standing, Continues, Told, t
<1> QED BY <1>1, <1>2

LEMMA MarkRootLostStands ==
  ASSUME NEW s, Typed(s)
  PROVE  Standing(s, MarkRootLost(s))
<1> DEFINE d == Detached(s)
           m == MarkUncertain(d, RootReplaced)
<1>1. Typed(d) /\ Standing(s, d)
  BY DetachedTyped, DetachedStands
<1> HIDE DEF d
<1>2. Typed(m) /\ Standing(d, m)
  BY <1>1, MarkUncertainTyped, MarkUncertainStands DEF Reasons
<1> HIDE DEF m
<1>3. Standing(s, m)
  BY <1>1, <1>2, StandingOn
<1> QED BY <1>3 DEF MarkRootLost, d, m

----------------------------------------------------------------------------
(* Exclusion replacement.                                                  *)

LEMMA UpdateStartStands ==
  ASSUME NEW s, Typed(s), NEW root
  PROVE  Standing(s, UpdateStart(s, root))
<1> DEFINE f == Flush(s)
           e == Selected(f)
           m == MarkUncertain(e, Backpressure)
           ready == s.update.phase = "waiting" /\ Idle(s)
<1>1. Typed(f) /\ Standing(s, f) /\ SameWork(s, f)
  BY FlushTyped, FlushStands, FlushSameWork
<1> HIDE DEF f
<1>2. /\ e.out = f.out /\ e.uncertain = f.uncertain /\ e.lost = f.lost
      /\ e.ack = f.ack /\ e.recon = f.recon /\ e.recov = f.recov
  BY <1>1 DEF Selected, ClearPending, Typed, Subscriptions
<1>3. Typed(e)
  BY <1>1, SelectedTyped
<1> HIDE DEF e
<1>4. ASSUME ready PROVE Standing(f, e)
  BY <1>1, <1>2, <1>4 DEF SameWork, Standing, Continues, Told
<1>5. Typed(m) /\ Standing(e, m)
  BY <1>3, MarkUncertainTyped, MarkUncertainStands DEF Reasons
<1> HIDE DEF m
<1>6. ready => Standing(s, e) /\ Standing(s, m)
  BY <1>1, <1>3, <1>4, <1>5, StandingOn
<1> QED BY <1>6, StandsStill, MarkRootLostStands
        DEF UpdateStart, BoundaryDrop, f, e, m

LEMMA UpdateRemoveStands ==
  ASSUME NEW s, Typed(s), NEW more
  PROVE  Standing(s, UpdateRemove(s, more))
<1> DEFINE t == UpdateRemove(s, more)
<1>1. /\ t.out = s.out /\ t.uncertain = s.uncertain /\ t.lost = s.lost
      /\ t.ack = s.ack /\ t.recon = s.recon /\ t.recov = s.recov
      /\ t.update.phase # "none" => s.update.phase # "none"
  BY DEF UpdateRemove, Typed, Subscriptions
<1> HIDE DEF t
<1> QED BY <1>1 DEF Standing, Continues, Told, t

LEMMA UpdateCommitStands ==
  ASSUME NEW s, Typed(s), NEW root
  PROVE  Standing(s, UpdateCommit(s, root))
<1> DEFINE c == Committing(s)
           t == QueuePaths(c, Reincluded(s))
           ready == s.update.phase = "scanning" /\ s.jobs = 0 /\ s.barriers = 1
<1>1. Typed(c) /\ Reincluded(s) \in PathSets
  BY CommittingTyped, ReincludedTyped
<1>2. /\ c.update.phase = "none" /\ c.out = s.out /\ c.uncertain = s.uncertain
      /\ c.lost = s.lost /\ c.recon = s.recon /\ c.recov = s.recov
  BY DEF Committing, NoUpdate, Typed, Subscriptions
<1> HIDE DEF c
<1>3. ready => Standing(s, c)
  BY <1>2 DEF Standing, Continues, Told
<1>4. Typed(t) /\ Standing(c, t)
  BY <1>1, QueuePathsTyped, QueuePathsStands
<1> HIDE DEF t
<1>5. ready => Standing(s, t)
  BY <1>1, <1>3, <1>4, StandingOn
<1> QED BY <1>5, StandsStill, MarkRootLostStands DEF UpdateCommit, c, t

LEMMA ProgressUpdateStands ==
  ASSUME NEW s, Typed(s), NEW root, NEW more
  PROVE  Standing(s, ProgressUpdate(s, root, more))
<1> DEFINE a == UpdateStart(s, root)
           b == UpdateRemove(a, more)
           c == UpdateCommit(b, root)
<1>1. Typed(a) /\ Standing(s, a)
  BY UpdateStartTyped, UpdateStartStands
<1> HIDE DEF a
<1>2. Typed(b) /\ Standing(a, b)
  BY <1>1, UpdateRemoveTyped, UpdateRemoveStands
<1> HIDE DEF b
<1>3. Typed(c) /\ Standing(b, c)
  BY <1>2, UpdateCommitTyped, UpdateCommitStands
<1> HIDE DEF c
<1>4. Standing(s, c)
  BY <1>1, <1>2, <1>3, StandingOn
<1> QED BY <1>4 DEF ProgressUpdate, a, b, c

----------------------------------------------------------------------------
(* Reconciliation.                                                         *)

LEMMA ReconStartStands ==
  ASSUME NEW s, Typed(s), NEW root
  PROVE  Standing(s, ReconStart(s, root))
<1> DEFINE f == Flush(s)
           c == ClearPending(f)
           t == Traversing(f)
           m == MarkRootLost(c)
           ready == s.recon.phase = "waiting" /\ Idle(s)
<1>1. Typed(f) /\ Standing(s, f) /\ SameWork(s, f)
  BY FlushTyped, FlushStands, FlushSameWork
<1> HIDE DEF f
<1>2. /\ t.out = f.out /\ t.uncertain = f.uncertain /\ t.lost = f.lost
      /\ t.ack = f.ack /\ t.update = f.update /\ t.recov = f.recov
  BY <1>1 DEF Traversing, ClearPending, Typed, Subscriptions
<1>3. Typed(t)
  BY <1>1, TraversingTyped
<1> HIDE DEF t
<1>4. ASSUME ready PROVE Standing(f, t)
  BY <1>1, <1>2, <1>4 DEF SameWork, Standing, Continues, Told
<1>5. Typed(c) /\ Standing(f, c)
  BY <1>1, ClearPendingTyped, ClearPendingStands
<1> HIDE DEF c
<1>6. Typed(m) /\ Standing(c, m)
  BY <1>5, MarkRootLostTyped, MarkRootLostStands
<1> HIDE DEF m
<1>7. Standing(s, m)
  BY <1>1, <1>5, <1>6, StandingOn
<1>8. ready => Standing(s, t)
  BY <1>1, <1>3, <1>4, StandingOn
<1> QED BY <1>7, <1>8, StandsStill DEF ReconStart, f, c, t, m

LEMMA ReconScannedStands ==
  ASSUME NEW s, Typed(s)
  PROVE  Standing(s, ReconScanned(s))
<1> DEFINE t == ReconScanned(s)
<1>1. /\ t.out = s.out /\ t.uncertain = s.uncertain /\ t.lost = s.lost
      /\ t.ack = s.ack /\ t.update = s.update /\ t.recov = s.recov
      /\ t.recon.phase # "none" => s.recon.phase # "none"
  BY DEF ReconScanned, Typed, Subscriptions
<1> HIDE DEF t
<1> QED BY <1>1 DEF Standing, Continues, Told, t

LEMMA ReconAcceptedCommits ==
  ASSUME NEW s, Typed(s), ~s.lost
  PROVE  LET t == ReconAccepted(s)
         IN  Named(s, t) /\ Commits(s, t, s.identity)
<1> DEFINE c == ReconClosed(s)
           batch == Batch(s, s.exclGen, {Root}, Coverage(c))
           t == Accept(c, batch)
<1>1. /\ c.out = s.out /\ c.exclGen = s.exclGen /\ c.ack = "ok"
      /\ c.lost = s.lost /\ c.identity = s.identity
  BY DEF ReconClosed, ClearPending, Typed, Subscriptions
<1>2. Typed(c)
  BY ReconClosedTyped
<1> HIDE DEF c
<1>3. /\ batch \in Batches
      /\ batch = [gen |-> c.exclGen, paths |-> {Root}, coverage |-> Coverage(c),
                  lost |-> FALSE]
  BY <1>1, <1>2, CoverageTyped DEF Batch, Batches, Typed, Subscriptions
<1> HIDE DEF batch
<1>4. /\ SameWork(c, t) /\ Len(t.out) > Len(c.out) /\ LastOf(t.out) = batch
      /\ t.uncertain = c.uncertain /\ t.deferred = c.deferred
  BY <1>2, <1>3, AcceptSends, AcceptSameWork
<1> HIDE DEF t
<1>5. Coverage(t) = Coverage(c)
  BY <1>4 DEF Coverage
<1>6. Named(s, t)
  BY <1>1, <1>3, <1>4, <1>5 DEF SameWork, Named
<1>7. Commits(s, t, s.identity)
  BY <1>1, <1>4, <1>6 DEF SameWork, Commits
<1> QED BY <1>6, <1>7 DEF ReconAccepted, c, batch, t

LEMMA ReconRefusedStands ==
  ASSUME NEW s, Typed(s)
  PROVE  Standing(s, ReconRefused(s))
<1> DEFINE c == ReconGivenUp(s)
           n == [c EXCEPT !.uncertain = Backpressure]
           m == MarkUncertain(c, Backpressure)
<1>0. Typed(c)
  BY ReconGivenUpTyped
<1>1. /\ Typed(c) /\ c.out = s.out /\ c.uncertain = s.uncertain
      /\ c.lost = s.lost /\ c.ack = "failed" /\ c.update = s.update
      /\ c.recov = s.recov /\ c.recon.phase = "none"
  BY <1>0 DEF ReconGivenUp, ClearPending, NoRecon, Typed, Subscriptions
<1> HIDE DEF c
<1>2. Standing(s, c)
  BY <1>1 DEF Standing, Continues, Told
<1>3. Typed(n) /\ n.out = c.out /\ n.uncertain # NoReason /\ SameWork(c, n)
  BY <1>1, ZenonT(60) DEF Typed, CandidateCaptured, Subscriptions, SameWork, Reasons,
              Backpressure, NoReason
<1>4. Typed(m) /\ Standing(c, m)
  BY <1>1, MarkUncertainTyped, MarkUncertainStands DEF Reasons
<1> HIDE DEF n, m
<1>5. Standing(c, n)
  BY <1>3, SameWorkStands DEF Continues, Told
<1>6. ASSUME NEW k \in {n, m} PROVE Standing(s, QueuePaths(k, {Root}))
  <2> DEFINE q == QueuePaths(k, {Root})
  <2>1. Typed(k) /\ Standing(s, k)
    BY <1>1, <1>2, <1>3, <1>4, <1>5, StandingOn
  <2>2. Typed(q) /\ Standing(k, q)
    BY <2>1, QueuePathsTyped, QueuePathsStands DEF PathSets
  <2> HIDE DEF q
  <2>3. Standing(s, q)
    BY <2>1, <2>2, StandingOn
  <2> QED BY <2>3 DEF q
<1> QED BY <1>6 DEF ReconRefused, QueuePath, c, n, m

\* A sweep that ends stands by what was reported or commits.
LEMMA ReconCommitStands ==
  ASSUME NEW s, Typed(s), ~s.lost, NEW root
  PROVE  LET t == ReconCommit(s, root)
         IN  Standing(s, t) \/ (Named(s, t) /\ Commits(s, t, root))
<1>1. CASE root # s.identity
  <2> DEFINE b == Monus(s.barriers, 1)
             e == [s EXCEPT !.barriers = b]
             m == MarkRootLost(e)
  <2>1. b \in Nat
    BY MonusTyped DEF Typed, Subscriptions
  <2> HIDE DEF b
  <2>2. Typed(e)
    BY <2>1 DEF Typed, CandidateCaptured, Subscriptions
  <2>3. Standing(s, e)
    BY DEF Standing, Continues, Told, Typed, Subscriptions
  <2> HIDE DEF e
  <2>4. Typed(m) /\ Standing(e, m)
    BY <2>2, MarkRootLostTyped, MarkRootLostStands
  <2> HIDE DEF m
  <2>5. Standing(s, m)
    BY <2>2, <2>3, <2>4, StandingOn
  <2> QED BY <1>1, <2>5 DEF ReconCommit, b, e, m
<1>2. CASE root = s.identity
  BY <1>2, ReconRefusedStands, ReconAcceptedCommits DEF ReconCommit
<1> QED BY <1>1, <1>2

\* A reconciliation that has not been traversing does not commit.
LEMMA ProgressReconciliationStands ==
  ASSUME NEW s, Typed(s), Working(s), NEW root, NEW more
  PROVE  LET t == ProgressReconciliation(s, root, more)
         IN  \/ Standing(s, t)
             \/ /\ s.recon.phase \in {"scanning", "sweeping"}
                /\ Named(s, t) /\ Commits(s, t, root)
                /\ t.recov.phase = "none"
<1> DEFINE r == ReconStart(s, root)
           q == ReconScanned(r)
           t == ReconSweep(q, root, more)
<1>1. Typed(r) /\ Working(r) /\ Standing(s, r)
  BY ReconStartTyped, ReconStartWorks, ReconStartStands
<1>2. \/ s.recon.phase \in {"scanning", "sweeping"} \/ r.recon.phase = "none"
      \/ r.recon.phase = "waiting"
      \/ r.recon.phase = "scanning" /\ r.jobs # 0
  <2> DEFINE f == Flush(s)
  <2>1. Typed(f) /\ SameWork(s, f)
    BY FlushTyped, FlushSameWork
  <2> HIDE DEF f
  <2>2. Traversing(f).recon.phase = "scanning" /\ Traversing(f).jobs # 0
    <3>1. f.jobs \in Nat
      BY <2>1 DEF Typed, Subscriptions
    <3>2. /\ Traversing(f).recon.phase = "scanning"
          /\ Traversing(f).jobs = f.jobs + 1
      BY <2>1 DEF Traversing, ClearPending, Typed, Subscriptions
    <3> QED BY <3>1, <3>2
  <2>3. MarkRootLost(ClearPending(f)).recon.phase = "none"
    <3> DEFINE c == ClearPending(f)
               m == MarkRootLost(c)
    <3>1. Typed(c) /\ Owned(c)
      BY <2>1, ClearPendingTyped, ClearPendingSameWork, SameWorkWorks DEF Working
    <3> HIDE DEF c
    <3>2. Working(m) /\ m.lost
      BY <3>1, MarkRootLostWorks
    <3> HIDE DEF m
    <3> QED BY <3>2 DEF Working, Owned, c, m
  <2>4. s.recon.phase \in {"none", "waiting", "scanning", "sweeping"}
    BY DEF Typed, Subscriptions, Recons
  <2> QED BY <2>2, <2>3, <2>4 DEF ReconStart, f
<1> HIDE DEF r
<1>3. Typed(q) /\ Working(q) /\ Standing(r, q)
  BY <1>1, ReconScannedTyped, ReconScannedWorks, ReconScannedStands
<1>4. q.recon.phase = "sweeping" => s.recon.phase \in {"scanning", "sweeping"}
  BY <1>1, <1>2 DEF ReconScanned, Typed, Subscriptions
<1> HIDE DEF q
<1>5. Standing(s, q)
  BY <1>1, <1>3, StandingOn
<1>6. CASE q.recon.phase = "sweeping" /\ ~more
  <2>1. ~q.lost
    BY <1>3, <1>6 DEF Working, Owned
  <2>2. t = ReconCommit(q, root)
    BY <1>6 DEF ReconSweep
  <2>3. Typed(t) /\ Working(t)
    BY <1>3, <1>6, ReconCommitWorks, ProgressReconciliationTyped, <2>2
    DEF ProgressReconciliation, q, r
  <2>4. Standing(q, t) \/ (Named(q, t) /\ Commits(q, t, root))
    BY <1>3, <2>1, <2>2, ReconCommitStands
  <2> HIDE DEF t
  <2>5. Standing(q, t) => Standing(s, t)
    BY <1>3, <1>5, <2>3, StandingOn
  <2>6. Named(q, t) /\ Commits(q, t, root) =>
          Named(s, t) /\ Commits(s, t, root)
    BY <1>3, <1>5, <2>3, NamedOn, CommittedOn DEF Standing
  <2>7. Commits(q, t, root) => t.recov.phase = "none"
    BY <2>3 DEF Commits, Working, Owned
  <2> QED BY <1>4, <1>6, <2>4, <2>5, <2>6, <2>7 DEF ProgressReconciliation, t, q, r
<1>7. CASE ~(q.recon.phase = "sweeping" /\ ~more)
  BY <1>5, <1>7 DEF ProgressReconciliation, ReconSweep, q, r
<1> QED BY <1>6, <1>7

----------------------------------------------------------------------------
(* Root recovery.                                                          *)

LEMMA DrainStands ==
  ASSUME NEW s, Typed(s), NEW more
  PROVE  Standing(s, Drain(s, more))
<1> DEFINE t == Drain(s, more)
<1>1. /\ t.out = s.out /\ t.uncertain = s.uncertain /\ t.lost = s.lost
      /\ t.ack = s.ack /\ t.update = s.update /\ t.recon = s.recon
      /\ t.recov = s.recov
  BY DEF Drain, Typed, Subscriptions
<1> HIDE DEF t
<1> QED BY <1>1 DEF Standing, Continues, Told, t

LEMMA RecoveryFailedStands ==
  ASSUME NEW s, Typed(s)
  PROVE  Standing(s, RecoveryFailed(s))
<1> DEFINE t == RecoveryFailed(s)
<1>1. /\ t.out = s.out /\ t.uncertain = s.uncertain /\ t.lost = s.lost
      /\ t.ack = "failed" /\ t.update = s.update /\ t.recon = s.recon
      /\ t.recov.phase = "none"
  BY DEF RecoveryFailed, NoRecov, Typed, Subscriptions
<1> HIDE DEF t
<1> QED BY <1>1 DEF Standing, Continues, Told, t

LEMMA CommitRecoveryCommits ==
  ASSUME NEW s, Typed(s), s.recov.phase # "none"
  PROVE  Commits(s, CommitRecovery(s), s.recov.candidate)
<1> DEFINE c == Attached(s)
           batch == Batch(c, c.exclGen, {Root}, Coverage(c))
           a == Accept(c, batch)
           m == MarkUncertain(c, Backpressure)
<1>1. /\ c.out = s.out /\ c.ack = "ok" /\ c.lost = FALSE
      /\ c.identity = s.recov.candidate /\ c.update = s.update
  BY DEF Attached, ClearPending, Typed, Subscriptions
<1>2. Typed(c)
  BY AttachedTyped
<1> HIDE DEF c
<1>3. /\ batch \in Batches
      /\ batch = [gen |-> c.exclGen, paths |-> {Root}, coverage |-> Coverage(c),
                  lost |-> FALSE]
  BY <1>1, <1>2, CoverageTyped DEF Batch, Batches, Typed, Subscriptions
<1> HIDE DEF batch
<1>4. /\ SameWork(c, a) /\ Len(a.out) > Len(c.out) /\ LastOf(a.out) = batch
      /\ a.uncertain = c.uncertain /\ a.deferred = c.deferred
  BY <1>2, <1>3, AcceptSends, AcceptSameWork
<1> HIDE DEF a
<1>5. Commits(s, a, s.recov.candidate)
  BY <1>1, <1>3, <1>4 DEF SameWork, Commits, Named, Coverage
<1>6. SameWork(c, m) /\ m.out = c.out /\ m.uncertain # NoReason
  BY <1>2, MarkUncertainStands, MarkUncertainSameWork DEF Reasons
<1>7. m.pending = {Root}
  <2>1. Typed(Marked(c, Backpressure))
    BY <1>2, MarkedTyped DEF Reasons
  <2> QED BY <2>1, QueuePathsQueues
          DEF MarkUncertain, QueuePath, PathSets
<1> HIDE DEF m
<1>8. Commits(s, m, s.recov.candidate)
  BY <1>1, <1>6, <1>7 DEF SameWork, Commits, Told
<1> QED BY <1>5, <1>8 DEF CommitRecovery, c, batch, a, m

LEMMA AfterDrainStands ==
  ASSUME NEW s, Typed(s), s.recov.phase # "none", NEW root, NEW opened
  PROVE  LET t == AfterDrain(s, root, opened)
         IN  Standing(s, t) \/ Commits(s, t, root)
<1> DEFINE c == CandidateScanning(s)
           m == MarkUncertain(s, TopologyRace)
           n == MarkUncertain(c, TopologyRace)
           x == RecoveryFailed(m)
<1>1. /\ c.out = s.out /\ c.uncertain = s.uncertain /\ c.lost = s.lost
      /\ c.ack = s.ack /\ c.update = s.update /\ c.recon = s.recon
  BY DEF CandidateScanning, Typed, Subscriptions
<1>2. Typed(c)
  BY CandidateScanningTyped
<1> HIDE DEF c
<1>3. Standing(s, c)
  BY <1>1 DEF Standing, Continues, Told
<1>4. Typed(n) /\ Standing(c, n) /\ Typed(m) /\ Standing(s, m)
  BY <1>2, MarkUncertainTyped, MarkUncertainStands DEF Reasons
<1> HIDE DEF m, n
<1>5. Typed(x) /\ Standing(m, x)
  BY <1>4, RecoveryFailedTyped, RecoveryFailedStands
<1> HIDE DEF x
<1>6. Standing(s, n) /\ Standing(s, x)
  BY <1>2, <1>3, <1>4, <1>5, StandingOn
<1> QED BY <1>3, <1>6, RecoveryFailedStands, CommitRecoveryCommits
        DEF AfterDrain, c, m, n, x

LEMMA ProgressRecoveryStands ==
  ASSUME NEW s, Typed(s), NEW root, NEW more, NEW opened
  PROVE  LET t == ProgressRecovery(s, root, more, opened)
         IN  \/ Standing(s, t)
             \/ s.recov.phase # "none" /\ Commits(s, t, root)
<1> DEFINE d == Drain(s, more)
           x == RecoveryFailed(d)
           a == AfterDrain(d, root, opened)
           t == [s EXCEPT !.barriers = 1, !.recov.phase = "cleaning"]
<1>1. Typed(d) /\ Standing(s, d) /\ d.recov = s.recov
  <2>1. d.recov = s.recov
    BY DEF Drain, Typed, Subscriptions
  <2> QED BY <2>1, DrainTyped, DrainStands
<1> HIDE DEF d
<1>2. Typed(x) /\ Standing(d, x)
  BY <1>1, RecoveryFailedTyped, RecoveryFailedStands
<1> HIDE DEF x
<1>3. Standing(s, x)
  BY <1>1, <1>2, StandingOn
<1>4. ASSUME s.recov.phase # "none" PROVE Standing(s, a) \/ Commits(s, a, root)
  <2>1. Typed(a) /\ (Standing(d, a) \/ Commits(d, a, root))
    BY <1>1, <1>4, AfterDrainTyped, AfterDrainStands
  <2> HIDE DEF a
  <2> QED BY <1>1, <2>1, StandingOn, CommittedOn DEF Standing
<1>5. ASSUME s.recov.phase # "none" PROVE Standing(s, t)
  BY <1>5 DEF Standing, Continues, Told, Typed, Subscriptions
<1>6. ASSUME s.recov.phase # "none", root = s.recov.candidate
      PROVE  Commits(s, CommitRecovery(s), root)
  BY <1>6, CommitRecoveryCommits
<1> QED BY <1>1, <1>3, <1>4, <1>5, <1>6, StandsStill
        DEF ProgressRecovery, RecoveryDrain, RecoveryScanned, d, x, a, t

----------------------------------------------------------------------------
(* Events, topology turns and maintenance.                                 *)

LEMMA AddJobStands ==
  ASSUME NEW s, Typed(s)
  PROVE  Standing(s, AddJob(s))
<1> DEFINE t == AddJob(s)
<1>1. /\ t.out = s.out /\ t.uncertain = s.uncertain /\ t.lost = s.lost
      /\ t.ack = s.ack /\ t.update = s.update /\ t.recov = s.recov
      /\ t.recon.phase # "none" => s.recon.phase # "none"
  BY DEF AddJob, Typed, Subscriptions, Recons
<1> HIDE DEF t
<1> QED BY <1>1 DEF Standing, Continues, Told, t

LEMMA OwingStands ==
  ASSUME NEW s, Typed(s), NEW p \in Paths
  PROVE  LET t == [s EXCEPT !.owed = @ \cup {p}]
         IN  Typed(t) /\ Standing(s, t)
<1> DEFINE t == [s EXCEPT !.owed = @ \cup {p}]
<1>1. t.out = s.out /\ t.uncertain = s.uncertain
  BY DEF Typed, Subscriptions
<1>2. Typed(t) /\ SameWork(s, t)
  BY OwingTyped
<1> HIDE DEF t
<1> QED BY <1>1, <1>2, SameWorkStands DEF Continues, Told, t

LEMMA HandleEventStands ==
  ASSUME NEW s, Typed(s), NEW p \in Paths, NEW kind
  PROVE  Standing(s, HandleEvent(s, p, kind))
<1> DEFINE owing == [s EXCEPT !.owed = @ \cup {p}]
           queued == QueueEvent(owing, p)
           grown == IF kind = "created" THEN AddJob(queued) ELSE queued
           flushed == FlushIf(grown, AtBound(grown))
           t == Schedule(flushed, grown.recov.unstable)
<1>1. Typed(owing) /\ Standing(s, owing)
  BY OwingStands
<1> HIDE DEF owing
<1>2. Typed(queued) /\ Standing(owing, queued)
  BY <1>1, QueueEventTyped, QueueEventStands
<1> HIDE DEF queued
<1>3. Typed(grown) /\ Standing(queued, grown)
  BY <1>2, AddJobTyped, AddJobStands, StandsStill
<1> HIDE DEF grown
<1>4. Typed(flushed) /\ Standing(grown, flushed)
  BY <1>3, FlushIfTyped, FlushIfStands
<1> HIDE DEF flushed
<1>5. Typed(t) /\ Standing(flushed, t)
  BY <1>3, <1>4, ScheduleTyped, ScheduleStands, UnstableTyped
<1> HIDE DEF t
<1>6. Standing(s, queued) /\ Standing(grown, t)
  BY <1>1, <1>2, <1>3, <1>4, <1>5, StandingOn
<1>7. Standing(s, grown)
  BY <1>1, <1>2, <1>3, <1>6, StandingOn
<1>8. Standing(s, t)
  BY <1>3, <1>5, <1>6, <1>7, StandingOn
<1> QED BY <1>6, <1>8 DEF HandleEvent, owing, queued, grown, flushed, t

LEMMA HandleRootSelfStands ==
  ASSUME NEW s, Typed(s)
  PROVE  Standing(s, HandleRootSelf(s))
<1> DEFINE events == s.rootEvents \ {"self"}
           e == [s EXCEPT !.rootEvents = events]
           gone == MarkRootLost(e)
           lost == QueueEvent(gone, Root)
           flushed == FlushIf(lost, AtBound(lost))
           t == Schedule(flushed, TRUE)
<1>1. events \in SUBSET {"self", "ignored"}
  BY DEF Typed, Subscriptions
<1>2. HandleRootSelf(s) = IF s.recov.phase = "none" THEN lost ELSE t
  BY DEF HandleRootSelf
<1> HIDE DEF events
<1>3. Typed(e) /\ Standing(s, e)
  BY <1>1 DEF Typed, CandidateCaptured, Subscriptions, Standing, Continues, Told
<1> HIDE DEF e
<1>4. Typed(gone) /\ Standing(e, gone)
  BY <1>3, MarkRootLostTyped, MarkRootLostStands
<1> HIDE DEF gone
<1>5. Typed(lost) /\ Standing(gone, lost)
  BY <1>4, QueueEventTyped, QueueEventStands
<1> HIDE DEF lost
<1>6. Typed(flushed) /\ Standing(lost, flushed)
  BY <1>5, FlushIfTyped, FlushIfStands
<1> HIDE DEF flushed
<1>7. Typed(t) /\ Standing(flushed, t)
  BY <1>6, ScheduleTyped, ScheduleStands
<1> HIDE DEF t
<1>8. Standing(s, gone) /\ Standing(lost, t)
  BY <1>3, <1>4, <1>5, <1>6, <1>7, StandingOn
<1>9. Standing(s, lost)
  BY <1>3, <1>4, <1>5, <1>8, StandingOn
<1>10. Standing(s, t)
  BY <1>5, <1>7, <1>8, <1>9, StandingOn
<1> QED BY <1>2, <1>9, <1>10

LEMMA HandleRootIgnoredStands ==
  ASSUME NEW s, Typed(s)
  PROVE  Standing(s, HandleRootIgnored(s))
<1> DEFINE e == [s EXCEPT !.rootEvents = {}, !.interests = "noroot"]
           lost == MarkRootLost(e)
           t == Schedule(lost, lost.recov.unstable)
<1>1. Typed(e) /\ Standing(s, e)
  BY ZenonT(60) DEF Typed, CandidateCaptured, Subscriptions, Standing, Continues, Told
<1> HIDE DEF e
<1>2. Typed(lost) /\ Standing(e, lost)
  BY <1>1, MarkRootLostTyped, MarkRootLostStands
<1> HIDE DEF lost
<1>3. Typed(t) /\ Standing(lost, t)
  BY <1>2, ScheduleTyped, ScheduleStands, UnstableTyped
<1> HIDE DEF t
<1>4. Standing(s, lost)
  BY <1>1, <1>2, StandingOn
<1>5. Standing(s, t)
  BY <1>2, <1>3, <1>4, StandingOn
<1> QED BY <1>5 DEF HandleRootIgnored, e, lost, t

LEMMA PromotedStands ==
  ASSUME NEW s, Typed(s), NEW p \in Paths
  PROVE  Standing(s, Promoted(s, p))
<1> DEFINE owing == [s EXCEPT !.owed = @ \cup {p}]
           queued == QueuePaths(owing, {p})
           t == [queued EXCEPT !.jobs = @ + 1, !.barriers = @ + 1, !.runnable = TRUE]
<1>1. Typed(owing) /\ Standing(s, owing)
  BY OwingStands
<1>2. t = Promoted(s, p)
  BY DEF Promoted, QueuePath
<1>3. Typed(t)
  BY <1>2, PromotedTyped
<1> HIDE DEF owing
<1>4. Typed(queued) /\ Standing(owing, queued)
  BY <1>1, QueuePathsTyped, QueuePathsStands DEF PathSets
<1> HIDE DEF queued
<1>5. Standing(queued, t)
  <2>1. /\ t.out = queued.out /\ t.uncertain = queued.uncertain
        /\ t.lost = queued.lost /\ t.ack = queued.ack
        /\ t.update = queued.update /\ t.recon = queued.recon
        /\ t.recov = queued.recov
    BY <1>4 DEF Typed, Subscriptions
  <2> HIDE DEF t
  <2> QED BY <2>1 DEF Standing, Continues, Told
<1> HIDE DEF t
<1>6. Standing(s, queued)
  BY <1>1, <1>4, StandingOn
<1> QED BY <1>2, <1>3, <1>4, <1>5, <1>6, StandingOn

LEMMA ScanJobsStands ==
  ASSUME NEW s, Typed(s), NEW finished \in 0..s.jobs, NEW deferred \in BOOLEAN,
         NEW race
  PROVE  Standing(s, ScanJobs(s, finished, deferred, race))
<1> DEFINE t == [s EXCEPT !.jobs = @ - finished,
                          !.barriers = Monus(@, finished),
                          !.deferred = deferred]
           m == MarkUncertain(t, TopologyRace)
<1>1. /\ t.out = s.out /\ t.uncertain = s.uncertain /\ t.lost = s.lost
      /\ t.ack = s.ack /\ t.update = s.update /\ t.recon = s.recon
      /\ t.recov = s.recov
  BY DEF Typed, Subscriptions
<1>2. Typed(t)
  <2>1. Typed(ScanJobs(s, finished, deferred, FALSE))
    BY ScanJobsTyped
  <2> QED BY <2>1 DEF ScanJobs
<1> HIDE DEF t
<1>3. Standing(s, t)
  BY <1>1 DEF Standing, Continues, Told
<1>4. Typed(m) /\ Standing(t, m)
  BY <1>2, MarkUncertainTyped, MarkUncertainStands DEF Reasons
<1> HIDE DEF m
<1>5. Standing(s, m)
  BY <1>2, <1>3, <1>4, StandingOn
<1> QED BY <1>3, <1>5 DEF ScanJobs, t, m

LEMMA MaintainStands ==
  ASSUME NEW s, Typed(s), NEW root, NEW checkDue, NEW windowElapsed
  PROVE  Standing(s, Maintain(s, root, checkDue, windowElapsed))
<1> DEFINE e == [s EXCEPT !.armed = FALSE]
           m == MarkRootLost(e)
           c == Checked(s, root, checkDue)
           w == Swept(c, windowElapsed)
           t == Schedule(w, w.recov.unstable)
<1>1. Typed(e) /\ Standing(s, e)
  BY ZenonT(60) DEF Typed, CandidateCaptured, Subscriptions, Standing, Continues, Told
<1> HIDE DEF e
<1>2. Typed(m) /\ Standing(e, m)
  BY <1>1, MarkRootLostTyped, MarkRootLostStands
<1> HIDE DEF m
<1>3. Standing(s, m)
  BY <1>1, <1>2, StandingOn
<1>4. Typed(c) /\ Standing(s, c)
  BY <1>2, <1>3, StandsStill DEF Checked, e, m
<1> HIDE DEF c
<1>5. Typed(w) /\ Standing(c, w)
  BY <1>4, FlushIfTyped, FlushIfStands DEF Swept
<1> HIDE DEF w
<1>6. Typed(t) /\ Standing(w, t)
  BY <1>5, ScheduleTyped, ScheduleStands, UnstableTyped
<1> HIDE DEF t
<1>7. Standing(s, w)
  BY <1>4, <1>5, StandingOn
<1>8. Standing(s, t)
  BY <1>5, <1>6, <1>7, StandingOn
<1> QED BY <1>8 DEF Maintain, c, w, t

----------------------------------------------------------------------------
(* The steps of the specification.                                         *)

\* A step of the worker on a subscription whose root path has this directory.
Bounded(s, t, root) ==
  \/ /\ Continues(s, t)
     /\ s.lost => t.lost
     /\ t.ack = "ok" => s.ack = "ok" \/ s.recon.phase = "none"
  \/ /\ s.recon.phase # "none" \/ s.lost
     /\ s.recon.phase # "none" => Named(s, t)
     /\ Commits(s, t, root)

LEMMA StandingBounded ==
  ASSUME NEW s, NEW t, Owned(s), Standing(s, t), NEW root
  PROVE  Bounded(s, t, root)
BY DEF Owned, Standing, Bounded

LEMMA TopologyTurnBounded ==
  ASSUME NEW s, Typed(s), Working(s), NEW root, NEW finished \in 0..s.jobs,
         NEW deferred \in BOOLEAN, NEW race, NEW more, NEW opened
  PROVE  Bounded(s, TopologyTurn(s, root, finished, deferred, race, more, opened),
                 root)
<1> DEFINE popped == [s EXCEPT !.runnable = FALSE]
           failing == [popped EXCEPT !.barriers = 1, !.recov.phase = "cleaning"]
           scanned == ScanJobs(popped, finished, deferred, race)
           updated == ProgressUpdate(scanned, root, more)
           reconciled == ProgressReconciliation(updated, root, more)
           done == ProgressRecovery(reconciled, root, more, opened)
           failed == ProgressRecovery(failing, root, more, opened)
           t == Schedule(done, Runnable(done))
<1>1. Typed(popped) /\ popped.jobs = s.jobs /\ Standing(s, popped)
  BY ZenonT(60) DEF Typed, CandidateCaptured, Subscriptions, Standing, Continues, Told
<1>2. Working(popped)
  BY DEF Working, Owned, Balanced, Transacting, Holding, Frozen, Typed,
         Subscriptions
<1>3. Owned(s) /\ Bounded(s, popped, root)
  BY <1>1, StandingBounded DEF Working
<1>4. ASSUME s.recov.unstable PROVE Bounded(s, failed, root)
  <2>1. s.recov.phase # "none"
    BY <1>4 DEF Typed, CandidateCaptured
  <2>2. /\ failing.out = s.out /\ failing.uncertain = s.uncertain
        /\ failing.lost = s.lost /\ failing.ack = s.ack
        /\ failing.update = s.update /\ failing.recon = s.recon
        /\ failing.recov.phase = "cleaning"
    BY DEF Typed, Subscriptions, Recovs
  <2>3. Typed(failing)
    BY <2>1, FailingTyped
  <2> HIDE DEF failing
  <2>4. Standing(s, failing)
    BY <2>1, <2>2 DEF Standing, Continues, Told
  <2>5. Typed(failed)
    BY <2>3, ProgressRecoveryTyped
  <2>6. Standing(failing, failed) \/ Commits(failing, failed, root)
    BY <2>3, ProgressRecoveryStands
  <2> HIDE DEF failed
  <2>7. Standing(s, failed) \/ Commits(s, failed, root)
    BY <2>3, <2>4, <2>5, <2>6, StandingOn, CommittedOn DEF Standing
  <2>8. s.lost /\ s.recon.phase = "none"
    BY <1>3, <2>1 DEF Owned
  <2> QED BY <1>3, <2>7, <2>8, StandingBounded DEF Bounded
<1> HIDE DEF popped, failed
<1>5. Typed(scanned) /\ Working(scanned) /\ Standing(popped, scanned)
  BY <1>1, <1>2, ScanJobsTyped, ScanJobsWorks, ScanJobsStands
<1> HIDE DEF scanned
<1>6. Typed(updated) /\ Working(updated) /\ Standing(scanned, updated)
  BY <1>5, ProgressUpdateTyped, ProgressUpdateWorks, ProgressUpdateStands
<1> HIDE DEF updated
<1>7. Standing(s, scanned)
  BY <1>1, <1>5, StandingOn
<1>8. Standing(s, updated)
  BY <1>5, <1>6, <1>7, StandingOn
<1>9. /\ Typed(reconciled)
      /\ \/ Standing(updated, reconciled)
         \/ /\ updated.recon.phase \in {"scanning", "sweeping"}
            /\ Named(updated, reconciled) /\ Commits(updated, reconciled, root)
            /\ reconciled.recov.phase = "none"
  BY <1>6, ProgressReconciliationTyped, ProgressReconciliationStands
<1> HIDE DEF reconciled
<1>10. Typed(done) /\ (reconciled.recov.phase = "none" => done = reconciled)
  BY <1>9, ProgressRecoveryTyped DEF ProgressRecovery
<1>11. \/ Standing(reconciled, done)
       \/ reconciled.recov.phase # "none" /\ Commits(reconciled, done, root)
  BY <1>9, ProgressRecoveryStands
<1> HIDE DEF done
<1>12. Typed(t) /\ Standing(done, t)
  BY <1>10, ScheduleTyped, ScheduleStands, RunnableTyped
<1>13. ASSUME Standing(updated, reconciled) PROVE Bounded(s, t, root)
  <2>1. Standing(s, reconciled)
    BY <1>6, <1>8, <1>9, <1>13, StandingOn
  <2>2. CASE Standing(reconciled, done)
    <3> HIDE DEF t
    <3>1. Standing(s, done)
      BY <1>9, <1>10, <2>1, <2>2, StandingOn
    <3>2. Standing(s, t)
      BY <1>10, <1>12, <3>1, StandingOn
    <3> QED BY <1>3, <3>2, StandingBounded
  <2>3. CASE reconciled.recov.phase # "none" /\ Commits(reconciled, done, root)
    <3>1. Commits(s, done, root)
      BY <1>9, <1>10, <2>1, <2>3, CommittedOn DEF Standing
    <3>2. Commits(s, t, root)
      BY <1>10, <3>1, ScheduleCommits
    <3>3. s.lost /\ s.recon.phase = "none"
      BY <1>3, <2>1, <2>3 DEF Standing, Owned
    <3> HIDE DEF t
    <3> QED BY <3>2, <3>3 DEF Bounded
  <2> QED BY <1>11, <2>2, <2>3
<1>14. ASSUME ~Standing(updated, reconciled) PROVE Bounded(s, t, root)
  <2>1. done = reconciled /\ s.recon.phase # "none"
    BY <1>8, <1>9, <1>10, <1>14 DEF Standing
  <2>2. Named(s, done) /\ Commits(s, done, root)
    BY <1>6, <1>8, <1>9, <1>14, <2>1, NamedOn, CommittedOn DEF Standing
  <2>3. Named(s, t) /\ Commits(s, t, root)
    BY <1>10, <2>2, ScheduleCommits
  <2> HIDE DEF t
  <2> QED BY <2>1, <2>3 DEF Bounded
<1> QED BY <1>3, <1>4, <1>13, <1>14
        DEF TopologyTurn, popped, failing, failed, scanned, updated, reconciled,
            done, t


\* A call finds its subscription without a reconciliation, and is answered later
\* or in a step that stands.
LEMMA CallBounded ==
  ASSUME NEW s, NEW t, Owned(s), s.ack = "idle", ~s.lost, Continues(s, t), NEW root
  PROVE  Bounded(s, t, root)
BY DEF Owned, Transacting, Bounded

LEMMA ReplaceExclusionsBounded ==
  ASSUME Typed(sub), Owned(sub), NEW g \in 1..MaxGeneration, NEW policy \in Policies,
         NEW more, ReplaceExclusions(g, policy, more)
  PROVE  Bounded(sub, sub', fsRoot)
<1> DEFINE update == [phase |-> "waiting", gen |-> g, policy |-> policy,
                      prev |-> sub.policy]
           asked == [sub EXCEPT !.update = update, !.ack = "awaiting"]
           done == ProgressUpdate(asked, fsRoot, more)
           t == Schedule(done, Runnable(done))
<1>1. update \in Updates
  <2>1. g \in 0..MaxGeneration /\ sub.policy \in Policies
    BY BoundsAssumption DEF Typed, Subscriptions
  <2> QED BY <2>1 DEF Updates
<1> HIDE DEF update
<1>2. Typed(asked) /\ Continues(sub, asked)
  BY <1>1 DEF Typed, CandidateCaptured, Subscriptions, Continues, Told
<1> HIDE DEF asked
<1>3. Typed(done) /\ Continues(asked, done)
  BY <1>2, ProgressUpdateTyped, ProgressUpdateStands DEF Standing
<1> HIDE DEF done
<1>4. Typed(t) /\ Continues(done, t)
  BY <1>3, ScheduleTyped, ScheduleStands, RunnableTyped DEF Standing
<1>5. sub' = t /\ sub.ack = "idle" /\ ~sub.lost
  BY DEF ReplaceExclusions, update, asked, done
<1> HIDE DEF t
<1>6. Continues(asked, t)
  BY <1>2, <1>3, <1>4, ContinuesOn
<1>7. Continues(sub, t)
  BY <1>2, <1>4, <1>6, ContinuesOn
<1> QED BY <1>5, <1>7, CallBounded

LEMMA ReconcileBounded ==
  ASSUME Typed(sub), Working(sub), Reconcile
  PROVE  Bounded(sub, sub', fsRoot)
<1> DEFINE recon == [sub.recon EXCEPT !.phase = "waiting"]
           asked == [sub EXCEPT !.recon = recon, !.ack = "awaiting"]
           done == ProgressReconciliation(asked, fsRoot, FALSE)
           t == Schedule(done, Runnable(done))
<1>1. recon \in Recons /\ recon.phase = "waiting"
  BY DEF Typed, Subscriptions, Recons
<1> HIDE DEF recon
<1>2. Typed(asked) /\ Continues(sub, asked)
  BY <1>1 DEF Typed, CandidateCaptured, Subscriptions, Continues, Told
<1>3. /\ asked.recon = recon /\ asked.ack = "awaiting"
      /\ asked.jobs = sub.jobs /\ asked.barriers = sub.barriers
      /\ asked.lost = sub.lost /\ asked.update = sub.update
      /\ asked.recov = sub.recov
  BY DEF Typed, Subscriptions
<1>4. sub' = t /\ sub.ack = "idle" /\ ~sub.lost
  BY DEF Reconcile, recon, asked, done
<1> HIDE DEF asked
<1>5. Working(asked)
  BY <1>1, <1>3, <1>4 DEF Working, Owned, Balanced, Transacting, Holding, Frozen
<1>6. Typed(done) /\ Continues(asked, done)
  <2>1. asked.recon.phase \notin {"scanning", "sweeping"}
    BY <1>1, <1>3
  <2> QED BY <1>2, <1>5, <2>1, ProgressReconciliationTyped,
             ProgressReconciliationStands DEF Standing
<1> HIDE DEF done
<1>7. Typed(t) /\ Continues(done, t)
  BY <1>6, ScheduleTyped, ScheduleStands, RunnableTyped DEF Standing
<1> HIDE DEF t
<1>8. Continues(asked, t)
  BY <1>2, <1>6, <1>7, ContinuesOn
<1>9. Continues(sub, t)
  BY <1>2, <1>7, <1>8, ContinuesOn
<1> QED BY <1>4, <1>9, CallBounded DEF Working

LEMMA RecoverRootBounded ==
  ASSUME IInv, Working(sub), NEW accept, NEW more, NEW opened,
         RecoverRoot(accept, more, opened)
  PROVE  Bounded(sub, sub', fsRoot)
<1> DEFINE f == Flush(sub)
           c == ClearPending(f)
           asked == RecoveryAsked(sub, fsRoot)
           done == ProgressRecovery(asked, fsRoot, more, opened)
           t == Schedule(done, Runnable(done))
<1>0. Typed(sub) /\ Owned(sub)
  BY DEF IInv, Working
<1>1. fsRoot \in Identities /\ sub.lost /\ sub' = t
  BY RecoverRootIs
<1>2. Typed(asked) /\ asked.out = c.out /\ asked.uncertain = c.uncertain
      /\ asked.lost = c.lost /\ asked.update = c.update /\ asked.ack = "awaiting"
  BY <1>0, <1>1, RecoveryAskedTyped, RecoveryAskedIs
<1> HIDE DEF asked
<1>3. Typed(f) /\ Continues(sub, f) /\ SameWork(sub, f)
  BY <1>0, FlushTyped, FlushStands, FlushSameWork DEF Standing
<1> HIDE DEF f
<1>4. Typed(c) /\ Continues(f, c) /\ SameWork(f, c)
  BY <1>3, ClearPendingTyped, ClearPendingStands, ClearPendingSameWork DEF Standing
<1> HIDE DEF c
<1>5. Continues(sub, c)
  BY <1>0, <1>3, <1>4, ContinuesOn
<1>6. /\ Continues(sub, asked) /\ asked.lost
      /\ asked.update.phase = "none" /\ sub.recon.phase = "none"
  BY <1>0, <1>1, <1>2, <1>3, <1>4, <1>5
  DEF Continues, Told, SameWork, Owned
<1>7. /\ Typed(done)
      /\ Standing(asked, done) \/ Commits(asked, done, fsRoot)
  BY <1>2, ProgressRecoveryTyped, ProgressRecoveryStands
<1> HIDE DEF done
<1>8. Typed(t) /\ Standing(done, t)
  BY <1>7, ScheduleTyped, ScheduleStands, RunnableTyped
<1>9. CASE Commits(asked, done, fsRoot)
  <2>1. Commits(sub, done, fsRoot)
    BY <1>0, <1>2, <1>6, <1>7, <1>9, CommittedOn
  <2>2. Commits(sub, t, fsRoot)
    BY <1>7, <2>1, ScheduleCommits
  <2> HIDE DEF t
  <2> QED BY <1>1, <1>6, <2>2 DEF Bounded
<1>10. CASE Standing(asked, done)
  <2> HIDE DEF t
  <2>1. Standing(asked, t)
    BY <1>2, <1>7, <1>8, <1>10, StandingOn
  <2>2. Continues(sub, t)
    BY <1>0, <1>2, <1>6, <1>8, <2>1, ContinuesOn DEF Standing
  <2> QED BY <1>1, <1>2, <1>6, <2>1, <2>2 DEF Bounded, Standing
<1> QED BY <1>7, <1>9, <1>10

LEMMA EventStands ==
  ASSUME Typed(sub), NEW p \in Paths, NEW kind, Event(p, kind)
  PROVE  Standing(sub, sub')
<1>1. PICK deferred \in BOOLEAN :
        sub' = HandleEvent([sub EXCEPT !.deferred = deferred], p, kind)
  BY DEF Event
<1> DEFINE e == [sub EXCEPT !.deferred = deferred]
           t == HandleEvent(e, p, kind)
<1>2. Typed(e) /\ Standing(sub, e)
  BY ZenonT(60) DEF Typed, CandidateCaptured, Subscriptions, Standing, Continues, Told
<1> HIDE DEF e
<1>3. Typed(t) /\ Standing(e, t)
  BY <1>2, HandleEventTyped, HandleEventStands
<1>4. sub' = t
  BY <1>1 DEF e
<1> HIDE DEF t
<1> QED BY <1>2, <1>3, <1>4, StandingOn

LEMMA PromoteStands ==
  ASSUME Typed(sub), NEW p \in Paths, NEW opened \in Opened,
         NEW deferred \in BOOLEAN, Promote(p, opened, deferred)
  PROVE  Standing(sub, sub')
<1> DEFINE tried == [sub EXCEPT !.deferred = deferred]
           m == MarkUncertain(tried, TopologyRace)
<1>1. Typed(tried) /\ Standing(sub, tried)
  BY ZenonT(60) DEF Typed, CandidateCaptured, Subscriptions, Standing, Continues, Told
<1> HIDE DEF tried
<1>2. Typed(m) /\ Standing(tried, m)
  BY <1>1, MarkUncertainTyped, MarkUncertainStands DEF Reasons
<1> HIDE DEF m
<1>3. Standing(sub, m)
  BY <1>1, <1>2, StandingOn
<1>4. ASSUME NEW k \in {tried, m} PROVE Standing(sub, Promoted(k, p))
  <2> DEFINE t == Promoted(k, p)
  <2>1. Typed(k) /\ Standing(sub, k)
    BY <1>1, <1>2, <1>3
  <2>2. Typed(t) /\ Standing(k, t)
    BY <2>1, PromotedTyped, PromotedStands
  <2> HIDE DEF t
  <2>3. Standing(sub, t)
    BY <2>1, <2>2, StandingOn
  <2> QED BY <2>3 DEF t
<1>5. sub' \in {tried, m, Promoted(tried, p), Promoted(m, p)}
  BY DEF Promote, Opened, tried, m
<1> QED BY <1>1, <1>3, <1>4, <1>5

LEMMA DisposeStands ==
  ASSUME Typed(sub), Dispose
  PROVE  Standing(sub, sub')
<1> DEFINE c == ClearPending(sub)
<1>1. /\ Typed(c) /\ c.out = sub.out /\ c.uncertain = sub.uncertain
      /\ c.lost = sub.lost /\ c.ack = sub.ack
  BY ClearPendingTyped, ClearPendingQueue, ClearPendingStands,
     ClearPendingSameWork DEF SameWork
<1> HIDE DEF c
<1>2. /\ sub'.out = sub.out /\ sub'.uncertain = sub.uncertain
      /\ sub'.lost = sub.lost /\ sub'.update = NoUpdate /\ sub'.recon = NoRecon
      /\ sub'.recov = NoRecov
      /\ sub'.ack = IF sub.ack = "awaiting" THEN "failed" ELSE sub.ack
  BY <1>1 DEF Dispose, Typed, Subscriptions, c
<1> QED BY <1>2 DEF Standing, Continues, Told, NoUpdate, NoRecon, NoRecov

LEMMA Idles ==
  ASSUME Typed(sub), TakeReply \/ \E identity, records : SwapRoot(identity, records)
  PROVE  Standing(sub, sub')
<1>1. CASE TakeReply
  <2>1. /\ sub'.out = sub.out /\ sub'.uncertain = sub.uncertain
        /\ sub'.lost = sub.lost /\ sub'.update = sub.update
        /\ sub'.recon = sub.recon /\ sub'.recov = sub.recov /\ sub'.ack = "idle"
    BY <1>1 DEF TakeReply, Typed, Subscriptions
  <2> QED BY <2>1 DEF Standing, Continues, Told
<1>2. ASSUME NEW identity, NEW records, SwapRoot(identity, records)
      PROVE  Standing(sub, sub')
  <2>1. /\ sub'.out = sub.out /\ sub'.uncertain = sub.uncertain
        /\ sub'.lost = sub.lost /\ sub'.update = sub.update
        /\ sub'.recon = sub.recon /\ sub'.recov = sub.recov
        /\ sub'.ack = sub.ack
    BY <1>2 DEF SwapRoot, Typed, Subscriptions
  <2> QED BY <2>1 DEF Standing, Continues, Told
<1> QED BY <1>1, <1>2

\* Every step but the consumer's.
LEMMA NextBounded ==
  ASSUME IInv, Working(sub), Next
  PROVE  Bounded(sub, sub', fsRoot) \/ Receive
<1>0. Typed(sub) /\ Owned(sub)
  BY DEF IInv, Working
<1>1. ASSUME Standing(sub, sub') PROVE Bounded(sub, sub', fsRoot)
  BY <1>0, <1>1, StandingBounded
<1>2. ASSUME NEW g \in 1..MaxGeneration, NEW policy \in Policies,
             NEW more \in BOOLEAN, ReplaceExclusions(g, policy, more)
      PROVE  Bounded(sub, sub', fsRoot)
  BY <1>0, <1>2, ReplaceExclusionsBounded
<1>3. CASE Reconcile
  BY <1>0, <1>3, ReconcileBounded
<1>4. ASSUME NEW accept \in BOOLEAN, NEW more \in BOOLEAN, NEW opened \in Opened,
             RecoverRoot(accept, more, opened)
      PROVE  Bounded(sub, sub', fsRoot)
  BY <1>4, RecoverRootBounded
<1>5. ASSUME NEW p \in Paths, NEW kind \in Kinds, Event(p, kind)
      PROVE  Bounded(sub, sub', fsRoot)
  BY <1>0, <1>1, <1>5, EventStands
<1>6. CASE RootSelf
  BY <1>0, <1>1, <1>6, HandleRootSelfStands DEF RootSelf
<1>7. CASE RootIgnored
  BY <1>0, <1>1, <1>7, HandleRootIgnoredStands DEF RootIgnored
<1>8. ASSUME NEW reason \in {EventOverflow, TopologyRace}, Loss(reason)
      PROVE  Bounded(sub, sub', fsRoot)
  BY <1>0, <1>1, <1>8, MarkUncertainStands DEF Loss, Reasons
<1>9. ASSUME NEW p \in Paths, NEW opened \in Opened, NEW deferred \in BOOLEAN,
             Promote(p, opened, deferred)
      PROVE  Bounded(sub, sub', fsRoot)
  BY <1>0, <1>1, <1>9, PromoteStands
<1>10. ASSUME NEW finished \in 0..sub.jobs, NEW race \in BOOLEAN,
              NEW more \in BOOLEAN, NEW opened \in Opened,
              Turn(finished, race, more, opened)
       PROVE  Bounded(sub, sub', fsRoot)
  BY <1>0, <1>10, TopologyTurnBounded DEF Turn
<1>11. ASSUME NEW checkDue \in BOOLEAN, NEW windowElapsed \in BOOLEAN,
              Maintenance(checkDue, windowElapsed)
       PROVE  Bounded(sub, sub', fsRoot)
  BY <1>0, <1>1, <1>11, MaintainStands DEF Maintenance
<1>12. CASE Dispose
  BY <1>0, <1>1, <1>12, DisposeStands
<1>13. CASE TakeReply \/ \E identity \in Identities \cup {Missing},
                            records \in RootRecords : SwapRoot(identity, records)
  BY <1>0, <1>1, <1>13, Idles
<1> QED BY <1>2, <1>3, <1>4, <1>5, <1>6, <1>7, <1>8, <1>9, <1>10, <1>11, <1>12,
           <1>13 DEF Next

\* What the consumer takes off its queue changes nothing else.
LEMMA ReceiveLeaves ==
  ASSUME Typed(sub), Receive
  PROVE  /\ sub'.uncertain = sub.uncertain /\ sub'.lost = sub.lost
         /\ sub'.ack = sub.ack /\ ~(Len(sub'.out) > Len(sub.out))
<1>1. /\ sub'.uncertain = sub.uncertain /\ sub'.lost = sub.lost
      /\ sub'.ack = sub.ack /\ sub'.out = Tail(sub.out)
      /\ sub.out \in Seq(Batches) /\ sub.out # <<>>
  BY DEF Receive, Typed, Subscriptions
<1>2. Len(Tail(sub.out)) = Len(sub.out) - 1 /\ Len(sub.out) \in Nat
  BY <1>1
<1> QED BY <1>1, <1>2

LEMMA NamedIsSent ==
  ASSUME Typed(sub)', Named(sub, sub')
  PROVE  SentRoot /\ LastOf(sub'.out).coverage = Coverage(sub)'
<1> DEFINE coverage == Coverage(sub)'
<1>1. coverage \in Reasons \cup {"partial", "complete"}
  BY CoverageTyped
<1>2. /\ Len(sub'.out) > Len(sub.out)
      /\ sub'.out[Len(sub'.out)] = [gen |-> sub'.exclGen, paths |-> {Root},
                                    coverage |-> coverage, lost |-> FALSE]
  BY DEF Named, LastOf
<1> HIDE DEF coverage
<1>3. SentRoot
  BY <1>1, <1>2 DEF SentRoot
<1>4. LastOf(sub'.out).coverage = coverage
  BY <1>2 DEF LastOf
<1> QED BY <1>3, <1>4 DEF coverage

\* The inductive invariants the steps are taken under.
StepInv == HonestInv /\ WorkInv

LEMMA AlwaysStepInv == Spec => []StepInv
BY AlwaysHonest, AlwaysWorks, PTL DEF StepInv

\* A reconciliation that answers with success sent the root's invalidation in that
\* very step, with the root of its subscription still at the root path.
THEOREM ReconciliationsAreSent == Spec => ReconciliationBoundary
<1>1. ASSUME StepInv, StepInv', [Next]_vars
      PROVE  [sub.ack # "ok" /\ Committed("recon") =>
                SentRoot /\ fsRoot = sub'.identity]_vars
  <2> SUFFICES ASSUME Next, sub.ack # "ok", Committed("recon")
               PROVE  SentRoot /\ fsRoot = sub'.identity
    BY <1>1 DEF vars
  <2>1. Typed(sub) /\ Typed(sub)' /\ Bounded(sub, sub', fsRoot)
    BY <1>1, NextBounded, ReceiveLeaves
    DEF StepInv, HonestInv, WorkInv, IInv, Committed
  <2>2. Named(sub, sub') /\ Commits(sub, sub', fsRoot)
    BY <2>1 DEF Bounded, Committed
  <2> QED BY <2>1, <2>2, NamedIsSent DEF Commits
<1> QED BY <1>1, AlwaysStepInv, PTL DEF Spec, ReconciliationBoundary

\* A recovery attaches the directory found at the root path when it commits, and
\* the root's invalidation is then sent, or queued with uncertain coverage.
THEOREM RecoveriesAttachTheRoot == Spec => RecoveryBoundary
<1>1. ASSUME StepInv, StepInv', [Next]_vars
      PROVE  [sub.lost /\ ~sub'.lost =>
                /\ sub'.identity = fsRoot
                /\ SentRoot \/ (sub'.pending = {Root}
                                /\ sub'.uncertain # NoReason)]_vars
  <2> SUFFICES ASSUME Next, sub.lost, ~sub'.lost
               PROVE  /\ sub'.identity = fsRoot
                      /\ SentRoot \/ (sub'.pending = {Root}
                                      /\ sub'.uncertain # NoReason)
    BY <1>1 DEF vars
  <2>1. Typed(sub) /\ Typed(sub)' /\ Bounded(sub, sub', fsRoot)
    BY <1>1, NextBounded, ReceiveLeaves DEF StepInv, HonestInv, WorkInv, IInv
  <2>2. Commits(sub, sub', fsRoot)
    BY <2>1 DEF Bounded
  <2> QED BY <2>1, <2>2, NamedIsSent DEF Commits
<1> QED BY <1>1, AlwaysStepInv, PTL DEF Spec, RecoveryBoundary

\* Only the commit of a rebuild, answered and sent in the same step, takes an
\* uncertainty back; every batch sent between a loss of events and the rebuild
\* that repairs it carries uncertain coverage.
THEOREM LossesAreReported == Spec => LossesReported
<1>1. ASSUME StepInv, StepInv', [Next]_vars
      PROVE  [OnlyARebuildClears /\ GapIsReported]_vars
  <2> SUFFICES ASSUME Next PROVE OnlyARebuildClears /\ GapIsReported
    BY <1>1 DEF vars
  <2>0. Typed(sub) /\ Typed(sub)' /\ GapOlder(sub) /\ GapOlder(sub)'
    BY <1>1 DEF StepInv, HonestInv, Honest, IInv
  <2>1. CASE Receive
    BY <2>0, <2>1, ReceiveLeaves DEF OnlyARebuildClears, GapIsReported
  <2>2. CASE ~Receive
    <3>1. Bounded(sub, sub', fsRoot)
      BY <1>1, <2>2, NextBounded DEF StepInv, WorkInv
    <3>2. OnlyARebuildClears
      BY <2>0, <3>1, NamedIsSent
      DEF OnlyARebuildClears, Bounded, Continues, Commits
    <3>3. GapIsReported
      <4> SUFFICES ASSUME Len(sub'.out) > Len(sub.out), sub.gap # "none",
                          sub'.gap # "none"
                   PROVE  LastOf(sub'.out).coverage \in Reasons
        BY DEF GapIsReported, LastOf
      <4>1. /\ sub.uncertain # NoReason /\ sub'.uncertain # NoReason
            /\ sub'.uncertain \in Reasons /\ sub'.out # sub.out
        BY <2>0, SentTyped DEF GapOlder, Typed, Subscriptions
      <4>2. Coverage(sub)' \in Reasons
        BY <4>1 DEF Coverage
      <4> QED BY <2>0, <3>1, <4>1, <4>2, NamedIsSent
              DEF Bounded, Continues, Told, Commits
    <3> QED BY <3>2, <3>3
  <2> QED BY <2>1, <2>2
<1> QED BY <1>1, AlwaysStepInv, PTL DEF Spec, LossesReported

=============================================================================
