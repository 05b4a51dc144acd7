--------------------- MODULE AutomaticReconciliationProofs ---------------------
(***************************************************************************)
(* Theorems about AutomaticReconciliation, for any limit of attempts and   *)
(* any number of losses.                                                   *)
(*                                                                         *)
(* The invariant (Consistent) says what the policy's variables have to do  *)
(* with each other between two of its functions, and what a recovery has   *)
(* put aside to restore (Restorable); the functions are shown to keep it   *)
(* one by one, the actions after them.                                     *)
(***************************************************************************)
EXTENDS AutomaticReconciliation, TLAPS

ReasonOrNone == Reasons \union {NoReason}
Observations == [reason : Reasons, gen : Nat]
SavedStates == [status : States, latch : BOOLEAN, cycle : BOOLEAN, attempts : 0..MaxAttempts,
                pending : BOOLEAN, reason : ReasonOrNone]
Policies ==
  [status : States, latch : BOOLEAN, cycle : BOOLEAN, attempts : 0..MaxAttempts,
   pending : BOOLEAN, reason : ReasonOrNone,
   lifecycle : {"active", "disposing", "disposed"}, timer : BOOLEAN, active : BOOLEAN,
   recovering : BOOLEAN, held : Observations \union {NoObservation},
   previous : SavedStates, news : BOOLEAN]

\* What a recovery restores when it fails: an idle policy, perhaps with a timer.
Restorable(p) ==
  /\ p.previous.status \notin {"recovering-root", "reconciling", "disposing", "disposed"}
  /\ p.previous.status = "scheduled" <=> p.previous.pending
  /\ p.previous.pending => ~p.previous.latch
  /\ p.previous.status = "recovered" => ~p.news /\ ~p.previous.latch

\* The policy alone.
Consistent(p) ==
  /\ p.pending => p.lifecycle = "active" /\ ~p.latch /\ (p.timer \/ p.active)
  /\ p.timer => p.pending /\ ~p.active /\ ~p.recovering /\ p.attempts < MaxAttempts
  /\ ~(p.active /\ p.recovering)
  /\ p.lifecycle # "active" => p.status \in {"disposing", "disposed"}
  /\ p.lifecycle = "active" =>
       /\ p.status \notin {"disposing", "disposed"}
       /\ p.status = "scheduled" <=> p.timer
       /\ p.status = "recovering-root" <=> p.recovering
       /\ p.status = "reconciling" => p.active
       /\ p.status = "recovered" => ~p.news /\ ~p.latch
       /\ p.active => /\ p.status \in {"reconciling", "blocked"}
                      /\ p.latch => p.reason = "root-replaced"
                      /\ p.news => p.pending \/ p.reason = "root-replaced"
       /\ p.recovering => Restorable(p)

Outcomes == Recoverable \union {"pending", "complete", "incomplete", "retry", "fatal", "root-replaced",
                          "conflict", "rejected", "not-attached"}

Types ==
  /\ pol \in Policies
  /\ call \in [kind : {"none", "reconcile", "recover"}, outcome : Outcomes, gen : Nat]
  /\ root \in [attached : BOOLEAN, gen : Nat]
  /\ losses \in 0..MaxLosses
  /\ batches \in Seq(Observations)

\* Every root generation was paid for with a loss.
Generations == IF root.attached THEN root.gen <= losses ELSE root.gen < losses

Awaited == /\ pol.active <=> call.kind = "reconcile"
           /\ pol.recovering <=> call.kind = "recover"

IInv == Types /\ Generations /\ Awaited /\ Consistent(pol)

-----------------------------------------------------------------------------
(* The policy's functions. *)

LEMMA StrongerIsReason ==
  ASSUME NEW r \in ReasonOrNone, NEW s \in Reasons
  PROVE  Stronger(r, s) \in ReasonOrNone
  BY DEF Stronger, ReasonOrNone

\* scheduleAttempt gives a pending loss its timer, or gives up.
LEMMA Scheduled ==
  ASSUME NEW p \in Policies, p.lifecycle = "active", ~p.recovering, p.pending, ~p.latch,
         ~(p.timer /\ p.active),
         p.timer => p.status = "scheduled" /\ p.attempts < MaxAttempts,
         p.active => p.status \in {"reconciling", "blocked"}
  PROVE  LET q == Schedule(p)
         IN  /\ q \in Policies /\ Consistent(q)
             /\ q.lifecycle = "active" /\ q.active = p.active /\ ~q.recovering
             /\ q.news = p.news /\ q.status # "recovered" /\ (q.active => q.pending)
<1> USE DEF Policies, States, Consistent
<1>1. CASE p.timer \/ p.active
  BY <1>1 DEF Schedule
<1>2. CASE ~p.timer /\ ~p.active /\ p.attempts >= MaxAttempts
  BY <1>2 DEF Schedule, Exhaust
<1>3. CASE ~p.timer /\ ~p.active /\ ~(p.attempts >= MaxAttempts)
  <2>1. p.attempts < MaxAttempts
    BY <1>3, BoundsAssumption
  <2>2. Schedule(p) = [p EXCEPT !.status = "scheduled", !.timer = TRUE]
    BY <1>3 DEF Schedule
  <2> QED BY <1>3, <2>1, <2>2, ZenonT(60)
<1> QED BY <1>1, <1>2, <1>3

\* observe of a loss, outside a recovery; it may then be noted as news.
LEMMA LossObserved ==
  ASSUME NEW p \in Policies, Consistent(p), p.lifecycle = "active", ~p.recovering,
         NEW r \in Reasons
  PROVE  LET q == ObserveLoss(p, r)
         IN  /\ q \in Policies /\ Consistent(q)
             /\ q.lifecycle = "active" /\ q.active = p.active /\ ~q.recovering
             /\ q.status # "recovered"
             /\ q.active => q.pending \/ q.reason = "root-replaced"
<1> DEFINE q == ObserveLoss(p, r)
           told == [p EXCEPT !.cycle = TRUE,
                             !.attempts = IF p.cycle THEN @ ELSE 0,
                             !.reason = IF p.cycle THEN Stronger(@, r) ELSE r,
                             !.pending = TRUE]
<1>1. CASE r = "root-replaced"
  <2>1. q = [Block(p) EXCEPT !.pending = FALSE, !.timer = FALSE]
    BY <1>1 DEF ObserveLoss
  <2> QED BY <2>1, ZenonT(60) DEF Block, Policies, States, Consistent, ReasonOrNone, Reasons
<1>2. CASE r # "root-replaced" /\ p.latch
  <2>1. q = p
    BY <1>2 DEF ObserveLoss
  <2> QED BY <1>2, <2>1 DEF Consistent, Policies
<1>3. CASE r # "root-replaced" /\ ~p.latch
  <2>1. q = Schedule(told)
    BY <1>3 DEF ObserveLoss, Reasons
  <2>2. (IF p.cycle THEN Stronger(p.reason, r) ELSE r) \in ReasonOrNone
    BY StrongerIsReason DEF Policies, ReasonOrNone
  <2>3. /\ (IF p.cycle THEN p.attempts ELSE 0) \in 0..MaxAttempts
        /\ (IF p.cycle THEN p.attempts ELSE 0) <= p.attempts
    BY BoundsAssumption DEF Policies
  <2>4. /\ told \in Policies
        /\ told.lifecycle = "active" /\ ~told.recovering /\ told.pending /\ ~told.latch
        /\ told.timer = p.timer /\ told.active = p.active /\ told.status = p.status
        /\ told.attempts <= p.attempts
    BY <1>3, <2>2, <2>3 DEF Policies
  <2>5. /\ ~(told.timer /\ told.active)
        /\ told.timer => told.status = "scheduled" /\ told.attempts < MaxAttempts
        /\ told.active => told.status \in {"reconciling", "blocked"}
    BY <2>4, BoundsAssumption DEF Consistent, Policies
  <2> HIDE DEF told
  <2> QED BY <2>1, <2>4, <2>5, Scheduled
<1> QED BY <1>1, <1>2, <1>3 DEF Policies

\* observe, by a policy that is not recovering the root.
LEMMA Observed ==
  ASSUME NEW p \in Policies, Consistent(p), p.lifecycle = "active", ~p.recovering,
         NEW b \in Observations
  PROVE  LET q == Observe(p, b)
         IN  /\ q \in Policies /\ Consistent(q)
             /\ q.lifecycle = "active" /\ q.active = p.active /\ ~q.recovering
<1>1. b.reason \in Reasons
  BY DEF Observations
<1> DEFINE o == ObserveLoss(p, b.reason)
<1>2. /\ o \in Policies /\ Consistent(o)
      /\ o.lifecycle = "active" /\ o.active = p.active /\ ~o.recovering
      /\ o.status # "recovered"
      /\ o.active => o.pending \/ o.reason = "root-replaced"
  BY <1>1, LossObserved
<1>3. Observe(p, b) = [o EXCEPT !.news = TRUE]
  BY DEF Observe
<1> HIDE DEF o
<1> QED BY <1>2, <1>3 DEF Policies, Consistent

LEMMA StrongerObserved ==
  ASSUME NEW a \in Observations \union {NoObservation}, NEW b \in Observations
  PROVE  StrongerObservation(a, b) \in Observations \union {NoObservation}
<1>1. CASE a = NoObservation
  BY <1>1 DEF StrongerObservation
<1>2. CASE a # NoObservation /\ b.gen > a.gen
  BY <1>2 DEF StrongerObservation
<1>3. CASE a # NoObservation /\ b.gen < a.gen
  BY <1>3 DEF StrongerObservation
<1>4. CASE a # NoObservation /\ b.gen = a.gen
  BY <1>4 DEF StrongerObservation, Observations
<1> QED BY <1>1, <1>2, <1>3, <1>4 DEF Observations

\* What an attempt's result leaves for the finally of runAttempt.
Decided(q) ==
  /\ q \in Policies /\ q.lifecycle = "active" /\ q.active /\ ~q.timer /\ ~q.recovering
  /\ q.pending => ~q.latch
  /\ ~q.pending => q.status \in {"recovered", "incomplete", "blocked", "exhausted"}
  /\ q.status = "recovered" => ~q.news /\ ~q.latch

LEMMA ResultDecides ==
  ASSUME NEW p \in Policies, Consistent(p), p.lifecycle = "active", p.active, NEW o \in Outcomes
  PROVE  Decided(AttemptResult(p, o))
<1> USE DEF Decided, Policies, Consistent, States
<1>0. p.status # "recovered" /\ ~p.timer /\ ~p.recovering
  OBVIOUS
<1>1. CASE p.reason = "root-replaced"
  BY <1>1 DEF AttemptResult
<1>2. CASE p.reason # "root-replaced" /\ p.pending
  BY <1>0, <1>2 DEF AttemptResult
<1>3. CASE p.reason # "root-replaced" /\ ~p.pending /\ o = "complete"
  <2>1. AttemptResult(p, o) = [p EXCEPT !.cycle = FALSE, !.status = "recovered"]
    BY <1>3 DEF AttemptResult, Recoverable
  <2> QED BY <1>0, <1>3, <2>1
<1>4. CASE p.reason # "root-replaced" /\ ~p.pending /\ o = "root-replaced"
  <2>1. AttemptResult(p, o) = Block(p)
    BY <1>4 DEF AttemptResult, Recoverable
  <2> QED BY <1>0, <1>4, <2>1, ZenonT(60) DEF Block, ReasonOrNone, Reasons
<1>5. CASE p.reason # "root-replaced" /\ ~p.pending /\ o \in Recoverable
  <2>1. Stronger(p.reason, o) \in ReasonOrNone
    BY <1>5, StrongerIsReason DEF Reasons
  <2>2. AttemptResult(p, o) = [p EXCEPT !.reason = Stronger(@, o), !.pending = TRUE]
    BY <1>5 DEF AttemptResult, Recoverable
  <2> QED BY <1>0, <1>5, <2>1, <2>2
<1>6. CASE /\ p.reason # "root-replaced" /\ ~p.pending
           /\ o \notin Recoverable \union {"complete", "root-replaced"}
  <2>1. AttemptResult(p, o) = [p EXCEPT !.cycle = FALSE, !.status = "incomplete"]
    BY <1>6 DEF AttemptResult, Recoverable
  <2> QED BY <1>0, <1>6, <2>1
<1> QED BY <1>1, <1>2, <1>3, <1>4, <1>5, <1>6

LEMMA ErrorDecides ==
  ASSUME NEW p \in Policies, Consistent(p), p.lifecycle = "active", p.active, NEW o \in Outcomes
  PROVE  Decided(AttemptError(p, o))
  BY DEF AttemptError, Exhaust, Block, Decided, Policies, Consistent, States, ReasonOrNone, Reasons

LEMMA OverIsConsistent ==
  ASSUME NEW p, Decided(p)
  PROVE  LET q == AttemptOver(p)
         IN  /\ q \in Policies /\ Consistent(q)
             /\ q.lifecycle = "active" /\ ~q.active /\ ~q.recovering
<1> DEFINE r == [p EXCEPT !.active = FALSE]
<1>1. /\ r \in Policies /\ r.lifecycle = "active" /\ ~r.active /\ ~r.timer /\ ~r.recovering
      /\ r.pending = p.pending /\ r.latch = p.latch /\ r.status = p.status /\ r.news = p.news
  BY DEF Decided, Policies
<1>2. CASE p.pending
  <2>1. AttemptOver(p) = Schedule(r)
    BY <1>2 DEF AttemptOver, Decided
  <2>2. ~r.latch
    BY <1>1, <1>2 DEF Decided
  <2> HIDE DEF r
  <2> QED BY <1>1, <1>2, <2>1, <2>2, Scheduled
<1>3. CASE ~p.pending
  <2>1. AttemptOver(p) = r
    BY <1>3 DEF AttemptOver
  <2> HIDE DEF r
  <2> QED BY <1>1, <1>3, <2>1 DEF Decided, Consistent
<1> QED BY <1>1, <1>2, <1>3 DEF Policies, Decided

\* A recovery that came to an end, by now taken out of the policy.
Freed(p) ==
  /\ p \in Policies /\ p.lifecycle = "active" /\ ~p.active /\ ~p.timer /\ ~p.recovering
  /\ ~p.pending /\ Restorable(p)

LEMMA BlockIsConsistent ==
  ASSUME NEW p, Freed(p)
  PROVE  LET q == [Block(p) EXCEPT !.cycle = FALSE]
         IN  /\ q \in Policies /\ Consistent(q)
             /\ q.lifecycle = "active" /\ ~q.active /\ ~q.recovering
  BY DEF Freed, Block, Policies, Consistent, States, ReasonOrNone, Reasons

LEMMA FinishIsConsistent ==
  ASSUME NEW p, Freed(p), NEW o \in Outcomes, NEW gen \in Nat
  PROVE  LET q == FinishRootRecovery(p, o, gen)
         IN  /\ q \in Policies /\ Consistent(q)
             /\ q.lifecycle = "active" /\ ~q.active /\ ~q.recovering
<1> DEFINE clean == [p EXCEPT !.latch = FALSE, !.cycle = FALSE, !.attempts = 0, !.pending = FALSE,
                              !.reason = NoReason, !.status = "idle", !.news = FALSE]
           told == IF o \in Recoverable THEN ObserveLoss(clean, o) ELSE clean
           relevant == p.held # NoObservation /\ p.held.gen >= gen
<1>1. /\ clean \in Policies /\ Consistent(clean)
      /\ clean.lifecycle = "active" /\ ~clean.active /\ ~clean.recovering
  <2>1. 0 \in 0..MaxAttempts /\ NoReason \in ReasonOrNone /\ "idle" \in States
    BY BoundsAssumption DEF ReasonOrNone, States
  <2>2. /\ clean \in Policies
        /\ clean.lifecycle = "active" /\ ~clean.active /\ ~clean.recovering /\ ~clean.timer
        /\ ~clean.pending /\ clean.status = "idle"
    BY <2>1 DEF Freed, Policies
  <2> HIDE DEF clean
  <2> QED BY <2>2 DEF Consistent
<1>2. /\ told \in Policies /\ Consistent(told)
      /\ told.lifecycle = "active" /\ ~told.active /\ ~told.recovering
  <2> HIDE DEF clean
  <2> QED BY <1>1, LossObserved DEF Reasons
<1>3. CASE o = "not-attached" \/ (relevant /\ p.held.reason = "root-replaced")
  <2>1. FinishRootRecovery(p, o, gen) = [Block(p) EXCEPT !.cycle = FALSE]
    BY <1>3 DEF FinishRootRecovery
  <2> QED BY <2>1, BlockIsConsistent
<1>4. CASE ~(o = "not-attached" \/ (relevant /\ p.held.reason = "root-replaced")) /\ relevant
  <2>1. FinishRootRecovery(p, o, gen) = Observe(told, p.held)
    BY <1>4 DEF FinishRootRecovery
  <2>2. p.held \in Observations
    BY <1>4 DEF Freed, Policies
  <2> HIDE DEF told
  <2> QED BY <1>2, <2>1, <2>2, Observed
<1>5. CASE ~(o = "not-attached" \/ (relevant /\ p.held.reason = "root-replaced")) /\ ~relevant
  <2>1. FinishRootRecovery(p, o, gen) = told
    BY <1>5 DEF FinishRootRecovery
  <2> HIDE DEF told
  <2> QED BY <1>2, <2>1
<1> QED BY <1>3, <1>4, <1>5

LEMMA FailureIsConsistent ==
  ASSUME NEW p, Freed(p)
  PROVE  LET q == RecoveryFailed(p)
         IN  /\ q \in Policies /\ Consistent(q)
             /\ q.lifecycle = "active" /\ ~q.active /\ ~q.recovering
<1> DEFINE back == [f \in DOMAIN p |-> IF f \in Restored THEN p.previous[f] ELSE p[f]]
           idle == [back EXCEPT !.status = "idle"]
           again == IF back.status = "scheduled" /\ back.pending THEN Schedule(idle) ELSE back
<1>1. /\ back \in Policies
      /\ back.lifecycle = "active" /\ ~back.active /\ ~back.timer /\ ~back.recovering
      /\ back.status = p.previous.status /\ back.pending = p.previous.pending
      /\ back.latch = p.previous.latch /\ back.news = p.news
  <2>1. back = [p EXCEPT !.status = p.previous.status, !.latch = p.previous.latch,
                         !.cycle = p.previous.cycle, !.attempts = p.previous.attempts,
                         !.pending = p.previous.pending, !.reason = p.previous.reason]
    BY DEF Freed, Policies, Restored, Fresh
  <2> HIDE DEF back
  <2> QED BY <2>1 DEF Freed, Policies, SavedStates
<1>2. /\ again \in Policies /\ Consistent(again)
      /\ again.lifecycle = "active" /\ ~again.active /\ ~again.recovering
  <2>1. CASE back.status = "scheduled" /\ back.pending
    <3>1. /\ idle \in Policies
          /\ idle.lifecycle = "active" /\ ~idle.active /\ ~idle.timer /\ ~idle.recovering
          /\ idle.pending /\ ~idle.latch
      <4> HIDE DEF back
      <4> QED BY <1>1, <2>1 DEF Freed, Restorable, Policies, States
    <3> HIDE DEF idle
    <3> QED BY <2>1, <3>1, Scheduled
  <2>2. CASE ~(back.status = "scheduled" /\ back.pending)
    <3> HIDE DEF back
    <3> QED BY <1>1, <2>2 DEF Freed, Restorable, Consistent
  <2> QED BY <2>1, <2>2
<1>3. CASE p.previous.status = "blocked" \/ p.held.reason = "root-replaced"
  <2>1. RecoveryFailed(p) = [Block(p) EXCEPT !.cycle = FALSE]
    BY <1>3 DEF RecoveryFailed
  <2> QED BY <2>1, BlockIsConsistent
<1>4. CASE /\ ~(p.previous.status = "blocked" \/ p.held.reason = "root-replaced")
           /\ p.held = NoObservation
  <2>1. RecoveryFailed(p) = again
    BY <1>4 DEF RecoveryFailed
  <2> HIDE DEF again
  <2> QED BY <1>2, <2>1
<1>5. CASE /\ ~(p.previous.status = "blocked" \/ p.held.reason = "root-replaced")
           /\ p.held # NoObservation
  <2>1. RecoveryFailed(p) = Observe(again, p.held)
    BY <1>5 DEF RecoveryFailed
  <2>2. p.held \in Observations
    BY <1>5 DEF Freed, Policies
  <2> HIDE DEF again
  <2> QED BY <1>2, <2>1, <2>2, Observed
<1> QED BY <1>3, <1>4, <1>5

-----------------------------------------------------------------------------
(* The invariant. *)

LEMMA InitIInv == Init => IInv
<1> SUFFICES ASSUME Init PROVE IInv
  OBVIOUS
<1> USE DEF Init
<1>1. pol \in Policies
  BY BoundsAssumption DEF Policies, States, ReasonOrNone, SavedStates, Fresh
<1>2. /\ call \in [kind : {"none", "reconcile", "recover"}, outcome : Outcomes, gen : Nat]
      /\ root \in [attached : BOOLEAN, gen : Nat] /\ losses \in 0..MaxLosses
      /\ batches \in Seq(Observations)
  BY BoundsAssumption DEF NoCall, Outcomes
<1>3. Generations /\ Awaited /\ Consistent(pol)
  BY DEF Generations, Awaited, Consistent, NoCall
<1> QED BY <1>1, <1>2, <1>3 DEF IInv, Types

LEMMA StepIInv == IInv /\ [Next]_vars => IInv'
<1> SUFFICES ASSUME IInv, [Next]_vars PROVE IInv'
  OBVIOUS
<1> USE DEF IInv, Types, Generations, Awaited
<1>1. ASSUME NEW r \in Reasons, Loss(r) PROVE IInv'
  <2>1. [reason |-> r, gen |-> root.gen] \in Observations
    BY DEF Observations
  <2>2. batches' \in Seq(Observations)
    BY <1>1, <2>1 DEF Loss
  <2>3. losses' \in 0..MaxLosses /\ losses' = losses + 1
    BY <1>1, BoundsAssumption DEF Loss
  <2>4. root' \in [attached : BOOLEAN, gen : Nat] /\ root'.gen = root.gen /\ root.attached
    BY <1>1 DEF Loss
  <2>5. UNCHANGED <<pol, call>>
    BY <1>1 DEF Loss
  <2> QED BY <2>2, <2>3, <2>4, <2>5
<1>2. CASE LossGoesOn
  <2>1. [reason |-> "root-replaced", gen |-> root.gen] \in Observations
    BY DEF Observations, Reasons
  <2>2. batches' \in Seq(Observations)
    BY <1>2, <2>1 DEF LossGoesOn
  <2>3. losses' \in 0..MaxLosses /\ losses' = losses + 1 /\ UNCHANGED <<pol, call, root>>
    BY <1>2, BoundsAssumption DEF LossGoesOn
  <2> QED BY <2>2, <2>3
<1>3. CASE NativeReconciles
  <2>1. PICK o \in Outcomes : call' = [call EXCEPT !.outcome = o]
    BY <1>3 DEF NativeReconciles, Outcomes
  <2>2. UNCHANGED <<pol, root, batches, losses>>
    BY <1>3 DEF NativeReconciles
  <2> QED BY <2>1, <2>2
<1>4. CASE NativeRecovers
  <2>1. \/ \E o \in Outcomes : call' = [call EXCEPT !.outcome = o] /\ UNCHANGED root
        \/ /\ \E o \in Outcomes : call' = [call EXCEPT !.outcome = o, !.gen = root.gen + 1]
           /\ ~root.attached /\ root' = [attached |-> TRUE, gen |-> root.gen + 1]
    BY <1>4, Zenon DEF NativeRecovers, Outcomes
  <2>2. UNCHANGED <<pol, batches, losses>>
    BY <1>4 DEF NativeRecovers
  <2>3. ASSUME NEW o \in Outcomes, call' = [call EXCEPT !.outcome = o], UNCHANGED root
        PROVE  IInv'
    BY <2>2, <2>3
  <2>4. ASSUME NEW o \in Outcomes, call' = [call EXCEPT !.outcome = o, !.gen = root.gen + 1],
               ~root.attached, root' = [attached |-> TRUE, gen |-> root.gen + 1]
        PROVE  IInv'
    <3>1. root.gen + 1 \in Nat /\ root.gen + 1 <= losses
      BY <2>4, BoundsAssumption
    <3> QED BY <2>2, <2>4, <3>1
  <2> QED BY <2>1, <2>3, <2>4
<1>5. CASE Deliver
  <2>1. Head(batches) \in Observations /\ batches' \in Seq(Observations)
    BY <1>5 DEF Deliver
  <2>2. UNCHANGED <<call, root, losses>> /\ pol' = Observe(pol, Head(batches))
    BY <1>5 DEF Deliver
  <2>3. CASE pol.lifecycle # "active"
    BY <2>1, <2>2, <2>3 DEF Observe
  <2>4. CASE pol.lifecycle = "active" /\ pol.recovering
    <3>1. StrongerObservation(pol.held, Head(batches)) \in Observations \union {NoObservation}
      BY <2>1, StrongerObserved DEF Policies
    <3>2. pol' = [pol EXCEPT !.held = StrongerObservation(@, Head(batches))]
      BY <2>2, <2>4 DEF Observe
    <3> QED BY <2>1, <2>2, <3>1, <3>2 DEF Policies, Consistent, Restorable
  <2>5. CASE pol.lifecycle = "active" /\ ~pol.recovering
    <3>1. /\ pol' \in Policies /\ Consistent(pol')
          /\ pol'.active = pol.active /\ ~pol'.recovering
      BY <2>1, <2>2, <2>5, Observed
    <3> QED BY <2>1, <2>2, <2>5, <3>1
  <2> QED BY <2>3, <2>4, <2>5
<1>6. CASE TimerFires
  <2>1. /\ pol.timer /\ pol.lifecycle = "active"
        /\ pol' = [pol EXCEPT !.timer = FALSE, !.active = TRUE, !.attempts = @ + 1,
                              !.pending = FALSE, !.news = FALSE, !.status = "reconciling"]
        /\ call' = [NoCall EXCEPT !.kind = "reconcile"] /\ UNCHANGED <<root, batches, losses>>
    BY <1>6 DEF TimerFires, Active
  <2>2. pol.attempts + 1 \in 0..MaxAttempts
    BY <2>1, BoundsAssumption DEF Consistent, Policies
  <2>3. pol' \in Policies
    BY <2>1, <2>2 DEF Policies, States
  <2>4. Consistent(pol') /\ pol'.active /\ ~pol'.recovering
    BY <2>1 DEF Policies, Consistent
  <2>5. /\ call' \in [kind : {"none", "reconcile", "recover"}, outcome : Outcomes, gen : Nat]
        /\ call'.kind = "reconcile"
    BY <2>1 DEF NoCall, Outcomes
  <2> QED BY <2>1, <2>3, <2>4, <2>5
<1>7. CASE AttemptEnds
  <2>1. UNCHANGED <<root, batches, losses>> /\ call' = NoCall /\ pol.active /\ ~pol.recovering
    BY <1>7 DEF AttemptEnds, Consistent
  <2>2. call' \in [kind : {"none", "reconcile", "recover"}, outcome : Outcomes, gen : Nat]
    BY <2>1 DEF NoCall, Outcomes
  <2>3. CASE ~Active
    <3>1. pol' = [pol EXCEPT !.active = FALSE]
      BY <1>7, <2>3 DEF AttemptEnds
    <3> QED BY <2>1, <2>2, <2>3, <3>1 DEF Policies, Consistent, Active, NoCall
  <2>4. CASE Active
    <3> DEFINE q == IF call.outcome \in {"retry", "fatal", "conflict"}
                      THEN AttemptError(pol, call.outcome)
                      ELSE AttemptResult(pol, call.outcome)
    <3>1. Decided(q)
      BY <2>1, <2>4, ResultDecides, ErrorDecides DEF Active
    <3>2. pol' = AttemptOver(q)
      BY <1>7, <2>4 DEF AttemptEnds
    <3> HIDE DEF q
    <3>3. pol' \in Policies /\ Consistent(pol') /\ ~pol'.active /\ ~pol'.recovering
      BY <3>1, <3>2, OverIsConsistent
    <3> QED BY <2>1, <2>2, <3>3 DEF NoCall
  <2> QED BY <2>3, <2>4
<1>8. CASE RecoverRoot
  <2>1. /\ ~pol.recovering /\ ~pol.active /\ pol.lifecycle = "active"
        /\ call' = [NoCall EXCEPT !.kind = "recover"] /\ UNCHANGED <<root, batches, losses>>
    BY <1>8 DEF RecoverRoot, Active
  <2>2. Saved(pol) \in SavedStates
    BY DEF Saved, Policies, SavedStates
  <2>3. pol' = [pol EXCEPT !.previous = Saved(pol), !.timer = FALSE, !.pending = FALSE,
                           !.held = NoObservation, !.status = "recovering-root",
                           !.recovering = TRUE]
    BY <1>8 DEF RecoverRoot
  <2>4. pol' \in Policies
    BY <2>2, <2>3 DEF Policies, States
  <2>5. Consistent(pol')
    BY <2>1, <2>3 DEF Policies, Consistent, Restorable, Saved
  <2>6. call' \in [kind : {"none", "reconcile", "recover"}, outcome : Outcomes, gen : Nat]
    BY <2>1 DEF NoCall, Outcomes
  <2>7. pol'.recovering /\ ~pol'.active /\ call'.kind = "recover"
    BY <2>1, <2>3 DEF Policies, NoCall
  <2> QED BY <2>1, <2>4, <2>5, <2>6, <2>7
<1>9. CASE RecoveryEnds
  <2> DEFINE free == [pol EXCEPT !.recovering = FALSE]
             over == IF ~Active THEN free
                     ELSE IF call.outcome = "rejected" THEN RecoveryFailed(free)
                     ELSE FinishRootRecovery(free, call.outcome, call.gen)
  <2>1. /\ UNCHANGED <<root, batches, losses>> /\ call' = NoCall
        /\ pol.recovering /\ ~pol.active /\ ~pol.timer /\ ~pol.pending
        /\ pol' = [over EXCEPT !.held = NoObservation, !.previous = Fresh]
    BY <1>9 DEF RecoveryEnds, Consistent
  <2>2. call' \in [kind : {"none", "reconcile", "recover"}, outcome : Outcomes, gen : Nat]
    BY <2>1 DEF NoCall, Outcomes
  <2>3. /\ free \in Policies /\ free.lifecycle = pol.lifecycle /\ ~free.active /\ ~free.timer
        /\ ~free.recovering /\ ~free.pending /\ free.status = pol.status
        /\ free.previous = pol.previous /\ free.news = pol.news
    BY <2>1 DEF Policies
  <2> HIDE DEF free
  <2>4. over \in Policies /\ Consistent(over) /\ ~over.active /\ ~over.recovering
    <3>1. CASE ~Active
      BY <2>3, <3>1 DEF Consistent, Active
    <3>2. CASE Active
      <4>1. Freed(free)
        BY <2>1, <2>3, <3>2 DEF Freed, Active, Consistent, Restorable
      <4> QED BY <3>2, <4>1, FinishIsConsistent, FailureIsConsistent
    <3> QED BY <3>1, <3>2
  <2> HIDE DEF over
  <2>5. Fresh \in SavedStates
    BY BoundsAssumption DEF Fresh, SavedStates, States, ReasonOrNone
  <2>6. pol' \in Policies /\ Consistent(pol') /\ ~pol'.active /\ ~pol'.recovering
    BY <2>1, <2>4, <2>5 DEF Policies, Consistent
  <2> QED BY <2>1, <2>2, <2>6 DEF NoCall
<1>10. CASE Dispose
  <2>1. /\ UNCHANGED <<call, root, batches, losses>>
        /\ pol' = [pol EXCEPT !.lifecycle = "disposing", !.pending = FALSE, !.timer = FALSE,
                              !.status = "disposing"]
    BY <1>10 DEF Dispose
  <2> QED BY <2>1 DEF Policies, Consistent, States
<1>11. CASE Disposed
  <2>1. /\ UNCHANGED <<call, root, batches, losses>>
        /\ pol' = [pol EXCEPT !.lifecycle = "disposed", !.status = "disposed"]
        /\ pol.lifecycle = "disposing"
    BY <1>11 DEF Disposed
  <2> QED BY <2>1 DEF Policies, Consistent, States
<1>12. CASE UNCHANGED vars
  BY <1>12 DEF vars
<1> QED BY <1>1, <1>2, <1>3, <1>4, <1>5, <1>6, <1>7, <1>8, <1>9, <1>10, <1>11, <1>12
        DEF Next, Native, Settling

LEMMA AlwaysIInv == Spec => []IInv
  BY InitIInv, StepIInv, PTL DEF Spec

\* Every variable keeps its type, and attempts their limit.
THEOREM TypesHold == Spec => []TypeOK
<1>1. IInv => TypeOK
  BY BoundsAssumption DEF IInv, Types, Generations, Policies, ReasonOrNone, TypeOK
<1> QED BY <1>1, AlwaysIInv, PTL

\* A timer, a reconciliation or a root recovery, never two, and the status says which.
THEOREM OneThingHolds == Spec => []OneThingAtATime
<1>1. IInv => OneThingAtATime
  BY DEF IInv, Awaited, Consistent, OneThingAtATime, Active
<1> QED BY <1>1, AlwaysIInv, PTL

\* An observed recoverable loss has an attempt coming.
THEOREM LossesHavePlans == Spec => []LossHasAPlan
<1>1. IInv => LossHasAPlan
  BY DEF IInv, Consistent, LossHasAPlan, Active
<1> QED BY <1>1, AlwaysIInv, PTL

\* "recovered" is never said over a newer loss.
THEOREM RecoveredMeansIt == Spec => []RecoveredIsHonest
<1>1. IInv => RecoveredIsHonest
  BY DEF IInv, Types, Policies, Consistent, RecoveredIsHonest
<1> QED BY <1>1, AlwaysIInv, PTL

=============================================================================
