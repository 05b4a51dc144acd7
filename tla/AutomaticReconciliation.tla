------------------------ MODULE AutomaticReconciliation ------------------------
(***************************************************************************)
(* The automatic reconciliation policy of the JavaScript wrapper           *)
(* (src/js/automatic-reconciliation.js).  It observes the coverage of the  *)
(* batches as they are delivered, schedules native reconciliations after a *)
(* recoverable loss, gives up after MaxAttempts of them or at a lost root, *)
(* and stands aside for the consumer's recoverRoot.                        *)
(*                                                                         *)
(* Promises settle after the native side decided, and batches are          *)
(* delivered on their own: what the policy is told arrives late and in any *)
(* order between the two, batches among themselves in their order.         *)
(***************************************************************************)
EXTENDS Integers, Sequences

CONSTANTS
  MaxAttempts,    \* config.maxAttempts
  MaxLosses       \* bound: losses the native side reports

ASSUME BoundsAssumption == MaxAttempts \in Nat \ {0} /\ MaxLosses \in Nat

VARIABLES
  pol,      \* the policy's own state, and "news": a loss was observed since the
            \* last attempt or recovery
  call,     \* the native call it waits for, and what was decided
  root,     \* the native root: attached or lost, and its generation
  batches,  \* the uncertain batches not yet delivered, in their order
  losses    \* losses so far

vars == <<pol, call, root, batches, losses>>

\* recoverableReasons (of three) and reasonPriority
Recoverable == {"consumer-backpressure", "event-overflow"}
Reasons == Recoverable \union {"root-replaced"}
Priority == [r \in Reasons |->
  CASE r = "consumer-backpressure" -> 1 [] r = "event-overflow" -> 3 [] r = "root-replaced" -> 4]
Stronger(r, s) == IF Priority[s] > Priority[r] THEN s ELSE r

NoReason == "none"
NoObservation == [reason |-> NoReason, gen |-> 0]
NoCall == [kind |-> "none", outcome |-> "pending", gen |-> 0]

\* The part of the policy recoverRoot restores when the recovery fails.
Fresh == [status |-> "idle", latch |-> FALSE, cycle |-> FALSE, attempts |-> 0,
          pending |-> FALSE, reason |-> NoReason]
Restored == DOMAIN Fresh
Saved(p) == [status |-> p.status, latch |-> p.latch, cycle |-> p.cycle,
             attempts |-> p.attempts, pending |-> p.pending, reason |-> p.reason]

Init ==
  /\ pol = [status |-> "idle", latch |-> FALSE, cycle |-> FALSE, attempts |-> 0,
            pending |-> FALSE, reason |-> NoReason, lifecycle |-> "active",
            timer |-> FALSE, active |-> FALSE, recovering |-> FALSE,
            held |-> NoObservation, previous |-> Fresh, news |-> FALSE]
  /\ call = NoCall
  /\ root = [attached |-> TRUE, gen |-> 0]
  /\ batches = <<>>
  /\ losses = 0

Active == pol.lifecycle = "active"

-----------------------------------------------------------------------------
(* The policy's functions, from its state to its next one. *)

Exhaust(p) == [p EXCEPT !.latch = TRUE, !.pending = FALSE, !.status = "exhausted"]

Block(p) == [p EXCEPT !.latch = TRUE, !.reason = "root-replaced", !.status = "blocked"]

\* Mutant of Schedule: attempts are not limited.
ScheduleUnlimited(p) ==
  IF p.lifecycle # "active" \/ p.timer \/ p.active THEN p
  ELSE [p EXCEPT !.status = "scheduled", !.timer = TRUE]

\* Mutant of Schedule: an attempt in progress does not matter.
ScheduleBeside(p) ==
  IF p.lifecycle # "active" \/ p.timer THEN p
  ELSE IF p.attempts >= MaxAttempts THEN Exhaust(p)
  ELSE [p EXCEPT !.status = "scheduled", !.timer = TRUE]

\* scheduleAttempt
Schedule(p) ==
  IF p.lifecycle # "active" \/ p.timer \/ p.active THEN p
  ELSE IF p.attempts >= MaxAttempts THEN Exhaust(p)
  ELSE [p EXCEPT !.status = "scheduled", !.timer = TRUE]

\* strongerRootRecoveryObservation
StrongerObservation(a, b) ==
  CASE a = NoObservation -> b
    [] a # NoObservation /\ b.gen > a.gen -> b
    [] a # NoObservation /\ b.gen < a.gen -> a
    [] a # NoObservation /\ b.gen = a.gen ->
         IF Priority[b.reason] > Priority[a.reason] THEN b ELSE a

\* Mutant of ObserveLoss: an attempt in progress is taken to cover the loss.
ObserveLossUnlessActive(p, reason) ==
  IF reason = "root-replaced" THEN [Block(p) EXCEPT !.pending = FALSE, !.timer = FALSE]
  ELSE IF reason \notin Recoverable \/ p.latch \/ p.active THEN p
  ELSE Schedule([p EXCEPT !.cycle = TRUE,
                          !.attempts = IF p.cycle THEN @ ELSE 0,
                          !.reason = IF p.cycle THEN Stronger(@, reason) ELSE reason,
                          !.pending = TRUE])

\* observe, outside a root recovery
ObserveLoss(p, reason) ==
  IF reason = "root-replaced" THEN [Block(p) EXCEPT !.pending = FALSE, !.timer = FALSE]
  ELSE IF reason \notin Recoverable \/ p.latch THEN p
  ELSE Schedule([p EXCEPT !.cycle = TRUE,
                          !.attempts = IF p.cycle THEN @ ELSE 0,
                          !.reason = IF p.cycle THEN Stronger(@, reason) ELSE reason,
                          !.pending = TRUE])

\* observe
Observe(p, b) ==
  IF p.lifecycle # "active" THEN p
  ELSE IF p.recovering THEN [p EXCEPT !.held = StrongerObservation(@, b)]
  ELSE [ObserveLoss(p, b.reason) EXCEPT !.news = TRUE]

\* runAttempt, what reconcile resolved to
AttemptResult(p, outcome) ==
  CASE p.reason = "root-replaced" -> [p EXCEPT !.status = "blocked"]
    [] p.reason # "root-replaced" /\ p.pending -> p
    [] p.reason # "root-replaced" /\ ~p.pending /\ outcome = "complete" ->
         [p EXCEPT !.cycle = FALSE, !.status = "recovered"]
    [] p.reason # "root-replaced" /\ ~p.pending /\ outcome = "root-replaced" -> Block(p)
    [] p.reason # "root-replaced" /\ ~p.pending /\ outcome \in Recoverable ->
         [p EXCEPT !.reason = Stronger(@, outcome), !.pending = TRUE]
    [] OTHER -> [p EXCEPT !.cycle = FALSE, !.status = "incomplete"]

\* runAttempt, what reconcile rejected with
AttemptError(p, outcome) ==
  IF p.reason = "root-replaced" \/ outcome = "conflict"
    THEN [Block(p) EXCEPT !.pending = FALSE]
  ELSE IF outcome = "fatal" \/ p.attempts >= MaxAttempts THEN Exhaust(p)
  ELSE [p EXCEPT !.pending = TRUE]

\* Mutant of AttemptOver: the loss that is pending gets no attempt.
AttemptOverForgets(p) == [p EXCEPT !.active = FALSE]

\* runAttempt, finally
AttemptOver(p) ==
  LET q == [p EXCEPT !.active = FALSE] IN
  IF p.pending /\ ~p.latch THEN Schedule(q) ELSE q

\* finishRootRecovery: an observation held of an older generation is dropped.
FinishRootRecovery(p, outcome, gen) ==
  LET relevant == p.held # NoObservation /\ p.held.gen >= gen
      clean == [p EXCEPT !.latch = FALSE, !.cycle = FALSE, !.attempts = 0, !.pending = FALSE,
                         !.reason = NoReason, !.status = "idle", !.news = FALSE]
      told == IF outcome \in Recoverable THEN ObserveLoss(clean, outcome) ELSE clean
  IN  IF outcome = "not-attached" \/ (relevant /\ p.held.reason = "root-replaced")
        THEN [Block(p) EXCEPT !.cycle = FALSE]
      ELSE IF relevant THEN Observe(told, p.held) ELSE told

\* Mutant of RecoveryFailed: what was scheduled is restored without its timer.
RecoveryFailedUntimed(p) ==
  IF p.previous.status = "blocked" \/ p.held.reason = "root-replaced"
    THEN [Block(p) EXCEPT !.cycle = FALSE]
    ELSE LET back == [f \in DOMAIN p |-> IF f \in Restored THEN p.previous[f] ELSE p[f]]
         IN  IF p.held = NoObservation THEN back ELSE Observe(back, p.held)

\* recoverRoot, when the native recovery rejects
RecoveryFailed(p) ==
  IF p.previous.status = "blocked" \/ p.held.reason = "root-replaced"
    THEN [Block(p) EXCEPT !.cycle = FALSE]
    ELSE LET back == [f \in DOMAIN p |-> IF f \in Restored THEN p.previous[f] ELSE p[f]]
             again == IF back.status = "scheduled" /\ back.pending
                        THEN Schedule([back EXCEPT !.status = "idle"])
                        ELSE back
         IN  IF p.held = NoObservation THEN again ELSE Observe(again, p.held)

-----------------------------------------------------------------------------
(* The native side. *)

\* A loss, reported by a batch that names the root generation it belongs to.
Loss(reason) ==
  /\ losses < MaxLosses /\ root.attached
  /\ losses' = losses + 1
  /\ batches' = Append(batches, [reason |-> reason, gen |-> root.gen])
  /\ root' = [root EXCEPT !.attached = reason # "root-replaced"]
  /\ UNCHANGED <<pol, call>>

\* The engine's batches go on while the root is lost.
LossGoesOn ==
  /\ losses < MaxLosses /\ ~root.attached
  /\ losses' = losses + 1
  /\ batches' = Append(batches, [reason |-> "root-replaced", gen |-> root.gen])
  /\ UNCHANGED <<pol, call, root>>

\* reconcile: nothing of the result is certain but that a lost root refuses it.
NativeReconciles ==
  /\ call.kind = "reconcile" /\ call.outcome = "pending"
  /\ \E o \in Recoverable \union {"complete", "incomplete", "retry", "fatal",
                                  "root-replaced", "conflict"} :
       /\ o \in {"root-replaced", "conflict"} => ~root.attached
       /\ o = "complete" => root.attached
       /\ call' = [call EXCEPT !.outcome = o]
  /\ UNCHANGED <<pol, root, batches, losses>>

\* recover_root: an attached root is refused (linux.rs:1889).
NativeRecovers ==
  /\ call.kind = "recover" /\ call.outcome = "pending"
  /\ \/ /\ call' = [call EXCEPT !.outcome = "rejected"]
        /\ UNCHANGED root
     \/ /\ ~root.attached
        /\ call' = [call EXCEPT !.outcome = "not-attached"]
        /\ UNCHANGED root
     \/ /\ ~root.attached
        /\ root' = [attached |-> TRUE, gen |-> root.gen + 1]
        /\ \E o \in Recoverable \union {"complete"} :
             call' = [call EXCEPT !.outcome = o, !.gen = root.gen + 1]
  /\ UNCHANGED <<pol, batches, losses>>

-----------------------------------------------------------------------------
(* The event loop. *)

\* deliverNativeBatch: the policy observes a batch before the consumer does.
Deliver ==
  /\ batches # <<>>
  /\ pol' = Observe(pol, Head(batches))
  /\ batches' = Tail(batches)
  /\ UNCHANGED <<call, root, losses>>

\* scheduleAttempt, its timer, and runAttempt up to its await.
TimerFires ==
  /\ pol.timer /\ Active
  /\ pol' = [pol EXCEPT !.timer = FALSE, !.active = TRUE, !.attempts = @ + 1,
                        !.pending = FALSE, !.news = FALSE, !.status = "reconciling"]
  /\ call' = [NoCall EXCEPT !.kind = "reconcile"]
  /\ UNCHANGED <<root, batches, losses>>

\* runAttempt, from its await.
AttemptEnds ==
  /\ call.kind = "reconcile" /\ call.outcome # "pending"
  /\ pol' = IF ~Active THEN [pol EXCEPT !.active = FALSE]
            ELSE AttemptOver(IF call.outcome \in {"retry", "fatal", "conflict"}
                               THEN AttemptError(pol, call.outcome)
                               ELSE AttemptResult(pol, call.outcome))
  /\ call' = NoCall
  /\ UNCHANGED <<root, batches, losses>>

\* recoverRoot, when it is not refused.
RecoverRoot ==
  /\ Active /\ ~pol.recovering /\ ~pol.active
  /\ pol' = [pol EXCEPT !.previous = Saved(pol), !.timer = FALSE, !.pending = FALSE,
                        !.held = NoObservation, !.status = "recovering-root",
                        !.recovering = TRUE]
  /\ call' = [NoCall EXCEPT !.kind = "recover"]
  /\ UNCHANGED <<root, batches, losses>>

\* recoverRoot, from its await.
RecoveryEnds ==
  /\ call.kind = "recover" /\ call.outcome # "pending"
  /\ LET free == [pol EXCEPT !.recovering = FALSE]
         over == IF ~Active THEN free
                 ELSE IF call.outcome = "rejected" THEN RecoveryFailed(free)
                 ELSE FinishRootRecovery(free, call.outcome, call.gen)
     IN  pol' = [over EXCEPT !.held = NoObservation, !.previous = Fresh]
  /\ call' = NoCall
  /\ UNCHANGED <<root, batches, losses>>

\* dispose
Dispose ==
  /\ Active
  /\ pol' = [pol EXCEPT !.lifecycle = "disposing", !.pending = FALSE, !.timer = FALSE,
                        !.status = "disposing"]
  /\ UNCHANGED <<call, root, batches, losses>>

\* dispose, once the native disposal and what was in progress settled.
Disposed ==
  /\ pol.lifecycle = "disposing" /\ ~pol.active /\ ~pol.recovering
  /\ pol' = [pol EXCEPT !.lifecycle = "disposed", !.status = "disposed"]
  /\ UNCHANGED <<call, root, batches, losses>>

Native == NativeReconciles \/ NativeRecovers
Settling == AttemptEnds \/ RecoveryEnds \/ Disposed

Next ==
  \/ \E r \in Reasons : Loss(r)
  \/ LossGoesOn \/ Native \/ Deliver \/ TimerFires \/ RecoverRoot \/ Settling \/ Dispose

Spec == Init /\ [][Next]_vars

\* The native calls return, promises settle, timers fire and batches arrive.
FairSpec ==
  Spec /\ WF_vars(Native) /\ WF_vars(Settling) /\ WF_vars(TimerFires) /\ WF_vars(Deliver)

-----------------------------------------------------------------------------
(* Properties. *)

States == {"idle", "scheduled", "reconciling", "recovered", "incomplete", "blocked",
           "exhausted", "recovering-root", "disposing", "disposed"}

\* The policy's state has its type, and attempts keep their limit.
TypeOK ==
  /\ pol.status \in States
  /\ pol.lifecycle \in {"active", "disposing", "disposed"}
  /\ pol.attempts \in 0..MaxAttempts
  /\ pol.reason \in Reasons \union {NoReason}
  /\ \A f \in {"latch", "cycle", "pending", "timer", "active", "recovering", "news"} :
       pol[f] \in BOOLEAN
  /\ call.kind \in {"none", "reconcile", "recover"}
  /\ root.gen \in 0..MaxLosses /\ root.attached \in BOOLEAN
  /\ losses \in 0..MaxLosses

\* The policy does one thing at a time and its status says which: a timer, a
\* reconciliation or a recovery, never two, each awaiting its own native call.
OneThingAtATime ==
  /\ pol.active <=> call.kind = "reconcile"
  /\ pol.recovering <=> call.kind = "recover"
  /\ pol.timer => ~pol.active /\ ~pol.recovering
  /\ Active => /\ pol.status = "scheduled" <=> pol.timer
               /\ pol.status = "recovering-root" <=> pol.recovering
               /\ pol.status = "reconciling" => pol.active

\* A recoverable loss the policy observed has an attempt coming, unless the
\* policy gave up: it never waits for a batch that may not come.
LossHasAPlan ==
  pol.pending => Active /\ ~pol.latch /\ (pol.timer \/ pol.active)

\* "recovered" is said only when no loss was observed since the attempt began.
RecoveredIsHonest == pol.status = "recovered" => ~pol.news

\* Whatever is going on ends, unless the consumer calls recoverRoot for ever
\* (each call cancels the timer).
Settles ==
  /\ <>[]~pol.recovering =>
       (pol.status \in {"scheduled", "reconciling", "disposing"}
          ~> pol.status \notin {"scheduled", "reconciling", "disposing"})
  /\ pol.recovering ~> ~pol.recovering

=============================================================================
