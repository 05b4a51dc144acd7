-------------------------- MODULE TransactionGate --------------------------
(***************************************************************************)
(* What the control block of a subscription promises the callers of its    *)
(* handles: at most one topology transaction runs at a time, the           *)
(* generation they read only grows and only through a transaction that     *)
(* runs, none starts once disposal began, and disposal is complete only    *)
(* when the last one has ended.  SubscriptionControl is shown to implement *)
(* it.                                                                     *)
(***************************************************************************)
EXTENDS Integers

CONSTANT Threads

VARIABLES
  running,     \* the threads whose transaction was admitted and has not ended
  phase,       \* "active", "disposing", "disposed"
  generation   \* the generation the handles return

gateVars == <<running, phase, generation>>

Init ==
  /\ running = {}
  /\ phase = "active"
  /\ generation = 0

Start(t) ==
  /\ phase = "active" /\ running = {}
  /\ running' = {t}
  /\ UNCHANGED <<phase, generation>>

Finish(t) ==
  /\ running = {t}
  /\ running' = {}
  /\ generation' \in Nat /\ generation' >= generation
  /\ UNCHANGED phase

StartClosing ==
  /\ phase = "active"
  /\ phase' = "disposing"
  /\ UNCHANGED <<running, generation>>

Close ==
  /\ phase = "disposing" /\ running = {}
  /\ phase' = "disposed"
  /\ UNCHANGED <<running, generation>>

Next ==
  \/ \E t \in Threads : Start(t) \/ Finish(t)
  \/ StartClosing
  \/ Close

Spec == Init /\ [][Next]_gateVars

============================================================================
