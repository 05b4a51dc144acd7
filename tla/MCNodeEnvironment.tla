--------------------------- MODULE MCNodeEnvironment ---------------------------
(* Instances of NodeEnvironment for TLC. *)
EXTENDS NodeEnvironment

\* Everything happens to the first subscription; the second one is published, or it
\* fails before or after it has its callback bridge.
FirstEventful ==
  [s \in Subs |-> IF s = 1 THEN {"publish", "noBridge", "delivery", "failure", "dispose"}
                          ELSE {"publish", "noBridge"}]

\* Every subscription fails to establish, but for the last one.
LastPublishes ==
  [s \in Subs |-> IF s = MaxSubscriptions THEN {"publish"} ELSE {}]
=============================================================================
