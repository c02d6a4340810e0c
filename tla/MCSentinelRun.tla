---------------------------- MODULE MCSentinelRun ----------------------------
(* The instance of SentinelRun for TLC. *)
EXTENDS SentinelRun, TLC

CONSTANT pay

Prices == [t \in Tools |-> 1]

\* The synchronous runner has an authorizer, the other has none.
Asking == [m \in Modes |-> IF m = "run" THEN "asked" ELSE "none"]

\* Calls are alike.
CallSymmetry == Permutations(Calls)
=============================================================================
