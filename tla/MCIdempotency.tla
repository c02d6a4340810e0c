--------------------------- MODULE MCIdempotency ---------------------------
(* Instances of Idempotency for TLC. *)
EXTENDS Idempotency

CONSTANTS k1, k2, k3, k4, pay, refund

\* Two pairs of identical requests under one key.
Paired == [c \in Calls |-> IF c \in {k1, k2} THEN pay ELSE refund]
=============================================================================
