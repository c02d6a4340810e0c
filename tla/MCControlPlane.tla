--------------------------- MODULE MCControlPlane ---------------------------
(* Instances of ControlPlane for TLC. *)
EXTENDS ControlPlane, TLC

CONSTANTS prod, staging, v1, v2, strict, lax, old, new, a1, a2

Bundle(e, v, p, k) == [env |-> e, version |-> v, policy |-> p, key |-> k]

\* Version v1 is published in production with two different policies; v2 is
\* published in staging and promoted, under either signing key.
MCPublications ==
    {Bundle(prod, v1, strict, old), Bundle(prod, v1, lax, old), Bundle(staging, v2, lax, old)}
MCPromotions ==
    {[source |-> staging, sourceVersion |-> v2, env |-> prod, version |-> v2, key |-> k] : k \in Keys}

MCEnvOf == [g \in Agents |-> prod]

AdminSymmetry == Permutations({a1, a2})
=============================================================================
