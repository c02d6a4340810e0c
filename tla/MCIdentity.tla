------------------------------ MODULE MCIdentity ------------------------------
(* The instance of Identity for TLC. *)
EXTENDS Identity, TLC

CONSTANTS ops, owner, prod

\* One entry of an action; the owner role is bound to the members of the group
\* ops in prod.
CoversAll == [p \in Perms |-> Actions]
Bound ==
    [b \in Bindings |-> [role |-> owner, subject |-> None, group |-> ops, environment |-> prod]]
OpsFirst == [n \in Names |-> IF n = ops THEN 1 ELSE 2]
NoMapping == [n \in Names |-> {}]

\* Administrators are alike, and so are groups.
IdentitySymmetry == Permutations(Admins) \cup Permutations(Groups)
=============================================================================
