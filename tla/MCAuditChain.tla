---------------------------- MODULE MCAuditChain ----------------------------
(* The instance of AuditChain for TLC. *)
EXTENDS AuditChain, TLC

WriterChainSymmetry == Permutations(Writers) \cup Permutations(Chains)
=============================================================================
