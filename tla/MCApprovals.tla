---------------------------- MODULE MCApprovals ----------------------------
(* Instances of Approvals for TLC. *)
EXTENDS Approvals, TLC

CONSTANTS c1, c2, c3, pay, ship

\* Two tool calls for the same action, and one for another.
SameAction == [c \in Checkpoints |-> pay]
MixedActions == [c \in Checkpoints |-> IF c = c2 THEN ship ELSE pay]

BrokerSymmetry == Permutations(Brokers)

\* Calls of one action are alike.
CallSymmetry == Permutations({c \in Checkpoints : ActionOf[c] = pay})
=============================================================================
