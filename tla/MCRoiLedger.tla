----------------------------- MODULE MCRoiLedger -----------------------------
(* The instance of RoiLedger for TLC. *)
EXTENDS RoiLedger, TLC

CONSTANTS o1, o2, o3, crm, usd, eur

\* Opportunities of one agent in two currencies; o3 has the source of o1.
OneSource == [o \in Opps |-> IF o = o3 THEN o1 ELSE o]
OneAgent == [o \in Opps |-> crm]
TwoCurrencies == [o \in Opps |-> IF o = o2 THEN eur ELSE usd]

\* The first goes from proposal to its end, the others stay where they are.
OneDevelops == [o \in Opps |-> IF o = o1 THEN 5 ELSE 1]

UserSymmetry == Permutations(Users)
=============================================================================
