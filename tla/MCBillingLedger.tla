-------------------------- MODULE MCBillingLedger --------------------------
(* Small instances of BillingLedger: one or two grants, the first of one   *)
(* charge unit and the second of two, and windows that charge the same     *)
(* amount each.                                                            *)
EXTENDS BillingLedger

CONSTANTS g1, g2, w1, w2

OneGrant == {g1}
TwoGrants == {g1, g2}
GrantRank == [g \in Grants |-> IF g = g1 THEN 1 ELSE 2]
GrantAmount == [g \in Grants |-> IF g = g1 THEN 1 ELSE 2]
ChargeOne == [w \in Windows |-> 1]
ChargeTwo == [w \in Windows |-> 2]
============================================================================
