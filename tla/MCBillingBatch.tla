--------------------------- MODULE MCBillingBatch ---------------------------
(* Five generations of two orgs with uneven costs, one of them free.      *)
EXTENDS BillingBatch

OrgOfMC == [g \in 1 .. 5 |-> IF g \in {2, 3} THEN 2 ELSE 1]
CostMC == [g \in 1 .. 5 |-> CASE g = 1 -> 3 [] g = 2 -> 1 [] g = 3 -> 5 [] g = 4 -> 3 [] g = 5 -> 0]
DepositsMC == {1, 3, -1}
=============================================================================
