--------------------------- MODULE MCSubscription ---------------------------
(* A small instance of Subscription: Free, Basic and the dearer Pro.    *)
EXTENDS Subscription, TLC

CONSTANTS Basic, Pro

PlansMC == {Free, Basic, Pro}
PriceMC == (Free :> 0) @@ (Basic :> 2) @@ (Pro :> 6)
CreditsMC == (Free :> 0) @@ (Basic :> 1) @@ (Pro :> 2)

SymmetryMC == Permutations(Refs) \cup Permutations(Callers)
=============================================================================
