-------------------------- MODULE MCRequestCounter --------------------------
(* A token and its credential, both of which run out and are refilled.     *)
EXTENDS RequestCounter, TLC

InitialMC == [k \in Keys |-> IF k = Cred THEN 1 ELSE 2]
AmountMC == [k \in Keys |-> 1]
RefillableMC == Keys

SymmetryMC == Permutations(Calls)
=============================================================================
