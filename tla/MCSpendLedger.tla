---------------------------- MODULE MCSpendLedger ----------------------------
(* Instances of SpendLedger for TLC. *)
EXTENDS SpendLedger, TLC

CONSTANTS a1, a2, g1, g2

Perms == Permutations(Attempts) \cup Permutations(Generations)

All(n) == [d \in Dims |-> n]

NoCap == All(-1)
OneUnit == {All(1)}
TwoUnits == {All(2)}
SpentKey == {"spent"} \X Dims
=============================================================================
