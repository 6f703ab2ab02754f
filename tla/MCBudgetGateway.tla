--------------------------- MODULE MCBudgetGateway ---------------------------
(* Instances of BudgetGateway for TLC. *)
EXTENDS BudgetGateway, TLC

CONSTANTS a1, a2, g1, g2, g3, o1, o2

Perms == Permutations(Attempts) \cup Permutations(Generations) \cup Permutations(Operators)

All(n) == [d \in Dims |-> n]

CapOne == All(1)
CapTwo == All(2)
OneUnit == {All(1)}
NoneOrOne == {All(0), All(1)}
NoUnits == {All(0)}
=============================================================================
