---------------------------- MODULE MCPeriodLimit ----------------------------
(* Instances of PeriodLimit for TLC. *)
EXTENDS PeriodLimit, TLC

CONSTANTS a1, a2, g1, g2

Perms == Permutations(Attempts) \cup Permutations(Generations)

All(n) == [d \in Dims |-> n]
CapTwo == All(2)
OneUnit == {All(1)}
FloorTwo == {All(2)}
NoneOrOne == {All(0), All(1)}
EpochOnly == {<<"epoch", "agent">>}
=============================================================================
