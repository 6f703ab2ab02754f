---------------------------- MODULE MCBudgetHolds ----------------------------
(* Instances of BudgetHolds for TLC. *)
EXTENDS BudgetHolds, TLC

CONSTANTS a1, a2, g1, g2

Perms == Permutations(Attempts) \cup Permutations(Generations)

All(n) == [d \in Dims |-> n]

\* One call of one unit fits.
CapOne == All(1)

\* Every call reserves one unit; it may use none or twice that.
OneUnit == {All(1)}
NoneOrTwo == {All(0), All(2)}

EveryKey == Keys
TagAndEpoch == Keys \ CounterKeys
=============================================================================
