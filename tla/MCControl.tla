------------------------------ MODULE MCControl ------------------------------
(* The components around the budget that share no state with one another and *)
(* run side by side: a behaviour here is a behaviour of one of them.         *)
EXTENDS ChainLedgers, KillSwitch, Approvals, DelegationRevocation, TLC

\* A behaviour is of one component, so two of them may share model values, and a
\* permutation of these permutes both.
CONSTANTS x1, x2, y1, y2

Perms == Permutations({x1, x2}) \cup Permutations({y1, y2})

All(n) == [d \in Dims |-> n]
CapTwo == All(2)
OneUnit == {All(1)}
JustNone == {All(0)}
CapOfOne == [l \in Ledgers |-> 1]
ReservedOnly == {<<"reserved", "cost">>}

VARIABLE focus  \* the component this behaviour is of

ControlInit ==
    /\ focus \in {"ledgers", "stops", "approvals", "delegation"}
    /\ ChainInit /\ KillInit /\ ApprovalsInit /\ RevocationInit
    \* The others stand still in one state of theirs.
    /\ focus # "ledgers" => fmt = "absent" /\ present = {}
    /\ focus # "stops" => ~loaded

ControlNext ==
    /\ UNCHANGED focus
    /\ \/ /\ focus = "ledgers" /\ ChainNext
          /\ UNCHANGED <<killVars, approvalVars, revocationVars>>
       \/ /\ focus = "stops" /\ KillNext
          /\ UNCHANGED <<cvars, approvalVars, revocationVars>>
       \/ /\ focus = "approvals" /\ ApprovalsNext
          /\ UNCHANGED <<cvars, killVars, revocationVars>>
       \/ /\ focus = "delegation" /\ RevocationNext
          /\ UNCHANGED <<cvars, killVars, approvalVars>>

ControlSpec ==
    ControlInit /\ [][ControlNext]_<<focus, cvars, killVars, approvalVars, revocationVars>>

\* Every component's state is one its code can hold.
ControlTypeOK ==
    /\ focus = "ledgers" => ChainTypeOK
    /\ focus = "stops" => KillTypeOK
    /\ focus = "approvals" => ApprovalsTypeOK
    /\ focus = "delegation" => RevocationTypeOK
=============================================================================
