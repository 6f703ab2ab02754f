---------------------------- MODULE BudgetAccount ----------------------------
(***************************************************************************)
(* What the budget of an agent promises, with no word of keys, scripts or  *)
(* replies: calls are admitted into the current generation within the      *)
(* cap, sent at most once, and closed once, only while their generation    *)
(* is still current; a call that was sent is never written off.            *)
(*                                                                         *)
(* BudgetHolds implements it (its property MeetsAccount) whatever Redis    *)
(* loses and whoever repeats what, as long as every caller is fenced.      *)
(***************************************************************************)
EXTENDS Integers, FiniteSets

CONSTANTS
    Attempts, Dims, Generations, NoEpoch, MaxUnits,
    Cap     \* [Dims -> Int], negative when there is none

VARIABLES
    current,  \* the generation that admits calls, or NoEpoch
    past,     \* every generation there has been
    account   \* [Attempts -> what the budget knows of a call]

accountVars == <<current, past, account>>

Amounts == [Dims -> 0..MaxUnits]
None == [d \in Dims |-> 0]
Unopened == [st |-> "absent", gen |-> NoEpoch, est |-> None, charge |-> None, sent |-> FALSE]

\* A call commits its estimate while it is open, then what it was charged, up
\* to that estimate; the units of one generation are counted one by one.
CommittedTo(g, d) ==
    {u \in Attempts \X (1..MaxUnits) :
        LET call == account[u[1]]
        IN  /\ call.gen = g
            /\ u[2] <= call.est[d]
            /\ call.st # "open" => u[2] <= call.charge[d]}

WithinCap(g) == \A d \in Dims : Cap[d] >= 0 => Cardinality(CommittedTo(g, d)) <= Cap[d]

AccountInit ==
    /\ current = NoEpoch
    /\ past = {}
    /\ account = [a \in Attempts |-> Unopened]

\* A fresh generation, begun by a first call or by an operator's rebuild.
Begin(g) ==
    /\ g \notin past
    /\ current' = g
    /\ past' = past \cup {g}

\* Its name is lost; it never becomes current again.
Forget ==
    /\ current' = NoEpoch
    /\ UNCHANGED <<past, account>>

Admit(a, g, est) ==
    /\ account[a].st = "absent"
    /\ Begin(g) \/ (current = g /\ UNCHANGED <<current, past>>)
    /\ account' = [account EXCEPT ![a] = [Unopened EXCEPT !.st = "open", !.gen = g, !.est = est]]
    /\ WithinCap(g)'

Send(a) ==
    /\ account[a].st = "open"
    /\ ~account[a].sent
    /\ account' = [account EXCEPT ![a].sent = TRUE]
    /\ UNCHANGED <<current, past>>

CloseCall(a, st, charge) ==
    /\ account[a].st = "open"
    /\ account[a].gen = current
    /\ st = "released" => ~account[a].sent /\ charge = None
    /\ account' = [account EXCEPT ![a] = [st |-> st, gen |-> @.gen, est |-> @.est,
                                          charge |-> charge, sent |-> @.sent]]
    /\ UNCHANGED <<current, past>>

AccountNext ==
    \/ \E g \in Generations : Begin(g) /\ UNCHANGED account
    \/ Forget
    \/ \E a \in Attempts :
          \/ \E g \in Generations, est \in Amounts : Admit(a, g, est)
          \/ Send(a)
          \/ \E st \in {"settled", "released", "resolved"}, charge \in Amounts :
                CloseCall(a, st, charge)

AccountSpec == AccountInit /\ [][AccountNext]_accountVars
=============================================================================
