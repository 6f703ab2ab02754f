-------------------------- MODULE SpendLedger_proofs --------------------------
(***************************************************************************)
(* Theorems about SpendLedger for every value of its constants.  What a    *)
(* row certifies holds in every order of events; what the checkpoint and   *)
(* the counters count holds as long as the orders each theorem names do    *)
(* not happen; and the hold store's guarantees hold among crons, rebuilds  *)
(* and operators as they do alone.                                         *)
(***************************************************************************)
EXTENDS SpendLedger, BudgetHolds_proofs

-----------------------------------------------------------------------------
(* The inductive invariant that no order of events breaks *)

\* A call whose handler still owes the settle was not told anything, and nobody
\* else settles it as a call; what a settle answered is what the row certifies.
CallInv(a) ==
  /\ log[a].st = "idle" => hold[a] = NoHold
  /\ log[a].st \in {"idle", "held", "sent"} => ~ log[a].told /\ hold[a].st # "settled"
  /\ log[a].told /\ hold[a].st = "settled" => log[a].enforced = hold[a].at

\* A watermark covers calls whose insert had begun.
RowsInv ==
  /\ aged \subseteq Logged
  /\ \A a \in under : log[a].st \in {"inserting", "committed", "lost"}
  /\ "late_commit" \notin Races => under \subseteq Logged

\* A decision is about a hold that is closed, and, while no order of events allows
\* otherwise, it is the only one and is made while the counters are lost.
DecisionInv(a) ==
  /\ decision[a].made \/ deciding[a].made => hold[a].st \in Terminal
  /\ deciding[a].made /\ "correction" \notin Races => ~ decision[a].made
  /\ deciding[a].made /\ "late_decision" \notin Races
       => rebuilt = NoTotal /\ present # CounterKeys

LedgerInv ==
  /\ BudgetInv
  /\ LedgerTypeOK
  /\ RowsInv
  /\ \A a \in Attempts : CallInv(a) /\ DecisionInv(a)

-----------------------------------------------------------------------------
(* What the scripts do to the holds *)

\* An admitted open takes an attempt nobody has opened, and leaves the counters
\* that were there.
LEMMA AdmitTouches ==
  ASSUME LedgerInv, NEW a \in Attempts, Admit(a)
  PROVE  /\ BudgetInv'
         /\ epoch' = epoch /\ present' = present /\ spent' = spent
         /\ \A b \in Attempts \ {a} : hold'[b] = hold[b]
         /\ hold[a] = NoHold /\ hold'[a].st = "open"
<1>1. PICK est \in Estimates : /\ OpenReply(a, "1", epoch, est, TRUE) = "opened"
                               /\ Open(a, "1", epoch, est, epoch, TRUE)
  BY DEF Admit
<1>2. hold[a] = NoHold
  BY DEF Admit, LedgerInv, CallInv
<1>3. epoch \in Generations /\ epoch # NoEpoch
  BY <1>1 DEF OpenReply, StateLost, LedgerInv, BudgetInv, TypeOK
<1>4. Guarded("1") /\ ~ hold[a].gone
  BY <1>2 DEF Guarded, NoHold
<1>5. BudgetInv'
  BY <1>1, <1>3, <1>4, GuardedOpenInv DEF LedgerInv
<1>6. epoch' = epoch /\ present' = present /\ spent' = spent
  BY <1>1, <1>3, <1>4, CheckedState DEF LedgerInv, BudgetInv
<1>7. Reserve(a, "1", est, epoch)
  BY <1>1 DEF Open
<1>8. (\A b \in Attempts \ {a} : hold'[b] = hold[b]) /\ hold'[a].st = "open"
  BY <1>7 DEF Reserve, NoHold, LedgerInv, BudgetInv, TypeOK
<1>9. QED
  BY <1>2, <1>5, <1>6, <1>8

\* DISPATCH_LUA moves no counter and closes no hold.
LEMMA SendTouches ==
  ASSUME BudgetInv, NEW a \in Attempts, Dispatch(a)
  PROVE  /\ BudgetInv'
         /\ epoch' = epoch /\ present' = present /\ spent' = spent
         /\ \A b \in Attempts : hold'[b].st = hold[b].st /\ hold'[b].at = hold[b].at
<1>1. BudgetInv' /\ hold \in [Attempts -> Hold]
  BY DispatchInv DEF BudgetInv, TypeOK
<1>2. QED
  BY <1>1 DEF Dispatch, Hold

\* A loss closes no hold, raises no counter and brings none back.
LEMMA LossTouches ==
  ASSUME LedgerInv, RedisLoss
  PROVE  /\ BudgetInv'
         /\ present' \subseteq present
         /\ \A d \in Dims : spent'[d] = spent[d] \/ spent'[d] = 0
         /\ \A b \in Attempts : /\ hold'[b].st = hold[b].st /\ hold'[b].at = hold[b].at
                                /\ hold[b] = NoHold => hold'[b] = NoHold
<1>1. TypeOK /\ BudgetInv
  BY DEF LedgerInv, BudgetInv
<1>2. ASSUME NEW key \in Evictable, Lose(key)
      PROVE  /\ BudgetInv' /\ present' \subseteq present /\ hold' = hold
             /\ \A d \in Dims : spent'[d] = spent[d] \/ spent'[d] = 0
  <2>1. BudgetInv'
    BY <1>1, <1>2, LoseInv
  <2>2. QED
    BY <1>2, <2>1 DEF Lose
<1>3. ASSUME NEW a \in Expiring, LoseHold(a)
      PROVE  /\ BudgetInv' /\ present' = present /\ spent' = spent
             /\ \A b \in Attempts : /\ hold'[b].st = hold[b].st /\ hold'[b].at = hold[b].at
                                    /\ hold[b] = NoHold => hold'[b] = NoHold
  <2>1. a \in Attempts
    BY LedgerAssumption
  <2>2. BudgetInv'
    BY <1>1, <1>3, <2>1, LoseHoldInv
  <2>3. hold[a] # NoHold
    BY <1>3 DEF LoseHold, Exists, NoHold
  <2>4. QED
    BY <1>1, <1>3, <2>2, <2>3 DEF LoseHold, TypeOK, Hold
<1>4. QED
  BY <1>2, <1>3 DEF RedisLoss, LoseAny

\* The cron's floor moves the spend counter up, to the floor at most.
LEMMA RaiseTouches ==
  ASSUME LedgerInv, CronRaise
  PROVE  /\ BudgetInv'
         /\ present' = present /\ hold' = hold
         /\ \A d \in Dims : spent'[d] = spent[d] \/ spent'[d] = floor[d]
<1>1. CASE UNCHANGED vars
  BY <1>1, StutterInv DEF vars, LedgerInv
<1>2. CASE Raise(floor)
  <2>1. floor \in [Dims -> Nat]
    BY DEF CronRaise, LedgerInv, LedgerTypeOK
  <2>2. floor \in [Dims -> Int]
    BY <2>1
  <2>3. BudgetInv'
    BY <1>2, <2>2, RaiseInv DEF LedgerInv
  <2>4. QED
    BY <1>2, <2>3 DEF Raise, Larger
<1>3. QED
  BY <1>1, <1>2 DEF CronRaise

\* The rebuild sets the spend counter to what it summed, and closes no hold.
LEMMA LandTouches ==
  ASSUME LedgerInv, RebuildLand
  PROVE  /\ BudgetInv'
         /\ present' = CounterKeys /\ hold' = hold /\ spent' = rebuilt
<1>1. PICK g \in Generations :
         Rebase(g, rebuilt, [d \in Dims |-> Cardinality(ListedUnits(Indexed, d))])
  BY DEF RebuildLand
<1>2. rebuilt \in [Dims -> Nat]
  BY DEF RebuildLand, LedgerInv, LedgerTypeOK
<1>3. \A d \in Dims : ListedUnits(Indexed, d) \in SUBSET Units
  BY DEF ListedUnits
<1>4. [d \in Dims |-> Cardinality(ListedUnits(Indexed, d))] \in [Dims -> Nat]
  BY <1>3, UnitsFinite
<1>5. BudgetInv'
  BY <1>1, <1>2, <1>4, RebaseInv DEF LedgerInv
<1>6. QED
  BY <1>1, <1>5 DEF Rebase

-----------------------------------------------------------------------------
(* Type correctness of the ledger *)

\* What a settle certifies to the row is an amount.
LEMMA EnforcedType ==
  ASSUME TypeOK, NEW a \in Attempts, NEW outcome \in Outcomes,
         NEW known \in Amount, NEW certain \in [Dims -> BOOLEAN]
  PROVE  Enforced(a, outcome, known, certain) \in Amount
<1>1. Applied(a, outcome, known, certain) \in Amount /\ hold[a].at \in Amount /\ Nothing \in Amount
  BY AppliedType, AmountType DEF TypeOK, Hold
<1>2. QED
  BY <1>1 DEF Enforced

\* The outcomes and certainties the handler and the operator settle with.
LEMMA SettleInputs ==
  /\ \A exact \in BOOLEAN : /\ Outcome(exact) \in Outcomes \cap {"complete", "usage_unknown"}
                            /\ Certain(exact) \in [Dims -> BOOLEAN]
  /\ {"resolved", "not_dispatched", "usage_unknown"} \subseteq Outcomes
  /\ Figures \cup {Nothing} \subseteq Amount
BY AmountType DEF Outcome, Certain, Outcomes

\* The sums of the ledger are natural numbers.
LEMMA SumsAreNat ==
  ASSUME NEW d \in Dims
  PROVE  /\ \A rows : Cardinality(Excess(rows, d)) \in Nat
         /\ Cardinality(Recorded(d)) \in Nat
<1>1. (\A rows : Excess(rows, d) \in SUBSET Units) /\ Recorded(d) \in SUBSET Units
  BY DEF Excess, Recorded
<1>2. QED
  BY <1>1, UnitsFinite

\* One call's step keeps the types of its record.
LEMMA CallType ==
  ASSUME LedgerInv, NEW a \in Attempts, CallStep(a)
  PROVE  log' \in [Attempts -> Entry]
<1>1. log \in [Attempts -> Entry] /\ TypeOK
  BY DEF LedgerInv, LedgerTypeOK, BudgetInv
<1>2. log[a] \in Entry
  BY <1>1
<1>3. CASE SettleAnswered(a)
  <2>1. PICK exact \in BOOLEAN, known \in Figures :
           log' = [log EXCEPT ![a] = [st |-> "due", seen |-> known, told |-> TRUE,
                      enforced |-> Enforced(a, Outcome(exact), known, Certain(exact))]]
    BY <1>3 DEF SettleAnswered
  <2>2. Enforced(a, Outcome(exact), known, Certain(exact)) \in Amount /\ known \in Amount
    BY <1>1, EnforcedType, SettleInputs
  <2>3. QED
    BY <1>1, <2>1, <2>2 DEF Entry
<1>4. CASE SettleUnheard(a)
  <2>1. PICK known \in Figures : log' = [log EXCEPT ![a].st = "due", ![a].seen = known]
    BY <1>4 DEF SettleUnheard
  <2>2. known \in Amount
    BY SettleInputs
  <2>3. QED
    BY <1>1, <1>2, <2>1, <2>2 DEF Entry
<1>5. ASSUME NEW step \in {"held", "sent", "lost", "inserting", "committed"},
             log' = [log EXCEPT ![a].st = step]
      PROVE  log' \in [Attempts -> Entry]
  BY <1>1, <1>2, <1>5 DEF Entry
<1>6. QED
  BY <1>1, <1>3, <1>4, <1>5
     DEF CallStep, Admit, SendOff, SettleUnlogged, LoseRow, BeginInsert, Commit, Age

\* Every step keeps the types of the ledger.
LEMMA LedgerType ==
  ASSUME LedgerInv, LedgerNext
  PROVE  LedgerTypeOK'
<1>1. LedgerTypeOK
  BY DEF LedgerInv
<1>2. ASSUME NEW a \in Attempts, CallStep(a) PROVE LedgerTypeOK'
  <2>1. aged' \subseteq Attempts /\ UNCHANGED <<decision, deciding, under, total, floor, rebuilt>>
    BY <1>1, <1>2 DEF CallStep, Admit, SendOff, SettleAnswered, SettleUnheard, SettleUnlogged,
                      LoseRow, BeginInsert, Commit, Age, LedgerTypeOK
  <2>2. QED
    BY <1>1, <1>2, <2>1, CallType DEF LedgerTypeOK
<1>3. CASE Fold
  <2>1. total' \in [Dims -> Nat]
    BY <1>1, <1>3, SumsAreNat DEF Fold, LedgerTypeOK
  <2>2. QED
    BY <1>1, <1>3, <2>1 DEF Fold, Cutoff, LedgerTypeOK
<1>4. CASE CronRaise \/ CronDies
  BY <1>1, <1>4 DEF CronRaise, CronDies, LedgerTypeOK
<1>5. CASE RebuildSum
  <2>1. total' \in [Dims -> Nat]
    BY <1>5, SumsAreNat DEF RebuildSum
  <2>2. QED
    BY <1>1, <1>5, <2>1 DEF RebuildSum, Created, LedgerTypeOK
<1>6. CASE RebuildLand \/ RebuildAbandoned
  BY <1>1, <1>6 DEF RebuildLand, RebuildAbandoned, LedgerTypeOK
<1>7. ASSUME NEW a \in Attempts, Resolve(a) PROVE LedgerTypeOK'
  <2>1. PICK known \in Figures \cup {Nothing} :
           deciding' \in {deciding, [deciding EXCEPT ![a] = [made |-> TRUE, units |-> known]]}
    BY <1>7 DEF Resolve
  <2>2. [made |-> TRUE, units |-> known] \in Figure
    BY SettleInputs DEF Figure
  <2>3. QED
    BY <1>1, <1>7, <2>1, <2>2 DEF Resolve, LedgerTypeOK
<1>8. ASSUME NEW a \in Attempts, RecordDecision(a) \/ DecisionFails(a) PROVE LedgerTypeOK'
  <2>1. Undecided \in Figure
    BY SettleInputs DEF Undecided, Figure
  <2>2. QED
    BY <1>1, <1>8, <2>1 DEF RecordDecision, DecisionFails, LedgerTypeOK
<1>9. CASE RedisLoss
  BY <1>1, <1>9 DEF RedisLoss, ledger, LedgerTypeOK
<1>10. QED
  BY <1>2, <1>3, <1>4, <1>5, <1>6, <1>7, <1>8, <1>9 DEF LedgerNext, OperatorStep

-----------------------------------------------------------------------------
(* The invariant is inductive *)

\* What is decided stays as it was while no counter comes back and no hold reopens.
LEMMA DecisionsStand ==
  ASSUME LedgerInv, UNCHANGED <<decision, deciding, rebuilt>>, present' \subseteq present,
         \A b \in Attempts : hold[b].st \in Terminal => hold'[b].st \in Terminal
  PROVE  \A b \in Attempts : DecisionInv(b)'
<1>1. present # CounterKeys => present' # CounterKeys
  BY DEF LedgerInv, BudgetInv, TypeOK
<1>2. QED
  BY <1>1 DEF LedgerInv, DecisionInv

\* A closed or unopened hold that is left alone keeps what its call relies on.
LEMMA CallsStand ==
  ASSUME LedgerInv, NEW b \in Attempts, log'[b] = log[b],
         hold'[b].st = hold[b].st, hold'[b].at = hold[b].at,
         hold[b] = NoHold => hold'[b] = NoHold
  PROVE  CallInv(b)'
BY DEF LedgerInv, CallInv

\* A call goes on to a later step of its own.
Advances(a) ==
  /\ \A b \in Attempts \ {a} : log'[b] = log[b]
  /\ log[a].st = "committed" => log'[a].st = "committed"
  /\ log[a].st \in {"inserting", "lost"} => log'[a].st \in {"inserting", "committed", "lost"}

\* A watermark covers what it covered when a call advances.
LEMMA RowsStand ==
  ASSUME LedgerInv, NEW a \in Attempts, Advances(a), UNCHANGED <<aged, under>>
  PROVE  RowsInv'
<1>1. aged \subseteq Attempts /\ under \subseteq Attempts
  BY DEF LedgerInv, LedgerTypeOK
<1>2. \A b \in Attempts :
         /\ log[b].st = "committed" => log'[b].st = "committed"
         /\ log[b].st \in {"inserting", "committed", "lost"}
              => log'[b].st \in {"inserting", "committed", "lost"}
  BY DEF Advances
<1>3. QED
  BY <1>1, <1>2 DEF LedgerInv, RowsInv, Logged

\* An admitted open keeps the invariant.
LEMMA AdmitStep == ASSUME LedgerInv, NEW a \in Attempts, Admit(a) PROVE LedgerInv'
<1>1. /\ BudgetInv' /\ present' = present
      /\ \A b \in Attempts \ {a} : hold'[b] = hold[b]
      /\ hold[a] = NoHold /\ hold'[a].st = "open"
  BY AdmitTouches
<1>2. log' = [log EXCEPT ![a].st = "held"] /\ log[a].st = "idle" /\ log[a] \in Entry
  BY DEF Admit, LedgerInv, LedgerTypeOK
<1>3. LedgerTypeOK'
  BY LedgerType DEF LedgerNext, CallStep
<1>4. /\ \A b \in Attempts \ {a} : log'[b] = log[b]
      /\ log'[a].st = "held" /\ log'[a].told = log[a].told
  BY <1>2 DEF LedgerInv, LedgerTypeOK, Entry
<1>5. RowsInv'
  BY <1>2, <1>4, RowsStand DEF Advances, Admit
<1>6. CallInv(a)'
  BY <1>1, <1>2, <1>4 DEF LedgerInv, CallInv
<1>7. \A b \in Attempts \ {a} : CallInv(b)'
  BY <1>1, <1>4, CallsStand
<1>8. \A b \in Attempts : hold[b].st \in Terminal => hold'[b].st \in Terminal
  BY <1>1 DEF NoHold, Terminal
<1>9. \A b \in Attempts : DecisionInv(b)'
  BY <1>1, <1>8, DecisionsStand DEF Admit
<1>10. QED
  BY <1>1, <1>3, <1>5, <1>6, <1>7, <1>9 DEF LedgerInv

\* Sending the call keeps the invariant.
LEMMA SendStep == ASSUME LedgerInv, NEW a \in Attempts, SendOff(a) PROVE LedgerInv'
<1>1. /\ BudgetInv' /\ present' = present
      /\ \A b \in Attempts : hold'[b].st = hold[b].st /\ hold'[b].at = hold[b].at
  BY SendTouches DEF SendOff, LedgerInv
<1>2. log' = [log EXCEPT ![a].st = "sent"] /\ log[a].st = "held" /\ log[a] \in Entry
  BY DEF SendOff, LedgerInv, LedgerTypeOK
<1>3. LedgerTypeOK'
  BY LedgerType DEF LedgerNext, CallStep
<1>4. /\ \A b \in Attempts \ {a} : log'[b] = log[b]
      /\ log'[a].st = "sent" /\ log'[a].told = log[a].told
  BY <1>2 DEF LedgerInv, LedgerTypeOK, Entry
<1>5. RowsInv'
  BY <1>2, <1>4, RowsStand DEF Advances, SendOff
<1>6. CallInv(a)'
  BY <1>1, <1>2, <1>4 DEF LedgerInv, CallInv
<1>7. \A b \in Attempts \ {a} : hold'[b] = hold[b]
  <2>1. hold \in [Attempts -> Hold]
    BY DEF LedgerInv, BudgetInv, TypeOK
  <2>2. QED
    BY <2>1 DEF SendOff, Dispatch
<1>8. \A b \in Attempts \ {a} : CallInv(b)'
  BY <1>1, <1>4, <1>7, CallsStand
<1>9. \A b \in Attempts : DecisionInv(b)'
  BY <1>1, DecisionsStand DEF SendOff
<1>10. QED
  BY <1>1, <1>3, <1>5, <1>6, <1>8, <1>9 DEF LedgerInv

\* What the handler's settle leaves, whichever way it goes on.
LEMMA SettledStep ==
  ASSUME LedgerInv, NEW a \in Attempts, NEW outcome \in {"complete", "usage_unknown"},
         NEW known \in Amount, NEW certain \in [Dims -> BOOLEAN],
         Settle(a, outcome, known, certain) \/ UNCHANGED vars,
         log[a].st = "sent", \A b \in Attempts \ {a} : log'[b] = log[b],
         log'[a].st \in {"due", "lost"},
         log'[a].told => /\ Settle(a, outcome, known, certain)
                         /\ log'[a].enforced = Enforced(a, outcome, known, certain),
         LedgerTypeOK', UNCHANGED <<decision, deciding, aged, under, rebuilt>>
  PROVE  LedgerInv'
<1> DEFINE charge == Applied(a, outcome, known, certain)
           Closes == /\ SettleReply(a, outcome) \in {"applied", "degraded"}
                     /\ hold[a].st = "open" /\ hold'[a].at = charge
<1>1. outcome \in Outcomes
  BY DEF Outcomes
<1>2. /\ BudgetInv' /\ present' = present
      /\ \A b \in Attempts \ {a} : hold'[b] = hold[b]
      /\ hold'[a] = hold[a] \/ Closes
  <2>1. CASE Settle(a, outcome, known, certain)
    BY <1>1, <2>1, SettleTouches DEF LedgerInv
  <2>2. CASE UNCHANGED vars
    BY <2>2, StutterInv DEF LedgerInv, vars
  <2>3. QED
    BY <2>1, <2>2
<1>3. RowsInv'
  BY RowsStand DEF Advances
<1>4. \A b \in Attempts \ {a} : CallInv(b)'
  BY <1>2, CallsStand
<1>5. hold[a].st # "settled"
  BY DEF LedgerInv, CallInv
<1>6. CallInv(a)'
  <2>1. CASE hold'[a] = hold[a]
    BY <1>5, <2>1 DEF CallInv
  <2>2. CASE Closes
    <3>1. Enforced(a, outcome, known, certain) = charge
      BY <2>2 DEF Enforced
    <3>2. QED
      BY <2>2, <3>1 DEF CallInv
  <2>3. QED
    BY <1>2, <2>1, <2>2
<1>7. \A b \in Attempts : hold[b].st \in Terminal => hold'[b].st \in Terminal
  <2>1. hold[a].st = "open" => hold[a].st \notin Terminal
    BY DEF Terminal
  <2>2. QED
    BY <1>2, <2>1
<1>8. \A b \in Attempts : DecisionInv(b)'
  BY <1>2, <1>7, DecisionsStand
<1>9. QED
  BY <1>2, <1>3, <1>4, <1>6, <1>8 DEF LedgerInv

\* The three ways a settle of the handler ends keep the invariant.
LEMMA SettleStep ==
  ASSUME LedgerInv, NEW a \in Attempts, SettleAnswered(a) \/ SettleUnheard(a) \/ SettleUnlogged(a)
  PROVE  LedgerInv'
<1>1. LedgerTypeOK'
  BY LedgerType DEF LedgerNext, CallStep
<1>2. log \in [Attempts -> Entry] /\ log[a] \in Entry
  BY DEF LedgerInv, LedgerTypeOK
<1>3. log[a].st = "sent" => ~ log[a].told
  BY DEF LedgerInv, CallInv
<1>4. CASE SettleAnswered(a)
  <2>1. PICK exact \in BOOLEAN, known \in Figures :
           /\ Settle(a, Outcome(exact), known, Certain(exact))
           /\ log' = [log EXCEPT ![a] =
                 [st |-> "due", seen |-> known, told |-> TRUE,
                  enforced |-> Enforced(a, Outcome(exact), known, Certain(exact))]]
    BY <1>4 DEF SettleAnswered
  <2>2. /\ \A b \in Attempts \ {a} : log'[b] = log[b]
        /\ log'[a].st = "due"
        /\ log'[a].enforced = Enforced(a, Outcome(exact), known, Certain(exact))
    BY <1>2, <2>1
  <2>3. /\ Outcome(exact) \in {"complete", "usage_unknown"}
        /\ Certain(exact) \in [Dims -> BOOLEAN] /\ known \in Amount
    BY SettleInputs
  <2>4. QED
    BY <1>1, <1>4, <2>1, <2>2, <2>3, SettledStep DEF SettleAnswered
<1>5. CASE SettleUnheard(a)
  <2>1. PICK exact \in BOOLEAN, known \in Figures :
           /\ Settle(a, Outcome(exact), known, Certain(exact)) \/ UNCHANGED vars
           /\ log' = [log EXCEPT ![a].st = "due", ![a].seen = known]
    BY <1>5 DEF SettleUnheard
  <2>2. /\ \A b \in Attempts \ {a} : log'[b] = log[b]
        /\ log'[a].st = "due" /\ log'[a].told = log[a].told
    BY <1>2, <2>1 DEF Entry
  <2>3. /\ Outcome(exact) \in {"complete", "usage_unknown"}
        /\ Certain(exact) \in [Dims -> BOOLEAN] /\ known \in Amount
    BY SettleInputs
  <2>4. QED
    BY <1>1, <1>3, <1>5, <2>1, <2>2, <2>3, SettledStep DEF SettleUnheard
<1>6. CASE SettleUnlogged(a)
  <2>1. /\ \A b \in Attempts \ {a} : log'[b] = log[b]
        /\ log'[a].st = "lost" /\ log'[a].told = log[a].told
    BY <1>2, <1>6 DEF SettleUnlogged, Entry
  <2>2. Certain(FALSE) \in [Dims -> BOOLEAN] /\ Nothing \in Amount
    BY SettleInputs
  <2>3. QED
    BY <1>1, <1>3, <1>6, <2>1, <2>2, SettledStep DEF SettleUnlogged
<1>7. QED
  BY <1>4, <1>5, <1>6

\* A step that moves nothing of the store and at most one call keeps what is not
\* about the checkpoint.
LEMMA QuietStep ==
  ASSUME LedgerInv, UNCHANGED <<vars, decision, deciding, rebuilt>>,
         \A b \in Attempts : /\ log'[b].told = log[b].told /\ log'[b].enforced = log[b].enforced
                             /\ log'[b].st \in {"idle", "held", "sent"} => log'[b].st = log[b].st
  PROVE  BudgetInv' /\ \A b \in Attempts : CallInv(b)' /\ DecisionInv(b)'
<1>1. BudgetInv'
  BY StutterInv DEF LedgerInv
<1>2. \A b \in Attempts : DecisionInv(b)'
  BY DecisionsStand DEF vars
<1>3. UNCHANGED hold
  BY DEF vars
<1>4. ASSUME NEW b \in Attempts PROVE CallInv(b)'
  BY <1>3 DEF LedgerInv, CallInv
<1>5. QED
  BY <1>1, <1>2, <1>4

\* The row's own steps, and the passing of time, keep the invariant.
LEMMA RowStep ==
  ASSUME LedgerInv, NEW a \in Attempts, LoseRow(a) \/ BeginInsert(a) \/ Commit(a) \/ Age(a)
  PROVE  LedgerInv'
<1>1. LedgerTypeOK'
  BY LedgerType DEF LedgerNext, CallStep
<1>2. log \in [Attempts -> Entry] /\ log[a] \in Entry
  BY DEF LedgerInv, LedgerTypeOK
<1>3. /\ \A b \in Attempts \ {a} : log'[b] = log[b]
      /\ log'[a].told = log[a].told /\ log'[a].enforced = log[a].enforced
      /\ log'[a].st = log[a].st \/ log'[a].st \in {"lost", "inserting", "committed"}
      /\ UNCHANGED <<vars, decision, deciding, rebuilt>>
  BY <1>2 DEF LoseRow, BeginInsert, Commit, Age, Entry
<1>4. BudgetInv' /\ \A b \in Attempts : CallInv(b)' /\ DecisionInv(b)'
  BY <1>3, QuietStep
<1>5. RowsInv'
  <2>1. CASE Age(a)
    BY <2>1 DEF Age, LedgerInv, RowsInv, Logged
  <2>2. CASE LoseRow(a) \/ BeginInsert(a) \/ Commit(a)
    <3>1. Advances(a)
      BY <1>2, <1>3, <2>2 DEF LoseRow, BeginInsert, Commit, Advances, Entry
    <3>2. UNCHANGED <<aged, under>>
      BY <2>2 DEF LoseRow, BeginInsert, Commit
    <3>3. QED
      BY <3>1, <3>2, RowsStand
  <2>3. QED
    BY <2>1, <2>2
<1>6. QED
  BY <1>1, <1>4, <1>5 DEF LedgerInv

\* The cron's fold and its end keep the invariant.
LEMMA FoldStep == ASSUME LedgerInv, Fold \/ CronDies PROVE LedgerInv'
<1>1. LedgerTypeOK'
  BY LedgerType DEF LedgerNext
<1>2. UNCHANGED <<vars, log, decision, deciding, aged, rebuilt>>
  BY DEF Fold, CronDies
<1>3. BudgetInv' /\ \A b \in Attempts : CallInv(b)' /\ DecisionInv(b)'
  BY <1>2, QuietStep
<1>4. RowsInv'
  BY <1>2 DEF Fold, CronDies, Cutoff, LedgerInv, RowsInv, Logged
<1>5. QED
  BY <1>1, <1>3, <1>4 DEF LedgerInv

\* A step that leaves the ledger's own state, and the holds' outcomes, alone.
LEMMA StoreStep ==
  ASSUME LedgerInv, UNCHANGED <<log, decision, deciding, aged, under>>,
         LedgerTypeOK', BudgetInv',
         \A b \in Attempts : /\ hold'[b].st = hold[b].st /\ hold'[b].at = hold[b].at
                             /\ hold[b] = NoHold => hold'[b] = NoHold,
         \/ rebuilt' = rebuilt /\ present' \subseteq present
         \/ rebuilt # NoTotal
  PROVE  LedgerInv'
<1>1. \A b \in Attempts : CallInv(b)'
  BY CallsStand
<1>2. RowsInv'
  BY DEF LedgerInv, RowsInv, Logged
<1>3. \A b \in Attempts : DecisionInv(b)'
  <2>1. CASE rebuilt' = rebuilt /\ present' \subseteq present
    BY <2>1, DecisionsStand
  <2>2. CASE rebuilt # NoTotal
    BY <2>2 DEF LedgerInv, DecisionInv
  <2>3. QED
    BY <2>1, <2>2
<1>4. QED
  BY <1>1, <1>2, <1>3 DEF LedgerInv

\* The cron's floor, the end of a rebuild and what Redis loses keep the invariant.
LEMMA MovesStep ==
  ASSUME LedgerInv, CronRaise \/ RebuildLand \/ RebuildAbandoned \/ RedisLoss
  PROVE  LedgerInv'
<1>1. LedgerTypeOK'
  BY LedgerType DEF LedgerNext, OperatorStep
<1>2. CASE CronRaise
  BY <1>1, <1>2, RaiseTouches, StoreStep DEF CronRaise
<1>3. CASE RebuildLand
  BY <1>1, <1>3, LandTouches, StoreStep DEF RebuildLand
<1>4. CASE RebuildAbandoned
  <2>1. BudgetInv' /\ hold' = hold
    BY <1>4, StutterInv DEF RebuildAbandoned, LedgerInv, vars
  <2>2. QED
    BY <1>1, <1>4, <2>1, StoreStep DEF RebuildAbandoned
<1>5. CASE RedisLoss
  BY <1>1, <1>5, LossTouches, StoreStep DEF RedisLoss, ledger
<1>6. QED
  BY <1>2, <1>3, <1>4, <1>5

\* The rebuild's sum keeps the invariant: while no order of events allows otherwise,
\* nobody is inserting and nobody is deciding.
LEMMA SumStep == ASSUME LedgerInv, RebuildSum PROVE LedgerInv'
<1>1. LedgerTypeOK'
  BY LedgerType DEF LedgerNext, OperatorStep
<1>2. UNCHANGED <<vars, log, decision, deciding, aged>>
  BY DEF RebuildSum
<1>3. BudgetInv' /\ UNCHANGED <<hold, present>>
  BY <1>2, StutterInv DEF LedgerInv, vars
<1>4. \A b \in Attempts : CallInv(b)'
  BY <1>2, <1>3, CallsStand
<1>5. RowsInv'
  BY <1>2 DEF RebuildSum, LedgerInv, RowsInv, Logged, Created
<1>6. \A b \in Attempts : DecisionInv(b)'
  BY <1>2, <1>3 DEF RebuildSum, LedgerInv, DecisionInv
<1>7. QED
  BY <1>1, <1>3, <1>4, <1>5, <1>6 DEF LedgerInv

\* A decision that is written down, or fails to be, keeps the invariant.
LEMMA RecordStep ==
  ASSUME LedgerInv, NEW a \in Attempts, RecordDecision(a) \/ DecisionFails(a)
  PROVE  LedgerInv'
<1>1. LedgerTypeOK'
  BY LedgerType DEF LedgerNext, OperatorStep
<1>2. UNCHANGED <<vars, log, aged, under, rebuilt>>
  BY DEF RecordDecision, DecisionFails
<1>3. BudgetInv' /\ UNCHANGED <<hold, present>>
  BY <1>2, StutterInv DEF LedgerInv, vars
<1>4. \A b \in Attempts : CallInv(b)'
  BY <1>2, <1>3, CallsStand
<1>5. RowsInv'
  BY <1>2 DEF LedgerInv, RowsInv, Logged
<1>6. decision \in [Attempts -> Figure] /\ deciding \in [Attempts -> Figure] /\ ~ Undecided.made
  BY DEF LedgerInv, LedgerTypeOK, Undecided
<1>7. /\ \A b \in Attempts \ {a} : decision'[b] = decision[b] /\ deciding'[b] = deciding[b]
      /\ decision'[a] \in {decision[a], deciding[a]} /\ ~ deciding'[a].made
  BY <1>6 DEF RecordDecision, DecisionFails
<1>8. \A b \in Attempts : DecisionInv(b)'
  BY <1>2, <1>3, <1>7 DEF LedgerInv, DecisionInv
<1>9. QED
  BY <1>1, <1>3, <1>4, <1>5, <1>8 DEF LedgerInv

\* A decision is owed only for a hold its settle leaves closed, and, when no rebuild
\* has summed since, only while the counters are lost.
LEMMA OwedIsLost ==
  ASSUME LedgerInv, NEW a \in Attempts, NEW outcome \in Outcomes, Owes(a, outcome)
  PROVE  /\ SettleReply(a, outcome) = "degraded" \/ hold[a].st \in Terminal
         /\ ~ Recovered(a) => present # CounterKeys
<1>1. hold[a] \in Hold
  BY DEF LedgerInv, BudgetInv, TypeOK
<1>2. CASE SettleReply(a, outcome) = "degraded"
  BY <1>2 DEF SettleReply
<1>3. CASE SettleReply(a, outcome) = "degraded_replay"
  <2>1. hold[a].st \notin {"absent", "open"} /\ hold[a].dg
    BY <1>3 DEF SettleReply, Exists
  <2>2. hold[a].ep # NoEpoch
    BY <2>1 DEF LedgerInv, BudgetInv, OpenedIsStamped
  <2>3. ~ Recovered(a) => present # CounterKeys
    BY <2>1, <2>2 DEF Recovered, InGeneration, LedgerInv, BudgetInv, DegradedMeansLost
  <2>4. QED
    BY <1>1, <2>1, <2>3 DEF Hold
<1>4. QED
  BY <1>2, <1>3 DEF Owes

\* An operator's settle keeps the invariant.
LEMMA ResolveStep == ASSUME LedgerInv, NEW a \in Attempts, Resolve(a) PROVE LedgerInv'
<1>1. LedgerTypeOK'
  BY LedgerType DEF LedgerNext, OperatorStep
<1>2. PICK outcome \in {"resolved", "not_dispatched"}, known \in Figures \cup {Nothing} :
         /\ "late_decision" \in Races \/ ~ Owes(a, outcome) \/ ~ Recovered(a)
         /\ "correction" \in Races \/ ~ Owes(a, outcome) \/ ~ decision[a].made
         /\ Settle(a, outcome, known, Certain(FALSE))
         /\ deciding' = IF Owes(a, outcome)
                        THEN [deciding EXCEPT ![a] = [made |-> TRUE, units |-> known]]
                        ELSE deciding
  BY DEF Resolve
<1>3. outcome \in Outcomes /\ known \in Amount /\ Certain(FALSE) \in [Dims -> BOOLEAN]
  BY SettleInputs
<1>4. /\ BudgetInv' /\ present' = present
      /\ \A b \in Attempts \ {a} : hold'[b] = hold[b]
      /\ \/ hold' = hold /\ SettleReply(a, outcome) \notin {"applied", "degraded"}
         \/ hold[a].st = "open" /\ hold'[a].st = TerminalState(outcome)
  BY <1>2, <1>3, SettleTouches DEF LedgerInv
<1>5. TerminalState(outcome) \in Terminal \ {"settled"}
  BY DEF TerminalState, Terminal
<1>6. UNCHANGED <<log, decision, aged, under, rebuilt>> /\ ~ deciding[a].made
  BY DEF Resolve
<1>7. RowsInv'
  BY <1>6 DEF LedgerInv, RowsInv, Logged
<1>8. \A b \in Attempts : CallInv(b)'
  <2>1. hold[a] # NoHold
    BY DEF Resolve, NoHold
  <2>2. CallInv(a)'
    BY <1>4, <1>5, <1>6, <2>1 DEF LedgerInv, CallInv
  <2>3. \A b \in Attempts \ {a} : CallInv(b)'
    BY <1>4, <1>6, CallsStand
  <2>4. QED
    BY <2>2, <2>3
<1>9. \A b \in Attempts : hold[b].st \in Terminal => hold'[b].st \in Terminal
  BY <1>4, <1>5
<1>10. \A b \in Attempts : DecisionInv(b)'
  <2>1. CASE ~ Owes(a, outcome)
    <3>1. deciding' = deciding
      BY <1>2, <2>1
    <3>2. QED
      BY <1>4, <1>6, <1>9, <3>1, DecisionsStand
  <2>2. CASE Owes(a, outcome)
    <3>1. /\ \A b \in Attempts \ {a} : deciding'[b] = deciding[b]
          /\ deciding'[a].made
      BY <1>2, <2>2 DEF LedgerInv, LedgerTypeOK
    <3>2. hold'[a].st \in Terminal
      <4>1. SettleReply(a, outcome) = "degraded" \/ hold[a].st \in Terminal
        BY <1>3, <2>2, OwedIsLost
      <4>2. QED
        BY <1>4, <1>5, <1>9, <4>1
    <3>3. "late_decision" \notin Races => rebuilt = NoTotal /\ present # CounterKeys
      BY <1>2, <1>3, <2>2, OwedIsLost DEF Recovered
    <3>4. DecisionInv(a)'
      BY <1>2, <1>4, <1>6, <2>2, <3>1, <3>2, <3>3 DEF DecisionInv
    <3>5. \A b \in Attempts \ {a} : DecisionInv(b)'
      BY <1>4, <1>6, <1>9, <3>1 DEF LedgerInv, DecisionInv
    <3>6. QED
      BY <3>4, <3>5
  <2>3. QED
    BY <2>1, <2>2
<1>11. QED
  BY <1>1, <1>4, <1>7, <1>8, <1>10 DEF LedgerInv

\* What a new agent has satisfies the invariant.
LEMMA LedgerInitInv == LedgerInit => LedgerInv
<1> SUFFICES ASSUME LedgerInit PROVE LedgerInv
  OBVIOUS
<1>1. Nothing \in Amount /\ Nothing \in [Dims -> Int] /\ Nothing \in [Dims -> Nat] /\ NoHold \in Hold
  BY AmountType
<1>2. \A a \in Attempts : hold[a] = NoHold
  BY DEF LedgerInit
<1>3. BudgetInv
  <2>1. TypeOK
    BY <1>1 DEF LedgerInit, TypeOK
  <2>2. NonNegative
    BY DEF LedgerInit, Nothing, NonNegative
  <2>3. StampsUsed /\ OpenedIsStamped /\ DispatchedIsNeverReleased /\ DegradedMeansLost
    BY <1>2 DEF LedgerInit, NoHold, StampsUsed, OpenedIsStamped, DispatchedIsNeverReleased,
                DegradedMeansLost
  <2>4. \A u \in Units : hold[u[1]].st = "absent"
    BY <1>2 DEF Units, NoHold
  <2>5. ASSUME NEW d \in Dims
        PROVE  /\ Cardinality(ReservationUnits(d)) = 0 /\ Cardinality(ChargeUnits(d)) = 0
               /\ Cardinality(AdmittedUnits(d)) = 0
    <3>1. ReservationUnits(d) = {} /\ ChargeUnits(d) = {} /\ AdmittedUnits(d) = {}
      BY <2>4 DEF ReservationUnits, ChargeUnits, AdmittedUnits, Terminal
    <3>2. QED
      BY <3>1, FS_EmptySet
  <2>6. ReservedCoversOpen /\ SpentCoversCharges /\ AdmittedWithinCap
    BY <2>2, <2>5 DEF NonNegative, ReservedCoversOpen, SpentCoversCharges, AdmittedWithinCap
  <2>7. QED
    BY <2>1, <2>2, <2>3, <2>6 DEF BudgetInv
<1>4. LedgerTypeOK
  BY <1>1 DEF LedgerInit, LedgerTypeOK, Entry, Figure, Undecided
<1>5. RowsInv
  BY DEF LedgerInit, RowsInv
<1>6. ASSUME NEW a \in Attempts PROVE CallInv(a) /\ DecisionInv(a)
  BY <1>2 DEF LedgerInit, CallInv, DecisionInv, Undecided, NoHold
<1>7. QED
  BY <1>3, <1>4, <1>5, <1>6 DEF LedgerInv

\* Every step keeps the invariant.
LEMMA LedgerNextInv == ASSUME LedgerInv, [LedgerNext]_lvars PROVE LedgerInv'
<1>1. ASSUME NEW a \in Attempts, CallStep(a) PROVE LedgerInv'
  BY <1>1, AdmitStep, SendStep, SettleStep, RowStep DEF CallStep
<1>2. CASE OperatorStep
  BY <1>2, ResolveStep, RecordStep, SumStep, MovesStep DEF OperatorStep
<1>3. CASE UNCHANGED lvars
  <2>1. UNCHANGED <<vars, log, decision, deciding, aged, under, total, floor, rebuilt>>
    BY <1>3 DEF lvars, ledger
  <2>2. BudgetInv' /\ \A b \in Attempts : CallInv(b)' /\ DecisionInv(b)'
    BY <2>1, QuietStep
  <2>3. LedgerTypeOK' /\ RowsInv'
    BY <2>1 DEF LedgerInv, LedgerTypeOK, RowsInv, Logged
  <2>4. QED
    BY <2>2, <2>3 DEF LedgerInv
<1>4. QED
  BY <1>1, <1>2, <1>3, FoldStep, MovesStep DEF LedgerNext

\* The invariant holds in every reachable state, whatever the order of events.
LEMMA LedgerInvariance == LedgerSpec => []LedgerInv
<1>1. LedgerInv /\ [LedgerNext]_lvars => LedgerInv'
  BY LedgerNextInv
<1>2. QED
  BY <1>1, LedgerInitInv, PTL DEF LedgerSpec

-----------------------------------------------------------------------------
(* The theorems that hold in every order of events *)

\* Every reachable state of the ledger is well typed.
THEOREM LedgerTypeCorrect == LedgerSpec => []LedgerTypeOK
<1>1. LedgerInv => LedgerTypeOK
  BY DEF LedgerInv
<1>2. QED
  BY <1>1, LedgerInvariance, PTL

\* Once its settle was answered, a row holds at least what the settle charged: a
\* debit that lost counters could not take is deferred to the ledger, never forgiven.
THEOREM ChargeIsInTheRow == LedgerSpec => []RowCarriesCharge
<1>1. LedgerInv => RowCarriesCharge
  <2> SUFFICES ASSUME LedgerInv, NEW a \in Logged, log[a].told, hold[a].st = "settled",
                      NEW d \in Dims
               PROVE  Spend(a)[d] >= hold[a].at[d]
    BY DEF RowCarriesCharge
  <2>1. a \in Attempts /\ log[a] \in Entry
    BY DEF Logged, LedgerInv, LedgerTypeOK
  <2>2. log[a].enforced = hold[a].at
    BY <2>1 DEF LedgerInv, CallInv
  <2>3. log[a].enforced[d] \in 0..MaxUnits /\ log[a].seen[d] \in 0..MaxUnits
    BY <2>1 DEF Entry, Amount
  <2>4. QED
    BY <2>2, <2>3, BudgetAssumption DEF Spend, Larger
<1>2. QED
  BY <1>1, LedgerInvariance, PTL

-----------------------------------------------------------------------------
(* Counting what the ledger knows *)

\* The rows the checkpoint has folded or summed.
RowUnits(d) == {u \in Units : u[1] \in under \cap Logged /\ u[2] <= Spend(u[1])[d]}

DecidedUnits(d) == {u \in Units : u[2] <= Decided(u[1], d)}

SettledUnits(d) == {u \in Units : hold[u[1]].st \in Terminal /\ u[2] <= hold[u[1]].at[d]}

\* Each attempt at its row or at its decision, whichever is larger.
KnownUnits(d) == RowUnits(d) \cup DecidedUnits(d)

\* Each attempt at its row once that is counted, and at its decision before.
KeptUnits(d) == {u \in Units : IF u[1] \in under \cap Logged THEN u[2] <= Spend(u[1])[d]
                                                             ELSE u[2] <= Decided(u[1], d)}

\* By how much the rows a fold finds exceed what was decided about them.
LateUnits(rows, d) == {u \in Units : /\ u[1] \in rows \cap Logged
                                     /\ u[2] > Decided(u[1], d)
                                     /\ u[2] <= Spend(u[1])[d]}

\* Counting a part of some units.
LEMMA CountsLess ==
  ASSUME NEW T \in SUBSET Units, NEW S \in SUBSET T
  PROVE  /\ IsFiniteSet(S) /\ Cardinality(S) \in Nat
         /\ IsFiniteSet(T) /\ Cardinality(T) \in Nat
         /\ Cardinality(S) <= Cardinality(T)
BY UnitsFinite, FS_Subset

\* Counting units of two kinds.
LEMMA CountsBoth ==
  ASSUME NEW S \in SUBSET Units, NEW T \in SUBSET Units
  PROVE  /\ Cardinality(S \cup T) \in Nat
         /\ Cardinality(S \cup T) <= Cardinality(S) + Cardinality(T)
         /\ S \cap T = {} => Cardinality(S \cup T) = Cardinality(S) + Cardinality(T)
<1>1. IsFiniteSet(S) /\ IsFiniteSet(T)
  BY UnitsFinite
<1>2. S \cap T \in SUBSET Units /\ S \cup T \in SUBSET Units
  OBVIOUS
<1>3. Cardinality(S) \in Nat /\ Cardinality(T) \in Nat /\ Cardinality(S \cap T) \in Nat
      /\ Cardinality(S \cup T) \in Nat
  BY <1>2, UnitsFinite
<1>4. Cardinality(S \cup T) = Cardinality(S) + Cardinality(T) - Cardinality(S \cap T)
  BY <1>1, FS_Union
<1>5. S \cap T = {} => Cardinality(S \cap T) = 0
  BY FS_EmptySet
<1>6. QED
  BY <1>3, <1>4, <1>5

\* A row and a decision are worth a bounded number of units.
LEMMA Worth ==
  ASSUME LedgerInv, NEW a \in Attempts, NEW d \in Dims
  PROVE  /\ Decided(a, d) \in 0..MaxUnits
         /\ Spend(a)[d] \in 0..MaxUnits
<1>1. log[a] \in Entry /\ decision[a] \in Figure
  BY DEF LedgerInv, LedgerTypeOK
<1>2. /\ log[a].enforced[d] \in 0..MaxUnits /\ log[a].seen[d] \in 0..MaxUnits
      /\ decision[a].units[d] \in 0..MaxUnits /\ 0 \in 0..MaxUnits
  BY <1>1, BudgetAssumption DEF Entry, Figure, Amount
<1>3. QED
  BY <1>2 DEF Decided, Spend, Larger

\* The fold counts the late units: a row less what was decided about its attempt.
LEMMA FoldCounts ==
  ASSUME LedgerInv, NEW rows, NEW d \in Dims
  PROVE  Cardinality(Excess(rows, d)) = Cardinality(LateUnits(rows, d))
<1> DEFINE L == LateUnits(rows, d)
           E == Excess(rows, d)
           f == [u \in L |-> <<u[1], u[2] - Decided(u[1], d)>>]
<1>1. \A u \in Units : /\ u = <<u[1], u[2]>> /\ u[1] \in Attempts /\ u[2] \in 1..MaxUnits
                       /\ Decided(u[1], d) \in 0..MaxUnits /\ Spend(u[1])[d] \in 0..MaxUnits
  BY Worth DEF Units
<1>2. \A x \in Attempts, n \in 1..MaxUnits : <<x, n>> \in Units
  BY DEF Units
<1>3. MaxUnits \in Nat
  BY BudgetAssumption
<1>4. f \in [L -> E]
  <2> SUFFICES ASSUME NEW u \in L PROVE <<u[1], u[2] - Decided(u[1], d)>> \in E
    OBVIOUS
  <2>1. /\ u \in Units /\ u[1] \in rows \cap Logged
        /\ u[2] > Decided(u[1], d) /\ u[2] <= Spend(u[1])[d]
    BY DEF LateUnits
  <2>2. u[2] - Decided(u[1], d) \in 1..MaxUnits
    BY <1>1, <1>3, <2>1
  <2>3. <<u[1], u[2] - Decided(u[1], d)>> \in Units
    BY <1>1, <1>2, <2>1, <2>2
  <2>4. (u[2] - Decided(u[1], d)) + Decided(u[1], d) <= Spend(u[1])[d]
    BY <1>1, <1>3, <2>1
  <2>5. QED
    BY <2>1, <2>3, <2>4 DEF Excess
<1>5. \A u, v \in L : f[u] = f[v] => u = v
  <2> SUFFICES ASSUME NEW u \in L, NEW v \in L,
                      <<u[1], u[2] - Decided(u[1], d)>> = <<v[1], v[2] - Decided(v[1], d)>>
               PROVE  u = v
    OBVIOUS
  <2>1. u \in Units /\ v \in Units
    BY DEF LateUnits
  <2>2. u[1] = v[1] /\ u[2] - Decided(u[1], d) = v[2] - Decided(v[1], d)
    OBVIOUS
  <2>3. u[2] = v[2]
    BY <1>1, <1>3, <2>1, <2>2
  <2>4. QED
    BY <1>1, <2>1, <2>2, <2>3
<1>6. \A w \in E : \E u \in L : f[u] = w
  <2> SUFFICES ASSUME NEW w \in E PROVE \E u \in L : f[u] = w
    OBVIOUS
  <2> DEFINE u == <<w[1], w[2] + Decided(w[1], d)>>
  <2>1. w \in Units /\ w[1] \in rows \cap Logged /\ w[2] + Decided(w[1], d) <= Spend(w[1])[d]
    BY DEF Excess
  <2>2. w[2] + Decided(w[1], d) \in 1..MaxUnits
    BY <1>1, <1>3, <2>1
  <2>3. u \in Units
    BY <1>1, <1>2, <2>1, <2>2
  <2>4. w[2] + Decided(w[1], d) > Decided(w[1], d)
    BY <1>1, <1>3, <2>1
  <2>5. u \in L
    BY <2>1, <2>3, <2>4 DEF LateUnits
  <2>6. (w[2] + Decided(w[1], d)) - Decided(w[1], d) = w[2]
    BY <1>1, <1>3, <2>1
  <2>7. f[u] = w
    BY <1>1, <2>1, <2>5, <2>6
  <2>8. QED
    BY <2>5, <2>7
<1>7. f \in Bijection(L, E)
  BY <1>4, <1>5, <1>6 DEF Bijection, Injection, IsInjective, Surjection
<1>8. IsFiniteSet(L)
  <2>1. L \in SUBSET Units
    BY DEF LateUnits
  <2>2. QED
    BY <2>1, UnitsFinite
<1>9. QED
  BY <1>7, <1>8, FS_Bijection DEF ExistsBijection

-----------------------------------------------------------------------------
(* What a step leaves of what the ledger knows *)

\* The checkpoint stands for everything known: the counters are whole, or a rebuild
\* has summed and not landed.
Sound == present = CounterKeys \/ rebuilt # NoTotal

\* A step other than a fold and a rebuild's sum.
Keeps ==
  /\ UNCHANGED <<total, under>>
  /\ Sound' => Sound
  /\ floor' \in {floor, NoTotal} /\ rebuilt' \in {rebuilt, NoTotal}
  /\ decision' = decision \/ \E a \in Attempts : RecordDecision(a)

\* A committed row is never written again.
LEMMA RowsAreFinal ==
  ASSUME LedgerInv, [LedgerNext]_lvars, NEW b \in Logged
  PROVE  b \in Logged' /\ log'[b] = log[b]
<1>1. b \in Attempts /\ log[b].st = "committed" /\ log \in [Attempts -> Entry]
  BY DEF Logged, LedgerInv, LedgerTypeOK
<1>2. ASSUME NEW a \in Attempts, CallStep(a) PROVE log'[b] = log[b]
  <2>1. CASE Age(a)
    BY <2>1 DEF Age
  <2>2. CASE a # b
    BY <1>1, <1>2, <2>2 DEF CallStep, Admit, SendOff, SettleAnswered, SettleUnheard,
                            SettleUnlogged, LoseRow, BeginInsert, Commit, Age
  <2>3. CASE a = b /\ ~ Age(a)
    BY <1>1, <1>2, <2>3 DEF CallStep, Admit, SendOff, SettleAnswered, SettleUnheard,
                            SettleUnlogged, LoseRow, BeginInsert, Commit
  <2>4. QED
    BY <2>1, <2>2, <2>3
<1>3. ASSUME Fold \/ CronRaise \/ CronDies \/ OperatorStep \/ RedisLoss \/ UNCHANGED lvars
      PROVE  log'[b] = log[b]
  BY <1>3 DEF Fold, CronRaise, CronDies, OperatorStep, Resolve, RecordDecision, DecisionFails,
              RebuildSum, RebuildLand, RebuildAbandoned, RedisLoss, lvars, ledger
<1>4. log'[b] = log[b]
  BY <1>2, <1>3 DEF LedgerNext
<1>5. QED
  BY <1>1, <1>4 DEF Logged

\* Lost counters come back only with a rebuild that summed first.
LEMMA StepKinds ==
  ASSUME LedgerInv, [LedgerNext]_lvars
  PROVE  Fold \/ RebuildSum \/ Keeps
<1>1. ASSUME NEW a \in Attempts, CallStep(a) PROVE Keeps
  <2>1. UNCHANGED <<decision, under, total, floor, rebuilt>>
    BY <1>1 DEF CallStep, Admit, SendOff, SettleAnswered, SettleUnheard, SettleUnlogged,
                LoseRow, BeginInsert, Commit, Age
  <2>2. present' = present
    <3>1. CASE Admit(a) \/ SendOff(a)
      BY <3>1, AdmitTouches, SendTouches DEF SendOff, LedgerInv
    <3>2. ASSUME NEW outcome \in {"complete", "usage_unknown"}, NEW known \in Amount,
                 NEW certain \in [Dims -> BOOLEAN], Settle(a, outcome, known, certain)
          PROVE  present' = present
      BY <3>2, SettleTouches DEF LedgerInv, Outcomes
    <3>3. CASE SettleAnswered(a) \/ SettleUnheard(a)
      <4>1. PICK exact \in BOOLEAN, known \in Figures :
               Settle(a, Outcome(exact), known, Certain(exact)) \/ UNCHANGED vars
        BY <3>3 DEF SettleAnswered, SettleUnheard
      <4>2. QED
        BY <3>2, <4>1, SettleInputs DEF vars
    <3>4. CASE SettleUnlogged(a)
      BY <3>2, <3>4, SettleInputs DEF SettleUnlogged
    <3>5. CASE LoseRow(a) \/ BeginInsert(a) \/ Commit(a) \/ Age(a)
      BY <3>5 DEF LoseRow, BeginInsert, Commit, Age, vars
    <3>6. QED
      BY <1>1, <3>1, <3>3, <3>4, <3>5 DEF CallStep
  <2>3. QED
    BY <2>1, <2>2 DEF Keeps, Sound
<1>2. CASE CronRaise
  BY <1>2, RaiseTouches DEF CronRaise, Keeps, Sound
<1>3. CASE CronDies
  BY <1>3 DEF CronDies, vars, Keeps, Sound
<1>4. CASE RebuildLand
  BY <1>4 DEF RebuildLand, Keeps, Sound
<1>5. CASE RebuildAbandoned
  BY <1>5 DEF RebuildAbandoned, Keeps, Sound
<1>6. ASSUME NEW a \in Attempts, Resolve(a) PROVE Keeps
  <2>1. PICK outcome \in Outcomes, known \in Amount : Settle(a, outcome, known, Certain(FALSE))
    BY <1>6, SettleInputs DEF Resolve
  <2>2. present' = present
    BY <2>1, SettleTouches, SettleInputs DEF LedgerInv
  <2>3. QED
    BY <1>6, <2>2 DEF Resolve, Keeps, Sound
<1>7. ASSUME NEW a \in Attempts, RecordDecision(a) \/ DecisionFails(a) PROVE Keeps
  BY <1>7 DEF RecordDecision, DecisionFails, vars, Keeps, Sound
<1>8. CASE RedisLoss
  <2>1. present' \subseteq present /\ present \subseteq CounterKeys
    BY <1>8, LossTouches DEF LedgerInv, BudgetInv, TypeOK
  <2>2. QED
    BY <1>8, <2>1 DEF RedisLoss, ledger, Keeps, Sound
<1>9. CASE UNCHANGED lvars
  BY <1>9 DEF lvars, vars, ledger, Keeps, Sound
<1>10. QED
  BY <1>1, <1>2, <1>3, <1>4, <1>5, <1>6, <1>7, <1>8, <1>9 DEF LedgerNext, OperatorStep

\* While no fold runs within the lag of a rebuild, a counted row stays counted, at
\* the same figure.
LEMMA CountedStays ==
  ASSUME LedgerInv, [LedgerNext]_lvars, "prompt_cron" \notin Races, NEW d \in Dims
  PROVE  RowUnits(d) \subseteq RowUnits(d)'
<1>1. under \cap Logged \subseteq under'
  <2>1. CASE Keeps
    BY <2>1 DEF Keeps
  <2>2. CASE Fold
    BY <2>2 DEF Fold
  <2>3. CASE RebuildSum
    BY <2>3 DEF RebuildSum, Created, Logged
  <2>4. QED
    BY <2>1, <2>2, <2>3, StepKinds
<1>2. ASSUME NEW u \in RowUnits(d) PROVE u \in RowUnits(d)'
  <2>1. u \in Units /\ u[1] \in under /\ u[1] \in Logged /\ u[2] <= Spend(u[1])[d]
    BY <1>2 DEF RowUnits
  <2>2. u[1] \in Logged' /\ log'[u[1]] = log[u[1]]
    BY <2>1, RowsAreFinal
  <2>3. u[1] \in under'
    BY <1>1, <2>1
  <2>4. Spend(u[1])' = Spend(u[1])
    BY <2>2 DEF Spend
  <2>5. QED
    BY <2>1, <2>2, <2>3, <2>4 DEF RowUnits, Units
<1>3. QED
  BY <1>2

\* A decision is replaced only when another one may be made about the same attempt,
\* and is written to a sound ledger only when it may come late.
LEMMA DecidedStays ==
  ASSUME LedgerInv, [LedgerNext]_lvars, NEW d \in Dims,
         "correction" \notin Races \/ ("late_decision" \notin Races /\ Sound')
  PROVE  DecidedUnits(d) \subseteq DecidedUnits(d)'
<1>1. \A b \in Attempts : decision[b].made => decision'[b] = decision[b]
  <2>1. CASE Keeps /\ decision' # decision
    <3>1. PICK a \in Attempts : RecordDecision(a)
      BY <2>1 DEF Keeps
    <3>2. deciding[a].made /\ \A b \in Attempts \ {a} : decision'[b] = decision[b]
      BY <3>1 DEF RecordDecision, LedgerInv, LedgerTypeOK
    <3>3. CASE "correction" \notin Races
      BY <3>2, <3>3 DEF LedgerInv, DecisionInv
    <3>4. CASE "late_decision" \notin Races /\ Sound'
      BY <2>1, <3>2, <3>4 DEF Keeps, Sound, LedgerInv, DecisionInv
    <3>5. QED
      BY <3>3, <3>4
  <2>2. CASE Fold \/ RebuildSum
    BY <2>2 DEF Fold, RebuildSum
  <2>3. QED
    BY <2>1, <2>2, StepKinds
<1>2. ASSUME NEW u \in DecidedUnits(d) PROVE u \in DecidedUnits(d)'
  <2>1. u \in Units /\ u[1] \in Attempts /\ u[2] \in 1..MaxUnits /\ u[2] <= Decided(u[1], d)
    BY <1>2 DEF DecidedUnits, Units
  <2>2. decision[u[1]].made
    BY <2>1, BudgetAssumption DEF Decided
  <2>3. Decided(u[1], d)' = Decided(u[1], d)
    BY <1>1, <2>1, <2>2 DEF Decided
  <2>4. QED
    BY <2>1, <2>3 DEF DecidedUnits
<1>3. QED
  BY <1>2

\* A closed hold keeps what it was closed at.
LEMMA SettledStays ==
  ASSUME LedgerInv, [LedgerNext]_lvars,
         \A b \in Attempts : hold[b].st \in Terminal => hold'[b].st = hold[b].st
                                                        /\ hold'[b].at = hold[b].at,
         NEW d \in Dims
  PROVE  SettledUnits(d) \subseteq SettledUnits(d)'
<1>1. ASSUME NEW u \in SettledUnits(d) PROVE u \in SettledUnits(d)'
  <2>1. u \in Units /\ u[1] \in Attempts /\ hold[u[1]].st \in Terminal /\ u[2] <= hold[u[1]].at[d]
    BY <1>1 DEF SettledUnits, Units
  <2>2. QED
    BY <2>1 DEF SettledUnits
<1>2. QED
  BY <1>1

-----------------------------------------------------------------------------
(* The checkpoint counts no attempt twice *)

\* No fold runs within the lag of a rebuild, and no decision both replaces another
\* and comes after a rebuild's sum.
OneFigureEach ==
  /\ "prompt_cron" \notin Races
  /\ "correction" \notin Races \/ "late_decision" \notin Races

\* While decisions may be replaced, the checkpoint of an agent that cannot spend may
\* be above what is known: the rebuild it needs sums everything again.
CountedOnce == Sound \/ "correction" \notin Races =>
                 \A d \in Dims : total[d] <= Cardinality(KnownUnits(d))

\* What is known is counted in units.
LEMMA KnownIsNat ==
  ASSUME NEW d \in Dims
  PROVE  /\ KnownUnits(d) \in SUBSET Units /\ KeptUnits(d) \in SUBSET Units
         /\ SettledUnits(d) \in SUBSET Units
         /\ \A rows : LateUnits(rows, d) \in SUBSET Units
BY DEF KnownUnits, RowUnits, DecidedUnits, KeptUnits, SettledUnits, LateUnits

\* What is known only grows.
LEMMA KnownGrows ==
  ASSUME LedgerInv, LedgerInv', [LedgerNext]_lvars, NEW d \in Dims, "prompt_cron" \notin Races,
         "correction" \notin Races \/ ("late_decision" \notin Races /\ Sound')
  PROVE  /\ KnownUnits(d) \subseteq KnownUnits(d)'
         /\ Cardinality(KnownUnits(d)) <= Cardinality(KnownUnits(d)')
<1>1. KnownUnits(d) \subseteq KnownUnits(d)'
  BY CountedStays, DecidedStays DEF KnownUnits
<1>2. KnownUnits(d)' \in SUBSET Units
  BY DEF KnownUnits, RowUnits, DecidedUnits, Units
<1>3. QED
  BY <1>1, <1>2, CountsLess

\* A fold raises the checkpoint by what it learns.
LEMMA FoldLearns ==
  ASSUME LedgerInv, Fold, "prompt_cron" \notin Races, NEW d \in Dims
  PROVE  total'[d] + Cardinality(KnownUnits(d)) <= total[d] + Cardinality(KnownUnits(d)')
<1> DEFINE late == LateUnits(Cutoff \ under, d)
<1>1. total'[d] = total[d] + Cardinality(late)
  BY FoldCounts DEF Fold
<1>2. /\ UNCHANGED <<log, decision>> /\ under' = aged /\ under \subseteq aged
  BY DEF Fold, Cutoff
<1>3. late \cap KnownUnits(d) = {}
  <2>1. ASSUME NEW u \in late, u \in KnownUnits(d) PROVE FALSE
    <3>1. u \in Units /\ u[1] \notin under /\ u[2] > Decided(u[1], d) /\ u[1] \in Attempts
      BY <2>1 DEF LateUnits, Units
    <3>2. Decided(u[1], d) \in 0..MaxUnits /\ u[2] \in 1..MaxUnits
      BY <3>1, Worth DEF Units
    <3>3. u[2] <= Decided(u[1], d)
      BY <2>1, <3>1 DEF KnownUnits, RowUnits, DecidedUnits
    <3>4. QED
      BY <3>1, <3>2, <3>3, BudgetAssumption
  <2>2. QED
    BY <2>1
<1>4. late \cup KnownUnits(d) \subseteq KnownUnits(d)'
  BY <1>2 DEF LateUnits, KnownUnits, RowUnits, DecidedUnits, Cutoff, Logged, Spend, Decided
<1>5. KnownUnits(d)' \in SUBSET Units
  BY DEF KnownUnits, RowUnits, DecidedUnits, Units
<1>6. /\ Cardinality(late \cup KnownUnits(d)) = Cardinality(late) + Cardinality(KnownUnits(d))
      /\ Cardinality(late) \in Nat /\ Cardinality(KnownUnits(d)) \in Nat
  BY <1>3, KnownIsNat, CountsBoth, CountsLess
<1>7. /\ Cardinality(late \cup KnownUnits(d)) <= Cardinality(KnownUnits(d)')
      /\ Cardinality(KnownUnits(d)') \in Nat
  BY <1>4, <1>5, CountsLess
<1>8. total[d] \in Nat
  BY DEF LedgerInv, LedgerTypeOK
<1>9. QED
  BY <1>1, <1>6, <1>7, <1>8

\* A rebuild sets the checkpoint to figures it then knows.
LEMMA SumKnows ==
  ASSUME RebuildSum, NEW d \in Dims
  PROVE  total'[d] <= Cardinality(KnownUnits(d)')
<1>1. total'[d] = Cardinality(Recorded(d))
  BY DEF RebuildSum
<1>2. Recorded(d) \subseteq KnownUnits(d)'
  <2>1. UNCHANGED <<log, decision>> /\ Logged \subseteq under'
    BY DEF RebuildSum, Created, Logged
  <2>2. ASSUME NEW u \in Recorded(d) PROVE u \in KnownUnits(d)'
    <3>1. u \in Units
      BY <2>2 DEF Recorded
    <3>2. CASE u[1] \in Logged
      <4>1. u \in RowUnits(d)'
        BY <2>1, <2>2, <3>1, <3>2 DEF Recorded, RowUnits, Logged, Spend
      <4>2. QED
        BY <4>1 DEF KnownUnits
    <3>3. CASE u[1] \notin Logged
      <4>1. u \in DecidedUnits(d)'
        BY <2>1, <2>2, <3>1, <3>3 DEF Recorded, DecidedUnits, Decided
      <4>2. QED
        BY <4>1 DEF KnownUnits
    <3>4. QED
      BY <3>2, <3>3
  <2>3. QED
    BY <2>2
<1>3. KnownUnits(d)' \in SUBSET Units
  BY DEF KnownUnits, RowUnits, DecidedUnits, Units
<1>4. QED
  BY <1>1, <1>2, <1>3, CountsLess

\* Every step keeps the checkpoint below what is known.
LEMMA CountedStep ==
  ASSUME LedgerInv, LedgerInv', CountedOnce, OneFigureEach, [LedgerNext]_lvars
  PROVE  CountedOnce'
<1> SUFFICES ASSUME Sound' \/ "correction" \notin Races, NEW d \in Dims
             PROVE  total'[d] <= Cardinality(KnownUnits(d)')
  BY DEF CountedOnce
<1>1. /\ Cardinality(KnownUnits(d)) <= Cardinality(KnownUnits(d)')
      /\ Cardinality(KnownUnits(d)) \in Nat
  <2>1. /\ "prompt_cron" \notin Races
        /\ "correction" \notin Races \/ ("late_decision" \notin Races /\ Sound')
    BY DEF OneFigureEach
  <2>2. Cardinality(KnownUnits(d)) <= Cardinality(KnownUnits(d)')
    BY <2>1, KnownGrows
  <2>3. Cardinality(KnownUnits(d)) \in Nat
    BY KnownIsNat, UnitsFinite
  <2>4. QED
    BY <2>2, <2>3
<1>2. Cardinality(KnownUnits(d)') \in Nat
  <2>1. KnownUnits(d)' \in SUBSET Units
    BY DEF KnownUnits, RowUnits, DecidedUnits, Units
  <2>2. QED
    BY <2>1, UnitsFinite
<1>3. total[d] \in Nat /\ total'[d] \in Nat
  BY DEF LedgerInv, LedgerTypeOK
<1>4. CASE Keeps
  BY <1>1, <1>2, <1>3, <1>4 DEF Keeps, CountedOnce
<1>5. CASE Fold
  <2>1. Sound \/ "correction" \notin Races
    BY <1>5 DEF Fold, Sound, vars
  <2>2. total[d] <= Cardinality(KnownUnits(d))
    BY <2>1 DEF CountedOnce
  <2>3. QED
    BY <1>1, <1>2, <1>3, <1>5, <2>2, FoldLearns DEF OneFigureEach
<1>6. CASE RebuildSum
  BY <1>6, SumKnows
<1>7. QED
  BY <1>4, <1>5, <1>6, StepKinds

\* A new agent's ledger is empty.
LEMMA NewLedger ==
  ASSUME LedgerInit
  PROVE  /\ total = Nothing /\ floor = NoTotal /\ rebuilt = NoTotal /\ spent = Nothing
         /\ \A d \in Dims : KeptUnits(d) = {} /\ Cardinality(KeptUnits(d)) = 0
<1>1. \A a \in Attempts, d \in Dims : Decided(a, d) = 0
  BY DEF LedgerInit, Undecided, Decided
<1>2. ASSUME NEW d \in Dims PROVE KeptUnits(d) = {}
  BY <1>1, BudgetAssumption DEF LedgerInit, KeptUnits, Units
<1>3. QED
  BY <1>2, FS_EmptySet DEF LedgerInit

\* The checkpoint counts no attempt twice, whichever of its row and the operator's
\* decision arrives first: reconcile_agent_spend adds the excess of the row, and
\* rebuild_agent_spend takes one of the two.
THEOREM EachAttemptOnce == OneFigureEach => (LedgerSpec => []ChargedOnce)
<1> SUFFICES ASSUME OneFigureEach PROVE LedgerSpec => []ChargedOnce
  OBVIOUS
<1>1. LedgerInit => CountedOnce
  <2>1. ASSUME LedgerInit, NEW d \in Dims PROVE total[d] <= Cardinality(KnownUnits(d))
    <3>1. total[d] = 0
      BY <2>1, NewLedger DEF Nothing
    <3>2. Cardinality(KnownUnits(d)) \in Nat
      BY KnownIsNat, UnitsFinite
    <3>3. QED
      BY <3>1, <3>2
  <2>2. QED
    BY <2>1 DEF CountedOnce
<1>2. LedgerInv /\ LedgerInv' /\ CountedOnce /\ [LedgerNext]_lvars => CountedOnce'
  BY CountedStep
<1>3. LedgerInv /\ CountedOnce => ChargedOnce
  <2> SUFFICES ASSUME LedgerInv, CountedOnce, Live, NEW d \in Dims
               PROVE  total[d] <= Cardinality({u \in Units :
                                    \/ u[1] \in Logged /\ u[2] <= Spend(u[1])[d]
                                    \/ u[2] <= Decided(u[1], d)})
    BY DEF ChargedOnce
  <2> DEFINE S == {u \in Units : \/ u[1] \in Logged /\ u[2] <= Spend(u[1])[d]
                                 \/ u[2] <= Decided(u[1], d)}
  <2>1. total[d] <= Cardinality(KnownUnits(d))
    BY DEF CountedOnce, Live, Sound
  <2>2. KnownUnits(d) \subseteq S /\ S \in SUBSET Units
    BY DEF KnownUnits, RowUnits, DecidedUnits
  <2>3. /\ Cardinality(KnownUnits(d)) <= Cardinality(S)
        /\ Cardinality(KnownUnits(d)) \in Nat /\ Cardinality(S) \in Nat
    BY <2>2, CountsLess
  <2>4. total[d] \in Nat
    BY DEF LedgerInv, LedgerTypeOK
  <2>5. total[d] <= Cardinality(S)
    BY <2>1, <2>3, <2>4
  <2>6. QED
    BY <2>5
<1>4. QED
  BY <1>1, <1>2, <1>3, LedgerInvariance, PTL DEF LedgerSpec

-----------------------------------------------------------------------------
(* Nothing recorded is handed back *)

\* No fold runs within the lag of a rebuild, and nothing reaches the ledger behind
\* the back of a rebuild that has summed.
NothingSlipsBy == {"prompt_cron", "late_commit", "late_decision"} \cap Races = {}

KeptCounted == Sound => \A d \in Dims : total[d] >= Cardinality(KeptUnits(d))

\* What the checkpoint keeps is the same after a step that is neither a fold nor a sum.
LEMMA KeptStays ==
  ASSUME LedgerInv, [LedgerNext]_lvars, NothingSlipsBy, Keeps, Sound', NEW d \in Dims
  PROVE  KeptUnits(d)' = KeptUnits(d)
<1>1. UNCHANGED under /\ Sound
  BY DEF Keeps
<1>2. decision' = decision
  <2>1. ASSUME NEW a \in Attempts, RecordDecision(a) PROVE FALSE
    BY <1>1, <2>1 DEF RecordDecision, Sound, NothingSlipsBy, LedgerInv, DecisionInv
  <2>2. QED
    BY <2>1 DEF Keeps
<1>3. under \subseteq Logged
  BY DEF NothingSlipsBy, LedgerInv, RowsInv
<1>4. \A b \in under : b \in Logged' /\ log'[b] = log[b]
  BY <1>3, RowsAreFinal
<1>5. \A u \in Units : /\ u[1] \in under' \cap Logged' <=> u[1] \in under \cap Logged
                       /\ u[1] \in under => Spend(u[1])' = Spend(u[1])
                       /\ Decided(u[1], d)' = Decided(u[1], d)
  BY <1>1, <1>2, <1>3, <1>4 DEF Spend, Decided
<1>6. ASSUME NEW u \in Units PROVE u \in KeptUnits(d) <=> u \in KeptUnits(d)'
  BY <1>5 DEF KeptUnits, Units
<1>7. KeptUnits(d) \subseteq Units /\ KeptUnits(d)' \subseteq Units
  BY DEF KeptUnits, Units
<1>8. QED
  BY <1>6, <1>7

\* A fold adds everything that its rows are above what was kept.
LEMMA FoldKeeps ==
  ASSUME LedgerInv, Fold, "prompt_cron" \notin Races, NEW d \in Dims
  PROVE  /\ Cardinality(KeptUnits(d)') \in Nat
         /\ total[d] + Cardinality(KeptUnits(d)') <= total'[d] + Cardinality(KeptUnits(d))
<1> DEFINE late == LateUnits(Cutoff \ under, d)
<1>1. total'[d] = total[d] + Cardinality(late)
  BY FoldCounts DEF Fold
<1>2. /\ UNCHANGED <<log, decision>> /\ under' = aged /\ under \subseteq aged
  BY DEF Fold, Cutoff
<1>3. KeptUnits(d)' \subseteq late \cup KeptUnits(d)
  <2>1. ASSUME NEW u \in KeptUnits(d)' PROVE u \in late \cup KeptUnits(d)
    <3>1. /\ u \in Units /\ u[1] \in Attempts
          /\ IF u[1] \in aged \cap Logged THEN u[2] <= Spend(u[1])[d] ELSE u[2] <= Decided(u[1], d)
      BY <1>2, <2>1 DEF KeptUnits, Units, Logged, Spend, Decided
    <3>2. Decided(u[1], d) \in 0..MaxUnits /\ u[2] \in 1..MaxUnits
      BY <3>1, Worth DEF Units
    <3>3. CASE u[1] \in under \/ u[1] \notin aged \cap Logged
      BY <1>2, <3>1, <3>3 DEF KeptUnits
    <3>4. CASE u[1] \notin under /\ u[1] \in aged \cap Logged
      <4>1. u[2] <= Decided(u[1], d) \/ u[2] > Decided(u[1], d)
        BY <3>2, BudgetAssumption
      <4>2. QED
        BY <3>1, <3>4, <4>1 DEF KeptUnits, LateUnits, Cutoff
    <3>5. QED
      BY <3>3, <3>4
  <2>2. QED
    BY <2>1
<1>4. late \in SUBSET Units /\ KeptUnits(d) \in SUBSET Units /\ late \cup KeptUnits(d) \in SUBSET Units
  BY KnownIsNat
<1>5. /\ Cardinality(KeptUnits(d)') \in Nat
      /\ Cardinality(KeptUnits(d)') <= Cardinality(late \cup KeptUnits(d))
  BY <1>3, <1>4, CountsLess
<1>6. /\ Cardinality(late \cup KeptUnits(d)) <= Cardinality(late) + Cardinality(KeptUnits(d))
      /\ Cardinality(late \cup KeptUnits(d)) \in Nat
      /\ Cardinality(late) \in Nat /\ Cardinality(KeptUnits(d)) \in Nat
  BY <1>4, CountsBoth, UnitsFinite
<1>7. total[d] \in Nat
  BY DEF LedgerInv, LedgerTypeOK
<1>8. QED
  BY <1>1, <1>5, <1>6, <1>7

\* A rebuild sums everything that is kept from then on.
LEMMA SumKeeps ==
  ASSUME RebuildSum, NothingSlipsBy, NEW d \in Dims
  PROVE  total'[d] = Cardinality(KeptUnits(d)')
<1>1. UNCHANGED <<log, decision>> /\ under' = Logged
  BY DEF RebuildSum, NothingSlipsBy
<1>2. KeptUnits(d)' = Recorded(d)
  BY <1>1 DEF KeptUnits, Recorded, Logged, Spend, Decided
<1>3. QED
  BY <1>2 DEF RebuildSum

\* Every step keeps the checkpoint above what is kept.
LEMMA KeptStep ==
  ASSUME LedgerInv, LedgerInv', KeptCounted, NothingSlipsBy, [LedgerNext]_lvars
  PROVE  KeptCounted'
<1> SUFFICES ASSUME Sound', NEW d \in Dims
             PROVE  total'[d] >= Cardinality(KeptUnits(d)')
  BY DEF KeptCounted
<1>1. Cardinality(KeptUnits(d)) \in Nat
  BY KnownIsNat, UnitsFinite
<1>2. total[d] \in Nat /\ total'[d] \in Nat
  BY DEF LedgerInv, LedgerTypeOK
<1>3. CASE Keeps
  <2>1. KeptUnits(d)' = KeptUnits(d)
    BY <1>3, KeptStays
  <2>2. QED
    BY <1>3, <2>1 DEF Keeps, KeptCounted
<1>4. CASE Fold
  <2>1. total[d] >= Cardinality(KeptUnits(d))
    BY <1>4 DEF Fold, Sound, vars, KeptCounted
  <2>2. /\ Cardinality(KeptUnits(d)') \in Nat
        /\ total[d] + Cardinality(KeptUnits(d)') <= total'[d] + Cardinality(KeptUnits(d))
    BY <1>4, FoldKeeps DEF NothingSlipsBy
  <2>3. QED
    BY <1>1, <1>2, <2>1, <2>2
<1>5. CASE RebuildSum
  <2>1. total'[d] = Cardinality(KeptUnits(d)')
    BY <1>5, SumKeeps
  <2>2. QED
    BY <1>2, <2>1
<1>6. QED
  BY <1>3, <1>4, <1>5, StepKinds

\* Every row below the watermark is in the checkpoint of an agent that may spend:
\* nothing the ledger recorded is handed back as capacity.
THEOREM NothingHandedBack == NothingSlipsBy => (LedgerSpec => []RecordIsCounted)
<1> SUFFICES ASSUME NothingSlipsBy PROVE LedgerSpec => []RecordIsCounted
  OBVIOUS
<1>1. LedgerInit => KeptCounted
  <2>1. ASSUME LedgerInit, NEW d \in Dims PROVE total[d] >= Cardinality(KeptUnits(d))
    BY <2>1, NewLedger DEF Nothing
  <2>2. QED
    BY <2>1 DEF KeptCounted
<1>2. LedgerInv /\ LedgerInv' /\ KeptCounted /\ [LedgerNext]_lvars => KeptCounted'
  BY KeptStep
<1>3. LedgerInv /\ KeptCounted => RecordIsCounted
  <2> SUFFICES ASSUME LedgerInv, KeptCounted, Live, NEW d \in Dims
               PROVE  total[d] >= Cardinality({u \in Units : /\ u[1] \in under \cap Logged
                                                             /\ u[2] <= Spend(u[1])[d]})
    BY DEF RecordIsCounted
  <2>1. RowUnits(d) \subseteq KeptUnits(d) /\ KeptUnits(d) \in SUBSET Units
    BY DEF RowUnits, KeptUnits
  <2>2. /\ Cardinality(RowUnits(d)) <= Cardinality(KeptUnits(d))
        /\ Cardinality(RowUnits(d)) \in Nat /\ Cardinality(KeptUnits(d)) \in Nat
    BY <2>1, CountsLess
  <2>3. total[d] >= Cardinality(KeptUnits(d))
    BY DEF KeptCounted, Live, Sound
  <2>4. total[d] \in Nat
    BY DEF LedgerInv, LedgerTypeOK
  <2>5. total[d] >= Cardinality(RowUnits(d))
    BY <2>2, <2>3, <2>4
  <2>6. QED
    BY <2>5 DEF RowUnits
<1>4. QED
  BY <1>1, <1>2, <1>3, LedgerInvariance, PTL DEF LedgerSpec

-----------------------------------------------------------------------------
(* The counter charges for nothing else *)

\* No fold runs within the lag of a rebuild, decisions are not replaced, and a counted
\* row's hold is not resolved by hand.
OneCauseEach == {"prompt_cron", "correction", "counted_row"} \cap Races = {}

CauseUnits(d) == SettledUnits(d) \cup KnownUnits(d)

\* The checkpoint and what travels from it to Redis stay below what is known.
PendingIsKnown ==
  \A d \in Dims :
     /\ total[d] <= Cardinality(KnownUnits(d))
     /\ floor # NoTotal => floor[d] <= Cardinality(KnownUnits(d))
     /\ rebuilt # NoTotal => rebuilt[d] <= Cardinality(KnownUnits(d))

ChargesCaused == \A d \in Dims : spent[d] <= Cardinality(CauseUnits(d))

\* What travels to Redis is a figure of the ledger.
LEMMA PendingStep ==
  ASSUME LedgerInv, LedgerInv', PendingIsKnown, OneCauseEach, [LedgerNext]_lvars
  PROVE  PendingIsKnown'
<1>1. "prompt_cron" \notin Races /\ "correction" \notin Races /\ OneFigureEach
  BY DEF OneCauseEach, OneFigureEach
<1>2. CountedOnce'
  <2>1. CountedOnce
    BY DEF PendingIsKnown, CountedOnce
  <2>2. QED
    BY <1>1, <2>1, CountedStep
<1> SUFFICES ASSUME NEW d \in Dims
             PROVE  /\ total'[d] <= Cardinality(KnownUnits(d)')
                    /\ floor' # NoTotal => floor'[d] <= Cardinality(KnownUnits(d)')
                    /\ rebuilt' # NoTotal => rebuilt'[d] <= Cardinality(KnownUnits(d)')
  BY DEF PendingIsKnown
<1>3. total'[d] <= Cardinality(KnownUnits(d)')
  BY <1>1, <1>2 DEF CountedOnce
<1>4. /\ Cardinality(KnownUnits(d)) <= Cardinality(KnownUnits(d)')
      /\ Cardinality(KnownUnits(d)) \in Nat
  BY <1>1, KnownGrows, KnownIsNat, UnitsFinite
<1>5. Cardinality(KnownUnits(d)') \in Nat
  <2>1. KnownUnits(d)' \in SUBSET Units
    BY DEF KnownUnits, RowUnits, DecidedUnits, Units
  <2>2. QED
    BY <2>1, UnitsFinite
<1>6. /\ floor # NoTotal => floor[d] \in Nat
      /\ rebuilt # NoTotal => rebuilt[d] \in Nat
  BY DEF LedgerInv, LedgerTypeOK
<1>7. floor' \in {floor, NoTotal, total'} /\ rebuilt' \in {rebuilt, NoTotal, total'}
  BY StepKinds DEF Keeps, Fold, RebuildSum
<1>8. floor # NoTotal => floor[d] <= Cardinality(KnownUnits(d)')
  BY <1>4, <1>5, <1>6 DEF PendingIsKnown
<1>9. rebuilt # NoTotal => rebuilt[d] <= Cardinality(KnownUnits(d)')
  BY <1>4, <1>5, <1>6 DEF PendingIsKnown
<1>10. QED
  BY <1>3, <1>7, <1>8, <1>9

\* Closed holds stay closed at what they were closed at.
LEMMA ClosedStays ==
  ASSUME LedgerInv, [LedgerNext]_lvars, NEW b \in Attempts, hold[b].st \in Terminal
  PROVE  hold'[b].st = hold[b].st /\ hold'[b].at = hold[b].at
<1>1. hold[b].st # "open" /\ hold[b] # NoHold
  BY DEF Terminal, NoHold
<1>2. ASSUME NEW a \in Attempts, NEW outcome \in Outcomes, NEW known \in Amount,
             NEW certain \in [Dims -> BOOLEAN], Settle(a, outcome, known, certain)
      PROVE  hold'[b] = hold[b]
  BY <1>1, <1>2, SettleTouches DEF LedgerInv
<1>3. ASSUME NEW a \in Attempts, CallStep(a)
      PROVE  hold'[b].st = hold[b].st /\ hold'[b].at = hold[b].at
  <2>1. CASE Admit(a)
    BY <1>1, <2>1, AdmitTouches
  <2>2. CASE SendOff(a)
    BY <2>2, SendTouches DEF SendOff, LedgerInv
  <2>3. CASE SettleAnswered(a) \/ SettleUnheard(a)
    <3>1. PICK exact \in BOOLEAN, known \in Figures :
             Settle(a, Outcome(exact), known, Certain(exact)) \/ UNCHANGED vars
      BY <2>3 DEF SettleAnswered, SettleUnheard
    <3>2. QED
      BY <1>2, <3>1, SettleInputs DEF vars
  <2>4. CASE SettleUnlogged(a)
    BY <1>2, <2>4, SettleInputs DEF SettleUnlogged
  <2>5. CASE LoseRow(a) \/ BeginInsert(a) \/ Commit(a) \/ Age(a)
    BY <2>5 DEF LoseRow, BeginInsert, Commit, Age, vars
  <2>6. QED
    BY <1>3, <2>1, <2>2, <2>3, <2>4, <2>5 DEF CallStep
<1>4. ASSUME NEW a \in Attempts, Resolve(a) PROVE hold'[b] = hold[b]
  <2>1. PICK outcome \in Outcomes, known \in Amount : Settle(a, outcome, known, Certain(FALSE))
    BY <1>4, SettleInputs DEF Resolve
  <2>2. QED
    BY <1>2, <2>1, SettleInputs
<1>5. ASSUME NEW a \in Attempts, RecordDecision(a) \/ DecisionFails(a) PROVE hold'[b] = hold[b]
  BY <1>5 DEF RecordDecision, DecisionFails, vars
<1>6. CASE Fold \/ CronDies \/ RebuildSum \/ RebuildAbandoned
  BY <1>6 DEF Fold, CronDies, RebuildSum, RebuildAbandoned, vars
<1>7. CASE CronRaise \/ RebuildLand \/ RedisLoss
  BY <1>7, RaiseTouches, LandTouches, LossTouches
<1>8. CASE UNCHANGED lvars
  BY <1>8 DEF lvars, vars
<1>9. QED
  BY <1>3, <1>4, <1>5, <1>6, <1>7, <1>8 DEF LedgerNext, OperatorStep

\* What causes a charge stays one.
LEMMA CausesStay ==
  ASSUME LedgerInv, LedgerInv', [LedgerNext]_lvars, OneCauseEach, NEW d \in Dims
  PROVE  /\ CauseUnits(d) \subseteq CauseUnits(d)'
         /\ Cardinality(CauseUnits(d)) <= Cardinality(CauseUnits(d)')
         /\ Cardinality(CauseUnits(d)) \in Nat /\ Cardinality(CauseUnits(d)') \in Nat
         /\ CauseUnits(d)' \in SUBSET Units
<1>1. SettledUnits(d) \subseteq SettledUnits(d)'
  BY ClosedStays, SettledStays
<1>2. KnownUnits(d) \subseteq KnownUnits(d)'
  BY KnownGrows DEF OneCauseEach
<1>3. CauseUnits(d) \subseteq CauseUnits(d)'
  BY <1>1, <1>2 DEF CauseUnits
<1>4. CauseUnits(d)' \in SUBSET Units
  BY DEF CauseUnits, SettledUnits, KnownUnits, RowUnits, DecidedUnits, Units
<1>5. QED
  BY <1>3, <1>4, CountsLess

\* The units of one attempt up to a figure.
LEMMA UnitsOfOne ==
  ASSUME NEW a \in Attempts, NEW n \in 0..MaxUnits
  PROVE  /\ {u \in Units : u[1] = a /\ u[2] <= n} \in SUBSET Units
         /\ Cardinality({u \in Units : u[1] = a /\ u[2] <= n}) = n
<1>1. n \in Nat /\ MaxUnits \in Nat
  BY BudgetAssumption
<1>2. {u \in Units : u[1] = a /\ u[2] <= n} = Column(a, n)
  BY <1>1 DEF Units, Column
<1>3. QED
  BY <1>1, <1>2, ColumnSize

\* A settle that moves the counter is the first figure about its attempt.
LEMMA SettleCauses ==
  ASSUME LedgerInv, LedgerInv', [LedgerNext]_lvars, OneCauseEach, NEW d \in Dims,
         NEW a \in Attempts, NEW outcome \in Outcomes, NEW known \in Amount,
         NEW certain \in [Dims -> BOOLEAN], Settle(a, outcome, known, certain),
         SettleReply(a, outcome) # "applied" \/ a \notin under \cap Logged,
         spent[d] <= Cardinality(CauseUnits(d))
  PROVE  spent'[d] <= Cardinality(CauseUnits(d)')
<1> DEFINE charge == Applied(a, outcome, known, certain)
           new == {u \in Units : u[1] = a /\ u[2] <= charge[d]}
<1>1. /\ Cardinality(CauseUnits(d)) <= Cardinality(CauseUnits(d)')
      /\ Cardinality(CauseUnits(d)) \in Nat /\ Cardinality(CauseUnits(d)') \in Nat
  BY CausesStay
<1>2. spent[d] \in Int /\ charge[d] \in 0..MaxUnits
  <2>1. spent[d] \in Int /\ charge \in Amount
    BY AppliedType DEF LedgerInv, BudgetInv, TypeOK
  <2>2. QED
    BY <2>1 DEF Amount
<1>3. CASE spent' = spent
  BY <1>1, <1>2, <1>3
<1>4. CASE SettleReply(a, outcome) = "applied"
  <2>1. /\ hold[a].st = "open" /\ hold'[a].st = TerminalState(outcome)
        /\ hold'[a].at = charge /\ spent'[d] = spent[d] + charge[d]
    BY <1>4, SettleTouches DEF LedgerInv
  <2>2. hold[a].st \notin Terminal /\ hold'[a].st \in Terminal
    BY <2>1 DEF Terminal, TerminalState
  <2>3. ~ decision[a].made
    BY <2>2 DEF LedgerInv, DecisionInv
  <2>4. new \in SUBSET Units /\ Cardinality(new) = charge[d]
    BY <1>2, UnitsOfOne
  <2>5. new \cap CauseUnits(d) = {}
    <3>1. ASSUME NEW u \in Units, u[1] = a PROVE u \notin CauseUnits(d)
      <4>1. u[2] \in 1..MaxUnits /\ Decided(u[1], d) = 0
        BY <2>3, <3>1 DEF Units, Decided
      <4>2. u \notin DecidedUnits(d)
        BY <4>1, BudgetAssumption DEF DecidedUnits
      <4>3. u \notin RowUnits(d)
        BY <1>4, <3>1 DEF RowUnits
      <4>4. u \notin SettledUnits(d)
        BY <2>2, <3>1 DEF SettledUnits
      <4>5. QED
        BY <4>2, <4>3, <4>4 DEF CauseUnits, KnownUnits
    <3>2. QED
      BY <3>1
  <2>6. new \subseteq CauseUnits(d)'
    <3>1. new \subseteq SettledUnits(d)'
      BY <2>1, <2>2 DEF SettledUnits, Units
    <3>2. QED
      BY <3>1 DEF CauseUnits
  <2>7. new \cup CauseUnits(d) \subseteq CauseUnits(d)' /\ CauseUnits(d)' \in SUBSET Units
    BY <2>6, CausesStay
  <2>8. Cardinality(new \cup CauseUnits(d)) = Cardinality(new) + Cardinality(CauseUnits(d))
    <3>1. CauseUnits(d) \in SUBSET Units
      BY KnownIsNat DEF CauseUnits
    <3>2. QED
      BY <2>4, <2>5, <3>1, CountsBoth
  <2>9. Cardinality(new \cup CauseUnits(d)) <= Cardinality(CauseUnits(d)')
    BY <2>7, CountsLess
  <2>10. QED
    BY <1>1, <1>2, <2>1, <2>4, <2>8, <2>9
<1>5. QED
  BY <1>3, <1>4, SettleTouches DEF LedgerInv

\* Every step of the handler and of the operators charges for a cause.
LEMMA CausedByCalls ==
  ASSUME LedgerInv, LedgerInv', [LedgerNext]_lvars, OneCauseEach, NEW d \in Dims,
         NEW a \in Attempts, CallStep(a) \/ Resolve(a),
         spent[d] <= Cardinality(CauseUnits(d))
  PROVE  spent'[d] <= Cardinality(CauseUnits(d)')
<1>1. /\ Cardinality(CauseUnits(d)) <= Cardinality(CauseUnits(d)')
      /\ Cardinality(CauseUnits(d)) \in Nat /\ Cardinality(CauseUnits(d)') \in Nat
  BY CausesStay
<1>2. spent[d] \in Int
  BY DEF LedgerInv, BudgetInv, TypeOK
<1>3. spent' = spent => spent'[d] <= Cardinality(CauseUnits(d)')
  BY <1>1, <1>2
<1>4. log[a].st = "sent" => a \notin under \cap Logged
  BY DEF Logged
<1>5. CASE Admit(a) \/ SendOff(a)
  <2>1. spent' = spent
    BY <1>5, AdmitTouches, SendTouches DEF SendOff, LedgerInv
  <2>2. QED
    BY <1>3, <2>1
<1>6. CASE SettleAnswered(a) \/ SettleUnheard(a)
  <2>1. PICK exact \in BOOLEAN, known \in Figures :
           Settle(a, Outcome(exact), known, Certain(exact)) \/ UNCHANGED vars
    BY <1>6 DEF SettleAnswered, SettleUnheard
  <2>2. Outcome(exact) \in Outcomes /\ Certain(exact) \in [Dims -> BOOLEAN] /\ known \in Amount
    BY SettleInputs
  <2>3. log[a].st = "sent"
    BY <1>6 DEF SettleAnswered, SettleUnheard
  <2>4. CASE Settle(a, Outcome(exact), known, Certain(exact))
    BY <1>4, <2>2, <2>3, <2>4, SettleCauses
  <2>5. CASE UNCHANGED vars
    BY <1>3, <2>5 DEF vars
  <2>6. QED
    BY <2>1, <2>4, <2>5
<1>7. CASE SettleUnlogged(a)
  <2>1. "usage_unknown" \in Outcomes /\ Certain(FALSE) \in [Dims -> BOOLEAN] /\ Nothing \in Amount
    BY SettleInputs
  <2>2. QED
    BY <1>4, <1>7, <2>1, SettleCauses DEF SettleUnlogged
<1>8. CASE LoseRow(a) \/ BeginInsert(a) \/ Commit(a) \/ Age(a)
  BY <1>3, <1>8 DEF LoseRow, BeginInsert, Commit, Age, vars
<1>9. CASE Resolve(a)
  <2>1. PICK outcome \in {"resolved", "not_dispatched"}, known \in Figures \cup {Nothing} :
           /\ "counted_row" \in Races \/ a \notin under \/ SettleReply(a, outcome) # "applied"
           /\ Settle(a, outcome, known, Certain(FALSE))
    BY <1>9 DEF Resolve
  <2>2. outcome \in Outcomes /\ known \in Amount /\ Certain(FALSE) \in [Dims -> BOOLEAN]
    BY SettleInputs
  <2>3. SettleReply(a, outcome) # "applied" \/ a \notin under \cap Logged
    BY <2>1 DEF OneCauseEach
  <2>4. QED
    BY <2>1, <2>2, <2>3, SettleCauses
<1>10. QED
  BY <1>5, <1>6, <1>7, <1>8, <1>9 DEF CallStep

\* Every step keeps the counter below its causes.
LEMMA CausedStep ==
  ASSUME LedgerInv, LedgerInv', PendingIsKnown, ChargesCaused, OneCauseEach, [LedgerNext]_lvars
  PROVE  ChargesCaused'
<1> SUFFICES ASSUME NEW d \in Dims PROVE spent'[d] <= Cardinality(CauseUnits(d)')
  BY DEF ChargesCaused
<1>1. /\ Cardinality(CauseUnits(d)) <= Cardinality(CauseUnits(d)')
      /\ Cardinality(CauseUnits(d)) \in Nat /\ Cardinality(CauseUnits(d)') \in Nat
  BY CausesStay
<1>2. spent[d] \in Int /\ spent[d] <= Cardinality(CauseUnits(d))
  BY DEF LedgerInv, BudgetInv, TypeOK, ChargesCaused
<1>3. Cardinality(KnownUnits(d)) <= Cardinality(CauseUnits(d)) /\ Cardinality(KnownUnits(d)) \in Nat
  <2>1. CauseUnits(d) \in SUBSET Units /\ KnownUnits(d) \subseteq CauseUnits(d)
    BY KnownIsNat DEF CauseUnits
  <2>2. QED
    BY <2>1, CountsLess
<1>4. CASE spent'[d] = spent[d] \/ spent'[d] = 0
  BY <1>1, <1>2, <1>4
<1>5. ASSUME NEW f \in {floor, rebuilt}, f # NoTotal, spent'[d] = f[d]
      PROVE  spent'[d] <= Cardinality(CauseUnits(d)')
  <2>1. f[d] \in Nat /\ f[d] <= Cardinality(KnownUnits(d))
    BY <1>5 DEF PendingIsKnown, LedgerInv, LedgerTypeOK
  <2>2. QED
    BY <1>1, <1>3, <1>5, <2>1
<1>6. ASSUME NEW a \in Attempts, CallStep(a) \/ Resolve(a)
      PROVE  spent'[d] <= Cardinality(CauseUnits(d)')
  BY <1>2, <1>6, CausedByCalls
<1>7. ASSUME NEW a \in Attempts, RecordDecision(a) \/ DecisionFails(a) PROVE spent' = spent
  BY <1>7 DEF RecordDecision, DecisionFails, vars
<1>8. CASE Fold \/ CronDies \/ RebuildSum \/ RebuildAbandoned
  BY <1>4, <1>8 DEF Fold, CronDies, RebuildSum, RebuildAbandoned, vars
<1>9. CASE CronRaise
  BY <1>4, <1>5, <1>9, RaiseTouches DEF CronRaise
<1>10. CASE RebuildLand
  BY <1>5, <1>10, LandTouches DEF RebuildLand
<1>11. CASE RedisLoss
  BY <1>4, <1>11, LossTouches
<1>12. CASE UNCHANGED lvars
  BY <1>4, <1>12 DEF lvars, vars
<1>13. QED
  BY <1>4, <1>6, <1>7, <1>8, <1>9, <1>10, <1>11, <1>12 DEF LedgerNext, OperatorStep

\* Redis never charges the agent for more than each attempt's largest figure: its
\* settle, its row or its decision.
THEOREM NoChargeWithoutCause == OneCauseEach => (LedgerSpec => []ChargeHasACause)
<1> SUFFICES ASSUME OneCauseEach PROVE LedgerSpec => []ChargeHasACause
  OBVIOUS
<1>1. LedgerInit => PendingIsKnown /\ ChargesCaused
  <2>1. ASSUME LedgerInit, NEW d \in Dims
        PROVE  /\ total[d] <= Cardinality(KnownUnits(d))
               /\ spent[d] <= Cardinality(CauseUnits(d))
    <3>1. total[d] = 0 /\ spent[d] = 0
      BY <2>1, NewLedger DEF Nothing
    <3>2. CauseUnits(d) \in SUBSET Units /\ KnownUnits(d) \in SUBSET Units
      BY KnownIsNat DEF CauseUnits
    <3>3. Cardinality(KnownUnits(d)) \in Nat /\ Cardinality(CauseUnits(d)) \in Nat
      BY <3>2, UnitsFinite
    <3>4. QED
      BY <3>1, <3>3
  <2>2. QED
    BY <2>1, NewLedger DEF PendingIsKnown, ChargesCaused
<1>2. /\ LedgerInv /\ LedgerInv' /\ PendingIsKnown /\ [LedgerNext]_lvars => PendingIsKnown'
      /\ LedgerInv /\ LedgerInv' /\ PendingIsKnown /\ ChargesCaused /\ [LedgerNext]_lvars
           => ChargesCaused'
  BY PendingStep, CausedStep
<1>3. LedgerInv /\ ChargesCaused => ChargeHasACause
  <2> SUFFICES ASSUME LedgerInv, ChargesCaused, NEW d \in Dims
               PROVE  spent[d] <= Cardinality({u \in Units :
                                    \/ hold[u[1]].st \in Terminal /\ u[2] <= hold[u[1]].at[d]
                                    \/ u[1] \in Logged /\ u[2] <= Spend(u[1])[d]
                                    \/ u[2] <= Decided(u[1], d)})
    BY DEF ChargeHasACause
  <2> DEFINE S == {u \in Units : \/ hold[u[1]].st \in Terminal /\ u[2] <= hold[u[1]].at[d]
                                 \/ u[1] \in Logged /\ u[2] <= Spend(u[1])[d]
                                 \/ u[2] <= Decided(u[1], d)}
  <2>1. CauseUnits(d) \subseteq S /\ S \in SUBSET Units
    BY DEF CauseUnits, SettledUnits, KnownUnits, RowUnits, DecidedUnits
  <2>2. /\ Cardinality(CauseUnits(d)) <= Cardinality(S)
        /\ Cardinality(CauseUnits(d)) \in Nat /\ Cardinality(S) \in Nat
    BY <2>1, CountsLess
  <2>3. spent[d] \in Int /\ spent[d] <= Cardinality(CauseUnits(d))
    BY DEF LedgerInv, BudgetInv, TypeOK, ChargesCaused
  <2>4. spent[d] <= Cardinality(S)
    BY <2>2, <2>3
  <2>5. QED
    BY <2>4
<1>4. QED
  BY <1>1, <1>2, <1>3, LedgerInvariance, PTL DEF LedgerSpec

-----------------------------------------------------------------------------
(* The hold store's guarantees hold inside the ledger's system, for any callers'  *)
(* modes: its only opens are the fenced ones of `Admit`.                          *)

\* With crons, rebuilds and operators at work, the reservation counter covers the calls
\* in flight, the spend counter the settled ones, no admission goes past the cap, and a
\* settle degrades only when counters are lost.
THEOREM LedgerKeepsHolds ==
  LedgerSpec => [](/\ ReservedCoversOpen
                   /\ SpentCoversCharges
                   /\ AdmittedWithinCap
                   /\ DegradedMeansLost)
<1>1. LedgerInv => /\ ReservedCoversOpen
                   /\ SpentCoversCharges
                   /\ AdmittedWithinCap
                   /\ DegradedMeansLost
  BY DEF LedgerInv, BudgetInv
<1>2. QED
  BY <1>1, LedgerInvariance, PTL

\* What a step of the ledger's system does to the hold store is a guarded script, a loss
\* or nothing.
LEMMA LedgerStepsAreGuarded == ASSUME LedgerInv, [LedgerNext]_lvars PROVE GuardedStep
<1>1. CASE UNCHANGED vars
  BY <1>1 DEF GuardedStep
<1>2. ASSUME NEW a \in Attempts, Admit(a) PROVE GuardedStep
  <2>1. PICK est \in Estimates : /\ OpenReply(a, "1", epoch, est, TRUE) = "opened"
                                 /\ Open(a, "1", epoch, est, epoch, TRUE)
    BY <1>2 DEF Admit
  <2>2. Guarded("1") /\ ~ hold[a].gone
    BY <1>2 DEF Guarded, NoHold, Admit, LedgerInv, CallInv
  <2>3. epoch \in Generations
    BY <2>1 DEF OpenReply, StateLost, LedgerInv, BudgetInv, TypeOK
  <2>4. GuardedOpen
    BY <2>1, <2>2, <2>3, Zenon DEF GuardedOpen
  <2>5. QED
    BY <2>4 DEF GuardedStep
<1>3. ASSUME NEW a \in Attempts, SettleAnswered(a) \/ SettleUnheard(a) \/ SettleUnlogged(a) \/ Resolve(a)
      PROVE  GuardedStep
  <2>1. UNCHANGED vars \/ \E outcome \in Outcomes, known \in Amount, certain \in [Dims -> BOOLEAN] :
                             Settle(a, outcome, known, certain)
    BY <1>3, SettleInputs, Zenon DEF SettleAnswered, SettleUnheard, SettleUnlogged, Resolve
  <2>2. QED
    BY <1>1, <2>1 DEF AnySettle, GuardedStep
<1>4. ASSUME NEW a \in Attempts, SendOff(a) PROVE GuardedStep
  BY <1>4 DEF SendOff, GuardedStep
<1>5. CASE CronRaise
  <2>1. UNCHANGED vars \/ (Raise(floor) /\ floor \in [Dims -> Nat])
    BY <1>5 DEF CronRaise, LedgerInv, LedgerTypeOK
  <2>2. floor \in [Dims -> Nat] => floor \in [Dims -> Int]
    OBVIOUS
  <2>3. QED
    BY <1>1, <2>1, <2>2 DEF AnyRaise, GuardedStep
<1>6. CASE RebuildLand
  <2>1. PICK g \in Generations :
           Rebase(g, rebuilt, [d \in Dims |-> Cardinality(ListedUnits(Indexed, d))])
    BY <1>6 DEF RebuildLand
  <2>2. rebuilt \in [Dims -> Nat]
    BY <1>6 DEF RebuildLand, LedgerInv, LedgerTypeOK
  <2>3. \A d \in Dims : ListedUnits(Indexed, d) \in SUBSET Units
    BY DEF ListedUnits
  <2>4. [d \in Dims |-> Cardinality(ListedUnits(Indexed, d))] \in [Dims -> Nat]
    BY <2>3, UnitsFinite
  <2>5. AnyRebase
    BY <2>1, <2>2, <2>4 DEF AnyRebase
  <2>6. QED
    BY <2>5 DEF GuardedStep
<1>7. CASE RedisLoss
  BY <1>7, LedgerAssumption DEF RedisLoss, GuardedStep
<1>8. CASE \/ Fold \/ CronDies \/ RebuildSum \/ RebuildAbandoned
           \/ \E a \in Attempts : \/ LoseRow(a) \/ BeginInsert(a) \/ Commit(a) \/ Age(a)
                                  \/ RecordDecision(a) \/ DecisionFails(a)
  BY <1>1, <1>8 DEF Fold, CronDies, RebuildSum, RebuildAbandoned, LoseRow, BeginInsert, Commit,
                    Age, RecordDecision, DecisionFails
<1>9. CASE UNCHANGED lvars
  BY <1>1, <1>9 DEF lvars
<1>10. QED
  BY <1>2, <1>3, <1>4, <1>5, <1>6, <1>7, <1>8, <1>9 DEF LedgerNext, CallStep, OperatorStep

\* With its rows, crons, rebuilds and operators the agent still keeps the one account the
\* scripts promise: each step is a step of BudgetAccount or leaves it as it was.  (It
\* starts from an established agent, whose account is past its first generation.)
THEOREM LedgerKeepsTheAccount == LedgerSpec => [][Account!AccountNext]_(Account!accountVars)
<1>1. LedgerInit => UnopenedIsBlank
  BY DEF LedgerInit, UnopenedIsBlank, NoHold
<1>2. LedgerInv /\ UnopenedIsBlank /\ [LedgerNext]_lvars => UnopenedIsBlank' /\ Tells
  <2> SUFFICES ASSUME LedgerInv, UnopenedIsBlank, [LedgerNext]_lvars
               PROVE  AccountInv' /\ Tells
    BY DEF AccountInv
  <2>1. AccountInv
    BY DEF AccountInv, LedgerInv
  <2>2. QED
    BY <2>1, LedgerStepsAreGuarded, GuardedStepTells
<1>3. Tells => [Account!AccountNext]_(Account!accountVars)
  BY DEF Tells
<1>4. QED
  BY <1>1, <1>2, <1>3, LedgerInvariance, PTL DEF LedgerSpec
=============================================================================
