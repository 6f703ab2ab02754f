----------------------------- MODULE SpendLedger -----------------------------
(***************************************************************************)
(* The ledger behind the counters of BudgetHolds: the agent_logs rows that *)
(* calls leave in Postgres, the checkpoint the reconcile cron folds them   *)
(* into, the floor it raises Redis to, the operator's decisions about      *)
(* calls nobody logged, and the rebuild that recomputes everything.        *)
(*                                                                         *)
(* Time appears only where the code reads it.  A row's created_at is       *)
(* compared with two moments, the fold's cutoff (now minus the lag) and    *)
(* the checkpoint's reconciled_at, so the state keeps the rows older than  *)
(* each: `aged` and `under`.                                               *)
(*                                                                         *)
(* Covered: handlers and crons that die at any step, settles whose answer  *)
(* is lost, failed inserts, lost counters and holds, operators at any      *)
(* time.  The handler's steps around the hold are those of BudgetGateway,  *)
(* shortened: calls that are never sent leave no row that counts.          *)
(***************************************************************************)
EXTENDS BudgetHolds

CONSTANTS
    Expiring, \* the attempts whose hold Redis may lose, or let expire
    NoTotal,  \* no pending figure: no cron about to raise, no rebuild running
    Races     \* the orders of events a run lets happen

\* prompt_cron    a fold within the lag of a rebuild
\* late_commit    a rebuild while a row is being inserted
\* late_decision  a decision recorded after a rebuild has summed the ledger
\* correction     a decision replaced by another one about the same attempt
\* counted_row    a hold resolved by hand after its row was counted
AllRaces == {"prompt_cron", "late_commit", "late_decision", "correction", "counted_row"}

ASSUME LedgerAssumption ==
    /\ Expiring \subseteq Attempts
    /\ Races \subseteq AllRaces
    /\ NoTotal \notin [Dims -> Nat]

VARIABLES
    log,       \* [Attempts -> Entry], each call up to its agent_logs row
    decision,  \* [Attempts -> Figure], agent_spend_adjustments
    deciding,  \* [Attempts -> Figure], a resolve about to write its decision
    aged,      \* the rows created before now - lag
    under,     \* the rows created before agent_spend_checkpoint.reconciled_at
    total,     \* agent_spend_checkpoint.spent_tokens and spent_microcents
    floor,     \* what the cron is about to raise Redis to
    rebuilt    \* what a rebuild summed and has not written to Redis yet

ledger == <<log, decision, deciding, aged, under, total, floor, rebuilt>>
lvars == <<vars, ledger>>

\* `seen` is the observed usage, `enforced` the enforced_* columns (absent reads
\* as zero), `told` whether the settle was answered.
Entry == [st : {"idle", "held", "sent", "due", "inserting", "committed", "lost"},
          seen : Amount,
          enforced : Amount,
          told : BOOLEAN]

Figure == [made : BOOLEAN, units : Amount]
Undecided == [made |-> FALSE, units |-> Nothing]

LedgerTypeOK ==
    /\ log \in [Attempts -> Entry]
    /\ decision \in [Attempts -> Figure]
    /\ deciding \in [Attempts -> Figure]
    /\ aged \subseteq Attempts
    /\ under \subseteq Attempts
    /\ total \in [Dims -> Nat]
    /\ floor \in [Dims -> Nat] \cup {NoTotal}
    /\ rebuilt \in [Dims -> Nat] \cup {NoTotal}

Logged == {a \in Attempts : log[a].st = "committed"}
Created == {a \in Attempts : log[a].st \in {"inserting", "committed"}}

-----------------------------------------------------------------------------
(* A call, up to its row *)

\* An admitted open.  A caller whose epoch is not Redis's is refused, and moves
\* nothing here.
Admit(a) ==
    /\ log[a].st = "idle"
    /\ \E est \in Estimates :
          /\ OpenReply(a, "1", epoch, est, TRUE) = "opened"
          /\ Open(a, "1", epoch, est, epoch, TRUE)
    /\ log' = [log EXCEPT ![a].st = "held"]
    /\ UNCHANGED <<decision, deciding, aged, under, total, floor, rebuilt>>

SendOff(a) ==
    /\ log[a].st = "held"
    /\ DispatchReply(a) = "granted"
    /\ Dispatch(a)
    /\ log' = [log EXCEPT ![a].st = "sent"]
    /\ UNCHANGED <<decision, deciding, aged, under, total, floor, rebuilt>>

\* Mutants: only a fresh settle is written down; the charge goes on top of the
\* observation.
Enforced_OnlyApplied(a, outcome, known, certain) ==
    IF SettleReply(a, outcome) = "applied" THEN Applied(a, outcome, known, certain)
    ELSE Nothing

Enforced_AddsObserved(a, outcome, known, certain) ==
    [d \in Dims |-> Applied(a, outcome, known, certain)[d] + known[d]]

\* enforced_*: what the settle says it applied, a replay the first settle's
\* answer.  A conflict or an anomaly certifies nothing.
Enforced(a, outcome, known, certain) ==
    CASE SettleReply(a, outcome) \in {"applied", "degraded"} ->
            Applied(a, outcome, known, certain)
      [] SettleReply(a, outcome) \in {"replay", "degraded_replay"} -> hold[a].at
      [] OTHER -> Nothing

Outcome(exact) == IF exact THEN "complete" ELSE "usage_unknown"
Certain(exact) == [d \in Dims |-> exact]

\* reconcile: the settle, then the row that states what was enforced.
SettleAnswered(a) ==
    /\ log[a].st = "sent"
    /\ \E exact \in BOOLEAN, known \in Figures :
          /\ Settle(a, Outcome(exact), known, Certain(exact))
          /\ log' = [log EXCEPT ![a] =
                [st |-> "due", seen |-> known, told |-> TRUE,
                 enforced |-> Enforced(a, Outcome(exact), known, Certain(exact))]]
    /\ UNCHANGED <<decision, deciding, aged, under, total, floor, rebuilt>>

\* The settle throws, run or not: the row is written with what was observed.
SettleUnheard(a) ==
    /\ log[a].st = "sent"
    /\ \E exact \in BOOLEAN, known \in Figures :
          /\ Settle(a, Outcome(exact), known, Certain(exact)) \/ UNCHANGED vars
          /\ log' = [log EXCEPT ![a].st = "due", ![a].seen = known]
    /\ UNCHANGED <<decision, deciding, aged, under, total, floor, rebuilt>>

\* runAttempt's catch: settled at the estimate, and no row.
SettleUnlogged(a) ==
    /\ log[a].st = "sent"
    /\ Settle(a, "usage_unknown", Nothing, Certain(FALSE))
    /\ log' = [log EXCEPT ![a].st = "lost"]
    /\ UNCHANGED <<decision, deciding, aged, under, total, floor, rebuilt>>

\* The handler is killed, or its insert fails twice.
LoseRow(a) ==
    /\ log[a].st \in {"held", "sent", "due", "inserting"}
    /\ log' = [log EXCEPT ![a].st = "lost"]
    /\ UNCHANGED <<vars, decision, deciding, aged, under, total, floor, rebuilt>>

\* created_at is the start of the insert's transaction.
BeginInsert(a) ==
    /\ log[a].st = "due"
    /\ log' = [log EXCEPT ![a].st = "inserting"]
    /\ UNCHANGED <<vars, decision, deciding, aged, under, total, floor, rebuilt>>

Commit(a) ==
    /\ log[a].st = "inserting"
    /\ log' = [log EXCEPT ![a].st = "committed"]
    /\ UNCHANGED <<vars, decision, deciding, aged, under, total, floor, rebuilt>>

\* Bound: an insert commits within the lag, which is what the lag is for.
Age(a) ==
    /\ log[a].st = "committed"
    /\ a \notin aged
    /\ aged' = aged \cup {a}
    /\ UNCHANGED <<vars, log, decision, deciding, under, total, floor, rebuilt>>

-----------------------------------------------------------------------------
(* agent_log_spend_rows, reconcile_agent_spend and the cron that calls it *)

\* greatest(enforced, observed)
Spend(a) == [d \in Dims |-> Larger(log[a].enforced[d], log[a].seen[d])]

Decided(a, d) == IF decision[a].made THEN decision[a].units[d] ELSE 0

\* Mutant: the fold adds a row whatever was decided about its attempt.
Excess_IgnoresDecision(rows, d) ==
    {u \in Units : u[1] \in rows \cap Logged /\ u[2] <= Spend(u[1])[d]}

\* By how much these rows exceed what a person decided about their attempts.
Excess(rows, d) ==
    {u \in Units : /\ u[1] \in rows \cap Logged
                   /\ u[2] + Decided(u[1], d) <= Spend(u[1])[d]}

\* v_cutoff: the rows it covers.
Cutoff == aged

\* Mutant: only an agent whose total moved is reported to the cron.
Fold_ReportsMoved ==
    /\ floor = NoTotal
    /\ under \subseteq Cutoff
    /\ total' = [d \in Dims |-> total[d] + Cardinality(Excess(Cutoff \ under, d))]
    /\ under' = Cutoff
    /\ floor' = IF total' = total THEN NoTotal ELSE total'
    /\ UNCHANGED <<vars, log, decision, deciding, aged, rebuilt>>

\* The watermark becomes the cutoff, wherever it was before.  Bound: a cron ends
\* before the next one starts.
Fold ==
    /\ floor = NoTotal
    /\ "prompt_cron" \in Races \/ under \subseteq Cutoff
    /\ total' = [d \in Dims |-> total[d] + Cardinality(Excess(Cutoff \ under, d))]
    /\ under' = Cutoff
    /\ floor' = total'
    /\ UNCHANGED <<vars, log, decision, deciding, aged, rebuilt>>

CronRaise ==
    /\ floor # NoTotal
    /\ IF {"spent"} \X Dims \subseteq present THEN Raise(floor) ELSE UNCHANGED vars
    /\ floor' = NoTotal
    /\ UNCHANGED <<log, decision, deciding, aged, under, total, rebuilt>>

CronDies ==
    /\ floor # NoTotal
    /\ floor' = NoTotal
    /\ UNCHANGED <<vars, log, decision, deciding, aged, under, total, rebuilt>>

-----------------------------------------------------------------------------
(* Operators *)

\* The decision is owed to the ledger only when the counters could not take it.
Owes(a, outcome) == SettleReply(a, outcome) \in {"degraded", "degraded_replay"}

\* A rebuild has summed the ledger since this hold's generation was live.
Recovered(a) == rebuilt # NoTotal \/ hold[a].ep # epoch

\* holds/[attemptId]/resolve: the settle.  Bound: `not_spent` carries no figure,
\* and `spent` one above zero.
Resolve(a) ==
    /\ hold[a].st # "absent"
    /\ ~deciding[a].made
    /\ \E outcome \in {"resolved", "not_dispatched"}, known \in Figures \cup {Nothing} :
          /\ outcome = "not_dispatched" <=> known = Nothing
          /\ "counted_row" \in Races \/ a \notin under \/ SettleReply(a, outcome) # "applied"
          /\ "late_decision" \in Races \/ ~Owes(a, outcome) \/ ~Recovered(a)
          /\ "correction" \in Races \/ ~Owes(a, outcome) \/ ~decision[a].made
          /\ Settle(a, outcome, known, Certain(FALSE))
          /\ deciding' = IF Owes(a, outcome)
                         THEN [deciding EXCEPT ![a] = [made |-> TRUE, units |-> known]]
                         ELSE deciding
    /\ UNCHANGED <<log, decision, aged, under, total, floor, rebuilt>>

\* Inserted, or written over an earlier decision about the attempt.
RecordDecision(a) ==
    /\ deciding[a].made
    /\ decision' = [decision EXCEPT ![a] = deciding[a]]
    /\ deciding' = [deciding EXCEPT ![a] = Undecided]
    /\ UNCHANGED <<vars, log, aged, under, total, floor, rebuilt>>

DecisionFails(a) ==
    /\ deciding[a].made
    /\ deciding' = [deciding EXCEPT ![a] = Undecided]
    /\ UNCHANGED <<vars, log, decision, aged, under, total, floor, rebuilt>>

\* Mutants: the decision counts next to the row, or instead of it.
Recorded_Both(d) ==
    {u \in Units : u[1] \in Logged /\ u[2] <= Spend(u[1])[d]}
    \cup {<<u[1], u[2] + MaxUnits>> : u \in {v \in Units : v[2] <= Decided(v[1], d)}}

Recorded_DecisionWins(d) ==
    {u \in Units : IF decision[u[1]].made THEN u[2] <= Decided(u[1], d)
                   ELSE u[1] \in Logged /\ u[2] <= Spend(u[1])[d]}

\* rebuild_agent_spend: every row, and the decisions about attempts without one.
Recorded(d) ==
    {u \in Units : IF u[1] \in Logged THEN u[2] <= Spend(u[1])[d]
                                      ELSE u[2] <= Decided(u[1], d)}

\* The checkpoint is set to the sum and the watermark to now.  Bound: one
\* rebuild at a time (BudgetGateway has two), and no more than Generations allow.
RebuildSum ==
    /\ rebuilt = NoTotal
    /\ "late_commit" \in Races \/ Created = Logged
    /\ "late_decision" \in Races \/ \A a \in Attempts : ~deciding[a].made
    /\ Generations # used
    /\ total' = [d \in Dims |-> Cardinality(Recorded(d))]
    /\ under' = Created
    /\ rebuilt' = total'
    /\ UNCHANGED <<vars, log, decision, deciding, aged, floor>>

\* The generation goes to Postgres and the open holds are listed before this:
\* those steps are BudgetGateway's.
RebuildLand ==
    /\ rebuilt # NoTotal
    /\ \E g \in Generations :
          Rebase(g, rebuilt, [d \in Dims |-> Cardinality(ListedUnits(Indexed, d))])
    /\ rebuilt' = NoTotal
    /\ UNCHANGED <<log, decision, deciding, aged, under, total, floor>>

RebuildAbandoned ==
    /\ rebuilt # NoTotal
    /\ rebuilt' = NoTotal
    /\ UNCHANGED <<vars, log, decision, deciding, aged, under, total, floor>>

-----------------------------------------------------------------------------

\* An established agent that has not spent anything.
LedgerInit ==
    /\ epoch \in Generations
    /\ fmt = "current"
    /\ present = CounterKeys
    /\ reserved = Nothing
    /\ spent = Nothing
    /\ hold = [a \in Attempts |-> NoHold]
    /\ used = {epoch}
    /\ log = [a \in Attempts |-> [st |-> "idle", seen |-> Nothing,
                                  enforced |-> Nothing, told |-> FALSE]]
    /\ decision = [a \in Attempts |-> Undecided]
    /\ deciding = [a \in Attempts |-> Undecided]
    /\ aged = {}
    /\ under = {}
    /\ total = Nothing
    /\ floor = NoTotal
    /\ rebuilt = NoTotal

CallStep(a) ==
    \/ Admit(a)
    \/ SendOff(a)
    \/ SettleAnswered(a)
    \/ SettleUnheard(a)
    \/ SettleUnlogged(a)
    \/ LoseRow(a)
    \/ BeginInsert(a)
    \/ Commit(a)
    \/ Age(a)

OperatorStep ==
    \/ \E a \in Attempts : Resolve(a) \/ RecordDecision(a) \/ DecisionFails(a)
    \/ RebuildSum
    \/ RebuildLand
    \/ RebuildAbandoned

RedisLoss ==
    /\ LoseAny \/ \E a \in Expiring : LoseHold(a)
    /\ UNCHANGED ledger

LedgerNext ==
    \/ \E a \in Attempts : CallStep(a)
    \/ Fold
    \/ CronRaise
    \/ CronDies
    \/ OperatorStep
    \/ RedisLoss

LedgerSpec == LedgerInit /\ [][LedgerNext]_lvars

\* The database commits what it accepted, time passes, the cron is scheduled and
\* does not die every time.
FairLedger ==
    /\ LedgerSpec
    /\ \A a \in Attempts : WF_lvars(Commit(a)) /\ WF_lvars(Age(a))
    /\ WF_lvars(Fold)
    /\ SF_lvars(CronRaise)

-----------------------------------------------------------------------------
(* Properties *)

\* The counters are all there and no rebuild has summed them for the next
\* generation: the agent is spending, or may.
Live == present = CounterKeys /\ rebuilt = NoTotal

\* Every row older than the watermark is in the checkpoint of an agent that may
\* spend, through folds, rebuilds, late rows and decisions: nothing recorded is
\* handed back as capacity (0004_spend_checkpoint.sql, lines 7-14).
RecordIsCounted ==
    Live => \A d \in Dims :
            total[d] >= Cardinality({u \in Units : /\ u[1] \in under \cap Logged
                                                   /\ u[2] <= Spend(u[1])[d]})

\* The checkpoint counts no attempt twice, whichever of its row and the
\* operator's decision arrives first and whatever the watermark did in between.
ChargedOnce ==
    Live => \A d \in Dims :
        total[d] <= Cardinality({u \in Units :
                        \/ u[1] \in Logged /\ u[2] <= Spend(u[1])[d]
                        \/ u[2] <= Decided(u[1], d)})

\* Redis never charges the agent for more than each attempt's largest figure:
\* its settle, its row or its decision.  The settle, the cron's floor and the
\* rebuild all move the same counter.
ChargeHasACause ==
    \A d \in Dims :
        spent[d] <= Cardinality({u \in Units :
                        \/ hold[u[1]].st \in Terminal /\ u[2] <= hold[u[1]].at[d]
                        \/ u[1] \in Logged /\ u[2] <= Spend(u[1])[d]
                        \/ u[2] <= Decided(u[1], d)})

\* "The charge is in the audit row either way" (holds.ts, lines 788-790): once
\* the settle was answered, the row holds what it charged, on lost counters too,
\* so the debit a degraded settle skips is deferred and not forgiven.
RowCarriesCharge ==
    \A a \in Logged :
        log[a].told /\ hold[a].st = "settled" =>
            \A d \in Dims : Spend(a)[d] >= hold[a].at[d]

\* A row, its settle lost or not, reaches the counter in the end: the cron
\* repairs what Redis missed (lib/reconcile.ts, lines 58-71).
RowReachesCounter ==
    \A a \in Attempts :
        log[a].st = "committed" ~>
            ({"spent"} \X Dims \subseteq present => \A d \in Dims :
                spent[d] >= Cardinality({u \in Units : u[1] \in Logged /\ u[2] <= Spend(u[1])[d]}))

\* What a person charged to a call stays charged while the agent may spend, also
\* when the counters took the charge: "the rebuild reads it from the checkpoint
\* the mirror maintains" (resolve/route.ts, lines 121-122), and "your figure goes
\* to agent_spend_adjustments and the rebuild reads it" (docs/budget-recovery.md,
\* lines 423-424).
HandChargeSurvives ==
    Live => \A d \in Dims :
            spent[d] >= Cardinality({u \in Units : /\ hold[u[1]].st = "resolved"
                                                   /\ u[2] <= hold[u[1]].at[d]})
=============================================================================
