----------------------------- MODULE BudgetHolds -----------------------------
(***************************************************************************)
(* The budget state one agent keeps in Redis, and the scripts of           *)
(* lib/state/holds.ts that are the only code allowed to move it.  Every    *)
(* script is one EVAL, hence one action here.  Callers are unconstrained:  *)
(* the scripts are idempotent on the attempt id, so any handler, retry of  *)
(* the transport, operator or cron may run any of them at any time.        *)
(*                                                                         *)
(* The period snapshot and the ledgers of delegations and sub-agents have  *)
(* modules of their own (PeriodLimit, ChainLedgers), which extend this one *)
(* and run in the same scripts.  Here they are a verdict, `admit`, that an *)
(* open within the agent's caps may still be refused by.                   *)
(*                                                                         *)
(* A counter key that is missing reads as 0 in every script, so its value  *)
(* is 0 here while `present` says whether the key EXISTS.                  *)
(***************************************************************************)
EXTENDS Integers, FiniteSets

CONSTANTS
    Attempts,     \* attempt ids, one per upstream call (crypto.randomUUID)
    Dims,         \* the budget's dimensions: tokens and micro-cents
    Generations,  \* budget epochs (uuids) that may be drawn
    NoEpoch,      \* the absent epoch: '' in the scripts, null in Postgres
    Modes,        \* the values of dbEstablished that callers send
    Cap,          \* [Dims -> Int], -1 when the owner set no cap
    MaxUnits,     \* bound on one estimate, one usage figure and one floor
    Estimates,    \* what an open may reserve
    Figures,      \* usage reports, ledger totals, seeds and floors
    Evictable     \* the keys Redis may lose, one at a time

CounterKeys == {"reserved", "spent"} \X Dims
Keys == CounterKeys \cup {<<"epoch", "agent">>, <<"fmt", "agent">>}

ASSUME BudgetAssumption ==
    /\ IsFiniteSet(Attempts)
    /\ NoEpoch \notin Generations
    /\ Modes \subseteq {"-", "0", "1", "2"}
    /\ MaxUnits \in Nat
    /\ Estimates \subseteq [Dims -> 0..MaxUnits]
    /\ Figures \subseteq [Dims -> 0..MaxUnits]
    /\ Cap \in [Dims -> Int]
    /\ Evictable \subseteq Keys

VARIABLES
    epoch,     \* KEYS epoch: the generation the counters belong to
    fmt,       \* KEYS fmt: "absent", "current" (ACCT_FORMAT) or "other"
    present,   \* the counter keys that EXIST
    reserved,  \* [Dims -> Int], estimates of the calls in flight
    spent,     \* [Dims -> Int], what settled calls cost
    hold,      \* [Attempts -> Hold], one hash per attempt
    used       \* history: every generation Redis has ever held

vars == <<epoch, fmt, present, reserved, spent, hold, used>>

Amount == [Dims -> 0..MaxUnits]
Nothing == [d \in Dims |-> 0]
Terminal == {"settled", "released", "resolved"}

\* st 'absent' is an attempt that never opened; `gone` is a key Redis no longer
\* has (an expired tombstone, an evicted hold), its last content remembered here.
Hold == [st : {"absent", "open"} \cup Terminal,
         ph : {"pre_dispatch", "dispatch_may_have_happened"},
         ep : Generations \cup {NoEpoch},
         et : Amount,
         at : Amount,
         dg : BOOLEAN,
         gone : BOOLEAN]

NoHold == [st |-> "absent", ph |-> "pre_dispatch", ep |-> NoEpoch,
           et |-> Nothing, at |-> Nothing, dg |-> FALSE, gone |-> FALSE]

TypeOK ==
    /\ epoch \in Generations \cup {NoEpoch}
    /\ fmt \in {"absent", "current", "other"}
    /\ present \subseteq CounterKeys
    /\ reserved \in [Dims -> Int]
    /\ spent \in [Dims -> Int]
    /\ hold \in [Attempts -> Hold]
    /\ used \subseteq Generations

Exists(a) == hold[a].st # "absent" /\ ~hold[a].gone
Larger(m, n) == IF m > n THEN m ELSE n

-----------------------------------------------------------------------------
(* OPEN_LUA *)

\* Mutant: any live generation will do.
StateLost_AnyEpoch(mode, expected) ==
    /\ mode = "1" \/ (mode = "0" /\ epoch # NoEpoch)
    /\ epoch = NoEpoch \/ fmt # "current" \/ present # CounterKeys

\* The state check refuses: reply -3, nothing moves.
StateLost(mode, expected) ==
    \/ /\ mode = "1"
       /\ \/ epoch # expected
          \/ epoch = NoEpoch
          \/ fmt # "current"
          \/ present # CounterKeys
    \/ /\ mode = "0"
       /\ epoch # NoEpoch
       /\ fmt # "current" \/ present # CounterKeys
    \/ /\ mode = "2"
       /\ \/ fmt = "other"
          \/ \E d \in Dims : Cap[d] >= 0 /\ <<"spent", d>> \notin present

Mints(mode) == mode \in {"0", "2"} /\ epoch = NoEpoch

\* The branches that write every counter with NX and then the format tag.
Seeds(mode) == mode = "2" \/ Mints(mode)

\* Mutant: calls in flight do not count.
OverCap_IgnoresReserved(mode, est, d) ==
    mode # "-" /\ Cap[d] >= 0 /\ (Cap[d] = 0 \/ est[d] + spent[d] > Cap[d])

\* A zero cap refuses every call; unbudgeted calls carry no cap.
OverCap(mode, est, d) ==
    /\ mode # "-"
    /\ Cap[d] >= 0
    /\ Cap[d] = 0 \/ reserved[d] + est[d] + spent[d] > Cap[d]

\* `admit` is the verdict of the limits the script asks after the agent's own:
\* the period, the delegation's ledgers and the sub-agent's.
OpenReply(a, mode, expected, est, admit) ==
    IF StateLost(mode, expected) THEN "state"
    ELSE IF Exists(a) THEN "replay"
    ELSE IF (\E d \in Dims : OverCap(mode, est, d)) \/ ~admit THEN "denied"
    ELSE "opened"

\* The generation the state check answers with: the stamp of a new hold.
LiveEpoch(mode, mint) ==
    CASE mode = "-" -> NoEpoch
      [] mode # "-" /\ Mints(mode) -> mint
      [] OTHER -> epoch

Reserve(a, mode, est, mint) ==
    /\ reserved' = [d \in Dims |-> reserved[d] + est[d]]
    /\ hold' = [hold EXCEPT ![a] = [NoHold EXCEPT !.st = "open", !.et = est,
                                                  !.ep = LiveEpoch(mode, mint)]]

Open(a, mode, expected, est, mint, admit) ==
    LET reply == OpenReply(a, mode, expected, est, admit)
        seeded == IF Seeds(mode) THEN CounterKeys ELSE present
    IN  \/ /\ reply = "state"
           /\ UNCHANGED vars
        \/ /\ reply # "state"
           /\ Mints(mode) => mint \notin used
           /\ used' = IF Mints(mode) THEN used \cup {mint} ELSE used
           /\ epoch' = IF Mints(mode) THEN mint ELSE epoch
           /\ fmt' = IF Seeds(mode) THEN "current" ELSE fmt
           /\ UNCHANGED spent
           /\ \/ /\ reply = "opened"
                 /\ present' = seeded \cup ({"reserved"} \X Dims)
                 /\ Reserve(a, mode, est, mint)
              \/ /\ reply # "opened"
                 /\ present' = seeded
                 /\ UNCHANGED <<reserved, hold>>

-----------------------------------------------------------------------------
(* SETTLE_LUA: settleKnown, settleUnknown, releaseUndispatched, resolveHold *)

Outcomes == {"complete", "usage_unknown", "not_dispatched", "resolved"}

Fenced(a) == hold[a].ep # NoEpoch

\* Mutants: a second settle moves the counters again; a hold settles into a
\* generation that is not its own; a dispatched hold is released; a settle
\* re-creates counters that were lost.
SettleReply_NoReplay(a, outcome) ==
    IF ~Exists(a) THEN "anomaly"
    ELSE IF \/ Fenced(a) /\ epoch # hold[a].ep
            \/ outcome = "not_dispatched" /\ hold[a].ph # "pre_dispatch"
         THEN "conflict"
    ELSE IF Fenced(a) /\ present # CounterKeys THEN "degraded" ELSE "applied"

SettleReply_NoFence(a, outcome) ==
    IF ~Exists(a) THEN "anomaly"
    ELSE IF hold[a].st # "open" THEN "replay"
    ELSE IF outcome = "not_dispatched" /\ hold[a].ph # "pre_dispatch" THEN "conflict"
    ELSE IF Fenced(a) /\ present # CounterKeys THEN "degraded" ELSE "applied"

SettleReply_NoPhase(a, outcome) ==
    IF ~Exists(a) THEN "anomaly"
    ELSE IF hold[a].st # "open" THEN "replay"
    ELSE IF Fenced(a) /\ epoch # hold[a].ep THEN "conflict"
    ELSE IF Fenced(a) /\ present # CounterKeys THEN "degraded" ELSE "applied"

SettleReply_NoPresence(a, outcome) ==
    IF ~Exists(a) THEN "anomaly"
    ELSE IF hold[a].st # "open" THEN "replay"
    ELSE IF \/ Fenced(a) /\ epoch # hold[a].ep
            \/ outcome = "not_dispatched" /\ hold[a].ph # "pre_dispatch"
         THEN "conflict"
    ELSE "applied"

SettleReply(a, outcome) ==
    IF ~Exists(a) THEN "anomaly"
    ELSE IF hold[a].st # "open"
         THEN IF hold[a].dg THEN "degraded_replay" ELSE "replay"
    ELSE IF \/ Fenced(a) /\ epoch # hold[a].ep
            \/ outcome = "not_dispatched" /\ hold[a].ph # "pre_dispatch"
         THEN "conflict"
    ELSE IF Fenced(a) /\ present # CounterKeys THEN "degraded"
    ELSE "applied"

\* Mutant: what was seen is billed on top of what was reserved.
Applied_AddsEstimate(a, outcome, known, certain) ==
    [d \in Dims |-> CASE outcome = "not_dispatched" -> 0
                      [] outcome = "usage_unknown" -> known[d] + hold[a].et[d]
                      [] OTHER -> known[d]]

\* What the attempt is charged.  `certain` is each dimension's certainty.
Applied(a, outcome, known, certain) ==
    [d \in Dims |->
        CASE outcome = "complete" ->
                IF certain[d] THEN known[d] ELSE Larger(known[d], hold[a].et[d])
          [] outcome = "usage_unknown" -> Larger(known[d], hold[a].et[d])
          [] outcome = "not_dispatched" -> 0
          [] OTHER -> known[d]]

TerminalState(outcome) ==
    CASE outcome = "not_dispatched" -> "released"
      [] outcome = "resolved" -> "resolved"
      [] OTHER -> "settled"

\* DECRBY by the STORED estimate, INCRBY by what was applied; both create a
\* key that is missing, which only an unfenced hold can meet.
MoveCounters(a, charge) ==
    /\ reserved' = [d \in Dims |-> reserved[d] - hold[a].et[d]]
    /\ spent' = [d \in Dims |-> spent[d] + charge[d]]
    /\ present' = present \cup ({"reserved"} \X Dims)
                          \cup {<<"spent", d>> : d \in {e \in Dims : charge[e] > 0}}

CloseHold(a, outcome, charge, lost) ==
    hold' = [hold EXCEPT ![a].st = TerminalState(outcome),
                         ![a].at = charge,
                         ![a].dg = lost]

Settle(a, outcome, known, certain) ==
    LET reply == SettleReply(a, outcome)
        charge == Applied(a, outcome, known, certain)
    IN  \/ /\ reply = "applied"
           /\ MoveCounters(a, charge)
           /\ CloseHold(a, outcome, charge, FALSE)
           /\ UNCHANGED <<epoch, fmt, used>>
        \/ /\ reply = "degraded"
           /\ CloseHold(a, outcome, charge, TRUE)
           /\ UNCHANGED <<epoch, fmt, present, reserved, spent, used>>
        \/ /\ reply \notin {"applied", "degraded"}
           /\ UNCHANGED vars

-----------------------------------------------------------------------------
(* DISPATCH_LUA *)

DispatchReply(a) ==
    CASE ~Exists(a) -> "missing"
      [] Exists(a) /\ hold[a].st # "open" -> "terminal"
      [] OTHER -> IF hold[a].ph = "pre_dispatch" THEN "granted"
                                                 ELSE "already_dispatched"

Dispatch(a) ==
    /\ hold' = IF DispatchReply(a) = "granted"
               THEN [hold EXCEPT ![a].ph = "dispatch_may_have_happened"]
               ELSE hold
    /\ UNCHANGED <<epoch, fmt, present, reserved, spent, used>>

-----------------------------------------------------------------------------
(* REBASE_LUA and RAISE_LUA.  A sum over holds is counted unit by unit, as   *)
(* the cardinality of a set of <<attempt, unit>> pairs.                      *)

Units == Attempts \X (1..MaxUnits)

\* listOpenHolds: the estimates of these indexed holds whose record is still there.
ListedUnits(ids, d) ==
    {u \in Units : u[1] \in ids /\ Exists(u[1]) /\ u[2] <= hold[u[1]].et[d]}

Indexed == {a \in Attempts : Exists(a) /\ hold[a].st = "open"}

\* Mutant: reservations are SET to what was listed before the script ran.
Rebase_SetsReserved(g, total, seed) ==
    /\ g \notin used
    /\ used' = used \cup {g}
    /\ epoch' = g
    /\ fmt' = "current"
    /\ spent' = total
    /\ reserved' = seed
    /\ present' = CounterKeys
    /\ UNCHANGED hold

\* The operator's rebuild: a generation never used before, spend SET to the
\* ledger's total, reservations seeded only where the key is missing.
Rebase(g, total, seed) ==
    /\ g \notin used
    /\ used' = used \cup {g}
    /\ epoch' = g
    /\ fmt' = "current"
    /\ spent' = total
    /\ reserved' = [d \in Dims |-> IF <<"reserved", d>> \in present
                                   THEN reserved[d] ELSE seed[d]]
    /\ present' = CounterKeys
    /\ UNCHANGED hold

\* Mutants: the floor overwrites a higher counter, or creates a missing one.
Raise_Overwrites(floor) ==
    /\ {"spent"} \X Dims \subseteq present
    /\ spent' = floor
    /\ UNCHANGED <<epoch, fmt, present, reserved, hold, used>>

Raise_Creates(floor) ==
    /\ present' = present \cup ({"spent"} \X Dims)
    /\ spent' = [d \in Dims |-> Larger(floor[d], spent[d])]
    /\ UNCHANGED <<epoch, fmt, reserved, hold, used>>

\* The reconcile cron's floor: never creates a counter, never lowers one.
Raise(floor) ==
    /\ {"spent"} \X Dims \subseteq present
    /\ spent' = [d \in Dims |-> Larger(floor[d], spent[d])]
    /\ UNCHANGED <<epoch, fmt, present, reserved, hold, used>>

-----------------------------------------------------------------------------
(* Redis itself: single-key eviction (of a counter or of a hold), and the  *)
(* expiry of a terminal hold.  A flush is every key lost in a row.         *)

Lose(key) ==
    /\ epoch' = IF key[1] = "epoch" THEN NoEpoch ELSE epoch
    /\ fmt' = IF key[1] = "fmt" THEN "absent" ELSE fmt
    /\ present' = present \ {key}
    /\ reserved' = [d \in Dims |-> IF key = <<"reserved", d>> THEN 0 ELSE reserved[d]]
    /\ spent' = [d \in Dims |-> IF key = <<"spent", d>> THEN 0 ELSE spent[d]]
    /\ UNCHANGED <<hold, used>>

LoseHold(a) ==
    /\ Exists(a)
    /\ hold' = [hold EXCEPT ![a].gone = TRUE]
    /\ UNCHANGED <<epoch, fmt, present, reserved, spent, used>>

-----------------------------------------------------------------------------
(* The store under arbitrary callers *)

\* A brand-new agent, or what was there before generations existed: spend
\* counters without an epoch, untagged or tagged by a build this one is not.
Init ==
    /\ epoch = NoEpoch
    /\ fmt \in {"absent", "other"}
    /\ present \in SUBSET CounterKeys
    /\ reserved = Nothing
    /\ spent \in Figures
    /\ \A d \in Dims : <<"spent", d>> \notin present => spent[d] = 0
    /\ hold = [a \in Attempts |-> NoHold]
    /\ used = {}

\* An attempt's open is retried for seconds, before the call goes on; its record
\* is not expected to be lost in between.
OpenAny(a) ==
    /\ ~hold[a].gone
    /\ \E mode \in Modes, expected \in Generations, est \in Estimates,
          mint \in Generations, admit \in BOOLEAN :
           Open(a, mode, expected, est, mint, admit)

SettleAny(a) ==
    \E outcome \in Outcomes, known \in Figures, certain \in [Dims -> BOOLEAN] :
        Settle(a, outcome, known, certain)

RebaseAny == \E g \in Generations, total \in Figures, seed \in Figures : Rebase(g, total, seed)

RaiseAny == \E floor \in Figures : Raise(floor)

LoseAny == \E key \in Evictable : Lose(key)

Next ==
    \/ \E a \in Attempts : \/ OpenAny(a)
                           \/ SettleAny(a)
                           \/ Dispatch(a)
                           \/ LoseHold(a)
    \/ RebaseAny
    \/ RaiseAny
    \/ LoseAny

Spec == Init /\ [][Next]_vars

-----------------------------------------------------------------------------
(* Properties *)

\* The hold is stamped with the generation Redis holds now.
InGeneration(a) == epoch # NoEpoch /\ hold[a].ep = epoch

ReservationUnits(d) ==
    {u \in Units : /\ InGeneration(u[1])
                   /\ hold[u[1]].st = "open"
                   /\ u[2] <= hold[u[1]].et[d]}

ChargeUnits(d) ==
    {u \in Units : /\ InGeneration(u[1])
                   /\ hold[u[1]].st \in Terminal
                   /\ ~hold[u[1]].dg
                   /\ u[2] <= hold[u[1]].at[d]}

\* What the cap admitted: every attempt at its charge or, while open, its
\* estimate, and never at more than the estimate it was admitted with.
AdmittedUnits(d) ==
    {u \in Units : /\ InGeneration(u[1])
                   /\ u[2] <= hold[u[1]].et[d]
                   /\ \/ hold[u[1]].st = "open"
                      \/ hold[u[1]].st \in Terminal /\ u[2] <= hold[u[1]].at[d]}

\* Callers whose policy read fences them: first initialisation or established.
FencedModes == Modes \subseteq {"0", "1"}

\* Whatever is lost, rebuilt, replayed or settled late, the reservation
\* counter never falls below the estimates still open in its generation: a
\* settle of an older generation, a replay or a settle on damaged counters
\* takes nothing out of it (SETTLE_LUA's fence, lines 696-728).
ReservedCoversOpen ==
    \A d \in Dims :
        epoch # NoEpoch /\ <<"reserved", d>> \in present =>
            reserved[d] >= Cardinality(ReservationUnits(d))

\* The spend counter never falls below what the settles of its generation
\* applied: the cron's floor and replays cannot refund (RAISE_LUA, SETTLE_LUA).
SpentCoversCharges ==
    \A d \in Dims :
        epoch # NoEpoch /\ <<"spent", d>> \in present =>
            spent[d] >= Cardinality(ChargeUnits(d))

\* However calls interleave and whatever Redis loses, the calls admitted in one
\* generation never commit more than the cap; only a call that uses more than
\* its own estimate can exceed it, by that excess (OPEN_LUA, lines 553-566).
AdmittedWithinCap ==
    \A d \in Dims : Cap[d] >= 0 => Cardinality(AdmittedUnits(d)) <= Cap[d]

\* A hold closed without moving the counters leaves evidence: in its own
\* generation the loss that caused it is still there, so nothing is admitted
\* on counters that miss its charge (SETTLE_LUA, lines 707-728).
DegradedMeansLost ==
    \A a \in Attempts : InGeneration(a) /\ hold[a].dg => present # CounterKeys

\* An attempt whose dispatch permission was consumed is never written off as
\* not sent, in whichever order dispatch, release and resolve race.
DispatchedIsNeverReleased ==
    \A a \in Attempts : hold[a].st = "released" => hold[a].ph = "pre_dispatch"

\* Within a generation nothing brings a lost counter back: not a settle, not
\* the cron, not an open.  A counter re-created at zero is a refund.
LostCountersStayLost ==
    [][epoch' = epoch /\ epoch # NoEpoch => present' \subseteq present]_vars

\* Within a generation a spend counter that survives never goes down.
SpendNeverFalls ==
    [][\A d \in Dims :
          /\ epoch' = epoch
          /\ epoch # NoEpoch
          /\ <<"spent", d>> \in present \cap present'
          => spent'[d] >= spent[d]]_vars

\* A closed hold keeps the answer of its first settle: a second settle, a
\* second operator or a late error handler moves neither it nor a counter.
FirstSettleIsFinal ==
    [][\A a \in Attempts :
          hold[a].st \in Terminal =>
             /\ hold'[a].st = hold[a].st
             /\ hold'[a].at = hold[a].at
             /\ hold'[a].dg = hold[a].dg]_vars

\* What OPEN_LUA says of itself (lines 458-460): "The ONLY thing that decides
\* whether counters are protected is whether an epoch exists".  A call joins a
\* live generation only while all of its counters are there.
EpochProtectsCounters ==
    [][\A a \in Attempts :
          /\ epoch # NoEpoch
          /\ hold[a].st = "absent"
          /\ hold'[a].st = "open"
          /\ hold'[a].ep = epoch
          => present = CounterKeys]_vars

\* What the scripts make of an attempt, as BudgetAccount tells it.
CallOf(a) == [st |-> hold[a].st, gen |-> hold[a].ep, est |-> hold[a].et, charge |-> hold[a].at,
              sent |-> hold[a].ph = "dispatch_may_have_happened"]

Account == INSTANCE BudgetAccount
           WITH current <- epoch, past <- used, account <- [a \in Attempts |-> CallOf(a)]

\* The five scripts implement that account: every step of theirs is one of its
\* steps or leaves it as it was, for callers that are fenced.
MeetsAccount == Account!AccountSpec
=============================================================================
