----------------------------- MODULE PeriodLimit -----------------------------
(***************************************************************************)
(* The periodic limit of an agent: the snapshot pbase: that OPEN_LUA,      *)
(* SETTLE_LUA, REBASE_LUA and RAISE_LUA keep beside the counters of        *)
(* BudgetHolds, in the same evals.  What a period has used is derived:     *)
(* spent_cost now, less its value when the period began.                   *)
(*                                                                         *)
(* Callers are as free as in BudgetHolds: each brings its own clock, and   *)
(* its own, perhaps stale, idea of whether there is a limit and over which *)
(* kind of period.                                                         *)
(***************************************************************************)
EXTENDS BudgetHolds

CONSTANTS
    PeriodModes,  \* what callers know of the limit: "skip", "none", "set", "unknown"
    Kinds,        \* "day", "month"
    Floors,       \* the totals the cron may raise spent to
    PeriodCap,    \* the limit, in the units of the cost dimension
    MaxTime,      \* bound on the callers' clocks, in days
    NoBase,       \* no snapshot
    NoSeed,       \* an open that brings no figure of the ledger
    Never         \* the period of an attempt that was not counted in one

Cost == "cost"
DaysPerMonth == 2
Clock == 0..MaxTime

ASSUME PeriodAssumption ==
    /\ Cost \in Dims
    /\ PeriodModes \subseteq {"skip", "none", "set", "unknown"}
    /\ Kinds \subseteq {"day", "month"}
    /\ Floors \subseteq [Dims -> Nat]
    /\ PeriodCap \in Nat
    /\ MaxTime \in Nat
    /\ Never \notin Clock

VARIABLES
    base,     \* pbase: [ep, kind, pk, bc, cap], or NoBase
    period,   \* history: [Attempts -> the period its charge was counted in]
    bounded   \* history: the attempts that were admitted under the limit

pvars == <<vars, base, period, bounded>>

Base == [ep : Generations, kind : Kinds, pk : Clock, bc : Int, cap : {PeriodCap}]

ASSUME SnapshotAssumption == NoBase \notin Base

PeriodTypeOK ==
    /\ TypeOK
    /\ base \in Base \cup {NoBase}
    /\ period \in [Attempts -> Clock \cup {Never}]
    /\ bounded \subseteq Attempts

\* periodKeys: the day and the month of a clock, ordered as their text is.
PeriodKey(kind, now) == IF kind = "day" THEN now ELSE now \div DaysPerMonth

\* A seeded snapshot answers for what was counted before it.
Recount == [a \in Attempts |-> Never]

-----------------------------------------------------------------------------
(* OPEN_LUA *)

\* The snapshot can be judged against: this generation's, and this kind's when
\* the caller knows the kind.
Valid(pmode, kind, live) ==
    /\ base # NoBase
    /\ base.ep = live
    /\ pmode = "set" => base.kind = kind

NeedsSeed(pmode, kind, live, seed) ==
    pmode = "set" /\ ~Valid(pmode, kind, live) /\ seed = NoSeed

\* A period can only be fenced to a generation.
Unfenced(pmode, live) == pmode \in {"set", "unknown"} /\ live = NoEpoch

\* Mutant: the snapshot follows every caller's clock, back as well as forward.
Rolled_FollowsClock(now, at) ==
    LET cur == PeriodKey(base.kind, now)
    IN  IF base.pk # cur THEN [base EXCEPT !.pk = cur, !.bc = at] ELSE base

\* FORWARD ONLY: a clock that is behind is judged in the newer period.
Rolled(now, at) ==
    LET cur == PeriodKey(base.kind, now)
    IN  IF base.pk < cur THEN [base EXCEPT !.pk = cur, !.bc = at] ELSE base

\* The snapshot an open leaves, whether or not it is admitted afterwards.
Snapshot(pmode, kind, now, live, seed) ==
    CASE pmode = "none" -> NoBase
      [] pmode = "set" /\ ~Valid(pmode, kind, live) ->
            [ep |-> live, kind |-> kind, pk |-> PeriodKey(kind, now),
             bc |-> spent[Cost] - seed, cap |-> PeriodCap]
      [] pmode \in {"set", "unknown"} /\ Valid(pmode, kind, live) -> Rolled(now, spent[Cost])
      [] OTHER -> base

\* Mutant: calls in flight do not count in a period.
Within_IgnoresReserved(snap, est) ==
    snap # NoBase => snap.cap # 0 /\ spent[Cost] - snap.bc + est[Cost] <= snap.cap

\* Zero refuses every call.
Within(snap, est) ==
    snap # NoBase =>
        /\ snap.cap # 0
        /\ (spent[Cost] - snap.bc) + reserved[Cost] + est[Cost] <= snap.cap

\* The periodic verdict on an open that reaches it.
Admits(pmode, kind, now, live, seed, est) ==
    /\ ~Unfenced(pmode, live)
    /\ ~NeedsSeed(pmode, kind, live, seed)
    /\ \/ pmode \in {"skip", "none"}
       \/ pmode = "unknown" /\ ~Valid(pmode, kind, live)
       \/ Within(Snapshot(pmode, kind, now, live, seed), est)

\* An unknown limit is the one last enforced, and none when there is no snapshot.
Bounds(pmode, kind, live) ==
    pmode = "set" \/ (pmode = "unknown" /\ Valid(pmode, kind, live))

PeriodOpen(a, mode, expected, est, mint, pmode, kind, now, seed) ==
    LET live == LiveEpoch(mode, mint)
        admit == Admits(pmode, kind, now, live, seed, est)
        reply == OpenReply(a, mode, expected, est, admit)
        judged == /\ reply \notin {"state", "replay"}
                  /\ ~Unfenced(pmode, live)
                  /\ ~NeedsSeed(pmode, kind, live, seed)
    IN  /\ Open(a, mode, expected, est, mint, admit)
        /\ base' = IF judged THEN Snapshot(pmode, kind, now, live, seed) ELSE base
        /\ period' = IF judged /\ pmode = "set" /\ ~Valid(pmode, kind, live)
                     THEN Recount ELSE period
        /\ bounded' = IF reply = "opened" /\ Bounds(pmode, kind, live)
                      THEN bounded \cup {a} ELSE bounded

-----------------------------------------------------------------------------
(* SETTLE_LUA, REBASE_LUA, RAISE_LUA *)

\* A call counts in the period it settles in: the roll comes before the charge.
SettleBase(now) == Rolled(now, spent[Cost])

\* Only a counted, fenced settle moves the snapshot.
Counted(a, outcome) ==
    /\ SettleReply(a, outcome) = "applied"
    /\ Fenced(a)
    /\ base # NoBase
    /\ base.ep = hold[a].ep

PeriodSettle(a, outcome, known, certain, now) ==
    LET snap == SettleBase(now)
    IN  /\ Settle(a, outcome, known, certain)
        /\ IF Counted(a, outcome)
           THEN base' = snap /\ period' = [period EXCEPT ![a] = snap.pk]
           ELSE UNCHANGED <<base, period>>
        /\ UNCHANGED bounded

\* `limited` is the owner's limit as the rebuild reads it, `used` the ledger's
\* figure for its period.
PeriodRebase(g, total, seed, limited, kind, now, spentSince) ==
    /\ Rebase(g, total, seed)
    /\ base' = IF limited
               THEN [ep |-> g, kind |-> kind, pk |-> PeriodKey(kind, now),
                     bc |-> total[Cost] - spentSince, cap |-> PeriodCap]
               ELSE NoBase
    /\ period' = Recount
    /\ UNCHANGED bounded

\* What the cron recovers is older than its cutoff: in a period that began
\* later the baseline moves with the counter, and its usage stays as it was.
RaisedBase(floor, cutoff) ==
    IF /\ floor[Cost] > spent[Cost]
       /\ base # NoBase
       /\ base.ep = epoch
       /\ base.pk > PeriodKey(base.kind, cutoff)
    THEN [base EXCEPT !.bc = @ + (floor[Cost] - spent[Cost])]
    ELSE base

PeriodRaise(floor, cutoff) ==
    /\ Raise(floor)
    /\ base' = RaisedBase(floor, cutoff)
    /\ UNCHANGED <<period, bounded>>

\* Redis evicts the snapshot.
LoseBase ==
    /\ base # NoBase
    /\ base' = NoBase
    /\ UNCHANGED <<vars, period, bounded>>

-----------------------------------------------------------------------------
(* The store under arbitrary callers and clocks *)

PeriodInit ==
    /\ Init
    /\ base = NoBase
    /\ period = Recount
    /\ bounded = {}

\* A caller expects a generation or offers one to be minted, never both, and
\* asks the ledger for a seed only under a limit it knows.
PeriodOpenAny(a) ==
    /\ ~hold[a].gone
    /\ \E mode \in Modes, g \in Generations, est \in Estimates, pmode \in PeriodModes,
          kind \in Kinds, now \in Clock, seed \in {f[Cost] : f \in Figures} \cup {NoSeed} :
           /\ seed # NoSeed => pmode = "set"
           /\ PeriodOpen(a, mode, g, est, g, pmode, kind, now, seed)

PeriodSettleAny(a) ==
    \E outcome \in Outcomes, known \in Figures, certain \in [Dims -> BOOLEAN], now \in Clock :
        PeriodSettle(a, outcome, known, certain, now)

PeriodRebaseAny ==
    \E g \in Generations, total, seed \in Figures, limited \in BOOLEAN, kind \in Kinds,
       now \in Clock :
        \E spentSince \in 0..total[Cost] :
            PeriodRebase(g, total, seed, limited, kind, now, spentSince)

PeriodRaiseAny == \E floor \in Floors, cutoff \in Clock : PeriodRaise(floor, cutoff)

\* The transitions of BudgetHolds that have nothing to do with periods.
Elsewhere ==
    /\ \/ \E a \in Attempts : Dispatch(a) \/ LoseHold(a)
       \/ LoseAny
    /\ UNCHANGED <<base, period, bounded>>

PeriodNext ==
    \/ \E a \in Attempts : PeriodOpenAny(a) \/ PeriodSettleAny(a)
    \/ PeriodRebaseAny
    \/ PeriodRaiseAny
    \/ LoseBase
    \/ Elsewhere

PeriodSpec == PeriodInit /\ [][PeriodNext]_pvars

-----------------------------------------------------------------------------
(* Properties *)

LiveBase == base # NoBase /\ epoch # NoEpoch /\ base.ep = epoch

PeriodCharges ==
    {u \in Units : /\ InGeneration(u[1])
                   /\ hold[u[1]].st \in Terminal
                   /\ period[u[1]] = base.pk
                   /\ u[2] <= hold[u[1]].at[Cost]}

\* What was admitted under the limit and weighs on the period: the open calls,
\* and the ones settled in it, at no more than their estimate.
PeriodAdmitted ==
    {u \in Units : /\ u[1] \in bounded
                   /\ InGeneration(u[1])
                   /\ u[2] <= hold[u[1]].et[Cost]
                   /\ \/ hold[u[1]].st = "open"
                      \/ /\ hold[u[1]].st \in Terminal
                         /\ period[u[1]] = base.pk
                         /\ u[2] <= hold[u[1]].at[Cost]}

\* Whoever rolls the snapshot, with whatever clock, and whatever the cron
\* raises in between, the derived usage of the period never falls below what
\* was charged in it: a period is never handed back (OPEN_LUA, lines 485-551;
\* SETTLE_LUA, lines 743-759; RAISE_LUA, lines 917-933).
PeriodUsageCovers ==
    LiveBase /\ <<"spent", Cost>> \in present =>
        spent[Cost] - base.bc >= Cardinality(PeriodCharges)

\* The calls admitted under the limit never commit more than it in one period,
\* across rolls, reseeds, other callers' stale views of the limit and late settles.
PeriodWithinLimit == LiveBase => Cardinality(PeriodAdmitted) <= PeriodCap
=============================================================================
