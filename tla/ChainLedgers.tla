----------------------------- MODULE ChainLedgers -----------------------------
(***************************************************************************)
(* The ledgers beside an agent's own counters: one per link of a           *)
(* delegation (dl:) and one per declared sub-agent of a session (sl:).     *)
(* OPEN_LUA checks and reserves on them in the eval of the hold and stamps *)
(* them on it; SETTLE_LUA moves the stamped ones, whatever has happened to *)
(* the agent's own counters in the meantime.                               *)
(*                                                                         *)
(* The two kinds read a missing ledger in opposite ways: a sub-agent's is  *)
(* zero and is created by the open, a delegation's refuses and only the    *)
(* exchange that recorded the link first may create it.                    *)
(***************************************************************************)
EXTENDS BudgetHolds

CONSTANTS
    Links,             \* the delegation links of this agent (jtis)
    Subs,              \* the sub-agents (session and id) that calls declare
    NoSub,             \* a call that declares none
    LedgerCap,         \* [Links \cup Subs -> Nat]: what the link or the owner allows
    SubsIdleOutUnused  \* a sub-ledger never idles out under an open call

Ledgers == Links \cup Subs
Money == "cost"

ASSUME ChainAssumption ==
    /\ Money \in Dims
    /\ Links \cap Subs = {}
    /\ NoSub \notin Ledgers
    /\ LedgerCap \in [Ledgers -> Nat]
    /\ SubsIdleOutUnused \in BOOLEAN

VARIABLES
    ledger,    \* [Ledgers -> [there, r, s]]; a missing one reads as zero
    exchanged, \* the rows of delegation_exchanges
    creating,  \* the links whose exchange made the row and has still to make the ledger
    stamp,     \* [Attempts -> SUBSET Ledgers], the fields sl and dl of each hold
    counted    \* history: [Ledgers -> SUBSET Attempts], opened in this ledger's life

cvars == <<vars, ledger, exchanged, creating, stamp, counted>>
chainVars == <<ledger, exchanged, creating, stamp, counted>>

Zero == [there |-> FALSE, r |-> 0, s |-> 0]

ChainTypeOK ==
    /\ TypeOK
    /\ ledger \in [Ledgers -> [there : BOOLEAN, r : Int, s : Int]]
    /\ exchanged \subseteq Links
    /\ creating \subseteq exchanged
    /\ stamp \in [Attempts -> SUBSET Ledgers]
    /\ counted \in [Ledgers -> SUBSET Attempts]

-----------------------------------------------------------------------------
(* The exchange route *)

\* Mutant: a row that could not be written lets the exchange go on.
FirstExchange_Unrecorded(l) ==
    /\ l \notin exchanged
    /\ creating' = creating \cup {l}
    /\ UNCHANGED <<vars, exchanged, ledger, stamp, counted>>

\* recordFirstExchanges: the upsert ignores duplicates, and returns only the
\* rows it created.
FirstExchange(l) ==
    /\ l \notin exchanged
    /\ exchanged' = exchanged \cup {l}
    /\ creating' = creating \cup {l}
    /\ UNCHANGED <<vars, ledger, stamp, counted>>

\* createDelegationLedger, at zero; the exchange may also die before it.
CreateLedger(l) ==
    /\ l \in creating
    /\ creating' = creating \ {l}
    /\ \/ ledger' = [ledger EXCEPT ![l].there = TRUE]
       \/ UNCHANGED ledger
    /\ UNCHANGED <<vars, exchanged, stamp, counted>>

-----------------------------------------------------------------------------
(* OPEN_LUA *)

Fits(l, est) ==
    /\ LedgerCap[l] # 0
    /\ ledger[l].s + ledger[l].r + est[Money] <= LedgerCap[l]

\* Mutant: a lost ledger is a new one.
LinkAdmits_MissingIsZero(l, est) == Fits(l, est)

LinkAdmits(l, est) == ledger[l].there /\ Fits(l, est)

\* `room`: the hour's allowance of new sub-agents is not used up.
SubAdmits(sub, est, room) ==
    sub # NoSub => Fits(sub, est) /\ (ledger[sub].there \/ room)

ChainAdmits(links, sub, est, room) ==
    (\A l \in links : LinkAdmits(l, est)) /\ SubAdmits(sub, est, room)

Stamped(links, sub) == links \cup ({sub} \ {NoSub})

\* All or nothing: every stamped ledger reserves, or none does.
ChainOpen(a, mode, expected, est, mint, links, sub, room) ==
    LET admit == ChainAdmits(links, sub, est, room)
        mine == Stamped(links, sub)
        opened == OpenReply(a, mode, expected, est, admit) = "opened"
    IN  /\ Open(a, mode, expected, est, mint, admit)
        /\ IF opened
           THEN /\ ledger' = [l \in Ledgers |->
                                 IF l \in mine
                                 THEN [ledger[l] EXCEPT !.there = TRUE, !.r = @ + est[Money]]
                                 ELSE ledger[l]]
                /\ stamp' = [stamp EXCEPT ![a] = mine]
                /\ counted' = [l \in Ledgers |->
                                  IF l \in mine THEN counted[l] \cup {a} ELSE counted[l]]
           ELSE UNCHANGED <<ledger, stamp, counted>>
        /\ UNCHANGED <<exchanged, creating>>

-----------------------------------------------------------------------------
(* SETTLE_LUA *)

\* Mutant: the ledgers give up a reservation on every reply.
MovesLedgers_Always(reply) == TRUE
MovesLedgers(reply) == reply \in {"applied", "degraded"}

ChainSettle(a, outcome, known, certain) ==
    LET reply == SettleReply(a, outcome)
        charge == Applied(a, outcome, known, certain)
    IN  /\ Settle(a, outcome, known, certain)
        /\ ledger' = [l \in Ledgers |->
                         IF MovesLedgers(reply) /\ l \in stamp[a] /\ ledger[l].there
                         THEN [ledger[l] EXCEPT !.r = @ - hold[a].et[Money],
                                                !.s = @ + charge[Money]]
                         ELSE ledger[l]]
        /\ UNCHANGED <<exchanged, creating, stamp, counted>>

-----------------------------------------------------------------------------
(* Redis: a ledger is evicted or expires (a link's an hour after the link, *)
(* a sub-agent's after a day without a call).                              *)

OpenIn(l) == {a \in Attempts : l \in stamp[a] /\ hold[a].st = "open"}

LoseLedger(l) ==
    /\ ledger[l].there
    /\ l \in Subs /\ SubsIdleOutUnused => OpenIn(l) = {}
    /\ ledger' = [ledger EXCEPT ![l] = Zero]
    /\ counted' = IF l \in Subs THEN [counted EXCEPT ![l] = {}] ELSE counted
    /\ UNCHANGED <<vars, exchanged, creating, stamp>>

-----------------------------------------------------------------------------
ChainInit ==
    /\ Init
    /\ ledger = [l \in Ledgers |-> Zero]
    /\ exchanged = {}
    /\ creating = {}
    /\ stamp = [a \in Attempts |-> {}]
    /\ counted = [l \in Ledgers |-> {}]

\* A delegated call carries one link or two; every call may declare a sub-agent.
ChainOpenAny(a) ==
    /\ ~hold[a].gone
    /\ \E mode \in Modes, g \in Generations, est \in Estimates,
          links \in SUBSET Links, sub \in Subs \cup {NoSub}, room \in BOOLEAN :
           /\ Cardinality(links) <= 2
           /\ ~room => sub \in {l \in Subs : ~ledger[l].there}
           /\ ChainOpen(a, mode, g, est, g, links, sub, room)

ChainSettleAny(a) ==
    \E outcome \in Outcomes, known \in Figures, certain \in [Dims -> BOOLEAN] :
        ChainSettle(a, outcome, known, certain)

\* The transitions of BudgetHolds that touch no ledger.
Beside ==
    /\ \/ \E a \in Attempts : Dispatch(a) \/ LoseHold(a)
       \/ RebaseAny
       \/ RaiseAny
       \/ LoseAny
    /\ UNCHANGED chainVars

ChainNext ==
    \/ \E a \in Attempts : ChainOpenAny(a) \/ ChainSettleAny(a)
    \/ \E l \in Links : FirstExchange(l) \/ CreateLedger(l)
    \/ \E l \in Ledgers : LoseLedger(l)
    \/ Beside

ChainSpec == ChainInit /\ [][ChainNext]_cvars

-----------------------------------------------------------------------------
(* Properties *)

\* What these attempts were admitted for: a closed one at its charge, and none
\* at more than its estimate.
CommittedUnits(attempts) ==
    {u \in Units : /\ u[1] \in attempts
                   /\ u[2] <= hold[u[1]].et[Money]
                   /\ hold[u[1]].st \in Terminal => u[2] <= hold[u[1]].at[Money]}

\* Over the whole life of a link, through flushed counters, rebuilds, degraded
\* settles, lost holds and a ledger that died with its exchange, the calls made
\* under it never commit more than its cap: a worker is never handed the cap a
\* second time (the dl: blocks of OPEN_LUA and SETTLE_LUA, recordFirstExchanges).
DelegationWithinCap ==
    \A l \in Links : Cardinality(CommittedUnits(counted[l])) <= LedgerCap[l]

\* The same for a sub-agent, in the life of one ledger: degraded settles and
\* replays neither free its reservations twice nor forget a charge.
SubAgentWithinCap ==
    \A l \in Subs : Cardinality(CommittedUnits(counted[l])) <= LedgerCap[l]
=============================================================================
