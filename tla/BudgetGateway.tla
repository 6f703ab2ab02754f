---------------------------- MODULE BudgetGateway ----------------------------
(***************************************************************************)
(* The budgeted calls of one agent, as app/api/v1/[provider]/[...path]/    *)
(* route.ts handles them, around the store of BudgetHolds: the policy read *)
(* and its cache, the generation kept in Postgres, the hold, the dispatch  *)
(* permission, the send and the settlement, interleaved with each other    *)
(* and with operators who rebuild the budget or resolve a hold.            *)
(*                                                                         *)
(* One call here is one ATTEMPT of the code (runAttempt): a failover is a  *)
(* second call with an id of its own.  Any request to Redis may be lost,   *)
(* or be run and lose its reply; the client retries it once (REDIS_RETRY). *)
(* A handler may be killed between any two steps.                          *)
(***************************************************************************)
EXTENDS BudgetHolds

CONSTANTS
    Operators,  \* the people who may run a rebuild at the same time
    Starts,     \* the agents a run begins with: "fresh", "legacy", "running"
    Flushes,    \* whether Redis may lose everything at once
    Verdicts,   \* what the period, delegation and sub-agent limits may answer
    NoRow       \* an empty policy cache

ASSUME GatewayAssumption ==
    /\ Starts \subseteq {"fresh", "legacy", "running"}
    /\ Flushes \in BOOLEAN
    /\ Verdicts \subseteq BOOLEAN
    /\ \A g \in Generations : NoRow # [epoch |-> g, established |-> TRUE]

VARIABLES
    row,       \* agents.budget_epoch and whether budget_state_established_at is set
    recorded,  \* history: every generation Postgres has ever held
    cached,    \* the policy cache's copy of row, or NoRow
    call,      \* [Attempts -> Call], what each handler knows
    op         \* [Operators -> Rebuild], how far each rebuild is

caller == <<row, recorded, cached, call, op>>
gvars == <<vars, caller>>

Row == [epoch : Generations \cup {NoEpoch}, established : BOOLEAN]
NeverEstablished == [epoch |-> NoEpoch, established |-> FALSE]

\* The steps of a handler.  `stranded` is a handler that ended and left its
\* hold open: killed, its settle failed, or its permission was not granted.
Steps == {"idle", "opening", "recording", "refusing", "reseeding", "held",
          "sending", "answered", "releasing", "done", "stranded"}

Call == [pc : Steps,
         seen : Row,                          \* currentPolicyGate.budgetState
         fill : BOOLEAN,                      \* its cache fill may still land
         retried : BOOLEAN,                   \* this request was sent twice
         owed : Generations \cup {NoEpoch},   \* reserve.epochToPersist
         asked : BOOLEAN,                     \* the ledger was asked for a period seed
         sent : BOOLEAN]                      \* fetch was called

NoCall == [pc |-> "idle", seen |-> NeverEstablished, fill |-> FALSE,
           retried |-> FALSE, owed |-> NoEpoch, asked |-> FALSE, sent |-> FALSE]

Rebuild == [pc : {"idle", "written", "listing", "listed"},
            epoch : Generations \cup {NoEpoch},
            ids : SUBSET Attempts,
            seed : [Dims -> Nat]]

NoRebuild == [pc |-> "idle", epoch |-> NoEpoch, ids |-> {}, seed |-> Nothing]

GatewayTypeOK ==
    /\ TypeOK
    /\ row \in Row
    /\ recorded \subseteq Generations
    /\ cached \in Row \cup {NoRow}
    /\ call \in [Attempts -> Call]
    /\ op \in [Operators -> Rebuild]

\* crypto.randomUUID: a value neither store has seen.
Fresh == Generations \ (used \cup recorded)

Goto(a, pc) == [call EXCEPT ![a].pc = pc, ![a].retried = FALSE]

\* A request without an answer: sent once more, then the handler gives up.
Unanswered(a, giveUp) ==
    call' = IF call[a].retried THEN Goto(a, giveUp)
                               ELSE [call EXCEPT ![a].retried = TRUE]

-----------------------------------------------------------------------------
(* The policy read and its cache *)

\* A hit answers from the cache; a miss, or a cache that cannot be read, from
\* Postgres; a database that cannot be read reads as never established.
ReadPolicy(a) ==
    /\ call[a].pc = "idle"
    /\ \E s \in {cached, row, NeverEstablished} \ {NoRow}, fill \in BOOLEAN :
          /\ fill => s = row
          /\ call' = [call EXCEPT ![a].pc = "opening", ![a].seen = s, ![a].fill = fill]
    /\ UNCHANGED <<vars, row, recorded, cached, op>>

\* FENCED_FILL_LUA: the fill lands if no purge moved the fence since the read.
FillCache(a) ==
    /\ call[a].fill
    /\ cached' = call[a].seen
    /\ call' = [call EXCEPT ![a].fill = FALSE]
    /\ UNCHANGED <<vars, row, recorded, op>>

\* ROTATE_FENCE_LUA: after a new generation, a rebuild or any policy change.
\* A purge that fails is one that does not happen.
PurgeCache ==
    /\ cached' = NoRow
    /\ call' = [a \in Attempts |-> [call[a] EXCEPT !.fill = FALSE]]
    /\ UNCHANGED <<vars, row, recorded, op>>

\* POLICY_CACHE_TTL_S
ExpireCache ==
    /\ cached # NoRow
    /\ cached' = NoRow
    /\ UNCHANGED <<vars, row, recorded, call, op>>

-----------------------------------------------------------------------------
(* Opening the hold and recording the generation *)

\* openHold: dbEstablished, as the policy read determines it.
Mode(s) ==
    CASE ~s.established -> "0"
      [] s.established /\ s.epoch # NoEpoch -> "1"
      [] OTHER -> "2"

\* Mutants: the caller owes Postgres the uuid it offered, or the wrong field.
Owed_OfferedMint(mode, mint) == IF mode \in {"0", "2"} THEN mint ELSE NoEpoch
Owed_WrongField(mode, mint) == mode

\* epochOut: what Redis holds after the script, while Postgres may not know it.
Owed(mode, mint) == IF mode \in {"0", "2"} THEN LiveEpoch(mode, mint) ELSE NoEpoch

RunOpen(a, mode, expected, est, mint, admit) ==
    /\ Mints(mode) => mint \in Fresh
    /\ Open(a, mode, expected, est, mint, admit)

\* reserve.needsPeriodSeed: the open is run once more with the ledger's figure,
\* after the generation it may have minted is recorded.
AfterOpen(reply, owed, seed) ==
    CASE reply = "state" -> "done"
      [] reply = "denied" /\ seed -> IF owed = NoEpoch THEN "opening" ELSE "reseeding"
      [] reply = "denied" /\ ~seed -> IF owed = NoEpoch THEN "done" ELSE "refusing"
      [] OTHER -> IF owed = NoEpoch THEN "held" ELSE "recording"

OpenHold(a) ==
    /\ call[a].pc = "opening"
    /\ \E est \in Estimates, mint \in Generations, admit \in Verdicts, seed \in BOOLEAN :
          LET mode == Mode(call[a].seen)
              expected == call[a].seen.epoch
              reply == OpenReply(a, mode, expected, est, admit)
              owed == IF reply = "state" THEN NoEpoch ELSE Owed(mode, mint)
          IN  /\ seed => reply = "denied" /\ ~admit /\ ~call[a].asked
              /\ RunOpen(a, mode, expected, est, mint, admit)
              /\ call' = [Goto(a, AfterOpen(reply, owed, seed)) EXCEPT
                             ![a].owed = owed, ![a].asked = @ \/ seed]
    /\ UNCHANGED <<row, recorded, cached, op>>

\* Mutant: a throw before the hold is known to exist settles nothing.
AfterThrow_Forgets == "done"

\* runAttempt's catch: an attempt not dispatched is released, whether or not
\* its hold was ever opened.
AfterThrow == "releasing"

OpenUnanswered(a) ==
    /\ call[a].pc = "opening"
    /\ \/ UNCHANGED vars
       \/ \E est \in Estimates, mint \in Generations, admit \in Verdicts :
             RunOpen(a, Mode(call[a].seen), call[a].seen.epoch, est, mint, admit)
    /\ Unanswered(a, AfterThrow)
    /\ UNCHANGED <<row, recorded, cached, op>>

\* Mutant: a failed write is treated as "matched no row".
AfterRecord_IgnoresError(a, failed) ==
    IF call[a].pc = "recording" THEN "held" ELSE "done"

\* persistEpoch: only a confirmed write lets the call go on.
AfterRecord(a, failed) ==
    CASE failed -> "releasing"
      [] ~failed /\ call[a].pc = "recording" -> "held"
      [] ~failed /\ call[a].pc = "reseeding" -> "opening"
      [] OTHER -> "done"

\* establishBudgetState writes only a row that has no epoch; an error may hide
\* a write that happened.
RecordGeneration(a) ==
    /\ call[a].pc \in {"recording", "refusing", "reseeding"}
    /\ \E wrote, failed \in BOOLEAN :
          /\ ~failed => wrote
          /\ IF wrote /\ row.epoch = NoEpoch
             THEN /\ row' = [epoch |-> call[a].owed, established |-> TRUE]
                  /\ recorded' = recorded \cup {call[a].owed}
             ELSE UNCHANGED <<row, recorded>>
          /\ call' = Goto(a, AfterRecord(a, failed))
    /\ UNCHANGED <<vars, cached, op>>

-----------------------------------------------------------------------------
(* From the hold to the answer *)

\* A gate, a missing credential, an endpoint that cannot be read, a throw:
\* every exit before the send releases.
RefuseHeld(a) ==
    /\ call[a].pc = "held"
    /\ ~call[a].retried
    /\ call' = Goto(a, "releasing")
    /\ UNCHANGED <<vars, row, recorded, cached, op>>

\* Mutant: only an attempt without a hold is kept from being sent.
Permitted_UnlessMissing(reply) == reply # "missing"

Permitted(reply) == reply = "granted"

\* Not granted settles nothing: whoever holds the permission owns the ending.
ConsumePermission(a) ==
    /\ call[a].pc = "held"
    /\ Dispatch(a)
    /\ call' = Goto(a, IF Permitted(DispatchReply(a)) THEN "sending" ELSE "stranded")
    /\ UNCHANGED <<row, recorded, cached, op>>

PermissionUnanswered(a) ==
    /\ call[a].pc = "held"
    /\ Dispatch(a) \/ UNCHANGED vars
    /\ Unanswered(a, "stranded")
    /\ UNCHANGED <<row, recorded, cached, op>>

\* fetch: whether it answers or throws, the provider may have been reached.
Send(a) ==
    /\ call[a].pc = "sending"
    /\ call' = [Goto(a, "answered") EXCEPT ![a].sent = TRUE]
    /\ UNCHANGED <<vars, row, recorded, cached, op>>

\* reconcile after the answer, or runAttempt's catch after a throw.  A settle
\* that answers conflict or anomaly ends the call like any other.
SettleCall(a) ==
    /\ call[a].pc = "answered"
    /\ \E outcome \in {"complete", "usage_unknown"}, known \in Figures :
          Settle(a, outcome, known, [d \in Dims |-> outcome = "complete"])
    /\ call' = Goto(a, "done")
    /\ UNCHANGED <<row, recorded, cached, op>>

ReleaseCall(a) ==
    /\ call[a].pc = "releasing"
    /\ Settle(a, "not_dispatched", Nothing, [d \in Dims |-> FALSE])
    /\ call' = Goto(a, "done")
    /\ UNCHANGED <<row, recorded, cached, op>>

\* The settle never reaches Redis, or the handler is killed.
Strand(a) ==
    /\ call[a].pc \notin {"idle", "done", "stranded"}
    /\ call' = Goto(a, "stranded")
    /\ UNCHANGED <<vars, row, recorded, cached, op>>

-----------------------------------------------------------------------------
(* Operators: budget/rebuild and holds/[attemptId]/resolve *)

\* Mutant: Redis learns the new generation and Postgres does not.
RebuildWrite_SkipsPostgres(o) ==
    /\ op[o].pc = "idle"
    /\ \E g \in Fresh : op' = [op EXCEPT ![o].pc = "written", ![o].epoch = g]
    /\ UNCHANGED <<vars, row, recorded, cached, call>>

\* Postgres first.  The write may fail after it happened, see RebuildAbandon.
RebuildWrite(o) ==
    /\ op[o].pc = "idle"
    /\ \E g \in Fresh :
          /\ row' = [epoch |-> g, established |-> TRUE]
          /\ recorded' = recorded \cup {g}
          /\ op' = [op EXCEPT ![o].pc = "written", ![o].epoch = g]
    /\ UNCHANGED <<vars, cached, call>>

\* listOpenHolds, before REBASE_LUA runs: the index first, the records later.
RebuildIndex(o) ==
    /\ op[o].pc = "written"
    /\ op' = [op EXCEPT ![o].pc = "listing", ![o].ids = Indexed]
    /\ UNCHANGED <<vars, row, recorded, cached, call>>

RebuildList(o) ==
    /\ op[o].pc = "listing"
    /\ op' = [op EXCEPT ![o].pc = "listed",
                        ![o].ids = {},
                        ![o].seed = [d \in Dims |-> Cardinality(ListedUnits(op[o].ids, d))]]
    /\ UNCHANGED <<vars, row, recorded, cached, call>>

\* The ledger's total is any figure here.
RebuildRebase(o) ==
    /\ op[o].pc = "listed"
    /\ \E total \in Figures : Rebase(op[o].epoch, total, op[o].seed)
    /\ op' = [op EXCEPT ![o] = NoRebuild]
    /\ UNCHANGED <<row, recorded, cached, call>>

RebuildAbandon(o) ==
    /\ op[o].pc # "idle"
    /\ op' = [op EXCEPT ![o] = NoRebuild]
    /\ UNCHANGED <<vars, row, recorded, cached, call>>

\* `spent` with the operator's figure, or `not_spent`.
ResolveHold(a) ==
    /\ hold[a].st # "absent"
    /\ \/ \E known \in Figures : Settle(a, "resolved", known, [d \in Dims |-> FALSE])
       \/ Settle(a, "not_dispatched", Nothing, [d \in Dims |-> FALSE])
    /\ UNCHANGED caller

-----------------------------------------------------------------------------
(* Bound: a flush does not fall between a request and its retry 50 ms later, *)
(* so an offered uuid is minted at most once.                                *)

Flush ==
    /\ Flushes
    /\ \A a \in Attempts : ~call[a].retried
    /\ epoch' = NoEpoch
    /\ fmt' = "absent"
    /\ present' = {}
    /\ reserved' = Nothing
    /\ spent' = Nothing
    /\ hold' = [a \in Attempts |-> [hold[a] EXCEPT !.gone = hold[a].st # "absent"]]
    /\ cached' = NoRow
    /\ UNCHANGED <<used, row, recorded, call, op>>

\* An agent no call has budgeted yet, one that was spending before generations
\* existed (the marker of migration 0057), and one that is established.
FreshAgent == Init /\ fmt = "absent" /\ row = NeverEstablished /\ recorded = {}

LegacyAgent ==
    /\ Init
    /\ fmt = "absent"
    /\ row = [epoch |-> NoEpoch, established |-> TRUE]
    /\ recorded = {}

RunningAgent ==
    /\ epoch \in Generations
    /\ fmt = "current"
    /\ present = CounterKeys
    /\ reserved = Nothing
    /\ spent \in Figures
    /\ hold = [a \in Attempts |-> NoHold]
    /\ used = {epoch}
    /\ row = [epoch |-> epoch, established |-> TRUE]
    /\ recorded = {epoch}

GatewayInit ==
    /\ \/ "fresh" \in Starts /\ FreshAgent
       \/ "legacy" \in Starts /\ LegacyAgent
       \/ "running" \in Starts /\ RunningAgent
    /\ cached \in {row, NoRow}
    /\ call = [a \in Attempts |-> NoCall]
    /\ op = [o \in Operators |-> NoRebuild]

\* What the handler does when nothing kills it.
Handler(a) ==
    \/ ReadPolicy(a)
    \/ OpenHold(a)
    \/ OpenUnanswered(a)
    \/ RecordGeneration(a)
    \/ RefuseHeld(a)
    \/ ConsumePermission(a)
    \/ PermissionUnanswered(a)
    \/ Send(a)
    \/ SettleCall(a)
    \/ ReleaseCall(a)

RebuildStep(o) ==
    \/ RebuildWrite(o)
    \/ RebuildIndex(o)
    \/ RebuildList(o)
    \/ RebuildRebase(o)
    \/ RebuildAbandon(o)

GatewayNext ==
    \/ \E a \in Attempts : \/ Handler(a)
                           \/ FillCache(a)
                           \/ Strand(a)
                           \/ ResolveHold(a)
    \/ \E o \in Operators : RebuildStep(o)
    \/ PurgeCache
    \/ ExpireCache
    \/ Flush

GatewaySpec == GatewayInit /\ [][GatewayNext]_gvars

\* A handler that is not killed goes on: the runtime resolves every await.
FairGateway == GatewaySpec /\ \A a \in Attempts : WF_gvars(Handler(a))

-----------------------------------------------------------------------------
(* Properties *)

\* Concurrent first calls, lost replies, retries, failed writes and killed
\* handlers never leave Postgres naming a generation other than the one Redis
\* holds: the agent would be refused for ever (lib/state/holds.ts, line 1617;
\* OPEN_LUA answers with the live epoch, never with the caller's mint).  With
\* no rebuild and no loss.
NeverBricked == row.epoch # NoEpoch => row.epoch = epoch

\* "A matching durable generation, or no upstream call" (route.ts, line 2027):
\* what is sent was admitted in a generation Postgres has recorded.
DurableBeforeSent ==
    \A a \in Attempts : call[a].sent => hold[a].ep \in recorded

\* The part of it that holds whatever Redis loses: a call whose policy read
\* names a generation is only ever sent in a recorded one.
FencedSendIsDurable ==
    \A a \in Attempts :
        call[a].sent /\ call[a].seen.epoch # NoEpoch => hold[a].ep \in recorded

\* A rebuild never leaves a moment where Redis permits spending under a
\* generation Postgres has not recorded, wherever it stops and whoever else
\* rebuilds at the same time (budget/rebuild/route.ts, lines 111-121).
RedisNeverAhead == epoch # NoEpoch => epoch \in recorded

\* An attempt written off as never sent was never sent, in whatever order the
\* handler's permission and an operator's `not_spent` arrive.
ReleasedWasNotSent ==
    \A a \in Attempts : hold[a].st = "released" => ~call[a].sent

\* Without a loss, reserved is EXACTLY what the open holds reserved, through
\* replays, late settles and rebuilds that race opens and settles: neither a
\* leak nor a refund (REBASE_LUA seeds, it never sets).
ReservedIsOpen ==
    \A d \in Dims :
        <<"reserved", d>> \in present => reserved[d] = Cardinality(ListedUnits(Indexed, d))

\* Every hold is closed in the end, unless its handler was stranded: killed,
\* cut off from Redis, or refused its permission (runAttempt and reconcile).
EveryHoldCloses ==
    \A a \in Attempts :
        hold[a].st = "open" ~> hold[a].st # "open" \/ call[a].pc = "stranded"

\* docs/budget-recovery.md says of a rebuild: "Open holds survive a rebuild,
\* deliberately. [...] Resolve them individually."  An operator who says what
\* an open hold of this agent cost is not answered with a conflict.
OpenHoldsResolvable ==
    \A a \in Attempts :
        epoch # NoEpoch /\ Exists(a) => SettleReply(a, "resolved") # "conflict"
=============================================================================
