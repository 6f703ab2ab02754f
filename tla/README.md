# PassControl: formal models of the gateway

PassControl is a gateway between AI agents and the providers they call. An agent
presents a visa; the gateway checks its policy, reserves budget, calls the
provider with a credential the agent never sees, charges what the call cost and
writes an audit row. Counters live in Redis, the durable record in Postgres, and
every handler is a stateless function that may die at any `await`.

This directory models the parts where a mistake costs money or lets through what
its owner forbade: the accounting of a budgeted call, from the hold in Redis to the
ledger in Postgres, with the operators who repair it; and the controls around it:
periodic limits, delegations and sub-agents, stops, approvals, credentials. All
paths below are relative to the repository, which the manifest calls `src/`.

## 1. Inventory

| Component | State it keeps | Operations | Talks to |
|---|---|---|---|
| **Budget hold store** `lib/state/holds.ts` | Redis: `reserved:`, `spent:` and their cost twins, `epoch:`, `acctfmt:`, one hash per attempt, the index of open holds | `OPEN_LUA`, `SETTLE_LUA`, `DISPATCH_LUA`, `REBASE_LUA`, `RAISE_LUA`, each one atomic script | called by the handler, the operator routes and the cron |
| **Budgeted call handler** `app/api/v1/[provider]/[...path]/route.ts` | what one attempt knows: its id, `settled`, `dispatched`, the policy it read, the generation it owes | `runAttempt`, `attemptWithHold`, `persistEpoch`, `reconcile` | hold store, policy cache, Postgres, the provider |
| **Generation and policy cache** `lib/state/policy.ts`, `lib/state/redis.ts`, migrations 0055, 0057 | `agents.budget_epoch`, `budget_state_established_at`; the cached policy and its fence | read, fenced fill, purge, expiry | handler, rebuild |
| **Operator recovery** `budget/rebuild/route.ts`, `holds/[attemptId]/resolve/route.ts` | none of its own | rebuild an agent's counters, resolve an open hold | hold store, ledger, cache |
| **Spend ledger** `lib/log.ts`, `lib/reconcile.ts`, cron route, migrations 0004, 0056, 0073 | `agent_logs`, `agent_spend_checkpoint` (total and watermark), `agent_spend_adjustments` | insert a row, fold rows, raise Redis, sum everything | handler, cron, operator recovery |
| **Periodic limits** `lib/period.ts`, `holds.ts` | the snapshot `pbase:` | seed, roll, rewrite, shift | inside the scripts of the hold store |
| **Delegation and sub-agents** `lib/delegation/*`, `lib/state/delegation.ts`, `app/api/auth/delegated/route.ts` | ledgers `dl:`, `sl:`; `delegation_exchanges`, `delegation_revocations`, a watermark, and copies of both in Redis | exchange, reserve and charge, revoke one, revoke all | hold store, every delegated call |
| **Kill switch** `lib/state/killswitch.ts`, `kill-record.ts`, `lib/kill-durability.ts`, 0083 | `kill_switch_records`; flags, a `loaded` marker and a disarm generation in Redis | arm, disarm, read, reload from the record | every call |
| **Approvals** `lib/state/approvals.ts`, `lib/approvals/*` | a record per question, a pointer per request, a queue per workspace, each with its expiry | ask, poll, decide, attach | handler, owner, tool hook |
| **Credential and endpoint cache** `lib/state/redis.ts`, the route's steps 5 to 7, `app/dashboard/actions.ts`, 0030, 0069 | `provider_credentials` and Vault secrets; `endpoint:`, `credential:` and one fence over both | resolve, decrypt, fill in the background, rotate, select, readdress, purge | handler, dashboard |
| Failover, challenge and visa, device login, rate limiter, pause and notices, injection guard, receipts and Merkle tree, policy gate, account lifecycle, passport validity, control API, services proxy, pricing, client-reported calls, dashboard, CLI and SDK | see `PROJECT.json` | | |

**What makes it hard.** There is no transaction across Redis and Postgres, and
no process that lives longer than one request:

- *Interleaving*: calls of one agent, operators and crons meet on the same counters.
- *Unreliable delivery*: any Redis request may be lost, or run and lose its reply;
  the client retries it once, so every script must be idempotent on its attempt id.
- *Loss*: Redis may evict one key, let a tombstone expire, or lose everything. A
  missing counter is not a zero counter, and a missing stop is not a lifted one.
- *Crashes*: a handler, a rebuild, a press or a cron stops between any two writes.
- *Staleness*: policy, generation, credentials and revocations are cached or copied,
  and a fill or a reload begun before a change may land after it.
- *Order*: a row, an operator's decision and a rebuild about the same call arrive
  in any order, and a row's timestamp is older than the moment it becomes visible.
- *Clocks*: callers disagree about which day it is, and keys that belong together
  expire apart.

**What correct means.**

- Hold store: nothing is refunded that was reserved or charged, the cap bounds
  what is admitted, each attempt settles once, losses are never healed silently.
- Handler and generation: Postgres and Redis name the same generation or the
  agent is refused; nothing is sent unless its generation is durable; a hold is
  closed, or visibly left to an operator; what may have been sent is not released.
- Recovery: a rebuild never opens a moment of unrecorded spending and neither
  loses nor invents a reservation.
- Ledger: every recorded call is counted, once, whatever path its figure took;
  Redis catches up with the ledger in the end.
- Periods: what a period has used is not handed back by anybody's clock or stale view.
- Delegation: a link or a sub-agent never gets its cap twice; a revocation that was
  called immediate is, and any other is within one visa's life and one exchange.
- Stops: one that was saved is enforced, one that was lifted does not come back.
- Approvals: a yes sends one request, a request asks one question, and whoever has
  to answer can see it.
- Credentials: what was purged stays purged, and a secret goes only where it was
  configured to go.

`PROJECT.json` lists the hazards behind these, each at its line.

## 2. Modules

```
BudgetAccount            what a budget promises: an abstract account per generation
BudgetHolds              the five scripts and Redis losing keys; implements BudgetAccount
  BudgetHolds_proofs     theorems about both, and what the modules below reuse of them
  MCBudgetHolds          values of the constants for TLC (as every MC module)
  BudgetGateway          EXTENDS BudgetHolds: handlers, policy cache, Postgres, rebuilds
    BudgetGateway_proofs   also EXTENDS BudgetHolds_proofs
    MCBudgetGateway
  SpendLedger            EXTENDS BudgetHolds: rows, checkpoint, cron, decisions, rebuild
    SpendLedger_proofs     also EXTENDS BudgetHolds_proofs
    MCSpendLedger
  PeriodLimit            EXTENDS BudgetHolds: the period snapshot in the same scripts
    PeriodLimit_proofs     also EXTENDS BudgetHolds_proofs
    MCPeriodLimit
  ChainLedgers           EXTENDS BudgetHolds: delegation and sub-agent ledgers
    ChainLedgers_proofs    also EXTENDS BudgetHolds_proofs
KillSwitch               stops: the record in Postgres, the copy in Redis
  KillSwitch_proofs
Approvals                questions, pointers, queues
DelegationRevocation     the record, the exchange, the copy
CredentialCache          address and secret behind one fence
MCControl                ChainLedgers, KillSwitch, Approvals, DelegationRevocation side by side
  Control_proofs           approvals and revocation, and the four together
MCGatewayCaches          BudgetGateway and CredentialCache side by side
  Caches_proofs            the credential cache, and the two together
```

`PeriodLimit` and `ChainLedgers` take the transitions of `BudgetHolds` and add to
each script what it does to their own keys, in the same step. `MCControl` and
`MCGatewayCaches` put components that share no state next to each other: the
variable `focus` says whose behaviour this is, the others stand still, and the
state space is the sum of theirs and not the product. That loses nothing, since no
action of one reads or writes what another keeps; `ControlsApart` and `CachesApart`
prove that such a behaviour is one of each of its components.

### BudgetHolds

| TLA+ | code |
|---|---|
| `epoch`, `fmt`, `present`, `reserved`, `spent` | the keys of `k` (holds.ts 72-90); `present` is which counters EXIST |
| `hold[a]` | the hash `hold:<agent>:<attempt>`: state, phase, generation stamp, estimate, applied figure, `dg`; `gone` once Redis no longer has it |
| `used` | history: generations are UUIDs and never repeat |
| `StateLost`, `OpenReply`, `Open` | `OPEN_LUA`, with `Modes` the value of `dbEstablished`: `-` unbudgeted, `0` never established, `1` established with a generation, `2` legacy |
| `SettleReply`, `Applied`, `Settle` | `SETTLE_LUA`: anomaly, replay, conflict, degraded, applied |
| `DispatchReply`, `Dispatch` | `DISPATCH_LUA` |
| `Rebase`, `Raise` | `REBASE_LUA`, `RAISE_LUA` |
| `Lose`, `LoseHold` | eviction, expiry (external) |

One script is one action, because Redis runs it atomically. Here the callers are
arbitrary: any mode, any generation, any figures, in any order. Sums over holds
are cardinalities of sets of `<<attempt, unit>>` pairs, which needs no recursion
and keeps the module within reach of the prover.

### BudgetGateway

The callers become the code's. `call[a]` is one `runAttempt` (a failover is
another attempt with its own id): read the policy (`ReadPolicy`: cache, Postgres,
or unreadable), open (`OpenHold`, `OpenUnanswered`), tell Postgres the minted
generation (`RecordGeneration`), refuse (`RefuseHeld`), take the dispatch
permission, send, settle or release. `Strand` is a handler that is killed or
whose settle fails, at any step. `op[o]` is a rebuild in its four steps: Postgres,
the index of holds, their records, `REBASE_LUA`. `row` and `cached` are the
generation in Postgres and in the policy cache; a fill that began before a purge
does not land after it (the fence).

### SpendLedger

What happens to the figures. `log[a]` follows a call to its row: inserting (with
its `created_at` taken) and committed are two steps. Two timestamps matter to the
code, so time is two sets: `aged`, the rows older than the fold's cutoff, and
`under`, the rows older than the checkpoint's watermark. `Fold` is
`reconcile_agent_spend`, `CronRaise` the `RAISE_LUA` call that follows it, apart
because the cron may die between the two. `Resolve` and `RecordDecision` are the two
steps of the resolve route, `RebuildSum` and `RebuildLand` the two halves of a
rebuild. The handler's steps are shortened here: only a sent call leaves a row
that counts.

`Races` names orders of events under which the code's claims fail or are waived
in its own comments. The passing runs leave them out and say so by
`Races = {}`: what they show, they show outside these orders of events.

| race | why it is set apart |
|---|---|
| `prompt_cron` | a fold within the lag of a rebuild moves the watermark back: finding, run `ledger_promptcron` |
| `counted_row` | a hold whose row the cron has already raised is resolved as spent: Redis charges the call twice until a rebuild (`ChargeHasACause` fails) |
| `late_decision` | a decision recorded between a rebuild's sum and its write to Redis is subtracted from its row though nothing counted it (`RecordIsCounted` fails) |
| `late_commit` | a rebuild while a row is being inserted: the residual migration 0055 states (lines 200-205) |
| `correction` | a decision corrected after rows were netted against it: takes effect at a rebuild |

Naming a race in a `.cfg` lets it in and shows the failure in brackets.

### BudgetAccount

An account per attempt: `Unopened`, open with an estimate, closed with a charge; a
call is admitted into the current generation within the cap, sent at most once,
closed once, and only while its generation is current. There are no keys, replies or
retries in it. `BudgetHolds` maps a hold to its account and the live epoch to
`current` (`Account` in `BudgetHolds`, property `MeetsAccount`); replays, refusals,
degraded replies and losses of counters map to stutters, so the property says that
none of them commits, refunds or reopens anything.

### PeriodLimit

| TLA+ | code |
|---|---|
| `base` | `pbase:`: generation, kind, period key, `spent_cost` when the period began, cap |
| `PeriodModes` | what the caller of `OPEN_LUA` knows of the limit: none, one, unknown, or nothing asked |
| `Rolled`, `SettleBase` | the roll to a later period, before the charge is added |
| `RaisedBase`, `PeriodRebase` | the shift when the cron raises `spent_cost`, the rewrite by a rebuild |
| `now` | a parameter of every action: each caller brings its own clock |

### ChainLedgers

`ledger` is `dl:` and `sl:`, `exchanged` the rows of `delegation_exchanges`,
`creating` an exchange between its row and its ledger. `ChainOpen` asks and reserves
on every ledger of the call in the eval of the hold and stamps them on it;
`ChainSettle` moves the stamped ones, also when the agent's counters are degraded. A missing
delegation ledger refuses; a missing sub-agent's is zero. `SubsIdleOutUnused`: a sub-ledger
expires a day after its last use (`SUBAGENT_LEDGER_TTL_S`) and a call lasts minutes, so
it does not idle out under an open call in the checked run. The hourly count of new
sub-ledgers is a free choice.

### KillSwitch

`armed` is `kill_switch_records`, `flags`, `loaded` and `disarms` the keys in Redis. A
press is arm (`ArmFlag`, save the row) or disarm (delete the row, `DisarmBump`, clear),
write by write, each of which may fail or lose its reply; a call reads flag and
marker, and without a marker reads generation and rows and writes them back
(`WRITE_BACK_LUA`, only if the generation stands). Two constants name what the
code promises nothing about, and the run leaves out: `OpposedPresses`, one stop armed and
lifted by two requests at once (whichever write is last wins), and `LoudFlushes`, Redis
losing everything inside a reload or an arm rather than between them. A session's call
reads its two keys in parallel; that they may straddle another call's reload is left out too.

### Approvals

`question`, `pointer`, `queue` are the keys `apv:`, `apvfp:`, `apvq:`, each with its
own expiry; `Check`, `Decide`, `Attach` the three scripts; `Ask` and `Poll` the loop of
`awaitApproval`, in which a lost reply is one more caller. Time is one clock: the script's
cutoff is computed at the edge and Redis expires keys by its own, and the model takes
the two to agree.

### DelegationRevocation

`revoked` and `watermark` are the record in Postgres, `copied` and `copiedMark` what the
proxy reads. An exchange reads the record and mints a visa in two steps
(`ReadRecord`, `Mint`); an owner records and then copies (`RevokeOne`/`RevokeAll`,
`CopyOne`/`CopyMark`), and may die between. `Admits` is the proxy's check. `ExchangeFor`
bounds how long an exchange takes from its read to its visa; the visa's life counts
from the mint, so `RevokedWithinOneVisa` allows both. Time is one clock: `verifyDelegationChain`'s
tolerance for a link signed up to 30 seconds ahead (`IAT_SKEW_S`) is left out, and with it a link
that a revoke-all does not reach because it is dated after it.

### CredentialCache

| TLA+ | code |
|---|---|
| `rows` | every version of `provider_credentials` and the Vault secrets; a value is named by the version it was read at |
| `fence`, `place`, `sealed` | `cred-fence:`, `endpoint:`, `credential:`; tokens are never used twice |
| `Change`, `Purge` | an operator's commit, and the purge after it, which may fail and is not repeated |
| `ReadFence` .. `CheckFence` | `resolveEndpoint`, step 6 and step 6b, one action per await |
| `SendPermitted` | `consumeDispatchPermission` and the `fetch` that follows it once granted; it may also refuse |
| `Begins`, `LandFill` | `waitUntil(setCached...)` and `FENCED_FILL_LUA`: a fill outlives its call |

`LateLosses` lets the fence vanish while somebody who read none is still under way. The
fence outlives the values by a factor of 1,440, and only its eviction could do it; with
it `PurgedIsForgotten` fails, since absent before and absent after compare equal.
`overtaken` marks a change made before the previous one's purge landed:
`PairWasConfigured` excepts it, because an endpoint edit followed by a rotation then
sends the new secret to the old address under an unmoved fence. The comment in
step 6b says the fence "closes that window, because every one of those mutations
rotates it": it does, but after the commit.

The fence is read for the last time in step 6b, and the dispatch permission is awaited after it,
a round trip to Redis that is retried once. A purge that lands in between does not stop the
call: it leaves with the pair it has, which one version had and which the purge retired. That is what
the code gives, and `RetiredFailsTheCheck` speaks of the check, not of the send.
`PairWasConfigured` does not depend on it: a call changes its pair no more.

## 3. Runs

| run | question | distinct states |
|---|---|---|
| `budget_fenced` | all invariants and action properties of the store under fenced callers, every key evictable, and the store as an implementation of `BudgetAccount` | 78,088 |
| `period_clocks` | two days, clocks and views of the limit that disagree, rebuilds, floors and evictions: no usage handed back, no period over its limit | 277,857 |
| `gateway_first` | two first calls of a new or legacy agent: never bricked, durable before sent, and every hold closes (liveness) | 212,386 |
| `gateway_caches` | two concurrent rebuilds that may stop anywhere, a call and a resolve: Redis is never ahead of Postgres, reserved is exact; and a credential's changes under a call: nothing purged returns, pairs were configured, nothing retired passes the last check | 1,524,820 |
| `gateway_flush` | Redis loses everything at any moment | 1,260,969 |
| `ledger_rows` | rows, crons that die and the rebuild, with a hold lost: a row reaches Redis in the end (liveness) | 233,300 |
| `ledger_decisions` | rows against operators' decisions, with the spend counter lost: each row counted, once | 590,212 |
| `control` | caps of links and sub-agents; stops saved and lifted; one send per yes, one question per request, all of them listed; revocations at once or within a visa and an exchange | 2,008,088 |

Each property has a mutant of the code in the modules (operators with a suffix,
such as `SettleReply_NoFence`) under which TLC finds it violated.

The violation runs are disagreements between the code and what it says of itself:

| run | what the code says | what it does |
|---|---|---|
| `budget_legacy` | an epoch alone decides that counters are protected (holds.ts 458-461) | the legacy branch re-seeds missing counters of a live generation |
| `gateway_survivors` | open holds survive a rebuild, "resolve them individually" (docs/budget-recovery.md 341-343) | the generation fence refuses every later resolve |
| `ledger_byhand` | after a healthy resolve "the rebuild reads it from the checkpoint the mirror maintains" (resolve/route.ts 121-122), and a figure entered by hand goes to `agent_spend_adjustments` (docs/budget-recovery.md 423-424) | the rebuild sums `agent_logs` and the decisions only, and there is a decision only when the counters were lost: the charge is dropped |
| `ledger_promptcron` | "no row is ever lost or double-counted" (0004, lines 7-9) | a cron within the lag of a rebuild folds rows a second time |

Met while modelling, and recorded among the hazards instead: after a flush, a call whose
policy row could not be read mints a generation that Postgres does not take, because an
update that matched no row counts as recorded (holds.ts 1655), so `DurableBeforeSent`
is checked without flushes and `FencedSendIsDurable` with them; an operator's
figure that is too high, entered before the settle, outweighs an exact measurement.

### Bounds, and why they are enough

- **Attempts**: two, except in `gateway_caches`, where two operators meet one call, and
  in the one-call violation runs (`gateway_flush` has two calls and one operator).
  Every property is about one attempt, or about one attempt and whatever else
  moves the same counter; the second call, the operator and the cron supply that.
- **Dims**: one. The scripts treat tokens and micro-cents alike and independently,
  except that a state check fails when any counter is missing; with one dimension
  `reserved` and `spent` are still lost separately. The proofs hold for any set.
- **Generations**: two or three: one live, one or two rebuilds or mints. A generation
  is used once, as a UUID is, so behaviours end when they run out.
- **Amounts** up to `MaxUnits` = 2, estimates and figures chosen so that usage may
  be below, at or above the estimate; `Cap` of one or two so that one or two calls fit.
- **Retries**: one, which is the code's (`REDIS_RETRY`). A flush does not fall
  between a request and its retry 50 ms later (`Flush`), and an open is not retried
  after its own hold was lost (`OpenAny`).
- **Ledger**: an insert commits within the lag (what the lag is for); one rebuild and
  one cron at a time; a `spent` decision is above zero; caps are not enforced, since
  the properties are about figures and not about admission.
- **Periods**: two days, one kind of period at a time, a limit of one unit; what matters is
  one boundary, and callers on both sides of it.
- **Links and sub-agents**: one of each, with a cap of one and two calls, so that the second
  call is the one to refuse.
- **Stops**: one that calls read together with the marker and one they read apart; one press
  and two calls, one of which reloads while the other decides; one disarm.
- **Approvals**: two requests, two questions, two waiting calls and a queue of one, which
  is full as soon as one asks; a clock of five instants, on which every state expires.
- **Delegation**: one link, one exchange, two owners; a clock of five seconds, a link that
  lives longer than a visa and a copy that outlives the link, as in the code.
- **Credentials**: two, two addresses, two changes, one fill and one call in flight. Fills
  outlive the call that began them, so the next call meets the last one's.
- The proofs of section 4 hold without any of these bounds where there is one.
- Caps, limits and policies do not change during a run. `NeverBricked` is stated
  with no loss and no rebuild, both of which legitimately lead to refusals.
- Deadlock is checked, except in `control`, whose clocks stop at their bound
  (`LastTime`, `LastSecond`): no other run stops.
- Symmetry over attempts, generations and operators is used for safety only.

### Fairness

`FairGateway` assumes only that a handler that is not killed takes its next step
(`WF` on `Handler`): the runtime resolves every await, and Redis or Postgres answers
or times out. It assumes nothing about operators, purges or expiry; a lost reply
can happen any time, but the client retries once and then gives up, so it cannot
happen for ever. `EveryHoldCloses` excludes handlers that were stranded.

`FairLedger` assumes that Postgres commits what it accepted and time passes (`WF` on
`Commit`, `Age`), that the cron is scheduled (`WF` on `Fold`; cron route, line 19),
and that not every cron dies between its fold and its raise (`SF` on `CronRaise`:
weak fairness would not do, since each death disables the raise). It holds on
deployments that schedule the cron, which a local installation does not
(TUTORIAL.md, lines 627-628).

## 4. Proofs

TLAPS checks these for every value of the constants. Every invariant that a passing run
checks is stated by one of them:

| module | theorems | assumed |
|---|---|---|
| `BudgetHolds_proofs` | `TypeOK`, `DispatchedIsNeverReleased`, `FirstSettleIsFinal` | finitely many attempts, natural amounts |
| | `ReservedCoversOpen`, `SpentCoversCharges`, `AdmittedWithinCap`, `DegradedMeansLost`, `LostCountersStayLost`, `SpendNeverFalls`, `EpochProtectsCounters`, and `MeetsAccount`: the scripts implement the account | also `FencedModes` |
| `BudgetGateway_proofs` | `GatewayTypeOK`, `ReleasedWasNotSent`, `FencedSendIsDurable`; the store's `ReservedCoversOpen`, `SpentCoversCharges`, `AdmittedWithinCap`; every step is a step of the account | those of `BudgetHolds` |
| | `MeetsAccount`, the first state included | also: the agent is not yet running |
| | `RedisNeverAhead` | also `Established`: the agent is running, Redis is not flushed |
| | `NeverBricked`, `DurableBeforeSent` | also `OnlyCalls`: no operator, no flush |
| | `ReservedIsOpen` | also not `Flushes` |
| `SpendLedger_proofs` | `LedgerTypeOK`, `RowCarriesCharge`; the store's three and `DegradedMeansLost`; every step is a step of the account | those of `BudgetHolds` |
| | `ChargedOnce` | also `OneFigureEach`: no `prompt_cron`, and not both `correction` and `late_decision` |
| | `RecordIsCounted` | also `NothingSlipsBy`: no `prompt_cron`, `late_commit`, `late_decision` |
| | `ChargeHasACause` | also `OneCauseEach`: no `prompt_cron`, `correction`, `counted_row` |
| `PeriodLimit_proofs` | `PeriodTypeOK` | those of `BudgetHolds`, `SnapshotAssumption` |
| | `PeriodUsageCovers`, `PeriodWithinLimit`, the store's three, `MeetsAccount` | also `Protected`: `FencedModes`, or no unbudgeted caller and no counter evicted |
| `ChainLedgers_proofs` | `ChainTypeOK`, `DelegationWithinCap` | those of `BudgetHolds`, `ChainAssumption` |
| | `SubAgentWithinCap` | also `SubsIdleOutUnused` |
| | `MeetsAccount` | also `FencedModes` |
| `KillSwitch_proofs` | `KillTypeOK` | none |
| | `SavedStopIsEnforced`, `LiftedStaysLifted` | `Orderly`: not `OpposedPresses`, not `LoudFlushes` |
| `Control_proofs` | `ApprovalsTypeOK`, `YesSendsOnce`, `OneQuestionPerRequest`, `PendingAreListed` | the named assumptions of `Approvals` |
| | `RevocationTypeOK`, `ImmediateMeansNow`, `RevokedWithinOneVisa` | a copy outlives a link (`RevocationAssumption`) |
| | `ControlTypeOK` | those of its four components |
| `Caches_proofs` | `CredentialTypeOK`, `CachesTypeOK` | those of its two components |
| | `PurgedIsForgotten`, `PairWasConfigured`, `RetiredFailsTheCheck` | also not `LateLosses` |

**The hold store.** `FencedModes` says that callers are fenced (`0`, `1`), and is needed:
with legacy callers and every key evictable `EpochProtectsCounters` is false
(`budget_legacy`). The inductive invariant `BudgetInv` adds to the properties
four facts without which they are not inductive:

- `NonNegative`: fenced callers never drive a counter below zero, so that a charge
  on top of a lost key cannot hide behind a negative balance;
- `StampsUsed`: every hold's stamp and the live epoch are in `used`, so a fresh
  generation has no hold, and all three sums start at zero after a mint or a rebuild;
- `OpenedIsStamped`: under fenced callers every hold carries a generation, so the
  fence of `SETTLE_LUA` applies to it;
- `AdmittedWithinCap` goes through only together with `ReservedCoversOpen` and
  `SpentCoversCharges`: the script compares the cap with the counters, the property
  speaks of the holds, and the two lower bounds connect them.

`DegradedMeansLost` is what lets a degraded settle skip the counters: the generation is
damaged, so no open of that generation is admitted while its charge is missing. There is
one lemma per script and per loss, combined in `NextInv`; underneath are facts about
cardinalities of unit sets (`ColumnSize`, `Grows`, `Shrinks`).

**The refinement** maps each script to a step of the account. The one that needs
`BudgetInv` is the open: the account admits a call only within the cap of what holds
commit, the script asks the counters. It is stated for `GuardedStep`, a step that
opens a hold only for a caller who finds the generation whole, and the modules
above prove their own steps to be such steps and so inherit both
`BudgetInv` and the account: fenced callers are guarded whatever is lost, and callers of
mode `2` are while no counter goes missing from a live generation.

**The gateway.** Its handlers send the modes the code does, `2` among them, so it is not
fenced. `StoreInv` holds all the same: here keys are lost in a flush, which takes the
epoch with the counters, so that a live generation has all of its counters and the legacy
branch of `OPEN_LUA` finds nothing to re-seed. The rest is what each handler knows of its
hold. `PlaceInv`: an attempt that has not asked has no hold, and no hold is lost between an
open and its retry, so the retry is a replay. `GatewayInv`: the permission a handler
consumed shows in the hold (`Sending`), a hold opened under a policy that names a generation
carries that one, and whatever names a generation names a recorded one.
`FirstInv`, with calls alone, says that the row, what handlers still owe Postgres and the
holds all name one generation, the live one, and that a call allowed further has seen it
recorded. `StoreExact` makes `ReservedIsOpen` inductive: a live generation has all its
counters, so a rebuild's seed finds the counter there and stands aside; and before there is
a generation, nothing was listed to seed (`SeedsExact`). An agent that is already running
starts past the account's first generation, so `MeetsAccount` is stated for the others and
the step of the account for all.

**The ledger of rows.** `LedgerInv` holds in every order of events. It adds to `BudgetInv`
that a handler which still owes its settle was told nothing and nobody else
closed its hold as a call, and that what a settle answered is what the row certifies
(`CallInv`); that a watermark covers calls whose insert had begun (`RowsInv`); and that a
decision is about a closed hold (`DecisionInv`). What the checkpoint and Redis count
depends on the order, and each theorem names the orders it excludes out of `Races`,
five that the code does not prevent. `ledger_promptcron` shows that `prompt_cron` does break
`ChargedOnce`. On top of `LedgerInv`:

- `CountedOnce`: the checkpoint never exceeds the largest figure of each attempt the ledger
  knows, whichever of row and decision came first;
- `KeptCounted`: while the agent may spend, the checkpoint holds every figure below the
  watermark, because a rebuild sums everything again before it lets the agent spend, and a
  decision made without counters is always followed by one;
- `PendingIsKnown` and `ChargesCaused`: checkpoint, the total a cron or a rebuild carries to
  Redis, and the spend counter are each bounded by settles, rows and decisions, so none
  can bring a charge that nobody made.

The ledger's system starts from an established agent, so of the account the theorem states
the step and not the first state.

**Periods** (`PeriodInv`). `PeriodUsageCovers` is inductive once no call is counted in a day
later than the snapshot's (`PeriodsPast`): a roll to a new day then starts with nothing charged
in it. The limit needs more than the property says, which is silent while the snapshot is
lost: the calls in flight are within the limit by themselves (`OpenWithinLimit`), so that
one taken anew starts within it. `Protected` is needed: a legacy caller goes on
after the reservation counter was evicted and counts the estimates in flight from zero, and an
unbudgeted caller's settle brings an evicted spend counter back from zero, under the
snapshot. (TLC violates `PeriodWithinLimit` with mode `2` and both counters in
`Evictable`, and `PeriodUsageCovers` with mode `-` and the spend counter there, in the
instance of `period_clocks` so changed.) `PeriodTypeOK` needs no hypothesis.

**The chain ledgers** (`ChainInv`). One invariant serves both kinds. A ledger counts exactly
the open attempts that carry its stamp (`CountedAreStamped`), and while it is there its two
fields cover what those hold and what the closed ones were charged (`LedgerCovers`); so the
script's comparison with the cap bounds what is committed. A ledger that can still be made has
counted nobody (`Unmade`): that is what the exchange's insert-once row buys a link, and why a lost
one cannot come back empty. A sub-agent's ledger does come back, so its half needs that no open
call remembers the one that was lost. Its scripts are those of the store, so every behaviour
is one of `BudgetHolds`, and the account follows.

**The kill switch** (`KillInv`). While the generation a reload read still stands, it has seen
no row of a lifted stop, nor of one whose disarm has passed its bump (`Current`); and what
it has read covers, together with what Redis holds, every stop that is owed (`Covers`).
So its write-back brings back no lifted stop, and a marker implies that every owed stop is
flagged.

**Approvals** (`ApprovalsInv`). A question still standing is the one its request points to,
for as long as it lives (`Reached`); a pending one is queued, and the queue outlives it
(`Waits`); a yes is used at most once, and only a yes is (`Spent`).

**Revocation** (`RevocationInv`). A link the proxy must refuse is below the copied mark, or
its key outlasts every visa made of it (`Covered`); an exchange that still carries a dead link
read before it died, at most `ExchangeFor` ago (`Held`, `Dying`).

**Credentials** (`CacheInv`). Whoever quotes the fence as it stands holds nothing older than
the last purge, since a purge hands out a token nobody can have seen (`WellRead`,
`WellFilled`); while no change has overtaken a purge, at most the last one awaits its own
(`Latest`), and it moved the address or the secret, not both (`OneField`). Types need none of
that, only that what is read is a version there is (`CachesTyped`).

Only model-checked:

- `RowReachesCounter` and `EveryHoldCloses`, the two liveness properties: fairness and
  `ENABLED` are out of the prover's reach;
- what legacy and unbudgeted callers do to counters that may be evicted (`budget_legacy`);
- that the orders `Races` names are harmful: `ledger_promptcron` shows one.

The sums are cardinalities of sets and not recursive functions, for which the prover
would need induction over data.

## 5. Not modelled

- Cap and limit changes, the policy document, the gate's decision, the price tables, stream
  parsing: the models take any estimate and any reported figure instead.
- Periods together with chain ledgers: the scripts ask them one after the other and refuse
  if one does, and neither reads the other's keys.
- `agents.spent_*` mirror, `agent_period_spend`, receipts and audit rows: nothing that
  moves money reads them.
- The limit of a thousand holds in a rebuild's listing; the hour's count of sub-ledgers.
- The platform kill, the denylist and the demo's self-expiring arm: single writes.
- Verifying a delegation's chain, a passport, a visa or a receipt: pure functions over
  signatures; the models take valid ones.
- Failover's order of attempts: each attempt is a call with an id of its own.
- The services proxy, which opens and settles holds the same way, and a policy cache that
  works as the credential cache does, apart from the generation it carries.
- Device login and the control API's idempotency keys: one record each, guarded by `NX` or
  deleted on read; worth a small model after the parts above.
- Everything listed as `not_modelled` in `PROJECT.json`, each with its reason. Most of the
  repository's lines are there: the dashboard, the command line, scope and receipt
  views, which keep no shared state of their own.

## 6. What is left

1. Device login, idempotency of the control API, and failover's sequence of attempts.
2. A period's abstract account, a counter per period, which the derived usage refines.
3. Proofs for callers of mode `2` whose counters may be evicted: what they keep, given that
   `EpochProtectsCounters` is not among it.
