------------------------- MODULE BudgetGateway_proofs -------------------------
(***************************************************************************)
(* Theorems about BudgetGateway for any number of attempts, operators and  *)
(* generations and any start: the types, that nothing released was sent,   *)
(* that a fenced call is sent in a recorded generation only, and that the  *)
(* hold store's guarantees, proved there for callers that are fenced, hold *)
(* for the handler's calls, of which the first are not; and, where nothing *)
(* is lost, that Redis is never ahead of Postgres under rebuilds, and that *)
(* first calls never leave the two naming different generations.           *)
(***************************************************************************)
EXTENDS BudgetGateway, BudgetHolds_proofs

Recording == {"recording", "refusing", "reseeding"}
Finished == {"answered", "done", "stranded"}

\* A policy that names a generation is established, in a recorded one.
Names(policy) == policy.epoch # NoEpoch => policy.established /\ policy.epoch \in recorded

\* A handler at one of these steps has consumed its permission.
Sending(a) == call[a].pc \in {"sending", "answered"} \/ call[a].sent

\* What a handler knows, against its hold.
CallInv(a) ==
  /\ Names(call[a].seen)
  /\ call[a].pc \in Recording => call[a].owed # NoEpoch
  /\ call[a].pc = "idle" => hold[a].st = "absent"
  /\ call[a].sent => call[a].pc \in Finished
  /\ Sending(a) => /\ hold[a].ph = "dispatch_may_have_happened"
                   /\ hold[a].st \notin {"absent", "released"}
  /\ hold[a].st # "absent" /\ call[a].seen.epoch # NoEpoch
       => hold[a].ep = call[a].seen.epoch

\* A rebuild under way has recorded its generation.
OperatorsInv == \A o \in Operators : op[o].pc # "idle" => op[o].epoch \in recorded

GatewayInv ==
  /\ GatewayTypeOK
  /\ Names(row)
  /\ cached # NoRow => Names(cached)
  /\ OperatorsInv
  /\ \A a \in Attempts : CallInv(a)

-----------------------------------------------------------------------------
(* What the scripts do to the holds *)

\* The parts of a hold that a handler's knowledge is about.
Kept(b) == hold'[b].st = hold[b].st /\ hold'[b].ph = hold[b].ph /\ hold'[b].ep = hold[b].ep

\* An open hold is closed, as released only if it was never dispatched.
Closes(a) ==
  /\ hold[a].st = "open" /\ hold'[a].st \in Terminal
  /\ hold'[a].ph = hold[a].ph /\ hold'[a].ep = hold[a].ep
  /\ hold'[a].st = "released" => hold[a].ph = "pre_dispatch"

\* SETTLE_LUA closes one open hold at most, and leaves the generation alone.
LEMMA SettleEffect ==
  ASSUME TypeOK, NEW a \in Attempts, NEW outcome \in Outcomes,
         NEW known \in Amount, NEW certain \in [Dims -> BOOLEAN],
         Settle(a, outcome, known, certain)
  PROVE  /\ TypeOK'
         /\ epoch' = epoch
         /\ \A b \in Attempts : b # a => Kept(b)
         /\ Kept(a) \/ Closes(a)
<1> DEFINE charge == Applied(a, outcome, known, certain)
<1>1. TypeOK'
  BY SettleType
<1>2. ASSUME NEW lost \in BOOLEAN, CloseHold(a, outcome, charge, lost),
             SettleReply(a, outcome) \in {"applied", "degraded"}
      PROVE  (\A b \in Attempts : b # a => Kept(b)) /\ Closes(a)
  <2> HIDE DEF charge
  <2>1. hold[a].st = "open"
    BY <1>2 DEF SettleReply
  <2>2. outcome = "not_dispatched" => hold[a].ph = "pre_dispatch"
    BY <1>2, <2>1 DEF SettleReply, TypeOK, Hold
  <2>3. /\ TerminalState(outcome) \in Terminal
        /\ TerminalState(outcome) = "released" => outcome = "not_dispatched"
    BY DEF TerminalState, Terminal, Outcomes
  <2>4. hold \in [Attempts -> Hold]
    BY DEF TypeOK
  <2>5. /\ \A b \in Attempts : b # a => hold'[b] = hold[b]
        /\ hold'[a].st = TerminalState(outcome)
        /\ hold'[a].ph = hold[a].ph /\ hold'[a].ep = hold[a].ep
    BY <1>2, <2>4 DEF CloseHold, Hold
  <2>6. QED
    BY <2>1, <2>2, <2>3, <2>5 DEF Kept, Closes
<1>3. CASE SettleReply(a, outcome) = "applied"
  <2>1. CloseHold(a, outcome, charge, FALSE) /\ UNCHANGED epoch
    BY <1>3 DEF Settle
  <2>2. QED
    BY <1>1, <1>2, <1>3, <2>1
<1>4. CASE SettleReply(a, outcome) = "degraded"
  <2>1. CloseHold(a, outcome, charge, TRUE) /\ UNCHANGED epoch
    BY <1>4 DEF Settle
  <2>2. QED
    BY <1>1, <1>2, <1>4, <2>1
<1>5. CASE UNCHANGED vars
  BY <1>1, <1>5 DEF vars, Kept
<1>6. QED
  BY <1>3, <1>4, <1>5 DEF Settle

\* OPEN_LUA opens one hold at most, never over one that is there, stamps it with
\* the generation it leaves in force, and moves that only by a mint.
LEMMA OpenEffect ==
  ASSUME TypeOK, NEW a \in Attempts, NEW mode \in {"0", "1", "2"}, NEW expected,
         NEW est \in Estimates, NEW mint \in Generations, NEW admit \in BOOLEAN,
         Open(a, mode, expected, est, mint, admit)
  PROVE  /\ TypeOK'
         /\ \A b \in Attempts : b # a => Kept(b)
         /\ \/ Kept(a)
            \/ /\ hold'[a].st = "open" /\ hold'[a].ph = "pre_dispatch"
               /\ hold'[a].ep = epoch' /\ epoch' # NoEpoch
         /\ \/ epoch' = epoch
            \/ epoch = NoEpoch /\ epoch' = mint /\ mode # "1"
         /\ OpenReply(a, mode, expected, est, admit) # "state"
            => /\ LiveEpoch(mode, mint) = epoch' /\ epoch' # NoEpoch
               /\ mode = "1" => epoch' = epoch /\ epoch = expected
         /\ OpenReply(a, mode, expected, est, admit) = "state" => UNCHANGED vars
<1> DEFINE reply == OpenReply(a, mode, expected, est, admit)
<1>1. TypeOK'
  BY OpenType
<1>2. CASE reply = "state"
  BY <1>1, <1>2 DEF Open, vars, Kept
<1>3. CASE reply # "state"
  <2>1. mode = "1" => epoch = expected /\ epoch # NoEpoch
    BY <1>3 DEF OpenReply, StateLost
  <2>2. epoch' = IF Mints(mode) THEN mint ELSE epoch
    BY <1>3 DEF Open
  <2>3. /\ LiveEpoch(mode, mint) = epoch' /\ epoch' # NoEpoch
        /\ mode = "1" => epoch' = epoch
    BY <2>1, <2>2, BudgetAssumption DEF LiveEpoch, Mints
  <2>4. \/ epoch' = epoch
        \/ epoch = NoEpoch /\ epoch' = mint /\ mode # "1"
    BY <2>2 DEF Mints
  <2>5. CASE Reserve(a, mode, est, mint)
    <3>1. hold \in [Attempts -> Hold]
      BY DEF TypeOK
    <3>2. /\ \A b \in Attempts : b # a => hold'[b] = hold[b]
          /\ hold'[a].st = "open" /\ hold'[a].ph = "pre_dispatch"
          /\ hold'[a].ep = LiveEpoch(mode, mint)
      BY <2>5, <3>1 DEF Reserve, NoHold
    <3>3. QED
      BY <1>1, <1>3, <2>1, <2>3, <2>4, <3>2 DEF Kept
  <2>6. CASE UNCHANGED hold
    BY <1>1, <1>3, <2>1, <2>3, <2>4, <2>6 DEF Kept
  <2>7. QED
    BY <1>3, <2>5, <2>6 DEF Open
<1>4. QED
  BY <1>2, <1>3

\* An admitted open leaves its hold there; a replay found it there.
LEMMA OpenPlaces ==
  ASSUME TypeOK, NEW a \in Attempts, NEW mode, NEW expected,
         NEW est \in Estimates, NEW mint, NEW admit,
         Open(a, mode, expected, est, mint, admit),
         OpenReply(a, mode, expected, est, admit) \in {"replay", "opened"}
  PROVE  hold'[a].st # "absent"
<1>1. CASE OpenReply(a, mode, expected, est, admit) = "opened"
  <2>1. Reserve(a, mode, est, mint)
    BY <1>1 DEF Open
  <2>2. QED
    BY <2>1 DEF Reserve, NoHold, TypeOK
<1>2. CASE OpenReply(a, mode, expected, est, admit) = "replay"
  <2>1. UNCHANGED hold
    BY <1>2 DEF Open
  <2>2. QED
    BY <1>2, <2>1 DEF OpenReply, Exists
<1>3. QED
  BY <1>1, <1>2

\* DISPATCH_LUA marks one open hold as dispatched, if it grants.
LEMMA DispatchEffect ==
  ASSUME TypeOK, NEW a \in Attempts, Dispatch(a)
  PROVE  /\ TypeOK'
         /\ epoch' = epoch
         /\ \A b \in Attempts : b # a => Kept(b)
         /\ hold'[a].st = hold[a].st /\ hold'[a].ep = hold[a].ep
         /\ DispatchReply(a) = "granted"
            => hold[a].st = "open" /\ hold'[a].ph = "dispatch_may_have_happened"
<1>1. TypeOK'
  BY DispatchType
<1>2. hold \in [Attempts -> Hold]
  BY DEF TypeOK
<1>3. DispatchReply(a) = "granted" => hold[a].st = "open"
  BY <1>2 DEF DispatchReply, Exists, Hold, Terminal
<1>4. QED
  BY <1>1, <1>2, <1>3 DEF Dispatch, Kept, Hold

-----------------------------------------------------------------------------
(* One step of a handler                                                   *)

\* What CallInv reads of a handler is as it was.
Knows(a) ==
  /\ call'[a].pc = call[a].pc /\ call'[a].seen = call[a].seen
  /\ call'[a].owed = call[a].owed /\ call'[a].sent = call[a].sent

\* Going on to another step changes the step, and the retry, of one handler.
LEMMA GotoType ==
  ASSUME GatewayTypeOK, NEW a \in Attempts, NEW pc \in Steps
  PROVE  /\ Goto(a, pc) \in [Attempts -> Call]
         /\ Goto(a, pc)[a].pc = pc
         /\ Goto(a, pc)[a].seen = call[a].seen
         /\ Goto(a, pc)[a].owed = call[a].owed
         /\ Goto(a, pc)[a].sent = call[a].sent
         /\ ~Goto(a, pc)[a].retried
         /\ \A b \in Attempts : b # a => Goto(a, pc)[b] = call[b]
<1> DEFINE now == [call[a] EXCEPT !.pc = pc, !.retried = FALSE]
<1>1. call \in [Attempts -> Call] /\ Goto(a, pc) = [call EXCEPT ![a] = now]
  BY DEF GatewayTypeOK, Goto
<1>2. /\ now \in Call /\ now.pc = pc /\ now.seen = call[a].seen
      /\ now.owed = call[a].owed /\ now.sent = call[a].sent /\ ~now.retried
  BY <1>1 DEF Call
<1> HIDE DEF now
<1>3. QED
  BY <1>1, <1>2

\* What a handler knows of its call stays true while neither moves: Postgres
\* only ever records more generations.
LEMMA Undisturbed ==
  ASSUME NEW a \in Attempts, CallInv(a), Knows(a), Kept(a), recorded \subseteq recorded'
  PROVE  CallInv(a)'
BY DEF CallInv, Knows, Kept, Sending, Names, Recording, Finished

\* A step that moves one handler and its hold is as good as what it does to them.
LEMMA CallStep ==
  ASSUME GatewayInv, NEW a \in Attempts, TypeOK',
         UNCHANGED <<row, recorded, cached, op>>,
         call' \in [Attempts -> Call],
         \A b \in Attempts : b # a => Kept(b) /\ call'[b] = call[b],
         CallInv(a)'
  PROVE  GatewayInv'
<1>1. GatewayTypeOK'
  BY DEF GatewayInv, GatewayTypeOK
<1>2. ASSUME NEW b \in Attempts PROVE CallInv(b)'
  <2>1. CASE b = a
    BY <2>1
  <2>2. CASE b # a
    BY <2>2, Undisturbed DEF GatewayInv, Knows
  <2>3. QED
    BY <2>1, <2>2
<1>3. Names(row)' /\ (cached # NoRow => Names(cached))' /\ OperatorsInv'
  BY DEF GatewayInv, Names, OperatorsInv
<1>4. QED
  BY <1>1, <1>2, <1>3 DEF GatewayInv

\* A policy read that answers from the cache, from Postgres or not at all.
LEMMA ReadPolicyStep ==
  ASSUME GatewayInv, NEW a \in Attempts, ReadPolicy(a)
  PROVE  GatewayInv'
<1>1. PICK s \in {cached, row, NeverEstablished} \ {NoRow}, fill \in BOOLEAN :
         call' = [call EXCEPT ![a].pc = "opening", ![a].seen = s, ![a].fill = fill]
  BY DEF ReadPolicy
<1>2. s \in Row /\ Names(s)
  <2>1. NeverEstablished \in Row /\ Names(NeverEstablished)
    BY DEF NeverEstablished, Row, Names
  <2>2. /\ row \in Row /\ Names(row)
        /\ cached # NoRow => cached \in Row /\ Names(cached)
    BY DEF GatewayInv, GatewayTypeOK
  <2>3. QED
    BY <2>1, <2>2
<1>3. /\ call' \in [Attempts -> Call]
      /\ call'[a].pc = "opening" /\ call'[a].seen = s /\ call'[a].sent = call[a].sent
      /\ \A b \in Attempts : b # a => call'[b] = call[b]
  <2> DEFINE now == [call[a] EXCEPT !.pc = "opening", !.seen = s, !.fill = fill]
  <2>1. call \in [Attempts -> Call] /\ call' = [call EXCEPT ![a] = now]
    BY <1>1 DEF GatewayInv, GatewayTypeOK
  <2>2. /\ now \in Call
        /\ now.pc = "opening" /\ now.seen = s /\ now.sent = call[a].sent
    BY <1>2, <2>1 DEF Call, Steps
  <2> HIDE DEF now
  <2>3. QED
    BY <2>1, <2>2
<1>4. hold[a].st = "absent" /\ ~call[a].sent
  BY DEF ReadPolicy, GatewayInv, CallInv, Finished
<1>5. UNCHANGED <<vars, row, recorded, cached, op>>
  BY DEF ReadPolicy
<1>6. TypeOK' /\ \A b \in Attempts : Kept(b)
  BY <1>5 DEF vars, Kept, GatewayInv, GatewayTypeOK, TypeOK
<1>7. CallInv(a)'
  BY <1>2, <1>3, <1>4, <1>5 DEF vars, CallInv, Names, Sending, Recording
<1>8. QED
  BY <1>3, <1>5, <1>6, <1>7, CallStep

\* What a handler that is opening its hold leaves, whatever it learns of it.
LEMMA OpeningStep ==
  ASSUME GatewayInv, NEW a \in Attempts, call[a].pc = "opening",
         NEW est \in Estimates, NEW mint \in Generations, NEW admit \in BOOLEAN,
         Open(a, Mode(call[a].seen), call[a].seen.epoch, est, mint, admit),
         UNCHANGED <<row, recorded, cached, op>>,
         call' \in [Attempts -> Call],
         \A b \in Attempts : b # a => call'[b] = call[b],
         call'[a].pc \notin {"idle", "sending", "answered"},
         call'[a].seen = call[a].seen, call'[a].sent = call[a].sent,
         call'[a].pc \in Recording => call'[a].owed # NoEpoch
  PROVE  GatewayInv'
<1> DEFINE mode == Mode(call[a].seen)
<1> DEFINE expected == call[a].seen.epoch
<1>1. /\ mode \in {"0", "1", "2"}
      /\ expected # NoEpoch => mode = "1"
  BY DEF Mode, GatewayInv, CallInv, Names
<1>2. /\ TypeOK /\ CallInv(a)
      /\ Names(call[a].seen)
      /\ ~call[a].sent
  BY DEF GatewayInv, GatewayTypeOK, CallInv, Finished
<1>3. Open(a, mode, expected, est, mint, admit)
  OBVIOUS
<1> HIDE DEF mode, expected
<1>4. /\ TypeOK'
      /\ \A b \in Attempts : b # a => Kept(b)
      /\ Kept(a) \/ (hold'[a].st = "open" /\ hold'[a].ep = epoch')
      /\ OpenReply(a, mode, expected, est, admit) # "state" /\ mode = "1"
         => epoch' = epoch /\ epoch = expected
      /\ OpenReply(a, mode, expected, est, admit) = "state" => UNCHANGED vars
  BY <1>1, <1>2, <1>3, OpenEffect
<1>5. hold'[a].st # "absent" /\ expected # NoEpoch => hold'[a].ep = expected
  <2>1. CASE Kept(a)
    BY <1>2, <2>1 DEF Kept, CallInv, expected
  <2>2. CASE UNCHANGED vars
    BY <1>2, <2>2 DEF vars, CallInv, expected
  <2>3. QED
    BY <1>1, <1>4, <2>1, <2>2
<1>6. CallInv(a)'
  BY <1>2, <1>5 DEF CallInv, Names, Sending, Recording, expected
<1>7. QED
  BY <1>4, <1>6, CallStep

\* A handler is always in one of the three modes of a budgeted call.
LEMMA HandlerMode ==
  ASSUME GatewayInv, NEW a \in Attempts
  PROVE  /\ Mode(call[a].seen) \in {"0", "1", "2"}
         /\ call[a].seen.epoch # NoEpoch <=> Mode(call[a].seen) = "1"
BY DEF Mode, GatewayInv, CallInv, Names

\* What an open that answered asked of Redis, and what its handler makes of it.
Answers(a, est, mint, admit, seed) ==
  LET mode == Mode(call[a].seen)
      expected == call[a].seen.epoch
      reply == OpenReply(a, mode, expected, est, admit)
      owed == IF reply = "state" THEN NoEpoch ELSE Owed(mode, mint)
  IN  /\ Open(a, mode, expected, est, mint, admit)
      /\ call'[a].pc = AfterOpen(reply, owed, seed)
      /\ call'[a].owed = owed
      /\ owed \in Generations \cup {NoEpoch}
      /\ reply \in {"state", "replay", "denied", "opened"}
      /\ call' \in [Attempts -> Call]
      /\ call'[a].seen = call[a].seen /\ call'[a].sent = call[a].sent
      /\ ~call'[a].retried
      /\ \A b \in Attempts : b # a => call'[b] = call[b]

\* An open that answers is one run of the script.
LEMMA OpenAnswer ==
  ASSUME GatewayInv, NEW a \in Attempts, OpenHold(a)
  PROVE  \E est \in Estimates, mint \in Generations, admit \in BOOLEAN, seed \in BOOLEAN :
            Answers(a, est, mint, admit, seed)
<1> DEFINE mode == Mode(call[a].seen)
<1> DEFINE expected == call[a].seen.epoch
<1>1. PICK est \in Estimates, mint \in Generations, admit \in Verdicts, seed \in BOOLEAN :
         LET reply == OpenReply(a, mode, expected, est, admit)
             owed == IF reply = "state" THEN NoEpoch ELSE Owed(mode, mint)
         IN  /\ seed => reply = "denied" /\ ~admit /\ ~call[a].asked
             /\ RunOpen(a, mode, expected, est, mint, admit)
             /\ call' = [Goto(a, AfterOpen(reply, owed, seed)) EXCEPT
                            ![a].owed = owed, ![a].asked = @ \/ seed]
  BY Zenon DEF OpenHold
<1> DEFINE reply == OpenReply(a, mode, expected, est, admit)
<1> DEFINE owed == IF reply = "state" THEN NoEpoch ELSE Owed(mode, mint)
<1> DEFINE pc == AfterOpen(reply, owed, seed)
<1>2. /\ Open(a, mode, expected, est, mint, admit)
      /\ call' = [Goto(a, pc) EXCEPT ![a].owed = owed, ![a].asked = @ \/ seed]
  BY <1>1 DEF RunOpen
<1>3. reply \in {"state", "replay", "denied", "opened"}
  BY DEF OpenReply
<1>4. GatewayTypeOK /\ TypeOK
  BY DEF GatewayInv, GatewayTypeOK
<1>5. owed \in Generations \cup {NoEpoch}
  BY <1>4 DEF Owed, LiveEpoch, TypeOK
<1> HIDE DEF reply, owed, mode, expected
<1>6. pc \in Steps
  BY <1>3 DEF AfterOpen, Steps
<1> HIDE DEF pc
<1>7. /\ call' \in [Attempts -> Call]
      /\ call'[a].pc = pc /\ call'[a].owed = owed
      /\ call'[a].seen = call[a].seen /\ call'[a].sent = call[a].sent
      /\ ~call'[a].retried
      /\ \A b \in Attempts : b # a => call'[b] = call[b]
  <2> DEFINE next == Goto(a, pc)
  <2>1. /\ next \in [Attempts -> Call]
        /\ ~next[a].retried
        /\ next[a].pc = pc /\ next[a].seen = call[a].seen /\ next[a].sent = call[a].sent
        /\ \A b \in Attempts : b # a => next[b] = call[b]
    BY <1>4, <1>6, GotoType
  <2> HIDE DEF next
  <2> DEFINE now == [next[a] EXCEPT !.owed = owed, !.asked = @ \/ seed]
  <2>2. call' = [next EXCEPT ![a] = now]
    BY <1>2, <2>1 DEF next
  <2>3. /\ now \in Call /\ now.pc = pc /\ now.owed = owed
        /\ now.seen = next[a].seen /\ now.sent = next[a].sent /\ ~now.retried
    BY <1>5, <2>1 DEF Call
  <2> HIDE DEF now
  <2>4. QED
    BY <2>1, <2>2, <2>3
<1>8. admit \in BOOLEAN
  BY GatewayAssumption
<1>9. QED
  <2>1. Answers(a, est, mint, admit, seed)
    BY <1>2, <1>3, <1>5, <1>7 DEF Answers, pc, owed, reply, mode, expected
  <2>2. QED
    BY <1>8, <2>1

\* An open that answers: refused, admitted, or asked for once more.
LEMMA OpenHoldStep ==
  ASSUME GatewayInv, NEW a \in Attempts, OpenHold(a)
  PROVE  GatewayInv'
<1>1. PICK est \in Estimates, mint \in Generations, admit \in BOOLEAN, seed \in BOOLEAN :
         Answers(a, est, mint, admit, seed)
  BY OpenAnswer
<1>2. /\ call'[a].pc \notin {"idle", "sending", "answered"}
      /\ call'[a].pc \in Recording => call'[a].owed # NoEpoch
  BY <1>1 DEF Answers, AfterOpen, Recording
<1>3. call[a].pc = "opening" /\ UNCHANGED <<row, recorded, cached, op>>
  BY DEF OpenHold
<1>4. QED
  BY <1>1, <1>2, <1>3, OpeningStep DEF Answers

\* Without an answer the handler sends the same request again, or gives up.
LEMMA UnansweredType ==
  ASSUME GatewayTypeOK, NEW a \in Attempts, NEW giveUp \in Steps, Unanswered(a, giveUp)
  PROVE  /\ call' \in [Attempts -> Call]
         /\ call'[a].pc \in {call[a].pc, giveUp}
         /\ call'[a].pc = giveUp \/ call'[a].retried
         /\ call'[a].seen = call[a].seen /\ call'[a].owed = call[a].owed
         /\ call'[a].sent = call[a].sent
         /\ \A b \in Attempts : b # a => call'[b] = call[b]
<1>1. CASE call[a].retried
  <2>1. call' = Goto(a, giveUp)
    BY <1>1 DEF Unanswered
  <2>2. QED
    BY <2>1, GotoType
<1>2. CASE ~call[a].retried
  <2>1. call' = [call EXCEPT ![a] = [call[a] EXCEPT !.retried = TRUE]]
    BY <1>2 DEF Unanswered, GatewayTypeOK
  <2>2. QED
    BY <2>1 DEF GatewayTypeOK, Call
<1>3. QED
  BY <1>1, <1>2

\* An open without an answer may have run.
LEMMA OpenUnansweredStep ==
  ASSUME GatewayInv, NEW a \in Attempts, OpenUnanswered(a)
  PROVE  GatewayInv'
<1>1. GatewayTypeOK /\ call[a].pc = "opening" /\ UNCHANGED <<row, recorded, cached, op>>
  BY DEF GatewayInv, OpenUnanswered
<1>2. /\ call' \in [Attempts -> Call]
      /\ call'[a].pc \in {"opening", "releasing"}
      /\ call'[a].seen = call[a].seen /\ call'[a].owed = call[a].owed
      /\ call'[a].sent = call[a].sent
      /\ \A b \in Attempts : b # a => call'[b] = call[b]
  BY <1>1, UnansweredType DEF OpenUnanswered, AfterThrow, Steps
<1>3. CASE UNCHANGED vars
  <2>1. TypeOK' /\ \A b \in Attempts : Kept(b)
    BY <1>1, <1>3 DEF vars, Kept, GatewayTypeOK, TypeOK
  <2>2. CallInv(a)'
    BY <1>1, <1>2, <1>3 DEF vars, GatewayInv, CallInv, Names, Sending, Recording, Finished
  <2>3. QED
    BY <1>1, <1>2, <2>1, <2>2, CallStep
<1>4. CASE ~UNCHANGED vars
  <2>1. PICK est \in Estimates, mint \in Generations, admit \in Verdicts :
           RunOpen(a, Mode(call[a].seen), call[a].seen.epoch, est, mint, admit)
    BY <1>4 DEF OpenUnanswered
  <2>2. Open(a, Mode(call[a].seen), call[a].seen.epoch, est, mint, admit)
    BY <2>1 DEF RunOpen
  <2>3. call'[a].pc \notin Recording \cup {"idle", "sending", "answered"}
    BY <1>2 DEF Recording
  <2>4. QED
    BY <1>1, <1>2, <2>2, <2>3, OpeningStep, GatewayAssumption
<1>5. QED
  BY <1>3, <1>4

\* A handler that goes on without touching its hold, and did not send.
LEMMA GotoStep ==
  ASSUME GatewayInv, NEW a \in Attempts, NEW pc \in Steps,
         pc \notin Recording \cup {"idle"}, call[a].pc # "idle",
         call[a].sent => pc \in Finished,
         pc \in {"sending", "answered"} => Sending(a),
         TypeOK', \A b \in Attempts : b # a => Kept(b),
         Kept(a) \/ Closes(a),
         call' = Goto(a, pc), UNCHANGED <<row, recorded, cached, op>>
  PROVE  GatewayInv'
<1>1. GatewayTypeOK /\ TypeOK /\ CallInv(a)
  BY DEF GatewayInv, GatewayTypeOK
<1>2. /\ call' \in [Attempts -> Call]
      /\ \A b \in Attempts : b # a => call'[b] = call[b]
  BY <1>1, GotoType
<1>3. call'[a].pc = pc /\ call'[a].seen = call[a].seen /\ call'[a].sent = call[a].sent
  BY <1>1, GotoType
<1>4. Sending(a)' => Sending(a)
  BY <1>3 DEF Sending
<1>5. CallInv(a)'
  <2>1. CASE Kept(a)
    BY <1>1, <1>3, <1>4, <2>1 DEF CallInv, Kept, Names
  <2>2. CASE Closes(a)
    <3>1. hold'[a].st # "absent" /\ hold[a].st # "absent" /\ hold'[a].ep = hold[a].ep
      BY <2>2 DEF Closes, Terminal
    <3>2. Sending(a)' => /\ hold'[a].ph = "dispatch_may_have_happened"
                         /\ hold'[a].st \notin {"absent", "released"}
      BY <1>1, <1>4, <2>2, <3>1 DEF CallInv, Closes
    <3>3. QED
      BY <1>1, <1>3, <3>1, <3>2 DEF CallInv, Names
  <2>3. QED
    BY <2>1, <2>2
<1>6. QED
  BY <1>2, <1>5, CallStep

\* Every exit before the send, and a handler that is killed or cut off.
LEMMA RefuseHeldStep ==
  ASSUME GatewayInv, NEW a \in Attempts, RefuseHeld(a) \/ Strand(a)
  PROVE  GatewayInv'
<1>1. /\ UNCHANGED <<vars, row, recorded, cached, op>>
      /\ call[a].pc # "idle"
      /\ \/ call' = Goto(a, "releasing") /\ call[a].pc = "held"
         \/ call' = Goto(a, "stranded")
  BY DEF RefuseHeld, Strand
<1>2. TypeOK' /\ \A b \in Attempts : Kept(b)
  BY <1>1 DEF vars, Kept, GatewayInv, GatewayTypeOK, TypeOK
<1>3. call[a].sent => call[a].pc \in Finished
  BY DEF GatewayInv, CallInv
<1>4. CASE call' = Goto(a, "releasing") /\ call[a].pc = "held"
  BY <1>1, <1>2, <1>3, <1>4, GotoStep DEF Steps, Recording, Finished
<1>5. CASE call' = Goto(a, "stranded")
  BY <1>1, <1>2, <1>3, <1>5, GotoStep DEF Steps, Recording, Finished
<1>6. QED
  BY <1>1, <1>4, <1>5

\* The permission that is granted is this handler's, of a hold still open.
LEMMA ConsumePermissionStep ==
  ASSUME GatewayInv, NEW a \in Attempts, ConsumePermission(a)
  PROVE  GatewayInv'
<1>1. /\ call[a].pc = "held" /\ Dispatch(a) /\ UNCHANGED <<row, recorded, cached, op>>
      /\ call' = Goto(a, IF Permitted(DispatchReply(a)) THEN "sending" ELSE "stranded")
  BY DEF ConsumePermission
<1>2. GatewayTypeOK /\ TypeOK /\ CallInv(a)
  BY DEF GatewayInv, GatewayTypeOK
<1>3. /\ TypeOK'
      /\ \A b \in Attempts : b # a => Kept(b)
      /\ hold'[a].st = hold[a].st /\ hold'[a].ep = hold[a].ep
      /\ DispatchReply(a) = "granted"
         => hold[a].st = "open" /\ hold'[a].ph = "dispatch_may_have_happened"
  BY <1>1, <1>2, DispatchEffect
<1>4. /\ call' \in [Attempts -> Call]
      /\ call'[a].pc \in {"sending", "stranded"}
      /\ call'[a].pc = "sending" => DispatchReply(a) = "granted"
      /\ call'[a].seen = call[a].seen /\ call'[a].sent = call[a].sent
      /\ \A b \in Attempts : b # a => call'[b] = call[b]
  BY <1>1, <1>2, GotoType DEF Permitted, Steps
<1>5. ~call[a].sent
  BY <1>1, <1>2 DEF CallInv, Finished
<1>6. CallInv(a)'
  BY <1>1, <1>2, <1>3, <1>4, <1>5 DEF CallInv, Names, Sending, Recording
<1>7. QED
  BY <1>1, <1>3, <1>4, <1>6, CallStep

\* A permission without an answer may have been consumed.
LEMMA PermissionUnansweredStep ==
  ASSUME GatewayInv, NEW a \in Attempts, PermissionUnanswered(a)
  PROVE  GatewayInv'
<1>1. /\ call[a].pc = "held" /\ UNCHANGED <<row, recorded, cached, op>>
      /\ Dispatch(a) \/ UNCHANGED vars
  BY DEF PermissionUnanswered
<1>2. GatewayTypeOK /\ TypeOK /\ CallInv(a)
  BY DEF GatewayInv, GatewayTypeOK
<1>3. /\ TypeOK'
      /\ \A b \in Attempts : b # a => Kept(b)
      /\ hold'[a].st = hold[a].st /\ hold'[a].ep = hold[a].ep
  BY <1>1, <1>2, DispatchEffect DEF vars, Kept, TypeOK
<1>4. /\ call' \in [Attempts -> Call]
      /\ call'[a].pc \in {"held", "stranded"}
      /\ call'[a].seen = call[a].seen /\ call'[a].sent = call[a].sent
      /\ \A b \in Attempts : b # a => call'[b] = call[b]
  BY <1>1, <1>2, UnansweredType DEF PermissionUnanswered, Steps
<1>5. ~call[a].sent
  BY <1>1, <1>2 DEF CallInv, Finished
<1>6. CallInv(a)'
  BY <1>1, <1>2, <1>3, <1>4, <1>5 DEF CallInv, Names, Sending, Recording
<1>7. QED
  BY <1>1, <1>3, <1>4, <1>6, CallStep

\* fetch is called by a handler that was granted its permission.
LEMMA SendStep ==
  ASSUME GatewayInv, NEW a \in Attempts, Send(a)
  PROVE  GatewayInv'
<1>1. /\ call[a].pc = "sending" /\ UNCHANGED <<vars, row, recorded, cached, op>>
      /\ call' = [Goto(a, "answered") EXCEPT ![a].sent = TRUE]
  BY DEF Send
<1>2. GatewayTypeOK /\ TypeOK /\ CallInv(a)
  BY DEF GatewayInv, GatewayTypeOK
<1>3. /\ call' \in [Attempts -> Call]
      /\ call'[a].pc = "answered" /\ call'[a].seen = call[a].seen
      /\ \A b \in Attempts : b # a => call'[b] = call[b]
  <2> DEFINE next == Goto(a, "answered")
  <2>1. /\ next \in [Attempts -> Call]
        /\ next[a].pc = "answered" /\ next[a].seen = call[a].seen
        /\ \A b \in Attempts : b # a => next[b] = call[b]
    BY <1>2, GotoType DEF Steps
  <2> HIDE DEF next
  <2> DEFINE now == [next[a] EXCEPT !.sent = TRUE]
  <2>2. call' = [next EXCEPT ![a] = now]
    BY <1>1, <2>1 DEF next
  <2>3. /\ now \in Call /\ now.pc = next[a].pc /\ now.seen = next[a].seen
    BY <2>1 DEF Call
  <2> HIDE DEF now
  <2>4. QED
    BY <2>1, <2>2, <2>3
<1>4. TypeOK' /\ \A b \in Attempts : Kept(b)
  BY <1>1, <1>2 DEF vars, Kept, TypeOK
<1>5. CallInv(a)'
  BY <1>1, <1>2, <1>3 DEF vars, CallInv, Names, Sending, Recording, Finished
<1>6. QED
  BY <1>1, <1>3, <1>4, <1>5, CallStep

\* The settle after an answer, and the release of a call that was not sent.
LEMMA SettleCallStep ==
  ASSUME GatewayInv, NEW a \in Attempts, SettleCall(a) \/ ReleaseCall(a)
  PROVE  GatewayInv'
<1>1. /\ call[a].pc \in {"answered", "releasing"}
      /\ call' = Goto(a, "done") /\ UNCHANGED <<row, recorded, cached, op>>
  BY DEF SettleCall, ReleaseCall
<1>2. \E outcome \in Outcomes, known \in Amount, certain \in [Dims -> BOOLEAN] :
         Settle(a, outcome, known, certain)
  <2>1. CASE SettleCall(a)
    <3>1. PICK outcome \in {"complete", "usage_unknown"}, known \in Figures :
             Settle(a, outcome, known, [d \in Dims |-> outcome = "complete"])
      BY <2>1 DEF SettleCall
    <3>2. outcome \in Outcomes /\ [d \in Dims |-> outcome = "complete"] \in [Dims -> BOOLEAN]
      BY DEF Outcomes
    <3>3. QED
      BY <3>1, <3>2, AmountType
  <2>2. CASE ReleaseCall(a)
    <3>1. "not_dispatched" \in Outcomes /\ [d \in Dims |-> FALSE] \in [Dims -> BOOLEAN]
      BY DEF Outcomes
    <3>2. QED
      BY <2>2, <3>1, AmountType DEF ReleaseCall
  <2>3. QED
    BY <2>1, <2>2
<1>3. TypeOK
  BY DEF GatewayInv, GatewayTypeOK
<1>4. TypeOK' /\ (\A b \in Attempts : b # a => Kept(b)) /\ (Kept(a) \/ Closes(a))
  BY <1>2, <1>3, SettleEffect
<1>5. "done" \in (Steps \cap Finished) \ (Recording \cup {"idle", "sending", "answered"})
  BY DEF Steps, Finished, Recording
<1>6. QED
  BY <1>1, <1>4, <1>5, GotoStep

\* A generation is recorded if the row has none; a failed write may have happened.
LEMMA RecordGenerationStep ==
  ASSUME GatewayInv, NEW a \in Attempts, RecordGeneration(a)
  PROVE  GatewayInv'
<1>1. PICK wrote \in BOOLEAN, failed \in BOOLEAN :
         /\ IF wrote /\ row.epoch = NoEpoch
            THEN /\ row' = [epoch |-> call[a].owed, established |-> TRUE]
                 /\ recorded' = recorded \cup {call[a].owed}
            ELSE UNCHANGED <<row, recorded>>
         /\ call' = Goto(a, AfterRecord(a, failed))
  BY DEF RecordGeneration
<1>2. GatewayTypeOK /\ TypeOK /\ CallInv(a) /\ call[a] \in Call /\ Names(row)
  BY DEF GatewayInv, GatewayTypeOK
<1>3. call[a].pc \in Recording /\ UNCHANGED <<vars, cached, op>>
  BY DEF RecordGeneration, Recording
<1>4. call[a].owed \in Generations
  BY <1>2, <1>3 DEF CallInv, Call
<1>5. /\ recorded \subseteq recorded' /\ recorded' \subseteq Generations
      /\ row' \in Row /\ Names(row)'
  <2> DEFINE owed == call[a].owed
  <2> HIDE DEF owed
  <2>1. CASE UNCHANGED <<row, recorded>>
    BY <1>2, <2>1 DEF GatewayTypeOK, Names
  <2>2. CASE /\ row' = [epoch |-> owed, established |-> TRUE]
             /\ recorded' = recorded \cup {owed}
    <3>1. owed \in Generations
      BY <1>4 DEF owed
    <3>2. row'.epoch = owed /\ row'.established /\ row' \in Row
      BY <2>2, <3>1 DEF Row
    <3>3. Names(row)'
      BY <2>2, <3>2 DEF Names
    <3>4. QED
      BY <1>2, <2>2, <3>1, <3>2, <3>3 DEF GatewayTypeOK
  <2>3. QED
    BY <1>1, <2>1, <2>2 DEF owed
<1>6. AfterRecord(a, failed) \in {"releasing", "held", "opening", "done"}
  BY DEF AfterRecord
<1>7. /\ call' \in [Attempts -> Call]
      /\ call'[a].pc \in {"releasing", "held", "opening", "done"}
      /\ call'[a].seen = call[a].seen /\ call'[a].sent = call[a].sent
      /\ \A b \in Attempts : b # a => call'[b] = call[b]
  <2> DEFINE pc == AfterRecord(a, failed)
  <2>1. pc \in Steps
    BY <1>6 DEF Steps
  <2> HIDE DEF pc
  <2>2. call' = Goto(a, pc)
    BY <1>1 DEF pc
  <2>3. QED
    BY <1>2, <1>6, <2>1, <2>2, GotoType DEF pc
<1>8. \A b \in Attempts : CallInv(b)'
  <2>1. CallInv(a)'
    BY <1>2, <1>3, <1>5, <1>7 DEF vars, CallInv, Names, Sending, Recording, Finished
  <2>2. ASSUME NEW b \in Attempts, b # a PROVE CallInv(b)'
    BY <1>3, <1>5, <1>7, <2>2, Undisturbed DEF GatewayInv, Knows, Kept, vars
  <2>3. QED
    BY <2>1, <2>2
<1>9. GatewayTypeOK'
  BY <1>2, <1>3, <1>5, <1>7 DEF GatewayTypeOK, TypeOK, vars
<1>10. (cached # NoRow => Names(cached))' /\ OperatorsInv'
  BY <1>3, <1>5 DEF GatewayInv, Names, OperatorsInv
<1>11. QED
  BY <1>5, <1>8, <1>9, <1>10 DEF GatewayInv

-----------------------------------------------------------------------------
(* The cache, the operators and Redis                                      *)

\* A step that leaves every handler and every hold as it was.
LEMMA Elsewhere ==
  ASSUME GatewayInv, GatewayTypeOK', recorded \subseteq recorded',
         \A a \in Attempts : Knows(a) /\ Kept(a),
         Names(row)', (cached # NoRow => Names(cached))', OperatorsInv'
  PROVE  GatewayInv'
BY Undisturbed DEF GatewayInv

\* A fill puts back what a handler read; a purge and the time to live drop it.
LEMMA CacheStep ==
  ASSUME GatewayInv,
         (\E a \in Attempts : FillCache(a)) \/ PurgeCache \/ ExpireCache
  PROVE  GatewayInv'
<1>1. UNCHANGED <<vars, row, recorded, op>>
  BY DEF FillCache, PurgeCache, ExpireCache
<1>2. call \in [Attempts -> Call]
  BY DEF GatewayInv, GatewayTypeOK
<1>3. /\ cached' \in Row \cup {NoRow}
      /\ cached' # NoRow => Names(cached')
  <2>1. \A a \in Attempts : call[a].seen \in Row /\ Names(call[a].seen)
    BY <1>2 DEF GatewayInv, CallInv, Call
  <2>2. QED
    BY <2>1 DEF FillCache, PurgeCache, ExpireCache
<1>4. call' \in [Attempts -> Call] /\ \A b \in Attempts : Knows(b)
  <2>1. \A b \in Attempts : LET now == [call[b] EXCEPT !.fill = FALSE]
                            IN  /\ now \in Call /\ now.pc = call[b].pc
                                /\ now.seen = call[b].seen /\ now.owed = call[b].owed
                                /\ now.sent = call[b].sent
    BY <1>2 DEF Call
  <2>2. CASE PurgeCache
    BY <2>1, <2>2 DEF PurgeCache, Knows
  <2>3. CASE ExpireCache
    BY <1>2, <2>3 DEF ExpireCache, Knows
  <2>4. ASSUME NEW a \in Attempts, FillCache(a)
        PROVE  call' \in [Attempts -> Call] /\ \A b \in Attempts : Knows(b)
    <3>1. call' = [call EXCEPT ![a] = [call[a] EXCEPT !.fill = FALSE]]
      BY <1>2, <2>4 DEF FillCache
    <3>2. QED
      BY <1>2, <2>1, <3>1 DEF Knows
  <2>5. QED
    BY <2>2, <2>3, <2>4
<1>5. \A b \in Attempts : Kept(b)
  BY <1>1 DEF vars, Kept
<1>6. GatewayTypeOK'
  BY <1>1, <1>3, <1>4 DEF GatewayInv, GatewayTypeOK, TypeOK, vars
<1>7. Names(row)' /\ (cached # NoRow => Names(cached))' /\ OperatorsInv'
  BY <1>1, <1>3 DEF GatewayInv, Names, OperatorsInv
<1>8. QED
  BY <1>1, <1>4, <1>5, <1>6, <1>7, Elsewhere

\* Moving one rebuild on keeps what the others have recorded.
LEMMA RebuildMove ==
  ASSUME GatewayTypeOK, OperatorsInv, NEW o \in Operators, NEW now \in Rebuild,
         now.pc # "idle" => now.epoch \in recorded',
         recorded \subseteq recorded', op' = [op EXCEPT ![o] = now]
  PROVE  op' \in [Operators -> Rebuild] /\ OperatorsInv'
BY DEF GatewayTypeOK, OperatorsInv

\* What a rebuild seeds from is a natural number in every dimension.
LEMMA SeedType ==
  ASSUME NEW ids \in SUBSET Attempts
  PROVE  [d \in Dims |-> Cardinality(ListedUnits(ids, d))] \in [Dims -> Nat]
<1>1. \A d \in Dims : ListedUnits(ids, d) \in SUBSET Units
  BY DEF ListedUnits
<1>2. QED
  BY <1>1, UnitsFinite

\* A rebuild records its generation before anything else sees it, and only a
\* rebuild that has done so re-bases Redis.
LEMMA RebuildStepInv ==
  ASSUME GatewayInv, NEW o \in Operators, RebuildStep(o)
  PROVE  GatewayInv'
<1>1. /\ GatewayTypeOK /\ TypeOK /\ OperatorsInv /\ op \in [Operators -> Rebuild]
      /\ Names(row) /\ (cached # NoRow => Names(cached))
  BY DEF GatewayInv, GatewayTypeOK
<1>2. UNCHANGED <<cached, call, hold>>
  BY DEF RebuildStep, RebuildWrite, RebuildIndex, RebuildList, RebuildRebase,
         RebuildAbandon, Rebase, vars
<1>3. \A a \in Attempts : Knows(a) /\ Kept(a)
  BY <1>2 DEF Knows, Kept
<1>4. NoRebuild \in Rebuild /\ NoRebuild.pc = "idle"
  BY AmountType, BudgetAssumption DEF NoRebuild, Rebuild, Nothing
<1>5. CASE RebuildWrite(o)
  <2>1. PICK g \in Fresh :
           /\ row' = [epoch |-> g, established |-> TRUE]
           /\ recorded' = recorded \cup {g}
           /\ op' = [op EXCEPT ![o].pc = "written", ![o].epoch = g]
    BY <1>5 DEF RebuildWrite
  <2> DEFINE now == [op[o] EXCEPT !.pc = "written", !.epoch = g]
  <2>2. now \in Rebuild /\ now.epoch = g
    BY <1>1 DEF Rebuild, Fresh
  <2>3. op' = [op EXCEPT ![o] = now]
    BY <1>1, <2>1
  <2> HIDE DEF now
  <2>4. op' \in [Operators -> Rebuild] /\ OperatorsInv'
    BY <1>1, <2>1, <2>2, <2>3, RebuildMove
  <2>5. /\ row'.epoch = g /\ row'.established /\ row' \in Row
        /\ recorded' \subseteq Generations
    BY <1>1, <2>1 DEF Row, Fresh, GatewayTypeOK
  <2>6. Names(row)' /\ (cached # NoRow => Names(cached))'
    BY <1>1, <1>2, <2>1, <2>5 DEF Names
  <2>7. GatewayTypeOK'
    BY <1>1, <1>2, <1>5, <2>4, <2>5 DEF RebuildWrite, GatewayTypeOK, TypeOK, vars
  <2>8. QED
    BY <1>3, <2>1, <2>4, <2>6, <2>7, Elsewhere
<1>6. ASSUME UNCHANGED <<row, recorded>>, TypeOK',
             NEW now \in Rebuild, op' = [op EXCEPT ![o] = now],
             now.pc = "idle" \/ (now.epoch = op[o].epoch /\ op[o].pc # "idle")
      PROVE  GatewayInv'
  <2>1. now.pc # "idle" => now.epoch \in recorded'
    BY <1>1, <1>6 DEF OperatorsInv
  <2>2. op' \in [Operators -> Rebuild] /\ OperatorsInv'
    BY <1>1, <1>6, <2>1, RebuildMove
  <2>3. GatewayTypeOK'
    BY <1>1, <1>2, <1>6, <2>2 DEF GatewayTypeOK
  <2>4. Names(row)' /\ (cached # NoRow => Names(cached))'
    BY <1>1, <1>2, <1>6 DEF Names
  <2>5. QED
    BY <1>3, <1>6, <2>2, <2>3, <2>4, Elsewhere
<1>7. CASE RebuildIndex(o)
  <2> DEFINE now == [op[o] EXCEPT !.pc = "listing", !.ids = Indexed]
  <2>1. op' = [op EXCEPT ![o] = now] /\ op[o].pc = "written"
    BY <1>1, <1>7 DEF RebuildIndex
  <2>2. now \in Rebuild /\ now.epoch = op[o].epoch
    BY <1>1 DEF Rebuild, Indexed
  <2>3. UNCHANGED <<row, recorded>> /\ TypeOK'
    BY <1>1, <1>7 DEF RebuildIndex, vars, TypeOK
  <2> HIDE DEF now
  <2>4. QED
    BY <1>6, <2>1, <2>2, <2>3
<1>8. CASE RebuildList(o)
  <2> DEFINE seed == [d \in Dims |-> Cardinality(ListedUnits(op[o].ids, d))]
  <2>1. seed \in [Dims -> Nat]
    BY <1>1, SeedType DEF Rebuild
  <2> DEFINE now == [op[o] EXCEPT !.pc = "listed", !.ids = {}, !.seed = seed]
  <2>2. op' = [op EXCEPT ![o] = now] /\ op[o].pc = "listing"
    BY <1>1, <1>8 DEF RebuildList
  <2> HIDE DEF seed
  <2>3. now \in Rebuild /\ now.epoch = op[o].epoch
    BY <1>1, <2>1 DEF Rebuild
  <2>4. UNCHANGED <<row, recorded>> /\ TypeOK'
    BY <1>1, <1>8 DEF RebuildList, vars, TypeOK
  <2> HIDE DEF now
  <2>5. QED
    BY <1>6, <2>2, <2>3, <2>4
<1>9. CASE RebuildRebase(o)
  <2>1. PICK total \in Figures : Rebase(op[o].epoch, total, op[o].seed)
    BY <1>9 DEF RebuildRebase
  <2>2. /\ op[o].epoch \in Generations /\ op[o].seed \in [Dims -> Int]
    BY <1>1, <1>9 DEF RebuildRebase, OperatorsInv, Rebuild, GatewayTypeOK
  <2>3. TypeOK'
    BY <1>1, <2>1, <2>2, RebaseType, AmountType
  <2>4. QED
    BY <1>4, <1>6, <1>9, <2>3 DEF RebuildRebase
<1>10. CASE RebuildAbandon(o)
  <2>1. UNCHANGED <<row, recorded>> /\ TypeOK'
    BY <1>1, <1>10 DEF RebuildAbandon, vars, TypeOK
  <2>2. QED
    BY <1>4, <1>6, <1>10, <2>1 DEF RebuildAbandon
<1>11. QED
  BY <1>5, <1>7, <1>8, <1>9, <1>10 DEF RebuildStep

\* An operator's decision closes an open hold; it never releases one that was sent.
LEMMA ResolveHoldStep ==
  ASSUME GatewayInv, NEW a \in Attempts, ResolveHold(a)
  PROVE  GatewayInv'
<1>1. UNCHANGED <<row, recorded, cached, call, op>>
  BY DEF ResolveHold, caller
<1>2. \E outcome \in Outcomes, known \in Amount, certain \in [Dims -> BOOLEAN] :
         Settle(a, outcome, known, certain)
  BY AmountType DEF ResolveHold, Outcomes
<1>3. TypeOK /\ CallInv(a) /\ hold[a].st # "absent"
  BY DEF GatewayInv, GatewayTypeOK, ResolveHold
<1>4. TypeOK' /\ (\A b \in Attempts : b # a => Kept(b)) /\ (Kept(a) \/ Closes(a))
  BY <1>2, <1>3, SettleEffect
<1>5. CallInv(a)'
  <2>1. CASE Kept(a)
    BY <1>1, <1>3, <2>1, Undisturbed DEF Knows
  <2>2. CASE Closes(a)
    <3>1. hold'[a].st # "absent" /\ hold[a].st # "absent" /\ hold'[a].ep = hold[a].ep
      BY <2>2 DEF Closes, Terminal
    <3>2. QED
      BY <1>1, <1>3, <2>2, <3>1 DEF CallInv, Closes, Names, Sending
  <2>3. QED
    BY <1>4, <2>1, <2>2
<1>6. call' \in [Attempts -> Call]
  BY <1>1 DEF GatewayInv, GatewayTypeOK
<1>7. QED
  BY <1>1, <1>4, <1>5, <1>6, CallStep

\* A flush takes the records of the holds, never what they were.
LEMMA FlushStep ==
  ASSUME GatewayInv, Flush
  PROVE  GatewayInv'
<1>1. /\ UNCHANGED <<used, row, recorded, call, op>> /\ cached' = NoRow
      /\ hold' = [a \in Attempts |-> [hold[a] EXCEPT !.gone = hold[a].st # "absent"]]
  BY DEF Flush
<1>2. GatewayTypeOK /\ TypeOK
  BY DEF GatewayInv, GatewayTypeOK
<1>3. \A a \in Attempts :
         LET now == [hold[a] EXCEPT !.gone = hold[a].st # "absent"]
         IN  /\ now \in Hold /\ now.st = hold[a].st
             /\ now.ph = hold[a].ph /\ now.ep = hold[a].ep
  BY <1>2 DEF TypeOK, Hold
<1>4. hold' \in [Attempts -> Hold] /\ \A a \in Attempts : Kept(a)
  BY <1>1, <1>3 DEF Kept
<1>5. Nothing \in [Dims -> Int]
  BY AmountType
<1>6. TypeOK'
  BY <1>2, <1>4, <1>5 DEF Flush, TypeOK
<1>7. GatewayTypeOK' /\ \A a \in Attempts : Knows(a)
  BY <1>1, <1>2, <1>6 DEF GatewayTypeOK, Knows
<1>8. Names(row)' /\ (cached # NoRow => Names(cached))' /\ OperatorsInv'
  BY <1>1 DEF GatewayInv, Names, OperatorsInv
<1>9. QED
  BY <1>1, <1>4, <1>7, <1>8, Elsewhere

-----------------------------------------------------------------------------
(* The inductive invariant, whatever Redis loses and whoever rebuilds      *)

LEMMA GatewayInitInv == GatewayInit => GatewayInv
<1> SUFFICES ASSUME GatewayInit PROVE GatewayInv
  OBVIOUS
<1>1. /\ TypeOK /\ row \in Row /\ Names(row) /\ recorded \subseteq Generations
      /\ hold = [a \in Attempts |-> NoHold]
  <2>1. CASE FreshAgent \/ LegacyAgent
    <3>1. Init /\ recorded = {}
      BY <2>1 DEF FreshAgent, LegacyAgent
    <3>2. PICK known \in BOOLEAN : row = [epoch |-> NoEpoch, established |-> known]
      BY <2>1 DEF FreshAgent, LegacyAgent, NeverEstablished
    <3>3. row \in Row /\ row.epoch = NoEpoch
      BY <3>2 DEF Row
    <3>4. QED
      BY <3>1, <3>3, InitType DEF Init, Names
  <2>2. CASE RunningAgent
    <3>1. /\ epoch \in Generations /\ recorded = {epoch}
          /\ row = [epoch |-> epoch, established |-> TRUE]
          /\ hold = [a \in Attempts |-> NoHold]
      BY <2>2 DEF RunningAgent
    <3>2. row \in Row /\ Names(row) /\ recorded \subseteq Generations
      BY <3>1 DEF Row, Names
    <3>3. /\ reserved \in [Dims -> Int] /\ spent \in [Dims -> Int]
          /\ hold \in [Attempts -> Hold]
      BY <2>2, <3>1, AmountType DEF RunningAgent
    <3>4. QED
      BY <2>2, <3>1, <3>2, <3>3 DEF RunningAgent, TypeOK
  <2>3. QED
    BY <2>1, <2>2 DEF GatewayInit
<1>2. cached \in {row, NoRow} /\ call = [a \in Attempts |-> NoCall]
      /\ op = [o \in Operators |-> NoRebuild]
  BY DEF GatewayInit
<1>3. NoCall \in Call /\ NoRebuild \in Rebuild
  BY AmountType, BudgetAssumption
     DEF NoCall, Call, Steps, NeverEstablished, Row, NoRebuild, Rebuild, Nothing
<1>4. GatewayTypeOK
  BY <1>1, <1>2, <1>3 DEF GatewayTypeOK
<1>5. \A a \in Attempts : CallInv(a)
  BY <1>1, <1>2 DEF CallInv, NoCall, NoHold, NeverEstablished, Names, Sending, Recording
<1>6. QED
  BY <1>1, <1>2, <1>4, <1>5 DEF GatewayInv, OperatorsInv, NoRebuild

LEMMA GatewayNextInv == GatewayInv /\ [GatewayNext]_gvars => GatewayInv'
<1> SUFFICES ASSUME GatewayInv, [GatewayNext]_gvars PROVE GatewayInv'
  OBVIOUS
<1>1. ASSUME NEW a \in Attempts, Handler(a) PROVE GatewayInv'
  BY <1>1, ReadPolicyStep, OpenHoldStep, OpenUnansweredStep, RecordGenerationStep,
     RefuseHeldStep, ConsumePermissionStep, PermissionUnansweredStep, SendStep,
     SettleCallStep DEF Handler
<1>2. ASSUME NEW a \in Attempts, FillCache(a) \/ Strand(a) \/ ResolveHold(a)
      PROVE  GatewayInv'
  BY <1>2, CacheStep, RefuseHeldStep, ResolveHoldStep
<1>3. CASE PurgeCache \/ ExpireCache \/ Flush
  BY <1>3, CacheStep, FlushStep
<1>4. CASE UNCHANGED gvars
  <2>1. /\ UNCHANGED <<vars, row, recorded, cached, call, op>>
        /\ \A a \in Attempts : Knows(a) /\ Kept(a)
    BY <1>4 DEF gvars, caller, vars, Knows, Kept
  <2>2. GatewayTypeOK' /\ Names(row)' /\ (cached # NoRow => Names(cached))' /\ OperatorsInv'
    BY <2>1 DEF GatewayInv, GatewayTypeOK, TypeOK, vars, Names, OperatorsInv
  <2>3. QED
    BY <2>1, <2>2, Elsewhere
<1>5. QED
  BY <1>1, <1>2, <1>3, <1>4, RebuildStepInv DEF GatewayNext

LEMMA GatewayInvariance == GatewaySpec => []GatewayInv
BY GatewayInitInv, GatewayNextInv, PTL DEF GatewaySpec

\* Every reachable state is well typed.
THEOREM GatewayTypeCorrect == GatewaySpec => []GatewayTypeOK
<1>1. GatewayInv => GatewayTypeOK
  BY DEF GatewayInv
<1>2. QED
  BY <1>1, GatewayInvariance, PTL

\* An attempt written off as never sent was never sent: the permission is
\* consumed before the send and refused to a closed hold, and a hold that was
\* dispatched is not released (DISPATCH_LUA, SETTLE_LUA, route.ts).
THEOREM NotSentIfReleased == GatewaySpec => []ReleasedWasNotSent
<1>1. GatewayInv => ReleasedWasNotSent
  BY DEF GatewayInv, CallInv, Sending, ReleasedWasNotSent
<1>2. QED
  BY <1>1, GatewayInvariance, PTL

\* A call whose policy read names a generation is sent in a recorded one, though
\* Redis may be flushed, replies lost and any number of operators rebuild.
THEOREM FencedSendsAreDurable == GatewaySpec => []FencedSendIsDurable
<1>1. GatewayInv => FencedSendIsDurable
  BY DEF GatewayInv, CallInv, Sending, Names, FencedSendIsDurable
<1>2. QED
  BY <1>1, GatewayInvariance, PTL

-----------------------------------------------------------------------------
(* Where nothing is lost, Redis is never ahead of Postgres                 *)

\* The generation moves by a mint where there is none, by a rebuild that has
\* recorded it, or by a flush; what is recorded stays recorded.
LEMMA GenerationMoves ==
  ASSUME GatewayInv, GatewayNext
  PROVE  /\ recorded \subseteq recorded'
         /\ epoch' = epoch \/ epoch = NoEpoch \/ epoch' \in recorded \/ Flush
<1>1. TypeOK
  BY DEF GatewayInv, GatewayTypeOK
<1>2. ASSUME NEW a \in Attempts, OpenHold(a) \/ OpenUnanswered(a)
      PROVE  recorded' = recorded /\ (epoch' = epoch \/ epoch = NoEpoch)
  <2>1. \/ UNCHANGED vars
        \/ \E est \in Estimates, mint \in Generations, admit \in BOOLEAN :
              Open(a, Mode(call[a].seen), call[a].seen.epoch, est, mint, admit)
    BY <1>2, OpenAnswer, GatewayAssumption DEF Answers, OpenUnanswered, RunOpen
  <2>2. recorded' = recorded
    BY <1>2 DEF OpenHold, OpenUnanswered
  <2>3. Mode(call[a].seen) \in {"0", "1", "2"}
    BY HandlerMode
  <2>4. QED
    BY <1>1, <2>1, <2>2, <2>3, OpenEffect DEF vars
<1>3. ASSUME NEW a \in Attempts, Handler(a), ~OpenHold(a), ~OpenUnanswered(a)
      PROVE  recorded \subseteq recorded' /\ epoch' = epoch
  BY <1>3 DEF Handler, ReadPolicy, RecordGeneration, RefuseHeld, ConsumePermission,
              PermissionUnanswered, Send, SettleCall, ReleaseCall, Dispatch, Settle, vars
<1>4. ASSUME NEW a \in Attempts, FillCache(a) \/ Strand(a) \/ ResolveHold(a)
      PROVE  recorded' = recorded /\ epoch' = epoch
  BY <1>4 DEF FillCache, Strand, ResolveHold, caller, Settle, vars
<1>5. ASSUME NEW o \in Operators, RebuildStep(o)
      PROVE  recorded \subseteq recorded' /\ (epoch' = epoch \/ epoch' \in recorded)
  <2>1. op[o].pc = "listed" => op[o].epoch \in recorded
    BY DEF GatewayInv, OperatorsInv
  <2>2. QED
    BY <1>5, <2>1 DEF RebuildStep, RebuildWrite, RebuildIndex, RebuildList,
                      RebuildRebase, RebuildAbandon, Rebase, vars
<1>6. CASE PurgeCache \/ ExpireCache \/ Flush
  BY <1>6 DEF PurgeCache, ExpireCache, Flush, vars
<1>7. QED
  BY <1>2, <1>3, <1>4, <1>5, <1>6 DEF GatewayNext

\* An agent that is established already, and a Redis that loses nothing.
Established == Starts \subseteq {"running"} /\ ~Flushes

\* While nothing is lost, Redis permits spending only under a generation that
\* Postgres has recorded, through any number of rebuilds that interleave and stop
\* anywhere: the rebuild writes Postgres first (budget/rebuild/route.ts).
THEOREM RedisIsNeverAhead == Established => (GatewaySpec => []RedisNeverAhead)
<1> SUFFICES ASSUME Established PROVE GatewaySpec => []RedisNeverAhead
  OBVIOUS
<1> DEFINE Inv == GatewayInv /\ epoch \in recorded
<1>1. GatewayInit => Inv
  <2> SUFFICES ASSUME GatewayInit PROVE epoch \in recorded
    BY GatewayInitInv
  <2>1. RunningAgent
    BY DEF Established, GatewayInit
  <2>2. QED
    BY <2>1 DEF RunningAgent
<1>2. Inv /\ [GatewayNext]_gvars => Inv'
  <2> SUFFICES ASSUME Inv, [GatewayNext]_gvars PROVE (epoch \in recorded)'
    BY GatewayNextInv
  <2>1. epoch # NoEpoch
    BY BudgetAssumption DEF GatewayInv, GatewayTypeOK
  <2>2. CASE GatewayNext
    <3>1. ~Flush
      BY DEF Established, Flush
    <3>2. recorded \subseteq recorded' /\ (epoch' = epoch \/ epoch' \in recorded)
      BY <2>1, <2>2, <3>1, GenerationMoves
    <3>3. QED
      BY <3>2
  <2>3. CASE UNCHANGED gvars
    BY <2>3 DEF gvars, caller, vars
  <2>4. QED
    BY <2>2, <2>3
<1>3. Inv => RedisNeverAhead
  BY DEF RedisNeverAhead
<1> HIDE DEF Inv
<1>4. QED
  BY <1>1, <1>2, <1>3, PTL DEF GatewaySpec

-----------------------------------------------------------------------------
(* Where nothing is lost and nobody rebuilds, the first calls of an agent    *)
(* leave Postgres and Redis in one generation, the one they all spend under. *)

\* No operator rebuilds and Redis loses nothing.
OnlyCalls == Operators = {} /\ ~Flushes

\* A handler at one of these steps was told that its hold is there, and at the
\* later ones that its generation is recorded.
Placed(a) == call[a].pc \in {"recording", "held", "sending", "answered"} \/ call[a].sent
Allowed(a) == call[a].pc \in {"held", "sending", "answered"} \/ call[a].sent

FirstInv ==
  /\ row.epoch \in {NoEpoch, epoch}
  /\ \A a \in Attempts :
        /\ call[a].owed \in {NoEpoch, epoch}
        /\ hold[a].st # "absent" => hold[a].ep = epoch /\ epoch # NoEpoch
        /\ Placed(a) => hold[a].st # "absent"
        /\ Allowed(a) => epoch \in recorded

\* A hold that is there stays there, in the generation it was opened in.
Stays(a) == (hold'[a].st = "absent" <=> hold[a].st = "absent") /\ hold'[a].ep = hold[a].ep

\* A step that neither mints nor records, and lets no handler go further.
LEMMA FirstQuiet ==
  ASSUME FirstInv, UNCHANGED <<epoch, row, recorded>>,
         \A a \in Attempts : /\ Stays(a) /\ call'[a].owed = call[a].owed
                             /\ Placed(a)' => Placed(a)
                             /\ Allowed(a)' => Allowed(a)
  PROVE  FirstInv'
BY DEF FirstInv, Stays

\* Every step but the three that open a hold or record its generation is quiet.
LEMMA FirstQuietStep ==
  ASSUME GatewayInv, FirstInv, NEW a \in Attempts,
         \/ ReadPolicy(a) \/ RefuseHeld(a) \/ ConsumePermission(a)
         \/ PermissionUnanswered(a) \/ Send(a) \/ SettleCall(a) \/ ReleaseCall(a)
         \/ Strand(a)
  PROVE  FirstInv'
<1>1. GatewayTypeOK /\ TypeOK /\ call \in [Attempts -> Call]
  BY DEF GatewayInv, GatewayTypeOK
<1>2. UNCHANGED <<epoch, row, recorded>>
  BY DEF ReadPolicy, RefuseHeld, ConsumePermission, PermissionUnanswered, Send,
         SettleCall, ReleaseCall, Strand, Dispatch, Settle, vars
<1>3. \A b \in Attempts : Stays(b)
  <2>1. CASE UNCHANGED hold
    BY <2>1 DEF Stays
  <2>2. CASE Dispatch(a)
    BY <1>1, <2>2, DispatchEffect DEF Stays, Kept
  <2>3. ASSUME NEW outcome \in Outcomes, NEW known \in Amount,
               NEW certain \in [Dims -> BOOLEAN], Settle(a, outcome, known, certain)
        PROVE  \A b \in Attempts : Stays(b)
    <3>1. (\A b \in Attempts : b # a => Kept(b)) /\ (Kept(a) \/ Closes(a))
      BY <1>1, <2>3, SettleEffect
    <3>2. QED
      BY <3>1 DEF Kept, Closes, Stays, Terminal
  <2>4. CASE SettleCall(a)
    <3>1. PICK outcome \in {"complete", "usage_unknown"}, known \in Figures :
             Settle(a, outcome, known, [d \in Dims |-> outcome = "complete"])
      BY <2>4 DEF SettleCall
    <3>2. outcome \in Outcomes /\ [d \in Dims |-> outcome = "complete"] \in [Dims -> BOOLEAN]
      BY DEF Outcomes
    <3>3. QED
      BY <2>3, <3>1, <3>2, AmountType
  <2>5. CASE ReleaseCall(a)
    <3>1. "not_dispatched" \in Outcomes /\ [d \in Dims |-> FALSE] \in [Dims -> BOOLEAN]
      BY DEF Outcomes
    <3>2. QED
      BY <2>3, <2>5, <3>1, AmountType DEF ReleaseCall
  <2>6. QED
    BY <2>1, <2>2, <2>4, <2>5 DEF ReadPolicy, RefuseHeld, ConsumePermission,
                                  PermissionUnanswered, Send, Strand, vars
<1>4. ASSUME NEW pc \in Steps, call' = Goto(a, pc),
             pc \in {"releasing", "stranded", "done"} \/ (pc = "sending" /\ Allowed(a))
      PROVE  \A b \in Attempts : /\ call'[b].owed = call[b].owed
                                 /\ Placed(b)' => Placed(b)
                                 /\ Allowed(b)' => Allowed(b)
  BY <1>1, <1>4, GotoType DEF Placed, Allowed
<1>5. \A b \in Attempts : /\ call'[b].owed = call[b].owed
                          /\ Placed(b)' => Placed(b)
                          /\ Allowed(b)' => Allowed(b)
  <2>1. CASE ReadPolicy(a)
    <3>1. PICK s \in Row \cup {cached, row, NeverEstablished}, fill \in BOOLEAN :
             call' = [call EXCEPT ![a].pc = "opening", ![a].seen = s, ![a].fill = fill]
      BY <2>1 DEF ReadPolicy
    <3> DEFINE now == [call[a] EXCEPT !.pc = "opening", !.seen = s, !.fill = fill]
    <3>2. call' = [call EXCEPT ![a] = now]
      BY <1>1, <3>1
    <3>3. now.pc = "opening" /\ now.owed = call[a].owed /\ now.sent = call[a].sent
      BY <1>1 DEF Call
    <3> HIDE DEF now
    <3>4. QED
      BY <1>1, <3>2, <3>3 DEF Placed, Allowed
  <2>2. CASE RefuseHeld(a) \/ Strand(a) \/ SettleCall(a) \/ ReleaseCall(a)
    <3>1. \E pc \in {"releasing", "stranded", "done"} : call' = Goto(a, pc)
      BY <2>2 DEF RefuseHeld, Strand, SettleCall, ReleaseCall
    <3>2. QED
      BY <1>4, <3>1 DEF Steps
  <2>3. CASE ConsumePermission(a)
    <3>1. \E pc \in {"sending", "stranded"} : call' = Goto(a, pc)
      BY <2>3 DEF ConsumePermission
    <3>2. Allowed(a)
      BY <2>3 DEF ConsumePermission, Allowed
    <3>3. QED
      BY <1>4, <3>1, <3>2 DEF Steps
  <2>4. CASE PermissionUnanswered(a)
    <3>1. call[a].pc = "held" /\ Unanswered(a, "stranded")
      BY <2>4 DEF PermissionUnanswered
    <3>2. QED
      BY <1>1, <3>1, UnansweredType DEF Placed, Allowed, Steps
  <2>5. CASE Send(a)
    <3>1. /\ call[a].pc = "sending"
          /\ call' = [Goto(a, "answered") EXCEPT ![a].sent = TRUE]
      BY <2>5 DEF Send
    <3> DEFINE next == Goto(a, "answered")
    <3>2. /\ next \in [Attempts -> Call] /\ next[a].owed = call[a].owed
          /\ \A b \in Attempts : b # a => next[b] = call[b]
      BY <1>1, GotoType DEF Steps
    <3> HIDE DEF next
    <3> DEFINE now == [next[a] EXCEPT !.sent = TRUE]
    <3>3. call' = [next EXCEPT ![a] = now]
      BY <3>1, <3>2 DEF next
    <3>4. now.owed = call[a].owed
      BY <3>2 DEF Call
    <3> HIDE DEF now
    <3>5. QED
      BY <3>1, <3>2, <3>3, <3>4 DEF Placed, Allowed
  <2>6. QED
    BY <2>1, <2>2, <2>3, <2>4, <2>5
<1>6. QED
  BY <1>2, <1>3, <1>5, FirstQuiet

\* A first open that loses the race to mint adopts the generation that won it:
\* the handler leaves owing Postgres the one that Redis holds, or none.
LEMMA FirstOpens ==
  ASSUME GatewayInv, FirstInv, NEW a \in Attempts, NEW est \in Estimates,
         NEW mint \in Generations, NEW admit \in BOOLEAN,
         Open(a, Mode(call[a].seen), call[a].seen.epoch, est, mint, admit),
         UNCHANGED <<row, recorded>>,
         \A b \in Attempts : b # a => call'[b] = call[b],
         call'[a].owed \in {NoEpoch, epoch'},
         Placed(a)' => hold'[a].st # "absent",
         Allowed(a)' => epoch' \in recorded
  PROVE  FirstInv'
<1>1. TypeOK /\ Mode(call[a].seen) \in {"0", "1", "2"}
  BY HandlerMode DEF GatewayInv, GatewayTypeOK
<1>2. /\ \A b \in Attempts : b # a => Kept(b)
      /\ Kept(a) \/ (hold'[a].st = "open" /\ hold'[a].ep = epoch' /\ epoch' # NoEpoch)
      /\ epoch' = epoch \/ epoch = NoEpoch
  BY <1>1, OpenEffect
<1>3. ASSUME NEW b \in Attempts
      PROVE  /\ hold'[b].st # "absent" => hold'[b].ep = epoch' /\ epoch' # NoEpoch
             /\ hold[b].st # "absent" => hold'[b].st # "absent" /\ epoch' = epoch
  BY <1>2 DEF FirstInv, Kept
<1>4. ASSUME NEW b \in Attempts, b # a
      PROVE  /\ call'[b].owed \in {NoEpoch, epoch'}
             /\ Placed(b)' => hold'[b].st # "absent"
             /\ Allowed(b)' => epoch' \in recorded'
  <2>1. call'[b] = call[b]
    BY <1>4
  <2>2. Placed(b)' = Placed(b) /\ Allowed(b)' = Allowed(b) /\ (Allowed(b) => Placed(b))
    BY <2>1 DEF Placed, Allowed
  <2>3. QED
    BY <1>2, <1>3, <2>1, <2>2 DEF FirstInv
<1>5. row'.epoch \in {NoEpoch, epoch'}
  BY <1>2 DEF FirstInv
<1>6. QED
  BY <1>3, <1>4, <1>5 DEF FirstInv

LEMMA FirstOpenStep ==
  ASSUME GatewayInv, FirstInv, NEW a \in Attempts, OpenHold(a) \/ OpenUnanswered(a)
  PROVE  FirstInv'
<1>1. /\ GatewayTypeOK /\ TypeOK /\ CallInv(a)
      /\ call[a].pc = "opening" /\ UNCHANGED <<row, recorded>>
      /\ ~call[a].sent /\ Names(call[a].seen)
  BY DEF GatewayInv, GatewayTypeOK, CallInv, OpenHold, OpenUnanswered, Finished
<1> DEFINE mode == Mode(call[a].seen)
<1> DEFINE expected == call[a].seen.epoch
<1>2. mode \in {"0", "1", "2"} /\ (expected # NoEpoch <=> mode = "1")
  BY HandlerMode
<1>3. CASE OpenHold(a)
  <2>1. PICK est \in Estimates, mint \in Generations, admit \in BOOLEAN, seed \in BOOLEAN :
           Answers(a, est, mint, admit, seed)
    BY <1>3, OpenAnswer
  <2> DEFINE reply == OpenReply(a, mode, expected, est, admit)
  <2> DEFINE owed == IF reply = "state" THEN NoEpoch ELSE Owed(mode, mint)
  <2>2. /\ Open(a, mode, expected, est, mint, admit)
        /\ call'[a].pc = AfterOpen(reply, owed, seed) /\ call'[a].owed = owed
        /\ call'[a].sent = call[a].sent
        /\ reply \in {"state", "replay", "denied", "opened"}
        /\ \A b \in Attempts : b # a => call'[b] = call[b]
    BY <2>1 DEF Answers
  <2>3. /\ reply # "state" => LiveEpoch(mode, mint) = epoch' /\ epoch' # NoEpoch
        /\ reply # "state" /\ mode = "1" => epoch' = epoch /\ epoch = expected
    BY <1>1, <1>2, <2>2, OpenEffect
  <2>4. reply \in {"replay", "opened"} => hold'[a].st # "absent"
    BY <1>1, <2>2, OpenPlaces
  <2> HIDE DEF mode, expected, reply
  <2>5. /\ owed \in {NoEpoch, epoch'}
        /\ owed = NoEpoch /\ reply # "state" => mode = "1"
    BY <1>2, <2>3 DEF Owed
  <2> HIDE DEF owed
  <2>6. /\ Placed(a)' => reply \in {"replay", "opened"}
        /\ Allowed(a)' => reply \in {"replay", "opened"} /\ owed = NoEpoch
    BY <1>1, <2>2 DEF Placed, Allowed, AfterOpen
  <2>7. Allowed(a)' => epoch' \in recorded
    BY <1>1, <2>3, <2>5, <2>6 DEF Names, expected
  <2>8. QED
    BY <1>1, <2>2, <2>4, <2>5, <2>6, <2>7, FirstOpens DEF mode, expected
<1>4. CASE OpenUnanswered(a)
  <2>1. /\ call'[a].pc \in {"opening", "releasing"} /\ call'[a].owed = call[a].owed
        /\ call'[a].sent = call[a].sent
        /\ \A b \in Attempts : b # a => call'[b] = call[b]
    BY <1>1, <1>4, UnansweredType DEF OpenUnanswered, AfterThrow, Steps
  <2>2. ~Placed(a)' /\ ~Allowed(a)'
    BY <1>1, <2>1 DEF Placed, Allowed
  <2>3. CASE UNCHANGED vars
    <3>1. \A b \in Attempts : /\ Stays(b) /\ call'[b].owed = call[b].owed
                              /\ Placed(b)' => Placed(b)
                              /\ Allowed(b)' => Allowed(b)
      BY <2>1, <2>2, <2>3 DEF vars, Stays, Placed, Allowed
    <3>2. QED
      BY <1>1, <2>3, <3>1, FirstQuiet DEF vars
  <2>4. CASE ~UNCHANGED vars
    <3>1. PICK est \in Estimates, mint \in Generations, admit \in Verdicts :
             Open(a, mode, expected, est, mint, admit)
      BY <1>4, <2>4 DEF OpenUnanswered, RunOpen
    <3>2. admit \in BOOLEAN
      BY GatewayAssumption
    <3>3. epoch' = epoch \/ epoch = NoEpoch
      BY <1>1, <1>2, <3>1, <3>2, OpenEffect
    <3>4. call'[a].owed \in {NoEpoch, epoch'}
      BY <2>1, <3>3 DEF FirstInv
    <3>5. QED
      BY <1>1, <2>1, <2>2, <3>1, <3>2, <3>4, FirstOpens
  <2>5. QED
    BY <2>3, <2>4
<1>5. QED
  BY <1>3, <1>4

\* Only a confirmed write lets the call go on, and what it wrote, or found, is
\* the generation that Redis holds.
LEMMA FirstRecordStep ==
  ASSUME GatewayInv, FirstInv, NEW a \in Attempts, RecordGeneration(a)
  PROVE  FirstInv'
<1>1. PICK wrote \in BOOLEAN, failed \in BOOLEAN :
         /\ ~failed => wrote
         /\ IF wrote /\ row.epoch = NoEpoch
            THEN /\ row' = [epoch |-> call[a].owed, established |-> TRUE]
                 /\ recorded' = recorded \cup {call[a].owed}
            ELSE UNCHANGED <<row, recorded>>
         /\ call' = Goto(a, AfterRecord(a, failed))
  BY DEF RecordGeneration
<1>2. /\ GatewayTypeOK /\ CallInv(a) /\ Names(row)
      /\ call[a].pc \in Recording /\ UNCHANGED vars
  BY DEF GatewayInv, RecordGeneration, Recording
<1>3. call[a].owed = epoch /\ epoch # NoEpoch /\ ~call[a].sent
  BY <1>2 DEF CallInv, FirstInv, Recording, Finished
<1>4. row'.epoch \in {NoEpoch, epoch} /\ recorded \subseteq recorded'
  BY <1>1, <1>3 DEF FirstInv
<1>5. ~failed => epoch \in recorded'
  BY <1>1, <1>2, <1>3 DEF FirstInv, Names
<1> DEFINE pc == AfterRecord(a, failed)
<1>6. /\ pc \in Steps /\ pc \notin {"recording", "sending", "answered"}
      /\ pc = "held" => ~failed /\ call[a].pc = "recording"
  BY DEF AfterRecord, Steps
<1>7. call' = Goto(a, pc)
  BY <1>1
<1> HIDE DEF pc
<1>8. /\ call'[a].pc = pc
      /\ call'[a].owed = call[a].owed /\ call'[a].sent = call[a].sent
      /\ \A b \in Attempts : b # a => call'[b] = call[b]
  BY <1>2, <1>6, <1>7, GotoType
<1>9. ASSUME NEW b \in Attempts
      PROVE  /\ call'[b].owed = call[b].owed
             /\ Placed(b)' => Placed(b)
             /\ Allowed(b)' => Allowed(b) \/ epoch \in recorded'
  <2>1. CASE b = a
    BY <1>3, <1>5, <1>6, <1>8, <2>1 DEF Placed, Allowed
  <2>2. CASE b # a
    BY <1>8, <2>2 DEF Placed, Allowed
  <2>3. QED
    BY <2>1, <2>2
<1>10. QED
  BY <1>2, <1>4, <1>9 DEF FirstInv, vars

LEMMA FirstNext ==
  ASSUME OnlyCalls, GatewayInv, FirstInv, [GatewayNext]_gvars
  PROVE  FirstInv'
<1>1. ASSUME UNCHANGED <<epoch, row, recorded>>,
             \A b \in Attempts : Stays(b) /\ Knows(b)
      PROVE  FirstInv'
  BY <1>1, FirstQuiet DEF Knows, Placed, Allowed
<1>2. ASSUME NEW a \in Attempts, Handler(a) \/ Strand(a) PROVE FirstInv'
  BY <1>2, FirstQuietStep, FirstOpenStep, FirstRecordStep DEF Handler
<1>3. ASSUME (\E a \in Attempts : FillCache(a)) \/ PurgeCache \/ ExpireCache
      PROVE  FirstInv'
  <2>1. call \in [Attempts -> Call]
    BY DEF GatewayInv, GatewayTypeOK
  <2>2. \A b \in Attempts : Knows(b)
    <3>1. \A b \in Attempts : LET now == [call[b] EXCEPT !.fill = FALSE]
                              IN  /\ now.pc = call[b].pc /\ now.seen = call[b].seen
                                  /\ now.owed = call[b].owed /\ now.sent = call[b].sent
      BY <2>1 DEF Call
    <3>2. ASSUME NEW a \in Attempts, FillCache(a) PROVE \A b \in Attempts : Knows(b)
      <4>1. call' = [call EXCEPT ![a] = [call[a] EXCEPT !.fill = FALSE]]
        BY <2>1, <3>2 DEF FillCache
      <4>2. QED
        BY <2>1, <3>1, <4>1 DEF Knows
    <3>3. QED
      BY <1>3, <3>1, <3>2 DEF PurgeCache, ExpireCache, Knows
  <2>3. UNCHANGED <<vars, row, recorded>>
    BY <1>3 DEF FillCache, PurgeCache, ExpireCache
  <2>4. QED
    BY <1>1, <2>2, <2>3 DEF vars, Stays
<1>4. ASSUME NEW a \in Attempts, ResolveHold(a) PROVE FirstInv'
  <2>1. /\ UNCHANGED <<row, recorded, call>>
        /\ \E outcome \in Outcomes, known \in Amount, certain \in [Dims -> BOOLEAN] :
              Settle(a, outcome, known, certain)
    BY <1>4, AmountType DEF ResolveHold, caller, Outcomes
  <2>2. TypeOK
    BY DEF GatewayInv, GatewayTypeOK
  <2>3. /\ epoch' = epoch
        /\ (\A b \in Attempts : b # a => Kept(b)) /\ (Kept(a) \/ Closes(a))
    BY <2>1, <2>2, SettleEffect
  <2>4. \A b \in Attempts : Stays(b) /\ Knows(b)
    BY <2>1, <2>3 DEF Kept, Closes, Stays, Knows, Terminal
  <2>5. QED
    BY <1>1, <2>1, <2>3, <2>4
<1>5. CASE UNCHANGED gvars
  BY <1>1, <1>5 DEF gvars, caller, vars, Stays, Knows
<1>6. Operators = {} /\ ~Flush
  BY DEF OnlyCalls, Flush
<1>7. QED
  BY <1>2, <1>3, <1>4, <1>5, <1>6 DEF GatewayNext

LEMMA FirstInvariance == OnlyCalls => (GatewaySpec => [](GatewayInv /\ FirstInv))
<1> SUFFICES ASSUME OnlyCalls PROVE GatewaySpec => [](GatewayInv /\ FirstInv)
  OBVIOUS
<1>1. GatewayInit => FirstInv
  <2> SUFFICES ASSUME GatewayInit PROVE FirstInv
    OBVIOUS
  <2>1. /\ hold = [a \in Attempts |-> NoHold] /\ call = [a \in Attempts |-> NoCall]
        /\ row.epoch \in {NoEpoch, epoch}
    BY DEF GatewayInit, FreshAgent, LegacyAgent, RunningAgent, Init, NeverEstablished
  <2>2. QED
    BY <2>1 DEF FirstInv, NoHold, NoCall, Placed, Allowed
<1>2. GatewayInv /\ FirstInv /\ [GatewayNext]_gvars => (GatewayInv /\ FirstInv)'
  BY FirstNext, GatewayNextInv
<1>3. QED
  BY <1>1, <1>2, GatewayInitInv, PTL DEF GatewaySpec

\* Any number of concurrent first calls, with lost replies, retries, failed
\* writes and killed handlers, leave Postgres naming the generation Redis holds:
\* OPEN_LUA answers with the live epoch, never with the mint it was offered.
THEOREM FirstCallsNeverBrick == OnlyCalls => (GatewaySpec => []NeverBricked)
<1>1. FirstInv => NeverBricked
  BY DEF FirstInv, NeverBricked
<1>2. QED
  BY <1>1, FirstInvariance, PTL

\* "A matching durable generation, or no upstream call" (route.ts): without a
\* rebuild or a loss every call that is sent was admitted in a recorded one.
THEOREM SentIsDurable == OnlyCalls => (GatewaySpec => []DurableBeforeSent)
<1>1. FirstInv => DurableBeforeSent
  BY DEF FirstInv, Placed, Allowed, DurableBeforeSent
<1>2. QED
  BY <1>1, FirstInvariance, PTL

-----------------------------------------------------------------------------
(* While nothing is lost, the reservation counter is exactly the open holds   *)

OpenUnits(d) == {u \in Units : hold[u[1]].st = "open" /\ u[2] <= hold[u[1]].et[d]}

\* Nothing was lost: a live generation has all its counters, a hold is there and
\* stamped, and the counter is what the open holds reserved.
StoreExact ==
  /\ \A a \in Attempts : /\ ~hold[a].gone
                         /\ hold[a].st # "absent" => hold[a].ep # NoEpoch /\ epoch # NoEpoch
  /\ epoch # NoEpoch => present = CounterKeys
  /\ \A d \in Dims : reserved[d] = Cardinality(OpenUnits(d))

\* What a rebuild has listed before there was a generation is nothing.
SeedsExact ==
  epoch = NoEpoch => \A o \in Operators : op[o].pc = "listed" => op[o].seed = Nothing

\* Putting one attempt's units next to a finite set that has none of them.
LEMMA Adds ==
  ASSUME NEW S, IsFiniteSet(S), NEW a, NEW n \in Nat, S \cap Column(a, n) = {}
  PROVE  Cardinality(S \cup Column(a, n)) = Cardinality(S) + n
<1>1. IsFiniteSet(Column(a, n)) /\ Cardinality(Column(a, n)) = n
  BY ColumnSize
<1>2. Cardinality(S \cup Column(a, n)) =
         Cardinality(S) + Cardinality(Column(a, n)) - Cardinality(S \cap Column(a, n))
  BY <1>1, FS_Union
<1>3. Cardinality(S \cap Column(a, n)) = 0
  BY FS_EmptySet
<1>4. Cardinality(S) \in Nat
  BY FS_CardinalityType
<1>5. QED
  BY <1>1, <1>2, <1>3, <1>4

LEMMA OpenUnitsFinite ==
  ASSUME NEW d \in Dims
  PROVE  /\ OpenUnits(d) \in SUBSET Units /\ OpenUnits(d)' \in SUBSET Units
         /\ IsFiniteSet(OpenUnits(d)) /\ Cardinality(OpenUnits(d)) \in Nat
         /\ IsFiniteSet(OpenUnits(d)') /\ Cardinality(OpenUnits(d)') \in Nat
<1>1. OpenUnits(d) \in SUBSET Units /\ OpenUnits(d)' \in SUBSET Units
  BY DEF OpenUnits
<1>2. QED
  BY <1>1, UnitsFinite

\* Steps that open and close nothing reserve nothing.
LEMMA SameOpenUnits ==
  ASSUME \A b \in Attempts : hold'[b].st = hold[b].st /\ hold'[b].et = hold[b].et,
         NEW d \in Dims
  PROVE  OpenUnits(d)' = OpenUnits(d)
<1>1. \A u \in Units : u[1] \in Attempts
  BY DEF Units
<1>2. QED
  BY <1>1, Zenon DEF OpenUnits, Units

\* OPEN_LUA reserves in the counter what it writes into the hold.
LEMMA ExactOpen ==
  ASSUME TypeOK, StoreExact, NEW a \in Attempts, NEW mode \in {"0", "1", "2"}, NEW expected,
         NEW est \in Estimates, NEW mint \in Generations, NEW admit \in BOOLEAN,
         Open(a, mode, expected, est, mint, admit)
  PROVE  StoreExact'
<1> DEFINE reply == OpenReply(a, mode, expected, est, admit)
<1>1. CASE reply = "state"
  <2>1. UNCHANGED vars
    BY <1>1 DEF Open
  <2>2. \A d \in Dims : OpenUnits(d)' = OpenUnits(d)
    BY <2>1, SameOpenUnits DEF vars
  <2>3. QED
    BY <2>1, <2>2 DEF vars, StoreExact
<1>2. CASE reply # "state"
  <2>1. epoch' # NoEpoch /\ (epoch' = epoch \/ epoch = NoEpoch)
    BY <1>2, BudgetAssumption DEF Open, OpenReply, StateLost, Mints
  <2>2. LiveEpoch(mode, mint) = epoch'
    BY <1>2 DEF Open, LiveEpoch
  <2>3. (IF Seeds(mode) THEN CounterKeys ELSE present) = CounterKeys
    BY <1>2 DEF OpenReply, StateLost, Seeds, Mints, StoreExact
  <2>4. present' = CounterKeys
    BY <1>2, <2>3 DEF Open, CounterKeys
  <2>5. CASE reply = "opened"
    <3>1. Reserve(a, mode, est, mint)
      BY <2>5 DEF Open
    <3>2. hold[a].st = "absent"
      BY <2>5 DEF OpenReply, Exists, StoreExact
    <3>3. /\ hold'[a].st = "open" /\ hold'[a].et = est /\ hold'[a].ep = epoch'
          /\ ~hold'[a].gone
          /\ \A b \in Attempts \ {a} : hold'[b] = hold[b]
      BY <2>2, <3>1 DEF Reserve, NoHold, TypeOK
    <3>4. ASSUME NEW d \in Dims PROVE reserved'[d] = Cardinality(OpenUnits(d)')
      <4>1. est[d] \in Nat /\ est[d] \in 0..MaxUnits /\ MaxUnits \in Nat
        BY BudgetAssumption
      <4>2. \A u \in Units : u = <<u[1], u[2]>> /\ u[1] \in Attempts /\ u[2] \in 1..MaxUnits
        BY DEF Units
      <4>3. OpenUnits(d) \cap Column(a, est[d]) = {}
        BY <3>2 DEF OpenUnits, Column
      <4>4. OpenUnits(d)' = OpenUnits(d) \cup Column(a, est[d])
        <5>1. ASSUME NEW u \in Units
              PROVE  u \in OpenUnits(d)' <=> u \in OpenUnits(d) \/ u \in Column(a, est[d])
          <6>1. CASE u[1] = a
            BY <3>2, <3>3, <4>1, <4>2, <6>1 DEF OpenUnits, Column
          <6>2. CASE u[1] # a
            BY <3>3, <4>2, <6>2 DEF OpenUnits, Column
          <6>3. QED
            BY <6>1, <6>2
        <5>2. Column(a, est[d]) \subseteq Units
          BY <4>1 DEF Column, Units
        <5>3. QED
          BY <5>1, <5>2, OpenUnitsFinite
      <4>5. reserved'[d] = reserved[d] + est[d]
        BY <3>1 DEF Reserve
      <4>6. QED
        BY <4>1, <4>3, <4>4, <4>5, Adds, OpenUnitsFinite DEF StoreExact
    <3>5. QED
      BY <2>1, <2>4, <3>3, <3>4 DEF StoreExact
  <2>6. CASE reply # "opened"
    <3>1. UNCHANGED <<reserved, hold>>
      BY <1>2, <2>6 DEF Open
    <3>2. \A d \in Dims : OpenUnits(d)' = OpenUnits(d)
      BY <3>1, SameOpenUnits
    <3>3. QED
      BY <2>1, <2>4, <3>1, <3>2 DEF StoreExact
  <2>7. QED
    BY <2>5, <2>6
<1>3. QED
  BY <1>1, <1>2

\* SETTLE_LUA gives back the estimate the hold was opened with, once.
LEMMA ExactSettle ==
  ASSUME TypeOK, StoreExact, NEW a \in Attempts, NEW outcome \in Outcomes,
         NEW known \in Amount, NEW certain \in [Dims -> BOOLEAN],
         Settle(a, outcome, known, certain)
  PROVE  StoreExact'
<1> DEFINE charge == Applied(a, outcome, known, certain)
<1>1. CASE SettleReply(a, outcome) = "applied"
  <2>1. /\ MoveCounters(a, charge) /\ CloseHold(a, outcome, charge, FALSE)
        /\ UNCHANGED epoch
    BY <1>1 DEF Settle
  <2> HIDE DEF charge
  <2>2. hold[a].st = "open" /\ epoch # NoEpoch /\ present = CounterKeys
    BY <1>1 DEF SettleReply, StoreExact
  <2>3. /\ hold'[a].st \in Terminal /\ hold'[a].ep = hold[a].ep /\ ~hold'[a].gone
        /\ \A b \in Attempts \ {a} : hold'[b] = hold[b]
    <3>1. TerminalState(outcome) \in Terminal
      BY DEF TerminalState, Terminal
    <3>2. hold \in [Attempts -> Hold]
      BY DEF TypeOK
    <3>3. QED
      BY <2>1, <3>1, <3>2 DEF CloseHold, Hold, StoreExact
  <2>4. ASSUME NEW d \in Dims PROVE reserved'[d] = Cardinality(OpenUnits(d)')
    <3>1. hold[a].et[d] \in Nat /\ hold[a].et[d] \in 0..MaxUnits /\ MaxUnits \in Nat
      BY BudgetAssumption DEF TypeOK, Hold, Amount
    <3>2. \A u \in Units : u = <<u[1], u[2]>> /\ u[1] \in Attempts /\ u[2] \in 1..MaxUnits
      BY DEF Units
    <3>3. OpenUnits(d)' \cap Column(a, hold[a].et[d]) = {}
      BY <2>3 DEF OpenUnits, Column, Terminal
    <3>4. OpenUnits(d) = OpenUnits(d)' \cup Column(a, hold[a].et[d])
      <4>1. ASSUME NEW u \in Units
            PROVE  u \in OpenUnits(d) <=> u \in OpenUnits(d)' \/ u \in Column(a, hold[a].et[d])
        <5>1. CASE u[1] = a
          BY <2>2, <2>3, <3>1, <3>2, <5>1 DEF OpenUnits, Column, Terminal
        <5>2. CASE u[1] # a
          BY <2>3, <3>2, <5>2 DEF OpenUnits, Column
        <5>3. QED
          BY <5>1, <5>2
      <4>2. Column(a, hold[a].et[d]) \subseteq Units
        BY <3>1 DEF Column, Units
      <4>3. QED
        BY <4>1, <4>2, OpenUnitsFinite
    <3>5. reserved'[d] = reserved[d] - hold[a].et[d]
      BY <2>1 DEF MoveCounters
    <3>6. Cardinality(OpenUnits(d)) = Cardinality(OpenUnits(d)') + hold[a].et[d]
      BY <3>1, <3>3, <3>4, Adds, OpenUnitsFinite
    <3>7. QED
      BY <3>1, <3>5, <3>6, OpenUnitsFinite DEF StoreExact
  <2>5. present' = CounterKeys
    BY <2>1, <2>2 DEF MoveCounters, CounterKeys
  <2>6. QED
    BY <2>1, <2>2, <2>3, <2>4, <2>5 DEF StoreExact
<1>2. SettleReply(a, outcome) # "degraded"
  BY DEF SettleReply, Fenced, StoreExact
<1>3. CASE UNCHANGED vars
  <2>1. \A d \in Dims : OpenUnits(d)' = OpenUnits(d)
    BY <1>3, SameOpenUnits DEF vars
  <2>2. QED
    BY <1>3, <2>1 DEF vars, StoreExact
<1>4. QED
  BY <1>1, <1>2, <1>3 DEF Settle

\* What does not move the store keeps it exact, whatever handlers learn.
LEMMA ExactQuiet ==
  ASSUME StoreExact, SeedsExact, UNCHANGED <<epoch, present, reserved, op>>,
         \A b \in Attempts : /\ hold'[b].st = hold[b].st /\ hold'[b].et = hold[b].et
                             /\ hold'[b].ep = hold[b].ep /\ hold'[b].gone = hold[b].gone
  PROVE  StoreExact' /\ SeedsExact'
<1>1. \A d \in Dims : OpenUnits(d)' = OpenUnits(d)
  BY SameOpenUnits
<1>2. QED
  BY <1>1 DEF StoreExact, SeedsExact

\* Once there is a generation it stays, or another follows it.
LEMMA SeedsKept ==
  ASSUME GatewayInv, SeedsExact, UNCHANGED op, epoch # NoEpoch => epoch' # NoEpoch
  PROVE  SeedsExact'
BY DEF SeedsExact

LEMMA ExactHandler ==
  ASSUME GatewayInv, StoreExact, SeedsExact, NEW a \in Attempts, Handler(a)
  PROVE  StoreExact' /\ SeedsExact'
<1>1. TypeOK /\ UNCHANGED op
  BY DEF GatewayInv, GatewayTypeOK, Handler, ReadPolicy, OpenHold, OpenUnanswered,
         RecordGeneration, RefuseHeld, ConsumePermission, PermissionUnanswered, Send,
         SettleCall, ReleaseCall
<1>2. CASE UNCHANGED vars
  BY <1>1, <1>2, ExactQuiet DEF vars
<1>3. CASE OpenHold(a) \/ (OpenUnanswered(a) /\ ~UNCHANGED vars)
  <2>1. PICK est \in Estimates, mint \in Generations, admit \in BOOLEAN :
           Open(a, Mode(call[a].seen), call[a].seen.epoch, est, mint, admit)
    BY <1>3, OpenAnswer, GatewayAssumption DEF Answers, OpenUnanswered, RunOpen
  <2>2. Mode(call[a].seen) \in {"0", "1", "2"}
    BY HandlerMode
  <2>3. StoreExact'
    BY <1>1, <2>1, <2>2, ExactOpen
  <2>4. epoch' = epoch \/ epoch = NoEpoch
    BY <1>1, <2>1, <2>2, OpenEffect
  <2>5. QED
    BY <1>1, <2>3, <2>4, SeedsKept
<1>4. CASE Dispatch(a)
  <2>1. \A b \in Attempts : /\ hold'[b].st = hold[b].st /\ hold'[b].et = hold[b].et
                            /\ hold'[b].ep = hold[b].ep /\ hold'[b].gone = hold[b].gone
    BY <1>1, <1>4 DEF Dispatch, TypeOK, Hold
  <2>2. QED
    BY <1>1, <1>4, <2>1, ExactQuiet DEF Dispatch
<1>5. CASE SettleCall(a) \/ ReleaseCall(a)
  <2>1. PICK outcome \in Outcomes, known \in Amount, certain \in [Dims -> BOOLEAN] :
           Settle(a, outcome, known, certain)
    <3>1. CASE SettleCall(a)
      <4>1. PICK outcome \in {"complete", "usage_unknown"}, known \in Figures :
               Settle(a, outcome, known, [d \in Dims |-> outcome = "complete"])
        BY <3>1 DEF SettleCall
      <4>2. outcome \in Outcomes /\ [d \in Dims |-> outcome = "complete"] \in [Dims -> BOOLEAN]
        BY DEF Outcomes
      <4>3. QED
        BY <4>1, <4>2, AmountType
    <3>2. CASE ReleaseCall(a)
      <4>1. "not_dispatched" \in Outcomes /\ [d \in Dims |-> FALSE] \in [Dims -> BOOLEAN]
        BY DEF Outcomes
      <4>2. QED
        BY <3>2, <4>1, AmountType DEF ReleaseCall
    <3>3. QED
      BY <1>5, <3>1, <3>2
  <2>2. StoreExact' /\ epoch' = epoch
    BY <1>1, <2>1, ExactSettle, SettleEffect
  <2>3. QED
    BY <1>1, <2>2, SeedsKept
<1>6. QED
  BY <1>2, <1>3, <1>4, <1>5 DEF Handler, ReadPolicy, OpenUnanswered, RecordGeneration,
     RefuseHeld, ConsumePermission, PermissionUnanswered, Send

\* A rebuild that lists before there is a generation lists nothing; one that
\* re-bases a live one leaves its reservations alone.
LEMMA ExactRebuild ==
  ASSUME GatewayInv, StoreExact, SeedsExact, NEW o \in Operators, RebuildStep(o)
  PROVE  StoreExact' /\ SeedsExact'
<1>1. /\ op \in [Operators -> Rebuild] /\ OperatorsInv
      /\ hold' = hold /\ \A d \in Dims : OpenUnits(d)' = OpenUnits(d)
  <2>1. hold' = hold
    BY DEF RebuildStep, RebuildWrite, RebuildIndex, RebuildList, RebuildRebase,
           RebuildAbandon, Rebase, vars
  <2>2. QED
    BY <2>1, SameOpenUnits DEF GatewayInv, GatewayTypeOK
<1>2. ASSUME UNCHANGED vars, NEW now \in Rebuild, op' = [op EXCEPT ![o] = now],
             now.pc = "listed" /\ epoch = NoEpoch => now.seed = Nothing
      PROVE  StoreExact' /\ SeedsExact'
  BY <1>1, <1>2 DEF StoreExact, SeedsExact, vars
<1>3. NoRebuild \in Rebuild /\ NoRebuild.pc = "idle"
  BY AmountType, BudgetAssumption DEF NoRebuild, Rebuild, Nothing
<1>4. CASE RebuildWrite(o)
  <2>1. PICK g \in Fresh : op' = [op EXCEPT ![o].pc = "written", ![o].epoch = g]
    BY <1>4 DEF RebuildWrite
  <2> DEFINE now == [op[o] EXCEPT !.pc = "written", !.epoch = g]
  <2>2. now \in Rebuild /\ now.pc = "written" /\ op' = [op EXCEPT ![o] = now]
    BY <1>1, <2>1 DEF Rebuild, Fresh
  <2> HIDE DEF now
  <2>3. QED
    BY <1>2, <1>4, <2>2 DEF RebuildWrite
<1>5. CASE RebuildIndex(o)
  <2> DEFINE now == [op[o] EXCEPT !.pc = "listing", !.ids = Indexed]
  <2>1. now \in Rebuild /\ now.pc = "listing" /\ op' = [op EXCEPT ![o] = now]
    BY <1>1, <1>5 DEF RebuildIndex, Rebuild, Indexed
  <2> HIDE DEF now
  <2>2. QED
    BY <1>2, <1>5, <2>1 DEF RebuildIndex
<1>6. CASE RebuildList(o)
  <2> DEFINE seed == [d \in Dims |-> Cardinality(ListedUnits(op[o].ids, d))]
  <2>1. seed \in [Dims -> Nat]
    BY <1>1, SeedType DEF Rebuild
  <2>2. epoch = NoEpoch => seed = Nothing
    <3>1. ASSUME epoch = NoEpoch, NEW d \in Dims PROVE ListedUnits(op[o].ids, d) = {}
      BY <3>1 DEF StoreExact, ListedUnits, Units, Exists
    <3>2. QED
      BY <3>1, FS_EmptySet DEF Nothing
  <2> DEFINE now == [op[o] EXCEPT !.pc = "listed", !.ids = {}, !.seed = seed]
  <2>3. op' = [op EXCEPT ![o] = now]
    BY <1>1, <1>6 DEF RebuildList
  <2> HIDE DEF seed
  <2>4. now \in Rebuild /\ now.seed = seed
    BY <1>1, <2>1 DEF Rebuild
  <2> HIDE DEF now
  <2>5. QED
    BY <1>2, <1>6, <2>2, <2>3, <2>4 DEF RebuildList
<1>7. CASE RebuildRebase(o)
  <2>1. PICK total \in Figures : Rebase(op[o].epoch, total, op[o].seed)
    BY <1>7 DEF RebuildRebase
  <2>2. op[o].pc = "listed" /\ op' = [op EXCEPT ![o] = NoRebuild]
    BY <1>7 DEF RebuildRebase
  <2>3. epoch' \in Generations /\ epoch' # NoEpoch /\ present' = CounterKeys
    BY <1>1, <2>1, <2>2, BudgetAssumption
       DEF Rebase, OperatorsInv, GatewayInv, GatewayTypeOK
  <2>4. ASSUME NEW d \in Dims PROVE reserved'[d] = reserved[d]
    <3>1. CASE epoch # NoEpoch
      <4>1. <<"reserved", d>> \in present
        BY <3>1 DEF StoreExact, CounterKeys
      <4>2. QED
        BY <2>1, <4>1 DEF Rebase
    <3>2. CASE epoch = NoEpoch
      <4>1. op[o].seed[d] = 0
        BY <2>2, <3>2 DEF SeedsExact, Nothing
      <4>2. OpenUnits(d) = {}
        BY <3>2 DEF StoreExact, OpenUnits, Units
      <4>3. reserved[d] = 0
        BY <4>2, FS_EmptySet DEF StoreExact
      <4>4. QED
        BY <2>1, <4>1, <4>3 DEF Rebase
    <3>3. QED
      BY <3>1, <3>2
  <2>5. QED
    BY <1>1, <2>3, <2>4 DEF StoreExact, SeedsExact
<1>8. CASE RebuildAbandon(o)
  BY <1>2, <1>3, <1>8 DEF RebuildAbandon
<1>9. QED
  BY <1>4, <1>5, <1>6, <1>7, <1>8 DEF RebuildStep

\* Without a loss the reservation counter is exactly what the open holds reserved:
\* replays, late settles, unanswered requests, killed handlers and rebuilds that
\* race all of them neither leak a reservation nor refund one.
THEOREM ReservationsAreExact == ~Flushes => (GatewaySpec => []ReservedIsOpen)
<1> SUFFICES ASSUME ~Flushes PROVE GatewaySpec => []ReservedIsOpen
  OBVIOUS
<1> DEFINE Inv == GatewayInv /\ StoreExact /\ SeedsExact
<1>1. GatewayInit => Inv
  <2> SUFFICES ASSUME GatewayInit PROVE StoreExact /\ SeedsExact
    BY GatewayInitInv
  <2>1. /\ hold = [a \in Attempts |-> NoHold] /\ op = [o \in Operators |-> NoRebuild]
        /\ reserved = Nothing
        /\ epoch # NoEpoch => present = CounterKeys
    BY DEF GatewayInit, FreshAgent, LegacyAgent, RunningAgent, Init
  <2>2. ASSUME NEW d \in Dims PROVE reserved[d] = Cardinality(OpenUnits(d))
    <3>1. OpenUnits(d) = {}
      BY <2>1 DEF OpenUnits, Units, NoHold
    <3>2. QED
      BY <2>1, <3>1, FS_EmptySet DEF Nothing
  <2>3. QED
    BY <2>1, <2>2 DEF StoreExact, SeedsExact, NoHold, NoRebuild
<1>2. Inv /\ [GatewayNext]_gvars => Inv'
  <2> SUFFICES ASSUME Inv, [GatewayNext]_gvars PROVE StoreExact' /\ SeedsExact'
    BY GatewayNextInv
  <2>1. ASSUME UNCHANGED <<vars, op>> PROVE StoreExact' /\ SeedsExact'
    BY <2>1, ExactQuiet DEF vars
  <2>2. ASSUME NEW a \in Attempts, FillCache(a) \/ Strand(a)
        PROVE  StoreExact' /\ SeedsExact'
    BY <2>1, <2>2 DEF FillCache, Strand
  <2>3. CASE PurgeCache \/ ExpireCache \/ UNCHANGED gvars
    BY <2>1, <2>3 DEF PurgeCache, ExpireCache, gvars, caller
  <2>4. ASSUME NEW a \in Attempts, ResolveHold(a) PROVE StoreExact' /\ SeedsExact'
    <3>1. PICK outcome \in Outcomes, known \in Amount, certain \in [Dims -> BOOLEAN] :
             Settle(a, outcome, known, certain)
      BY <2>4, AmountType DEF ResolveHold, Outcomes
    <3>2. TypeOK /\ UNCHANGED op
      BY <2>4 DEF ResolveHold, caller, GatewayInv, GatewayTypeOK
    <3>3. StoreExact' /\ epoch' = epoch
      BY <3>1, <3>2, ExactSettle, SettleEffect
    <3>4. QED
      BY <3>2, <3>3, SeedsKept
  <2>5. ~Flush
    BY DEF Flush
  <2>6. QED
    BY <2>2, <2>3, <2>4, <2>5, ExactHandler, ExactRebuild DEF GatewayNext
<1>3. Inv => ReservedIsOpen
  <2> SUFFICES ASSUME Inv, NEW d \in Dims
               PROVE  reserved[d] = Cardinality(ListedUnits(Indexed, d))
    BY DEF ReservedIsOpen
  <2>1. \A u \in Units : u[1] \in Attempts
    BY DEF Units
  <2>2. ListedUnits(Indexed, d) = OpenUnits(d)
    BY <2>1 DEF ListedUnits, Indexed, Exists, OpenUnits, StoreExact
  <2>3. QED
    BY <2>2 DEF StoreExact
<1> HIDE DEF Inv
<1>4. QED
  BY <1>1, <1>2, <1>3, PTL DEF GatewaySpec


-----------------------------------------------------------------------------
(* The handlers use every mode, also "2", which is not fenced: what the store *)
(* promises fenced callers it keeps for them as well, since a generation that *)
(* is live has all its counters (a flush takes both) and a record is never    *)
(* lost between an open and its retry.                                        *)

\* No request of this handler for a hold has reached Redis.
Unasked(a) ==
  \/ call[a].pc \in {"idle", "reseeding"}
  \/ call[a].pc = "opening" /\ ~call[a].retried

\* A handler that may still open has a record only if it asked for one before.
Before(a) == call[a].pc \in {"idle", "opening", "reseeding"}

PlaceInv(a) ==
  /\ Unasked(a) => hold[a].st = "absent"
  /\ Before(a) => ~hold[a].gone

StoreInv ==
  /\ AccountInv
  /\ epoch # NoEpoch => present = CounterKeys
  /\ \A a \in Attempts : PlaceInv(a)

\* A step keeps the store: its invariant, its counters and its account.
Keeps == AccountInv' /\ (epoch' # NoEpoch => present' = CounterKeys) /\ Tells

LEMMA StutterKeeps == ASSUME StoreInv, UNCHANGED vars PROVE Keeps
<1>1. AccountInv' /\ Tells
  BY GuardedStepTells DEF GuardedStep, StoreInv
<1>2. QED
  BY <1>1 DEF vars, Keeps, StoreInv

\* An open of a handler, in whichever mode its policy read put it.
LEMMA OpenKeeps ==
  ASSUME GatewayInv, StoreInv, NEW a \in Attempts, call[a].pc = "opening",
         NEW est \in Estimates, NEW mint \in Generations, NEW admit \in BOOLEAN,
         Open(a, Mode(call[a].seen), call[a].seen.epoch, est, mint, admit)
  PROVE  /\ Keeps
         /\ \A b \in Attempts : b # a => hold'[b] = hold[b]
         /\ ~hold'[a].gone
         /\ OpenReply(a, Mode(call[a].seen), call[a].seen.epoch, est, admit) = "denied"
            => hold[a].st = "absent" /\ hold'[a].st = "absent"
<1> DEFINE mode == Mode(call[a].seen)
           expected == call[a].seen.epoch
           reply == OpenReply(a, mode, expected, est, admit)
<1>1. /\ mode \in {"0", "1", "2"} /\ BudgetInv /\ TypeOK
      /\ expected \in Generations \cup {NoEpoch}
  BY HandlerMode DEF StoreInv, AccountInv, BudgetInv, GatewayInv, GatewayTypeOK, Call, Row
<1>2. Guarded(mode) /\ ~hold[a].gone
  BY <1>1 DEF Guarded, StoreInv, PlaceInv, Before
<1>3. Open(a, mode, expected, est, mint, admit)
  OBVIOUS
<1> HIDE DEF mode, expected
<1>4. AccountInv' /\ Tells
  <2>1. GuardedOpen
    BY <1>1, <1>2, <1>3 DEF GuardedOpen
  <2>2. QED
    BY <2>1, GuardedStepTells DEF GuardedStep, StoreInv
<1>5. epoch' # NoEpoch => present' = CounterKeys
  <2>1. CASE reply = "state"
    BY <1>3, <2>1 DEF Open, vars, StoreInv
  <2>2. CASE reply # "state"
    BY <1>1, <1>2, <1>3, <2>2, CheckedState
  <2>3. QED
    BY <2>1, <2>2
<1>6. /\ \A b \in Attempts : b # a => hold'[b] = hold[b]
      /\ ~hold'[a].gone
      /\ reply = "denied" => hold[a].st = "absent" /\ hold'[a].st = "absent"
  <2>1. CASE reply = "opened"
    <3>1. Reserve(a, mode, est, mint)
      BY <1>3, <2>1 DEF Open
    <3>2. QED
      BY <1>1, <2>1, <3>1 DEF Reserve, NoHold, TypeOK
  <2>2. CASE reply # "opened"
    <3>1. hold' = hold
      BY <1>3, <2>2 DEF Open, vars
    <3>2. reply = "denied" => hold[a].st = "absent"
      BY <1>2 DEF OpenReply, Exists
    <3>3. QED
      BY <1>2, <3>1, <3>2
  <2>3. QED
    BY <2>1, <2>2
<1>7. QED
  BY <1>4, <1>5, <1>6 DEF Keeps, mode, expected

\* A settle, whoever asks for it.
LEMMA SettleKeeps ==
  ASSUME StoreInv, NEW a \in Attempts, NEW outcome \in Outcomes,
         NEW known \in Amount, NEW certain \in [Dims -> BOOLEAN],
         Settle(a, outcome, known, certain)
  PROVE  /\ Keeps
         /\ \A b \in Attempts : b # a => hold'[b] = hold[b]
         /\ hold'[a].gone = hold[a].gone
<1>1. BudgetInv /\ TypeOK /\ AccountInv
  BY DEF StoreInv, AccountInv, BudgetInv
<1>2. /\ epoch' = epoch /\ present' = present
      /\ \A b \in Attempts \ {a} : hold'[b] = hold[b]
  BY <1>1, SettleTouches
<1>3. AccountInv' /\ Tells
  BY <1>1, GuardedStepTells DEF GuardedStep, AnySettle
<1>4. hold'[a].gone = hold[a].gone
  BY <1>1 DEF Settle, CloseHold, TypeOK, Hold, vars
<1>5. QED
  BY <1>2, <1>3, <1>4 DEF Keeps, StoreInv

\* The dispatch permission.
LEMMA DispatchKeeps ==
  ASSUME StoreInv, NEW a \in Attempts, Dispatch(a)
  PROVE  /\ Keeps
         /\ \A b \in Attempts : b # a => hold'[b] = hold[b]
<1>1. AccountInv' /\ Tells
  BY GuardedStepTells DEF GuardedStep, StoreInv
<1>2. \A b \in Attempts : b # a => hold'[b] = hold[b]
  BY DEF Dispatch, StoreInv, AccountInv, BudgetInv, TypeOK
<1>3. QED
  BY <1>1, <1>2 DEF Keeps, StoreInv, Dispatch

\* An operator's rebuild.
LEMMA RebaseKeeps ==
  ASSUME StoreInv, NEW g \in Generations, NEW total \in [Dims -> Nat],
         NEW seed \in [Dims -> Nat], Rebase(g, total, seed)
  PROVE  Keeps /\ hold' = hold
<1>1. AccountInv' /\ Tells
  BY GuardedStepTells DEF GuardedStep, AnyRebase, StoreInv
<1>2. QED
  BY <1>1 DEF Keeps, Rebase

\* A flush: nothing is claimed of counters without a generation.
LEMMA FlushKeeps ==
  ASSUME StoreInv, Flush
  PROVE  /\ Keeps
         /\ \A b \in Attempts : /\ hold'[b].st = hold[b].st
                                /\ hold'[b].gone <=> hold[b].st # "absent"
<1>1. BudgetInv /\ TypeOK /\ UnopenedIsBlank
  BY DEF StoreInv, AccountInv, BudgetInv
<1>2. \A b \in Attempts : /\ hold'[b].st = hold[b].st
                          /\ hold'[b].ep = hold[b].ep
                          /\ hold'[b].et = hold[b].et
                          /\ hold'[b].at = hold[b].at
                          /\ hold'[b].ph = hold[b].ph
                          /\ hold'[b].gone <=> hold[b].st # "absent"
                          /\ hold'[b] \in Hold
  <2>1. \A b \in Attempts :
           LET now == [hold[b] EXCEPT !.gone = hold[b].st # "absent"]
           IN  /\ now \in Hold /\ now.st = hold[b].st /\ now.ep = hold[b].ep
               /\ now.et = hold[b].et /\ now.at = hold[b].at /\ now.ph = hold[b].ph
               /\ now.gone <=> hold[b].st # "absent"
    BY <1>1 DEF TypeOK, Hold
  <2>2. QED
    BY <2>1 DEF Flush
<1>3. TypeOK'
  <2>1. hold' \in [Attempts -> Hold]
    BY <1>2 DEF Flush
  <2>2. QED
    BY <1>1, <2>1, AmountType DEF Flush, TypeOK
<1>4. NonNegative'
  BY DEF Flush, NonNegative, Nothing
<1>5. StampsUsed' /\ OpenedIsStamped' /\ DispatchedIsNeverReleased' /\ UnopenedIsBlank'
  BY <1>1, <1>2 DEF Flush, BudgetInv, StampsUsed, OpenedIsStamped,
                    DispatchedIsNeverReleased, UnopenedIsBlank
<1>6. \A b \in Attempts : ~ InGeneration(b)'
  BY DEF Flush, InGeneration
<1>7. \A d \in Dims : Cardinality(AdmittedUnits(d)') = 0
  BY <1>6, EmptyUnits
<1>8. ReservedCoversOpen' /\ SpentCoversCharges' /\ AdmittedWithinCap' /\ DegradedMeansLost'
  BY <1>6, <1>7 DEF Flush, ReservedCoversOpen, SpentCoversCharges, AdmittedWithinCap,
                    DegradedMeansLost
<1>9. Tells
  <2>1. Told' = Told
    BY <1>2, SameCalls
  <2>2. Account!Forget
    BY <2>1 DEF Flush, Account!Forget, Told
  <2>3. QED
    BY <2>2 DEF Tells, Account!AccountNext
<1>10. QED
  BY <1>2, <1>3, <1>4, <1>5, <1>8, <1>9 DEF Flush, Keeps, AccountInv, BudgetInv


\* A step of one handler, seen from the others.
LEMMA PlacesKept ==
  ASSUME StoreInv, Keeps, NEW a \in Attempts, PlaceInv(a)',
         \A b \in Attempts : b # a => hold'[b] = hold[b] /\ call'[b] = call[b]
  PROVE  StoreInv'
<1>1. \A b \in Attempts : b # a => PlaceInv(b)'
  BY DEF StoreInv, PlaceInv, Unasked, Before
<1>2. QED
  BY <1>1 DEF StoreInv, Keeps

\* A handler that has opened, or gives up, has no place to keep.
LEMMA GotoKeeps ==
  ASSUME GatewayInv, StoreInv, Keeps, NEW a \in Attempts, NEW pc \in Steps,
         call' = Goto(a, pc), pc \notin {"idle", "opening", "reseeding"},
         \A b \in Attempts : b # a => hold'[b] = hold[b]
  PROVE  StoreInv'
<1>1. call'[a].pc = pc /\ \A b \in Attempts : b # a => call'[b] = call[b]
  BY GotoType DEF GatewayInv
<1>2. PlaceInv(a)'
  BY <1>1 DEF PlaceInv, Unasked, Before
<1>3. QED
  BY <1>1, <1>2, PlacesKept

\* The policy read: the call asks for nothing yet.
LEMMA ReadPolicyKeeps ==
  ASSUME GatewayInv, StoreInv, NEW a \in Attempts, ReadPolicy(a)
  PROVE  StoreInv' /\ Tells
<1>1. Keeps /\ hold' = hold
  BY StutterKeeps DEF ReadPolicy, vars
<1>2. PICK s \in {cached, row, NeverEstablished}, fill \in BOOLEAN :
         call' = [call EXCEPT ![a].pc = "opening", ![a].seen = s, ![a].fill = fill]
  BY DEF ReadPolicy
<1>3. \A b \in Attempts : b # a => call'[b] = call[b]
  BY <1>2 DEF GatewayInv, GatewayTypeOK
<1>4. hold[a].st = "absent" /\ ~hold[a].gone
  BY DEF ReadPolicy, StoreInv, PlaceInv, Unasked, Before
<1>5. QED
  BY <1>1, <1>3, <1>4, PlacesKept DEF PlaceInv, Keeps

\* An open that answered ends the asking, unless it asks for a period's figure,
\* which it does only when no record was written.
LEMMA OpenHoldKeeps ==
  ASSUME GatewayInv, StoreInv, NEW a \in Attempts, OpenHold(a)
  PROVE  StoreInv' /\ Tells
<1>1. PICK est \in Estimates, mint \in Generations, admit \in BOOLEAN, seed \in BOOLEAN :
         Answers(a, est, mint, admit, seed)
  BY OpenAnswer
<1> DEFINE mode == Mode(call[a].seen)
           expected == call[a].seen.epoch
           reply == OpenReply(a, mode, expected, est, admit)
           owed == IF reply = "state" THEN NoEpoch ELSE Owed(mode, mint)
<1>2. /\ Open(a, mode, expected, est, mint, admit)
      /\ call'[a].pc = AfterOpen(reply, owed, seed)
      /\ reply \in {"state", "replay", "denied", "opened"}
      /\ \A b \in Attempts : b # a => call'[b] = call[b]
  BY <1>1 DEF Answers
<1>3. call[a].pc = "opening"
  BY DEF OpenHold
<1>4. /\ Keeps
      /\ \A b \in Attempts : b # a => hold'[b] = hold[b]
      /\ ~hold'[a].gone
      /\ reply = "denied" => hold'[a].st = "absent"
  BY <1>2, <1>3, OpenKeeps
<1> HIDE DEF mode, expected, reply, owed
<1>5. call'[a].pc \in {"idle", "opening", "reseeding"} => reply = "denied"
  BY <1>2 DEF AfterOpen
<1>6. PlaceInv(a)'
  BY <1>4, <1>5 DEF PlaceInv, Unasked, Before
<1>7. QED
  BY <1>2, <1>4, <1>6, PlacesKept DEF Keeps

\* An open that did not answer is asked once more, and what it wrote is there.
LEMMA OpenUnansweredKeeps ==
  ASSUME GatewayInv, StoreInv, NEW a \in Attempts, OpenUnanswered(a)
  PROVE  StoreInv' /\ Tells
<1>1. call[a].pc = "opening" /\ ~hold[a].gone
  BY DEF OpenUnanswered, StoreInv, PlaceInv, Before
<1>2. /\ call'[a].pc = "releasing" \/ call'[a].retried
      /\ call'[a].pc \in {"opening", "releasing"}
      /\ \A b \in Attempts : b # a => call'[b] = call[b]
  BY <1>1, UnansweredType DEF OpenUnanswered, AfterThrow, Steps, GatewayInv
<1>3. /\ Keeps
      /\ \A b \in Attempts : b # a => hold'[b] = hold[b]
      /\ ~hold'[a].gone
  <2>1. CASE UNCHANGED vars
    BY <1>1, <2>1, StutterKeeps DEF vars
  <2>2. CASE ~UNCHANGED vars
    <3>1. PICK est \in Estimates, mint \in Generations, admit \in Verdicts :
             Open(a, Mode(call[a].seen), call[a].seen.epoch, est, mint, admit)
      BY <2>2 DEF OpenUnanswered, RunOpen
    <3>2. admit \in BOOLEAN
      BY GatewayAssumption
    <3>3. QED
      BY <1>1, <3>1, <3>2, OpenKeeps
  <2>3. QED
    BY <2>1, <2>2
<1>4. PlaceInv(a)'
  BY <1>2, <1>3 DEF PlaceInv, Unasked, Before
<1>5. QED
  BY <1>2, <1>3, <1>4, PlacesKept DEF Keeps

\* The write of a generation: back to the open only from a denial.
LEMMA RecordGenerationKeeps ==
  ASSUME GatewayInv, StoreInv, NEW a \in Attempts, RecordGeneration(a)
  PROVE  StoreInv' /\ Tells
<1>1. Keeps /\ hold' = hold
  BY StutterKeeps DEF RecordGeneration, vars
<1>2. PICK failed \in BOOLEAN : call' = Goto(a, AfterRecord(a, failed))
  BY DEF RecordGeneration
<1> DEFINE pc == AfterRecord(a, failed)
<1>3. /\ pc \in {"releasing", "held", "opening", "done"}
      /\ pc = "opening" => call[a].pc = "reseeding"
  BY DEF AfterRecord
<1> HIDE DEF pc
<1>4. call'[a].pc = pc /\ \A b \in Attempts : b # a => call'[b] = call[b]
  BY <1>2, <1>3, GotoType DEF GatewayInv, Steps, pc
<1>5. PlaceInv(a)'
  BY <1>1, <1>3, <1>4 DEF PlaceInv, Unasked, Before, StoreInv
<1>6. QED
  BY <1>1, <1>4, <1>5, PlacesKept DEF Keeps

\* From the hold to the answer no step goes back to asking for one.
LEMMA HeldKeeps ==
  ASSUME GatewayInv, StoreInv, NEW a \in Attempts,
         \/ RefuseHeld(a) \/ ConsumePermission(a) \/ Send(a)
         \/ SettleCall(a) \/ ReleaseCall(a) \/ Strand(a)
  PROVE  StoreInv' /\ Tells
<1>1. /\ Keeps
      /\ \A b \in Attempts : b # a => hold'[b] = hold[b]
  <2>1. CASE RefuseHeld(a) \/ Send(a) \/ Strand(a)
    BY <2>1, StutterKeeps DEF RefuseHeld, Send, Strand, vars
  <2>2. CASE ConsumePermission(a)
    BY <2>2, DispatchKeeps DEF ConsumePermission
  <2>3. CASE SettleCall(a)
    <3>1. PICK outcome \in {"complete", "usage_unknown"}, known \in Figures :
             Settle(a, outcome, known, [d \in Dims |-> outcome = "complete"])
      BY <2>3 DEF SettleCall
    <3>2. outcome \in Outcomes /\ [d \in Dims |-> outcome = "complete"] \in [Dims -> BOOLEAN]
      BY DEF Outcomes
    <3>3. QED
      BY <3>1, <3>2, SettleKeeps, AmountType
  <2>4. CASE ReleaseCall(a)
    <3>1. "not_dispatched" \in Outcomes /\ [d \in Dims |-> FALSE] \in [Dims -> BOOLEAN]
      BY DEF Outcomes
    <3>2. QED
      BY <2>4, <3>1, SettleKeeps, AmountType DEF ReleaseCall
  <2>5. QED
    BY <2>1, <2>2, <2>3, <2>4
<1>2. CASE Send(a)
  <2>1. call' = [Goto(a, "answered") EXCEPT ![a].sent = TRUE]
    BY <1>2 DEF Send
  <2> DEFINE next == Goto(a, "answered")
  <2>2. /\ next \in [Attempts -> Call] /\ next[a].pc = "answered"
        /\ \A b \in Attempts : b # a => next[b] = call[b]
    BY GotoType DEF Steps, GatewayInv
  <2> HIDE DEF next
  <2>3. call'[a].pc = "answered" /\ \A b \in Attempts : b # a => call'[b] = call[b]
    BY <2>1, <2>2 DEF next, Call
  <2>4. PlaceInv(a)'
    BY <2>3 DEF PlaceInv, Unasked, Before
  <2>5. QED
    BY <1>1, <2>3, <2>4, PlacesKept DEF Keeps
<1>3. CASE ~Send(a)
  <2>1. \E pc \in {"releasing", "sending", "stranded", "done"} : call' = Goto(a, pc)
    BY <1>3 DEF RefuseHeld, ConsumePermission, SettleCall, ReleaseCall, Strand
  <2>2. QED
    BY <1>1, <2>1, GotoKeeps DEF Steps, Keeps
<1>4. QED
  BY <1>2, <1>3

\* A permission that did not answer leaves the hold, held or stranded.
LEMMA PermissionUnansweredKeeps ==
  ASSUME GatewayInv, StoreInv, NEW a \in Attempts, PermissionUnanswered(a)
  PROVE  StoreInv' /\ Tells
<1>1. /\ Keeps
      /\ \A b \in Attempts : b # a => hold'[b] = hold[b]
  BY DispatchKeeps, StutterKeeps DEF PermissionUnanswered, vars
<1>2. /\ call'[a].pc \in {"held", "stranded"}
      /\ \A b \in Attempts : b # a => call'[b] = call[b]
  BY UnansweredType DEF PermissionUnanswered, Steps, GatewayInv
<1>3. PlaceInv(a)'
  BY <1>2 DEF PlaceInv, Unasked, Before
<1>4. QED
  BY <1>1, <1>2, <1>3, PlacesKept DEF Keeps

\* The caches, and a handler's cache fill, are not the store's.
LEMMA CacheKeeps ==
  ASSUME GatewayInv, StoreInv,
         \/ \E a \in Attempts : FillCache(a)
         \/ PurgeCache \/ ExpireCache \/ UNCHANGED gvars
  PROVE  StoreInv' /\ Tells
<1>1. Keeps /\ hold' = hold
  BY StutterKeeps DEF FillCache, PurgeCache, ExpireCache, gvars, vars
<1>2. \A b \in Attempts : call'[b].pc = call[b].pc /\ call'[b].retried = call[b].retried
  <2>1. call \in [Attempts -> Call]
    BY DEF GatewayInv, GatewayTypeOK
  <2>2. QED
    BY <2>1 DEF FillCache, PurgeCache, ExpireCache, gvars, caller, Call
<1>3. \A b \in Attempts : PlaceInv(b)'
  BY <1>1, <1>2 DEF StoreInv, PlaceInv, Unasked, Before
<1>4. QED
  BY <1>1, <1>3 DEF Keeps, StoreInv

\* A rebuild, at whichever step it is.
LEMMA RebuildKeeps ==
  ASSUME GatewayInv, StoreInv, NEW o \in Operators, RebuildStep(o)
  PROVE  StoreInv' /\ Tells
<1>1. Keeps /\ hold' = hold
  <2>1. CASE RebuildRebase(o)
    <3>1. PICK total \in Figures : Rebase(op[o].epoch, total, op[o].seed)
      BY <2>1 DEF RebuildRebase
    <3>2. op[o].epoch \in Generations /\ op[o].seed \in [Dims -> Nat]
      BY <2>1 DEF RebuildRebase, GatewayInv, OperatorsInv, Rebuild, GatewayTypeOK
    <3>3. QED
      BY <3>1, <3>2, RebaseKeeps, AmountType
  <2>2. CASE ~RebuildRebase(o)
    BY <2>2, StutterKeeps DEF RebuildStep, RebuildWrite, RebuildIndex, RebuildList,
                              RebuildAbandon, vars
  <2>3. QED
    BY <2>1, <2>2
<1>2. call' = call
  BY DEF RebuildStep, RebuildWrite, RebuildIndex, RebuildList, RebuildRebase, RebuildAbandon
<1>3. \A b \in Attempts : PlaceInv(b)'
  BY <1>1, <1>2 DEF StoreInv, PlaceInv, Unasked, Before
<1>4. QED
  BY <1>1, <1>3 DEF Keeps, StoreInv

\* An operator's decision is about a hold that is there, or was.
LEMMA ResolveKeeps ==
  ASSUME GatewayInv, StoreInv, NEW a \in Attempts, ResolveHold(a)
  PROVE  StoreInv' /\ Tells
<1>1. PICK outcome \in Outcomes, known \in Amount, certain \in [Dims -> BOOLEAN] :
         Settle(a, outcome, known, certain)
  BY AmountType DEF ResolveHold, Outcomes
<1>2. /\ Keeps
      /\ \A b \in Attempts : b # a => hold'[b] = hold[b]
      /\ hold'[a].gone = hold[a].gone
  BY <1>1, SettleKeeps
<1>3. hold[a].st # "absent" /\ call' = call
  BY DEF ResolveHold, caller
<1>4. PlaceInv(a)'
  BY <1>2, <1>3 DEF StoreInv, PlaceInv, Unasked, Before
<1>5. QED
  BY <1>2, <1>3, <1>4, PlacesKept DEF Keeps

\* A flush finds no request between its two tries, so no record that it takes
\* is one that a handler may still open.
LEMMA FlushPlaces ==
  ASSUME GatewayInv, StoreInv, Flush
  PROVE  StoreInv' /\ Tells
<1>1. /\ Keeps
      /\ \A b \in Attempts : /\ hold'[b].st = hold[b].st
                             /\ hold'[b].gone <=> hold[b].st # "absent"
  BY FlushKeeps
<1>2. call' = call /\ \A b \in Attempts : ~call[b].retried
  BY DEF Flush
<1>3. \A b \in Attempts : PlaceInv(b)'
  BY <1>1, <1>2 DEF StoreInv, PlaceInv, Unasked, Before
<1>4. QED
  BY <1>1, <1>3 DEF Keeps, StoreInv

LEMMA StoreNext ==
  ASSUME GatewayInv, StoreInv, [GatewayNext]_gvars
  PROVE  StoreInv' /\ Tells
BY ReadPolicyKeeps, OpenHoldKeeps, OpenUnansweredKeeps, RecordGenerationKeeps, HeldKeeps,
   PermissionUnansweredKeeps, CacheKeeps, RebuildKeeps, ResolveKeeps, FlushPlaces
   DEF GatewayNext, Handler

LEMMA StoreInit ==
  ASSUME GatewayInit
  PROVE  StoreInv
<1>1. /\ hold = [a \in Attempts |-> NoHold] /\ call = [a \in Attempts |-> NoCall]
      /\ epoch # NoEpoch => present = CounterKeys
  BY DEF GatewayInit, FreshAgent, LegacyAgent, RunningAgent, Init
<1>2. UnopenedIsBlank /\ \A a \in Attempts : PlaceInv(a)
  BY <1>1 DEF UnopenedIsBlank, NoHold, NoCall, PlaceInv
<1>3. BudgetInv
  <2>1. CASE Init
    BY <2>1, InitInv
  <2>2. CASE RunningAgent
    <3>1. TypeOK
      BY GatewayInitInv DEF GatewayInv, GatewayTypeOK
    <3>2. NonNegative
      BY <2>2, AmountType DEF RunningAgent, NonNegative, Nothing
    <3>3. /\ StampsUsed /\ OpenedIsStamped /\ DispatchedIsNeverReleased
          /\ \A b \in Attempts : ~ InGeneration(b)
      BY <1>1, <2>2 DEF RunningAgent, NoHold, StampsUsed, OpenedIsStamped,
                        DispatchedIsNeverReleased, InGeneration
    <3>4. \A d \in Dims : /\ ReservationUnits(d) = {} /\ ChargeUnits(d) = {}
                          /\ AdmittedUnits(d) = {}
      <4>1. \A u \in Units : ~ InGeneration(u[1])
        BY <3>3 DEF Units
      <4>2. QED
        BY <4>1 DEF ReservationUnits, ChargeUnits, AdmittedUnits
    <3>5. Cardinality({}) = 0
      BY FS_EmptySet
    <3>6. ReservedCoversOpen /\ SpentCoversCharges /\ AdmittedWithinCap
      BY <3>2, <3>4, <3>5 DEF NonNegative, ReservedCoversOpen, SpentCoversCharges,
                              AdmittedWithinCap
    <3>7. DegradedMeansLost
      BY <3>3 DEF DegradedMeansLost
    <3>8. QED
      BY <3>1, <3>2, <3>3, <3>6, <3>7 DEF BudgetInv
  <2>3. QED
    BY <2>1, <2>2 DEF GatewayInit, FreshAgent, LegacyAgent
<1>4. QED
  BY <1>1, <1>2, <1>3 DEF StoreInv, AccountInv

LEMMA StoreInvariance == GatewaySpec => [](GatewayInv /\ StoreInv)
<1>1. GatewayInit => GatewayInv /\ StoreInv
  BY GatewayInitInv, StoreInit
<1>2. GatewayInv /\ StoreInv /\ [GatewayNext]_gvars => (GatewayInv /\ StoreInv)'
  BY GatewayNextInv, StoreNext
<1>3. QED
  BY <1>1, <1>2, PTL DEF GatewaySpec

\* The calls of an agent keep its store, in all three modes and whatever the
\* start, the flushes, the lost replies, the rebuilds and the resolves: the
\* reservation counter covers the open holds of its generation, the spend
\* counter its charges, and the cap what was admitted in it (route.ts around
\* OPEN_LUA and SETTLE_LUA).
THEOREM CallsKeepTheStore ==
  GatewaySpec => [](ReservedCoversOpen /\ SpentCoversCharges /\ AdmittedWithinCap)
<1>1. StoreInv => ReservedCoversOpen /\ SpentCoversCharges /\ AdmittedWithinCap
  BY DEF StoreInv, AccountInv, BudgetInv
<1>2. QED
  BY <1>1, StoreInvariance, PTL

\* Every step of the calls, the operators and Redis is a step of BudgetAccount or
\* leaves it as it was: a call is admitted within the cap of its generation, sent
\* at most once and closed once, whatever the handlers' modes.
THEOREM CallsKeepTheAccount == GatewaySpec => [][Account!AccountNext]_(Account!accountVars)
<1>1. GatewayInv /\ StoreInv /\ [GatewayNext]_gvars
        => [Account!AccountNext]_(Account!accountVars)
  BY StoreNext DEF Tells
<1>2. QED
  BY <1>1, StoreInvariance, PTL DEF GatewaySpec

\* An agent that no call has budgeted yet, or that spent before generations
\* existed, has the account of BudgetAccount from its first call on.
THEOREM FirstCallsMeetAccount == "running" \notin Starts => (GatewaySpec => MeetsAccount)
<1> SUFFICES ASSUME "running" \notin Starts PROVE GatewaySpec => MeetsAccount
  OBVIOUS
<1>1. GatewayInit => Account!AccountInit
  BY AccountBegins DEF GatewayInit, FreshAgent, LegacyAgent
<1>2. GatewaySpec => GatewayInit
  BY DEF GatewaySpec
<1>3. QED
  BY <1>1, <1>2, CallsKeepTheAccount, PTL DEF MeetsAccount, Account!AccountSpec
=============================================================================
