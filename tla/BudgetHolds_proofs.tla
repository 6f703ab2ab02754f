-------------------------- MODULE BudgetHolds_proofs --------------------------
(***************************************************************************)
(* Theorems about BudgetHolds for every value of its constants: type       *)
(* correctness with all four calling modes, and, when callers are fenced   *)
(* (modes "0" and "1"), the invariants and action properties that TLC      *)
(* checks on small instances, and that the scripts implement               *)
(* BudgetAccount.  The last section is for the modules that run the        *)
(* scripts beside state of their own.                                      *)
(***************************************************************************)
EXTENDS BudgetHolds, FiniteSetTheorems, TLAPS

-----------------------------------------------------------------------------
(* Type correctness *)

\* Amounts are integers per dimension; nothing and an unopened attempt are well typed.
LEMMA AmountType ==
  /\ Amount \subseteq [Dims -> Int]
  /\ Amount \subseteq [Dims -> Nat]
  /\ Figures \subseteq Amount
  /\ Nothing \in Amount
  /\ NoHold \in Hold
<1>1. Nothing \in Amount
  BY BudgetAssumption DEF Nothing, Amount
<1>2. Amount \subseteq [Dims -> Int] /\ Amount \subseteq [Dims -> Nat] /\ Figures \subseteq Amount
  BY BudgetAssumption DEF Amount
<1>3. QED
  BY <1>1, <1>2 DEF NoHold, Hold

\* OPEN_LUA, in every mode, keeps the types.
LEMMA OpenType ==
  ASSUME TypeOK, NEW a \in Attempts, NEW mode, NEW expected,
         NEW est \in Estimates, NEW mint \in Generations,
         NEW admit \in BOOLEAN,
         Open(a, mode, expected, est, mint, admit)
  PROVE  TypeOK'
<1> DEFINE seeded == IF Seeds(mode) THEN CounterKeys ELSE present
<1>1. CASE UNCHANGED vars
  BY <1>1 DEF TypeOK, vars
<1>2. CASE ~ UNCHANGED vars
  <2>1. /\ used' \subseteq Generations
        /\ epoch' \in Generations \cup {NoEpoch}
        /\ fmt' \in {"absent", "current", "other"}
        /\ spent' \in [Dims -> Int]
    BY <1>2 DEF Open, TypeOK
  <2>2. present' \subseteq CounterKeys
    BY <1>2 DEF Open, TypeOK, CounterKeys
  <2>3. est \in Amount
    BY BudgetAssumption DEF Amount
  <2>4. LiveEpoch(mode, mint) \in Generations \cup {NoEpoch}
    BY DEF LiveEpoch, TypeOK
  <2>5. [NoHold EXCEPT !.st = "open", !.et = est, !.ep = LiveEpoch(mode, mint)] \in Hold
    BY <2>3, <2>4, AmountType DEF NoHold, Hold
  <2>6. /\ reserved' \in [Dims -> Int]
        /\ hold' \in [Attempts -> Hold]
    <3>1. CASE Reserve(a, mode, est, mint)
      <4>1. reserved' \in [Dims -> Int]
        BY <3>1, <2>3 DEF Reserve, TypeOK, Amount
      <4>2. QED
        BY <4>1, <3>1, <2>5 DEF Reserve, TypeOK
    <3>2. CASE UNCHANGED <<reserved, hold>>
      BY <3>2 DEF TypeOK
    <3>3. QED
      BY <1>2, <3>1, <3>2 DEF Open
  <2>7. QED
    BY <2>1, <2>2, <2>6 DEF TypeOK
<1>3. QED
  BY <1>1, <1>2

\* What a settle charges is an amount no larger than the bound on its inputs.
LEMMA AppliedType ==
  ASSUME TypeOK, NEW a \in Attempts, NEW outcome \in Outcomes,
         NEW known \in Amount, NEW certain \in [Dims -> BOOLEAN]
  PROVE  Applied(a, outcome, known, certain) \in Amount
<1>1. known \in Amount /\ hold[a].et \in Amount
  BY DEF TypeOK, Hold
<1>2. \A d \in Dims : Larger(known[d], hold[a].et[d]) \in 0..MaxUnits
  BY <1>1 DEF Larger, Amount
<1>3. \A d \in Dims : 0 \in 0..MaxUnits /\ known[d] \in 0..MaxUnits
  BY <1>1, BudgetAssumption DEF Amount
<1>4. QED
  BY <1>2, <1>3 DEF Applied, Amount

\* SETTLE_LUA keeps the types, whatever it answers.
LEMMA SettleType ==
  ASSUME TypeOK, NEW a \in Attempts, NEW outcome \in Outcomes,
         NEW known \in Amount, NEW certain \in [Dims -> BOOLEAN],
         Settle(a, outcome, known, certain)
  PROVE  TypeOK'
<1> DEFINE charge == Applied(a, outcome, known, certain)
<1>1. charge \in Amount
  BY AppliedType
<1>2. TerminalState(outcome) \in Terminal
  BY DEF TerminalState, Terminal
<1>3. ASSUME NEW lost \in BOOLEAN, CloseHold(a, outcome, charge, lost)
      PROVE  hold' \in [Attempts -> Hold]
  <2>1. hold[a] \in Hold
    BY DEF TypeOK
  <2>2. [hold[a] EXCEPT !.st = TerminalState(outcome), !.at = charge, !.dg = lost] \in Hold
    BY <1>1, <1>2, <2>1 DEF Hold
  <2>3. QED
    BY <1>3, <2>2 DEF CloseHold, TypeOK
<1>4. CASE SettleReply(a, outcome) = "applied"
  <2>1. /\ MoveCounters(a, charge)
        /\ CloseHold(a, outcome, charge, FALSE)
        /\ UNCHANGED <<epoch, fmt, used>>
    BY <1>4 DEF Settle
  <2>2. hold[a].et \in Amount
    BY DEF TypeOK, Hold
  <2>3. reserved' \in [Dims -> Int] /\ spent' \in [Dims -> Int]
    BY <1>1, <2>1, <2>2 DEF MoveCounters, TypeOK, Amount
  <2>4. present' \subseteq CounterKeys
    BY <2>1 DEF MoveCounters, TypeOK, CounterKeys
  <2>5. QED
    BY <1>3, <2>1, <2>3, <2>4 DEF TypeOK
<1>5. CASE SettleReply(a, outcome) = "degraded"
  BY <1>3, <1>5 DEF Settle, TypeOK
<1>6. CASE UNCHANGED vars
  BY <1>6 DEF vars, TypeOK
<1>7. QED
  BY <1>4, <1>5, <1>6 DEF Settle

\* DISPATCH_LUA keeps the types.
LEMMA DispatchType ==
  ASSUME TypeOK, NEW a \in Attempts, Dispatch(a)
  PROVE  TypeOK'
<1>1. [hold[a] EXCEPT !.ph = "dispatch_may_have_happened"] \in Hold
  BY DEF TypeOK, Hold
<1>2. hold' \in [Attempts -> Hold]
  BY <1>1 DEF Dispatch, TypeOK
<1>3. QED
  BY <1>2 DEF Dispatch, TypeOK

\* REBASE_LUA keeps the types.
LEMMA RebaseType ==
  ASSUME TypeOK, NEW g \in Generations, NEW total \in [Dims -> Int],
         NEW seed \in [Dims -> Int], Rebase(g, total, seed)
  PROVE  TypeOK'
BY DEF Rebase, TypeOK

\* RAISE_LUA keeps the types.
LEMMA RaiseType ==
  ASSUME TypeOK, NEW floor \in [Dims -> Int], Raise(floor)
  PROVE  TypeOK'
BY DEF Raise, Larger, TypeOK

\* Losing a counter key keeps the types.
LEMMA LoseType ==
  ASSUME TypeOK, NEW key \in Evictable, Lose(key)
  PROVE  TypeOK'
BY DEF Lose, TypeOK

\* Losing a hold's key keeps the types.
LEMMA LoseHoldType ==
  ASSUME TypeOK, NEW a \in Attempts, LoseHold(a)
  PROVE  TypeOK'
<1>1. [hold[a] EXCEPT !.gone = TRUE] \in Hold
  BY DEF TypeOK, Hold
<1>2. hold' \in [Attempts -> Hold]
  BY <1>1 DEF LoseHold, TypeOK
<1>3. QED
  BY <1>2 DEF LoseHold, TypeOK

\* What a first call may find is well typed.
LEMMA InitType == Init => TypeOK
<1> SUFFICES ASSUME Init PROVE TypeOK
  OBVIOUS
<1>1. spent \in [Dims -> Int] /\ reserved \in [Dims -> Int]
  BY BudgetAssumption, AmountType DEF Init, Amount
<1>2. hold \in [Attempts -> Hold]
  BY AmountType DEF Init
<1>3. QED
  BY <1>1, <1>2 DEF Init, TypeOK

\* Every reachable state is well typed, whatever mode callers send.
THEOREM TypeCorrect == Spec => []TypeOK
<1>1. TypeOK /\ [Next]_vars => TypeOK'
  <2> SUFFICES ASSUME TypeOK, [Next]_vars PROVE TypeOK'
    OBVIOUS
  <2>1. ASSUME NEW a \in Attempts, OpenAny(a) PROVE TypeOK'
    BY <2>1, OpenType DEF OpenAny
  <2>2. ASSUME NEW a \in Attempts, SettleAny(a) PROVE TypeOK'
    BY <2>2, SettleType, AmountType DEF SettleAny
  <2>3. CASE RebaseAny
    BY <2>3, RebaseType, AmountType DEF RebaseAny
  <2>4. CASE RaiseAny
    BY <2>4, RaiseType, AmountType DEF RaiseAny
  <2>5. CASE LoseAny
    BY <2>5, LoseType DEF LoseAny
  <2>6. CASE UNCHANGED vars
    BY <2>6 DEF vars, TypeOK
  <2>7. QED
    BY <2>1, <2>2, <2>3, <2>4, <2>5, <2>6, DispatchType, LoseHoldType DEF Next
<1>2. QED
  BY <1>1, InitType, PTL DEF Spec
-----------------------------------------------------------------------------
(* Counting units *)

Column(a, n) == {a} \X (1..n)

\* An attempt worth n is n units.
LEMMA ColumnSize ==
  ASSUME NEW a, NEW n \in Nat
  PROVE  IsFiniteSet(Column(a, n)) /\ Cardinality(Column(a, n)) = n
<1> DEFINE f == [i \in 1..n |-> <<a, i>>]
<1>1. f \in Bijection(1..n, Column(a, n))
  <2>1. f \in [1..n -> Column(a, n)]
    BY DEF Column
  <2>2. \A i, j \in 1..n : f[i] = f[j] => i = j
    OBVIOUS
  <2>3. \A c \in Column(a, n) : \E i \in 1..n : f[i] = c
    BY DEF Column
  <2>4. QED
    BY <2>1, <2>2, <2>3 DEF Bijection, Injection, IsInjective, Surjection
<1>2. IsFiniteSet(1..n) /\ Cardinality(1..n) = n
  BY FS_Interval
<1>3. QED
  BY <1>1, <1>2, FS_Bijection DEF ExistsBijection

\* Adding at most one attempt's units to a finite set.
LEMMA Grows ==
  ASSUME NEW S, IsFiniteSet(S), NEW a, NEW n \in Nat, NEW T \in SUBSET (S \cup Column(a, n))
  PROVE  IsFiniteSet(T) /\ Cardinality(T) <= Cardinality(S) + n
<1>1. IsFiniteSet(Column(a, n)) /\ Cardinality(Column(a, n)) = n
  BY ColumnSize
<1>2. IsFiniteSet(S \cap Column(a, n))
  BY <1>1, FS_Intersection
<1>3. /\ Cardinality(S) \in Nat
      /\ Cardinality(S \cap Column(a, n)) \in Nat
  BY <1>2, FS_CardinalityType
<1>4. /\ IsFiniteSet(S \cup Column(a, n))
      /\ Cardinality(S \cup Column(a, n)) =
            Cardinality(S) + Cardinality(Column(a, n)) - Cardinality(S \cap Column(a, n))
  BY <1>1, FS_Union
<1>5. /\ IsFiniteSet(T)
      /\ Cardinality(T) <= Cardinality(S \cup Column(a, n))
  BY <1>4, FS_Subset
<1>6. Cardinality(T) \in Nat
  BY <1>5, FS_CardinalityType
<1>7. QED
  BY <1>1, <1>3, <1>4, <1>5, <1>6

\* Taking one attempt's units out of a finite set that holds them all.
LEMMA Shrinks ==
  ASSUME NEW S, IsFiniteSet(S), NEW a, NEW n \in Nat, Column(a, n) \subseteq S,
         NEW T \in SUBSET (S \ Column(a, n))
  PROVE  Cardinality(T) + n <= Cardinality(S)
<1>1. IsFiniteSet(Column(a, n)) /\ Cardinality(Column(a, n)) = n
  BY ColumnSize
<1>2. IsFiniteSet(T)
  BY FS_Subset
<1>3. /\ IsFiniteSet(T \cup Column(a, n))
      /\ Cardinality(T \cup Column(a, n)) =
            Cardinality(T) + Cardinality(Column(a, n)) - Cardinality(T \cap Column(a, n))
  BY <1>1, <1>2, FS_Union
<1>4. T \cap Column(a, n) = {} /\ T \cup Column(a, n) \subseteq S
  OBVIOUS
<1>5. Cardinality(T \cap Column(a, n)) = 0
  BY <1>4, FS_EmptySet
<1>6. Cardinality(T \cup Column(a, n)) <= Cardinality(S)
  BY <1>4, FS_Subset
<1>7. Cardinality(T) \in Nat /\ Cardinality(S) \in Nat /\ Cardinality(T \cup Column(a, n)) \in Nat
  BY <1>2, <1>3, FS_CardinalityType
<1>8. QED
  BY <1>1, <1>3, <1>5, <1>6, <1>7

\* Every set of units is finite, so the sums are natural numbers.
LEMMA UnitsFinite ==
  /\ IsFiniteSet(Units)
  /\ \A T \in SUBSET Units : IsFiniteSet(T) /\ Cardinality(T) \in Nat
<1>1. IsFiniteSet(Units)
  <2>1. IsFiniteSet(1..MaxUnits)
    BY BudgetAssumption, FS_Interval
  <2>2. QED
    BY <2>1, BudgetAssumption, FS_Product DEF Units
<1>2. QED
  BY <1>1, FS_Subset, FS_CardinalityType
-----------------------------------------------------------------------------
(* The inductive invariant, when callers are fenced                        *)

NonNegative == \A d \in Dims : reserved[d] >= 0 /\ spent[d] >= 0

\* A generation that was never used stamps no hold.
StampsUsed ==
  /\ epoch \in used \cup {NoEpoch}
  /\ \A a \in Attempts : hold[a].ep \in used \cup {NoEpoch}

OpenedIsStamped == \A a \in Attempts : hold[a].st # "absent" => hold[a].ep # NoEpoch

BudgetInv ==
  /\ TypeOK
  /\ NonNegative
  /\ StampsUsed
  /\ OpenedIsStamped
  /\ ReservedCoversOpen
  /\ SpentCoversCharges
  /\ AdmittedWithinCap
  /\ DegradedMeansLost
  /\ DispatchedIsNeverReleased

\* A change that keeps the generation and every field the units are read from.
LEMMA SameUnits ==
  ASSUME epoch' = epoch,
         \A b \in Attempts : /\ hold'[b].st = hold[b].st
                             /\ hold'[b].ep = hold[b].ep
                             /\ hold'[b].et = hold[b].et
                             /\ hold'[b].at = hold[b].at
                             /\ hold'[b].dg = hold[b].dg,
         NEW d \in Dims
  PROVE  /\ ReservationUnits(d)' = ReservationUnits(d)
         /\ ChargeUnits(d)' = ChargeUnits(d)
         /\ AdmittedUnits(d)' = AdmittedUnits(d)
<1>1. \A u \in Units : u[1] \in Attempts
  BY DEF Units
<1>2. \A b \in Attempts : InGeneration(b)' <=> InGeneration(b)
  BY DEF InGeneration
<1>3. ReservationUnits(d)' = ReservationUnits(d)
  BY <1>1, <1>2, Zenon DEF ReservationUnits, Units
<1>4. ChargeUnits(d)' = ChargeUnits(d)
  BY <1>1, <1>2, Zenon DEF ChargeUnits, Units
<1>5. AdmittedUnits(d)' = AdmittedUnits(d)
  BY <1>1, <1>2, Zenon DEF AdmittedUnits, Units
<1>6. QED
  BY <1>3, <1>4, <1>5

\* In a generation without holds, or without a generation, nothing counts.
LEMMA EmptyUnits ==
  ASSUME \A b \in Attempts : ~ InGeneration(b)', NEW d \in Dims
  PROVE  /\ Cardinality(ReservationUnits(d)') = 0
         /\ Cardinality(ChargeUnits(d)') = 0
         /\ Cardinality(AdmittedUnits(d)') = 0
<1>1. \A u \in Units : ~ InGeneration(u[1])'
  BY DEF Units
<1>2. ReservationUnits(d)' = {} /\ ChargeUnits(d)' = {} /\ AdmittedUnits(d)' = {}
  BY <1>1 DEF ReservationUnits, ChargeUnits, AdmittedUnits
<1>3. QED
  BY <1>2, FS_EmptySet

\* The three sums the invariant compares are natural numbers.
LEMMA UnitsAreNat ==
  ASSUME NEW d \in Dims
  PROVE  /\ IsFiniteSet(ReservationUnits(d)) /\ Cardinality(ReservationUnits(d)) \in Nat
         /\ IsFiniteSet(ChargeUnits(d)) /\ Cardinality(ChargeUnits(d)) \in Nat
         /\ IsFiniteSet(AdmittedUnits(d)) /\ Cardinality(AdmittedUnits(d)) \in Nat
<1>1. /\ ReservationUnits(d) \in SUBSET Units
      /\ ChargeUnits(d) \in SUBSET Units
      /\ AdmittedUnits(d) \in SUBSET Units
  BY DEF ReservationUnits, ChargeUnits, AdmittedUnits
<1>2. QED
  BY <1>1, UnitsFinite

\* The same three sums, after a step.
LEMMA NextUnitsAreNat ==
  ASSUME NEW d \in Dims
  PROVE  /\ Cardinality(ReservationUnits(d)') \in Nat
         /\ Cardinality(ChargeUnits(d)') \in Nat
         /\ Cardinality(AdmittedUnits(d)') \in Nat
<1>1. /\ ReservationUnits(d)' \in SUBSET Units
      /\ ChargeUnits(d)' \in SUBSET Units
      /\ AdmittedUnits(d)' \in SUBSET Units
  BY DEF ReservationUnits, ChargeUnits, AdmittedUnits
<1>2. QED
  BY <1>1, UnitsFinite

-----------------------------------------------------------------------------
(* One lemma per action *)

\* Steps that move no reservation and no field the units are read from.
LEMMA QuietInv ==
  ASSUME BudgetInv, TypeOK', epoch' = epoch, reserved' = reserved,
         used' = used, present' = present,
         \A d \in Dims : spent'[d] >= spent[d],
         \A b \in Attempts : /\ hold'[b].st = hold[b].st
                             /\ hold'[b].ep = hold[b].ep
                             /\ hold'[b].et = hold[b].et
                             /\ hold'[b].at = hold[b].at
                             /\ hold'[b].dg = hold[b].dg,
         DispatchedIsNeverReleased'
  PROVE  BudgetInv'
<1>1. NonNegative'
  BY DEF BudgetInv, NonNegative, TypeOK
<1>2. StampsUsed' /\ OpenedIsStamped'
  BY DEF BudgetInv, StampsUsed, OpenedIsStamped
<1>3. ReservedCoversOpen'
  BY SameUnits DEF BudgetInv, ReservedCoversOpen
<1>4. SpentCoversCharges'
  BY SameUnits, UnitsAreNat DEF BudgetInv, SpentCoversCharges, TypeOK
<1>5. AdmittedWithinCap'
  BY SameUnits DEF BudgetInv, AdmittedWithinCap
<1>6. DegradedMeansLost'
  BY DEF BudgetInv, DegradedMeansLost, InGeneration
<1>7. QED
  BY <1>1, <1>2, <1>3, <1>4, <1>5, <1>6 DEF BudgetInv

\* A step that changes nothing keeps the invariant.
LEMMA StutterInv ==
  ASSUME BudgetInv, UNCHANGED vars
  PROVE  BudgetInv'
<1>1. TypeOK' /\ DispatchedIsNeverReleased'
  BY DEF vars, BudgetInv, TypeOK, DispatchedIsNeverReleased
<1>2. \A d \in Dims : spent[d] \in Int
  BY DEF BudgetInv, TypeOK
<1>3. QED
  BY <1>1, <1>2, QuietInv DEF vars

\* Consuming the dispatch permission keeps the invariant.
LEMMA DispatchInv ==
  ASSUME BudgetInv, NEW a \in Attempts, Dispatch(a)
  PROVE  BudgetInv'
<1>1. TypeOK'
  BY DispatchType DEF BudgetInv
<1>2. /\ UNCHANGED <<epoch, fmt, present, reserved, spent, used>>
      /\ \A d \in Dims : spent[d] \in Int
  BY DEF Dispatch, BudgetInv, TypeOK
<1>3. \A b \in Attempts : /\ hold'[b].st = hold[b].st
                          /\ hold'[b].ep = hold[b].ep
                          /\ hold'[b].et = hold[b].et
                          /\ hold'[b].at = hold[b].at
                          /\ hold'[b].dg = hold[b].dg
                          /\ hold'[b].ph # hold[b].ph => hold[b].st = "open"
  <2>1. CASE DispatchReply(a) = "granted"
    <3>1. hold[a].st = "open"
      BY <2>1 DEF DispatchReply
    <3>2. QED
      BY <2>1, <3>1 DEF Dispatch, BudgetInv, TypeOK, Hold
  <2>2. CASE DispatchReply(a) # "granted"
    BY <2>2 DEF Dispatch
  <2>3. QED
    BY <2>1, <2>2
<1>4. DispatchedIsNeverReleased'
  BY <1>3 DEF BudgetInv, DispatchedIsNeverReleased
<1>5. QED
  BY <1>1, <1>2, <1>3, <1>4, QuietInv

\* Losing a hold keeps the invariant: its reservation stays counted.
LEMMA LoseHoldInv ==
  ASSUME BudgetInv, NEW a \in Attempts, LoseHold(a)
  PROVE  BudgetInv'
<1>1. TypeOK'
  BY LoseHoldType DEF BudgetInv
<1>2. /\ UNCHANGED <<epoch, fmt, present, reserved, spent, used>>
      /\ \A d \in Dims : spent[d] \in Int
  BY DEF LoseHold, BudgetInv, TypeOK
<1>3. \A b \in Attempts : /\ hold'[b].st = hold[b].st
                          /\ hold'[b].ep = hold[b].ep
                          /\ hold'[b].et = hold[b].et
                          /\ hold'[b].at = hold[b].at
                          /\ hold'[b].dg = hold[b].dg
                          /\ hold'[b].ph = hold[b].ph
  BY DEF LoseHold, BudgetInv, TypeOK, Hold
<1>4. DispatchedIsNeverReleased'
  BY <1>3 DEF BudgetInv, DispatchedIsNeverReleased
<1>5. QED
  BY <1>1, <1>2, <1>3, <1>4, QuietInv

\* The cron's floor keeps the invariant: it never lowers a counter.
LEMMA RaiseInv ==
  ASSUME BudgetInv, NEW floor \in [Dims -> Int], Raise(floor)
  PROVE  BudgetInv'
<1>1. TypeOK'
  BY RaiseType DEF BudgetInv
<1>2. UNCHANGED <<epoch, present, reserved, hold, used>>
  BY DEF Raise
<1>3. \A d \in Dims : spent'[d] >= spent[d]
  BY DEF Raise, Larger, BudgetInv, TypeOK
<1>4. DispatchedIsNeverReleased'
  BY <1>2 DEF BudgetInv, DispatchedIsNeverReleased
<1>5. QED
  BY <1>1, <1>2, <1>3, <1>4, QuietInv

\* A rebuild keeps the invariant: no hold carries the new generation.
LEMMA RebaseInv ==
  ASSUME BudgetInv, NEW g \in Generations,
         NEW total \in [Dims -> Nat], NEW seed \in [Dims -> Nat],
         Rebase(g, total, seed)
  PROVE  BudgetInv'
<1>1. total \in [Dims -> Int] /\ seed \in [Dims -> Int]
  OBVIOUS
<1>2. TypeOK'
  BY <1>1, RebaseType DEF BudgetInv
<1>3. NonNegative'
  <2>1. \A d \in Dims : total[d] >= 0 /\ seed[d] >= 0
    OBVIOUS
  <2>2. QED
    BY <2>1 DEF Rebase, BudgetInv, NonNegative
<1>4. StampsUsed' /\ OpenedIsStamped' /\ DispatchedIsNeverReleased'
  BY DEF Rebase, BudgetInv, StampsUsed, OpenedIsStamped, DispatchedIsNeverReleased
<1>5. \A b \in Attempts : ~ InGeneration(b)'
  BY BudgetAssumption DEF Rebase, BudgetInv, StampsUsed, InGeneration
<1>6. \A d \in Dims : /\ Cardinality(ReservationUnits(d)') = 0
                      /\ Cardinality(ChargeUnits(d)') = 0
                      /\ Cardinality(AdmittedUnits(d)') = 0
  BY <1>5, EmptyUnits
<1>7. ReservedCoversOpen' /\ SpentCoversCharges' /\ AdmittedWithinCap'
  BY <1>3, <1>6 DEF NonNegative, ReservedCoversOpen, SpentCoversCharges, AdmittedWithinCap
<1>8. DegradedMeansLost'
  BY <1>5 DEF DegradedMeansLost
<1>9. QED
  BY <1>2, <1>3, <1>4, <1>7, <1>8 DEF BudgetInv

\* Losing a counter keeps the invariant: nothing is claimed of a missing key.
LEMMA LoseInv ==
  ASSUME BudgetInv, NEW key \in Evictable, Lose(key)
  PROVE  BudgetInv'
<1>1. TypeOK'
  BY LoseType DEF BudgetInv
<1>2. NonNegative'
  BY DEF Lose, BudgetInv, NonNegative, TypeOK
<1>3. StampsUsed' /\ OpenedIsStamped' /\ DispatchedIsNeverReleased'
  BY DEF Lose, BudgetInv, StampsUsed, OpenedIsStamped, DispatchedIsNeverReleased
<1>4. CASE epoch' = NoEpoch
  <2>1. \A b \in Attempts : ~ InGeneration(b)'
    BY <1>4 DEF InGeneration
  <2>2. \A d \in Dims : Cardinality(AdmittedUnits(d)') = 0
    BY <2>1, EmptyUnits
  <2>3. ReservedCoversOpen' /\ SpentCoversCharges'
    BY <1>4 DEF ReservedCoversOpen, SpentCoversCharges
  <2>4. AdmittedWithinCap' /\ DegradedMeansLost'
    BY <2>1, <2>2 DEF AdmittedWithinCap, DegradedMeansLost
  <2>5. QED
    BY <1>1, <1>2, <1>3, <2>3, <2>4 DEF BudgetInv
<1>5. CASE epoch' = epoch
  <2>1. hold' = hold /\ present' = present \ {key}
    BY DEF Lose
  <2>2. \A d \in Dims : /\ ReservationUnits(d)' = ReservationUnits(d)
                        /\ ChargeUnits(d)' = ChargeUnits(d)
                        /\ AdmittedUnits(d)' = AdmittedUnits(d)
    BY <1>5, <2>1, SameUnits
  <2>3. \A d \in Dims : /\ <<"reserved", d>> \in present' => reserved'[d] = reserved[d]
                        /\ <<"spent", d>> \in present' => spent'[d] = spent[d]
    BY <2>1 DEF Lose, BudgetInv, TypeOK
  <2>4. ReservedCoversOpen'
    BY <1>5, <2>1, <2>2, <2>3 DEF BudgetInv, ReservedCoversOpen
  <2>5. SpentCoversCharges'
    BY <1>5, <2>1, <2>2, <2>3 DEF BudgetInv, SpentCoversCharges
  <2>6. AdmittedWithinCap'
    BY <2>2 DEF BudgetInv, AdmittedWithinCap
  <2>7. DegradedMeansLost'
    BY <1>5, <2>1 DEF BudgetInv, TypeOK, DegradedMeansLost, InGeneration
  <2>8. QED
    BY <1>1, <1>2, <1>3, <2>4, <2>5, <2>6, <2>7 DEF BudgetInv
<1>6. QED
  BY <1>4, <1>5 DEF Lose

\* What the two settles that close a hold leave of every other attempt.
LEMMA Closed ==
  ASSUME TypeOK, NEW a \in Attempts, NEW outcome \in Outcomes, NEW charge \in Amount,
         NEW lost \in BOOLEAN, CloseHold(a, outcome, charge, lost),
         SettleReply(a, outcome) \in {"applied", "degraded"}
  PROVE  /\ hold[a].st = "open"
         /\ hold'[a].st \in Terminal /\ hold'[a].at = charge /\ hold'[a].dg = lost
         /\ \A b \in Attempts : /\ hold'[b].ep = hold[b].ep
                                /\ hold'[b].et = hold[b].et
                                /\ hold'[b].ph = hold[b].ph
         /\ \A b \in Attempts \ {a} : hold'[b] = hold[b]
         /\ hold'[a].st = "released" => hold[a].ph = "pre_dispatch"
<1>1. hold[a].st = "open"
  BY DEF SettleReply
<1>2. TerminalState(outcome) \in Terminal
  BY DEF TerminalState, Terminal
<1>3. TerminalState(outcome) = "released" => hold[a].ph = "pre_dispatch"
  BY DEF TerminalState, SettleReply
<1>4. hold'[a] = [hold[a] EXCEPT !.st = TerminalState(outcome), !.at = charge, !.dg = lost]
  BY DEF CloseHold, TypeOK
<1>5. \A b \in Attempts \ {a} : hold'[b] = hold[b]
  BY DEF CloseHold, TypeOK
<1>6. hold[a] \in Hold
  BY DEF TypeOK
<1>7. /\ hold'[a].st = TerminalState(outcome) /\ hold'[a].at = charge /\ hold'[a].dg = lost
      /\ hold'[a].ep = hold[a].ep /\ hold'[a].et = hold[a].et /\ hold'[a].ph = hold[a].ph
  BY <1>4, <1>6 DEF Hold
<1>8. \A b \in Attempts : /\ hold'[b].ep = hold[b].ep
                          /\ hold'[b].et = hold[b].et
                          /\ hold'[b].ph = hold[b].ph
  BY <1>5, <1>7
<1>9. QED
  BY <1>1, <1>2, <1>3, <1>5, <1>7, <1>8

\* A settle that moves the counters keeps the invariant.
LEMMA AppliedInv ==
  ASSUME BudgetInv, NEW a \in Attempts, NEW outcome \in Outcomes, NEW charge \in Amount,
         SettleReply(a, outcome) = "applied", MoveCounters(a, charge),
         CloseHold(a, outcome, charge, FALSE), UNCHANGED <<epoch, fmt, used>>,
         TypeOK'
  PROVE  BudgetInv'
<1>1. /\ hold[a].st = "open"
      /\ hold'[a].st \in Terminal /\ hold'[a].at = charge /\ hold'[a].dg = FALSE
      /\ \A b \in Attempts : /\ hold'[b].ep = hold[b].ep
                             /\ hold'[b].et = hold[b].et
                             /\ hold'[b].ph = hold[b].ph
      /\ \A b \in Attempts \ {a} : hold'[b] = hold[b]
      /\ hold'[a].st = "released" => hold[a].ph = "pre_dispatch"
  BY Closed DEF BudgetInv
\* The hold is stamped, so the fence held it to the generation and its counters.
<1>2. epoch # NoEpoch /\ hold[a].ep = epoch /\ present = CounterKeys
  BY <1>1 DEF SettleReply, Fenced, BudgetInv, OpenedIsStamped
<1>3. present' = CounterKeys
  BY <1>2 DEF MoveCounters, CounterKeys
<1>4. \A d \in Dims : <<"reserved", d>> \in present /\ <<"spent", d>> \in present
  BY <1>2 DEF CounterKeys
<1>5. \A d \in Dims : hold[a].et[d] \in 0..MaxUnits /\ charge[d] \in 0..MaxUnits
  BY DEF BudgetInv, TypeOK, Hold, Amount
<1>6. \A d \in Dims : hold[a].et[d] \in Nat /\ charge[d] \in Nat
  BY <1>5, BudgetAssumption
<1>7. \A d \in Dims : /\ reserved'[d] = reserved[d] - hold[a].et[d]
                      /\ spent'[d] = spent[d] + charge[d]
                      /\ reserved[d] \in Int /\ spent[d] \in Int
  BY DEF MoveCounters, BudgetInv, TypeOK
<1>8. \A b \in Attempts : InGeneration(b)' <=> InGeneration(b)
  BY <1>1 DEF InGeneration
<1>9. ASSUME NEW d \in Dims
      PROVE  Cardinality(ReservationUnits(d)') + hold[a].et[d] <= Cardinality(ReservationUnits(d))
  <2>1. Column(a, hold[a].et[d]) \subseteq ReservationUnits(d)
    BY <1>1, <1>2, <1>5, BudgetAssumption DEF Column, ReservationUnits, Units, InGeneration
  <2>2. \A u \in Units : u = <<u[1], u[2]>> /\ u[1] \in Attempts /\ u[2] \in 1..MaxUnits
    BY DEF Units
  <2>3. ReservationUnits(d)' \subseteq ReservationUnits(d) \ Column(a, hold[a].et[d])
    <3>1. ASSUME NEW u \in ReservationUnits(d)'
          PROVE  u \in ReservationUnits(d) /\ u[1] # a
      BY <1>1, <1>8, <2>2 DEF ReservationUnits, Terminal
    <3>2. QED
      BY <3>1 DEF Column
  <2>4. QED
    BY <1>6, <2>1, <2>3, UnitsAreNat, Shrinks
<1>10. ASSUME NEW d \in Dims
       PROVE  Cardinality(ChargeUnits(d)') <= Cardinality(ChargeUnits(d)) + charge[d]
  <2>1. \A u \in Units : u = <<u[1], u[2]>> /\ u[1] \in Attempts /\ u[2] \in 1..MaxUnits
    BY DEF Units
  <2>2. ChargeUnits(d)' \subseteq ChargeUnits(d) \cup Column(a, charge[d])
    <3>1. ASSUME NEW u \in ChargeUnits(d)', u[1] # a
          PROVE  u \in ChargeUnits(d)
      BY <1>1, <1>8, <2>1, <3>1 DEF ChargeUnits
    <3>2. ASSUME NEW u \in ChargeUnits(d)', u[1] = a
          PROVE  u \in Column(a, charge[d])
      BY <1>1, <1>6, <2>1, <3>2, BudgetAssumption DEF ChargeUnits, Column
    <3>3. QED
      BY <3>1, <3>2
  <2>3. QED
    BY <1>6, <2>2, UnitsAreNat, Grows
<1>11. ASSUME NEW d \in Dims
       PROVE  Cardinality(AdmittedUnits(d)') <= Cardinality(AdmittedUnits(d))
  <2>1. \A u \in Units : u[1] \in Attempts
    BY DEF Units
  <2>2. AdmittedUnits(d)' \subseteq AdmittedUnits(d)
    BY <1>1, <1>8, <2>1 DEF AdmittedUnits
  <2>3. QED
    BY <2>2, UnitsAreNat, FS_Subset
<1>12. ReservedCoversOpen' /\ NonNegative'
  <2>1. \A d \in Dims : reserved[d] >= Cardinality(ReservationUnits(d))
    BY <1>2, <1>4 DEF BudgetInv, ReservedCoversOpen
  <2>2. \A d \in Dims : Cardinality(ReservationUnits(d)') \in Nat
    BY NextUnitsAreNat
  <2>3. \A d \in Dims : reserved'[d] >= Cardinality(ReservationUnits(d)')
    BY <1>6, <1>7, <1>9, <2>1, <2>2, UnitsAreNat
  <2>4. \A d \in Dims : reserved'[d] >= 0 /\ spent'[d] >= 0
    BY <1>6, <1>7, <2>2, <2>3 DEF BudgetInv, NonNegative
  <2>5. QED
    BY <2>3, <2>4 DEF ReservedCoversOpen, NonNegative
<1>13. SpentCoversCharges'
  <2>1. \A d \in Dims : spent[d] >= Cardinality(ChargeUnits(d))
    BY <1>2, <1>4 DEF BudgetInv, SpentCoversCharges
  <2>2. \A d \in Dims : Cardinality(ChargeUnits(d)') \in Nat
    BY NextUnitsAreNat
  <2>3. QED
    BY <1>6, <1>7, <1>10, <2>1, <2>2, UnitsAreNat DEF SpentCoversCharges
<1>14. AdmittedWithinCap'
  <2>1. \A d \in Dims : Cardinality(AdmittedUnits(d)') \in Nat
    BY NextUnitsAreNat
  <2>2. \A d \in Dims : Cap[d] \in Int
    BY BudgetAssumption
  <2>3. QED
    BY <1>11, <2>1, <2>2, UnitsAreNat DEF BudgetInv, AdmittedWithinCap
<1>15. DegradedMeansLost'
  BY <1>1, <1>2, <1>8 DEF BudgetInv, DegradedMeansLost
<1>16. StampsUsed' /\ OpenedIsStamped'
  BY <1>1, <1>2 DEF BudgetInv, StampsUsed, OpenedIsStamped
<1>17. DispatchedIsNeverReleased'
  BY <1>1 DEF BudgetInv, DispatchedIsNeverReleased
<1>18. QED
  BY <1>12, <1>13, <1>14, <1>15, <1>16, <1>17 DEF BudgetInv
\* A settle on damaged counters, which moves none, keeps the invariant.
LEMMA DegradedInv ==
  ASSUME BudgetInv, NEW a \in Attempts, NEW outcome \in Outcomes, NEW charge \in Amount,
         SettleReply(a, outcome) = "degraded", CloseHold(a, outcome, charge, TRUE),
         UNCHANGED <<epoch, fmt, present, reserved, spent, used>>, TypeOK'
  PROVE  BudgetInv'
<1>1. /\ hold[a].st = "open"
      /\ hold'[a].st \in Terminal /\ hold'[a].at = charge /\ hold'[a].dg = TRUE
      /\ \A b \in Attempts : /\ hold'[b].ep = hold[b].ep
                             /\ hold'[b].et = hold[b].et
                             /\ hold'[b].ph = hold[b].ph
      /\ \A b \in Attempts \ {a} : hold'[b] = hold[b]
      /\ hold'[a].st = "released" => hold[a].ph = "pre_dispatch"
  BY Closed DEF BudgetInv
<1>2. present # CounterKeys
  BY DEF SettleReply
<1>3. \A b \in Attempts : InGeneration(b)' <=> InGeneration(b)
  BY <1>1 DEF InGeneration
<1>4. \A u \in Units : u[1] \in Attempts
  BY DEF Units
<1>5. ASSUME NEW d \in Dims
      PROVE  /\ Cardinality(ReservationUnits(d)') <= Cardinality(ReservationUnits(d))
             /\ Cardinality(ChargeUnits(d)') <= Cardinality(ChargeUnits(d))
             /\ Cardinality(AdmittedUnits(d)') <= Cardinality(AdmittedUnits(d))
  <2>1. ReservationUnits(d)' \subseteq ReservationUnits(d)
    BY <1>1, <1>3, <1>4 DEF ReservationUnits, Terminal
  <2>2. ChargeUnits(d)' \subseteq ChargeUnits(d)
    BY <1>1, <1>3, <1>4 DEF ChargeUnits
  <2>3. AdmittedUnits(d)' \subseteq AdmittedUnits(d)
    BY <1>1, <1>3, <1>4 DEF AdmittedUnits
  <2>4. QED
    BY <2>1, <2>2, <2>3, UnitsAreNat, FS_Subset
<1>6. \A d \in Dims : /\ Cardinality(ReservationUnits(d)') \in Nat
                      /\ Cardinality(ChargeUnits(d)') \in Nat
                      /\ Cardinality(AdmittedUnits(d)') \in Nat
  BY NextUnitsAreNat
<1>7. \A d \in Dims : reserved[d] \in Int /\ spent[d] \in Int /\ Cap[d] \in Int
  BY BudgetAssumption DEF BudgetInv, TypeOK
<1>8. ReservedCoversOpen'
  BY <1>5, <1>6, <1>7, UnitsAreNat DEF BudgetInv, ReservedCoversOpen
<1>9. SpentCoversCharges'
  BY <1>5, <1>6, <1>7, UnitsAreNat DEF BudgetInv, SpentCoversCharges
<1>10. AdmittedWithinCap'
  BY <1>5, <1>6, <1>7, UnitsAreNat DEF BudgetInv, AdmittedWithinCap
<1>11. NonNegative' /\ DegradedMeansLost'
  BY <1>2 DEF BudgetInv, NonNegative, DegradedMeansLost
<1>12. StampsUsed' /\ OpenedIsStamped' /\ DispatchedIsNeverReleased'
  BY <1>1 DEF BudgetInv, StampsUsed, OpenedIsStamped, DispatchedIsNeverReleased
<1>13. QED
  BY <1>8, <1>9, <1>10, <1>11, <1>12 DEF BudgetInv

\* SETTLE_LUA keeps the invariant, whatever it answers.
LEMMA SettleInv ==
  ASSUME BudgetInv, NEW a \in Attempts, NEW outcome \in Outcomes,
         NEW known \in Amount, NEW certain \in [Dims -> BOOLEAN],
         Settle(a, outcome, known, certain)
  PROVE  BudgetInv'
<1>1. TypeOK'
  BY SettleType DEF BudgetInv
<1>2. Applied(a, outcome, known, certain) \in Amount
  BY AppliedType DEF BudgetInv
<1>3. CASE SettleReply(a, outcome) = "applied"
  BY <1>1, <1>2, <1>3, AppliedInv DEF Settle
<1>4. CASE SettleReply(a, outcome) = "degraded"
  BY <1>1, <1>2, <1>4, DegradedInv DEF Settle
<1>5. CASE UNCHANGED vars
  BY <1>5, StutterInv
<1>6. QED
  BY <1>3, <1>4, <1>5 DEF Settle

\* SETTLE_LUA closes one open hold at most, at what it applied, and in a fenced
\* store re-creates no counter.
LEMMA SettleTouches ==
  ASSUME BudgetInv, NEW a \in Attempts, NEW outcome \in Outcomes,
         NEW known \in Amount, NEW certain \in [Dims -> BOOLEAN],
         Settle(a, outcome, known, certain)
  PROVE  /\ BudgetInv'
         /\ epoch' = epoch /\ present' = present
         /\ \A b \in Attempts \ {a} : hold'[b] = hold[b]
         /\ hold'[a].ep = hold[a].ep /\ hold'[a].et = hold[a].et
         /\ \/ /\ SettleReply(a, outcome) \notin {"applied", "degraded"}
               /\ hold' = hold /\ spent' = spent
            \/ /\ SettleReply(a, outcome) \in {"applied", "degraded"}
               /\ hold[a].st = "open" /\ hold'[a].st = TerminalState(outcome)
               /\ hold'[a].at = Applied(a, outcome, known, certain)
               /\ \/ SettleReply(a, outcome) = "degraded" /\ spent' = spent
                  \/ /\ SettleReply(a, outcome) = "applied"
                     /\ epoch = hold[a].ep /\ present = CounterKeys
                     /\ \A d \in Dims :
                           spent'[d] = spent[d] + Applied(a, outcome, known, certain)[d]
<1> DEFINE charge == Applied(a, outcome, known, certain)
<1>1. BudgetInv' /\ hold \in [Attempts -> Hold]
  BY SettleInv DEF BudgetInv, TypeOK
<1>2. ASSUME NEW lost, CloseHold(a, outcome, charge, lost),
             SettleReply(a, outcome) \in {"applied", "degraded"}
      PROVE  /\ \A b \in Attempts \ {a} : hold'[b] = hold[b]
             /\ hold[a].st = "open" /\ hold'[a].st = TerminalState(outcome)
             /\ hold'[a].ep = hold[a].ep /\ hold'[a].et = hold[a].et
             /\ hold'[a].at = charge
  <2> HIDE DEF charge
  <2>1. hold[a].st = "open"
    BY <1>2 DEF SettleReply
  <2>2. QED
    BY <1>1, <1>2, <2>1 DEF CloseHold, Hold
<1>3. CASE SettleReply(a, outcome) = "applied"
  <2>1. /\ MoveCounters(a, charge) /\ CloseHold(a, outcome, charge, FALSE)
        /\ UNCHANGED epoch
    BY <1>3 DEF Settle
  <2>2. present = CounterKeys /\ epoch = hold[a].ep
    <3>1. Fenced(a) => present = CounterKeys /\ epoch = hold[a].ep
      BY <1>3 DEF SettleReply
    <3>2. hold[a].st = "open"
      BY <1>3 DEF SettleReply
    <3>3. QED
      BY <3>1, <3>2 DEF Fenced, BudgetInv, OpenedIsStamped
  <2>3. present' = present
    BY <2>1, <2>2 DEF MoveCounters, CounterKeys
  <2>4. \A d \in Dims : spent'[d] = spent[d] + charge[d]
    BY <2>1 DEF MoveCounters
  <2>5. QED
    BY <1>1, <1>2, <1>3, <2>1, <2>2, <2>3, <2>4
<1>4. CASE SettleReply(a, outcome) = "degraded"
  <2>1. CloseHold(a, outcome, charge, TRUE) /\ UNCHANGED <<epoch, present, spent>>
    BY <1>4 DEF Settle
  <2>2. QED
    BY <1>1, <1>2, <1>4, <2>1
<1>5. CASE SettleReply(a, outcome) \notin {"applied", "degraded"}
  <2>1. UNCHANGED vars
    BY <1>5 DEF Settle
  <2>2. QED
    BY <1>1, <1>5, <2>1 DEF vars
<1>6. QED
  BY <1>3, <1>4, <1>5

\* An open of this mode re-creates no counter of a live generation: the caller is
\* fenced, or is not and finds them all there.
Guarded(mode) ==
  \/ mode \in {"0", "1"}
  \/ mode = "2" /\ (epoch # NoEpoch => present = CounterKeys)

\* What the state check has established when an open is not refused by it.
LEMMA CheckedState ==
  ASSUME TypeOK, NEW a \in Attempts, NEW mode, Guarded(mode),
         NEW expected, NEW est \in Estimates, NEW mint \in Generations,
         NEW admit \in BOOLEAN,
         Open(a, mode, expected, est, mint, admit), OpenReply(a, mode, expected, est, admit) # "state"
  PROVE  /\ mode # "-"
         /\ LiveEpoch(mode, mint) = epoch' /\ epoch' \in Generations
         /\ present' = CounterKeys /\ spent' = spent
         /\ \/ epoch # NoEpoch /\ epoch' = epoch /\ used' = used /\ present = CounterKeys
            \/ epoch = NoEpoch /\ mint \notin used /\ epoch' = mint /\ used' = used \cup {mint}
<1>1. mode \in {"0", "1", "2"}
  BY DEF Guarded
<1>2. ~ StateLost(mode, expected)
  BY DEF OpenReply
<1>3. CASE epoch # NoEpoch
  <2>1. present = CounterKeys /\ ~ Mints(mode)
    BY <1>1, <1>2, <1>3 DEF Guarded, StateLost, Mints
  <2>2. present' = CounterKeys
    BY <2>1 DEF Open, CounterKeys
  <2>3. QED
    BY <1>1, <1>3, <2>1, <2>2 DEF Open, LiveEpoch, TypeOK
<1>4. CASE epoch = NoEpoch
  <2>1. Mints(mode) /\ Seeds(mode)
    BY <1>1, <1>2, <1>4 DEF StateLost, Mints, Seeds
  <2>2. present' = CounterKeys
    BY <2>1 DEF Open, CounterKeys
  <2>3. QED
    BY <1>1, <1>4, <2>1, <2>2 DEF Open, LiveEpoch
<1>5. QED
  BY <1>3, <1>4

\* An open that is denied or replayed, and may mint, keeps the invariant.
LEMMA RefusedInv ==
  ASSUME BudgetInv, NEW a \in Attempts, NEW mode, Guarded(mode),
         NEW expected, NEW est \in Estimates, NEW mint \in Generations,
         NEW admit \in BOOLEAN,
         Open(a, mode, expected, est, mint, admit), TypeOK',
         OpenReply(a, mode, expected, est, admit) \in {"replay", "denied"}
  PROVE  BudgetInv'
<1>1. /\ epoch' \in Generations /\ present' = CounterKeys /\ spent' = spent
      /\ \/ epoch # NoEpoch /\ epoch' = epoch /\ used' = used /\ present = CounterKeys
         \/ epoch = NoEpoch /\ mint \notin used /\ epoch' = mint /\ used' = used \cup {mint}
  <2>1. TypeOK /\ OpenReply(a, mode, expected, est, admit) # "state"
    BY DEF BudgetInv
  <2> HIDE DEF OpenReply, Open
  <2>2. QED
    BY ONLY <2>1, CheckedState, Guarded(mode), Open(a, mode, expected, est, mint, admit),
       a \in Attempts, est \in Estimates, mint \in Generations, admit \in BOOLEAN
<1>2. UNCHANGED <<reserved, hold>>
  BY DEF Open
<1>3. DispatchedIsNeverReleased'
  BY <1>2 DEF BudgetInv, DispatchedIsNeverReleased
<1>4. CASE epoch' = epoch /\ used' = used /\ present = CounterKeys
  <2>1. \A d \in Dims : spent[d] \in Int
    BY DEF BudgetInv, TypeOK
  <2>2. QED
    BY <1>1, <1>2, <1>3, <1>4, <2>1, QuietInv
<1>5. CASE epoch = NoEpoch /\ mint \notin used /\ epoch' = mint /\ used' = used \cup {mint}
  <2>1. \A b \in Attempts : ~ InGeneration(b)'
    BY <1>1, <1>2, <1>5, BudgetAssumption DEF BudgetInv, StampsUsed, InGeneration
  <2>2. \A d \in Dims : /\ Cardinality(ReservationUnits(d)') = 0
                        /\ Cardinality(ChargeUnits(d)') = 0
                        /\ Cardinality(AdmittedUnits(d)') = 0
    BY <2>1, EmptyUnits
  <2>3. NonNegative'
    BY <1>1, <1>2 DEF BudgetInv, NonNegative
  <2>4. ReservedCoversOpen' /\ SpentCoversCharges' /\ AdmittedWithinCap'
    BY <2>2, <2>3 DEF NonNegative, ReservedCoversOpen, SpentCoversCharges, AdmittedWithinCap
  <2>5. DegradedMeansLost'
    BY <2>1 DEF DegradedMeansLost
  <2>6. StampsUsed' /\ OpenedIsStamped'
    BY <1>2, <1>5 DEF BudgetInv, StampsUsed, OpenedIsStamped
  <2>7. QED
    BY <1>3, <2>3, <2>4, <2>5, <2>6 DEF BudgetInv
<1>6. QED
  BY <1>1, <1>4, <1>5

\* An open that reserves keeps the invariant.
LEMMA AdmitInv ==
  ASSUME BudgetInv, NEW a \in Attempts, NEW mode, Guarded(mode),
         NEW expected, NEW est \in Estimates, NEW mint \in Generations,
         NEW admit \in BOOLEAN,
         Open(a, mode, expected, est, mint, admit), TypeOK', ~ hold[a].gone,
         OpenReply(a, mode, expected, est, admit) = "opened"
  PROVE  BudgetInv'
<1>1. /\ mode # "-"
      /\ LiveEpoch(mode, mint) = epoch' /\ epoch' \in Generations
      /\ present' = CounterKeys /\ spent' = spent
      /\ \/ epoch # NoEpoch /\ epoch' = epoch /\ used' = used /\ present = CounterKeys
         \/ epoch = NoEpoch /\ mint \notin used /\ epoch' = mint /\ used' = used \cup {mint}
  BY CheckedState DEF BudgetInv
<1>2. hold[a].st = "absent"
  BY DEF OpenReply, Exists
<1>3. Reserve(a, mode, est, mint)
  BY DEF Open
<1>4. /\ hold'[a].st = "open" /\ hold'[a].et = est /\ hold'[a].ep = epoch'
      /\ hold'[a].dg = FALSE /\ hold'[a].ph = "pre_dispatch"
      /\ \A b \in Attempts \ {a} : hold'[b] = hold[b]
  BY <1>1, <1>3 DEF Reserve, NoHold, BudgetInv, TypeOK
<1>5. \A d \in Dims : est[d] \in Nat /\ est[d] \in 0..MaxUnits
  BY BudgetAssumption
<1>6. \A d \in Dims : /\ reserved'[d] = reserved[d] + est[d]
                      /\ reserved[d] \in Int /\ spent[d] \in Int /\ Cap[d] \in Int
  BY <1>3, BudgetAssumption DEF Reserve, BudgetInv, TypeOK
<1>7. \A d \in Dims : Cap[d] >= 0 => reserved[d] + est[d] + spent[d] <= Cap[d]
  BY <1>1, <1>5, <1>6 DEF OpenReply, OverCap
<1>8. \A u \in Units : u = <<u[1], u[2]>> /\ u[1] \in Attempts /\ u[2] \in 1..MaxUnits
  BY DEF Units
\* The units of the generation the call joins, before it joins.
<1> DEFINE Live == epoch' = epoch
           R(d) == IF Live THEN ReservationUnits(d) ELSE {}
           C(d) == IF Live THEN ChargeUnits(d) ELSE {}
<1>9. Live \/ \A b \in Attempts \ {a} : ~ InGeneration(b)'
  BY <1>1, <1>4, BudgetAssumption DEF BudgetInv, StampsUsed, InGeneration
<1>10. ASSUME NEW d \in Dims
       PROVE  /\ IsFiniteSet(R(d)) /\ Cardinality(R(d)) \in Nat
              /\ IsFiniteSet(C(d)) /\ Cardinality(C(d)) \in Nat
              /\ Cardinality(R(d)) <= reserved[d]
              /\ Cardinality(C(d)) <= spent[d]
  <2>1. CASE Live
    <3>1. epoch # NoEpoch /\ <<"reserved", d>> \in present /\ <<"spent", d>> \in present
      BY <1>1, <2>1, BudgetAssumption DEF CounterKeys
    <3>2. QED
      BY <2>1, <3>1, <1>6, UnitsAreNat DEF BudgetInv, ReservedCoversOpen, SpentCoversCharges
  <2>2. CASE ~ Live
    BY <2>2, <1>6, FS_EmptySet DEF BudgetInv, NonNegative
  <2>3. QED
    BY <2>1, <2>2
<1>11. ASSUME NEW d \in Dims, NEW u \in Units
       PROVE  /\ u \in ReservationUnits(d)' => u \in R(d) \cup Column(a, est[d])
              /\ u \in ChargeUnits(d)' => u \in C(d)
              /\ u \in AdmittedUnits(d)' => u \in (R(d) \cup C(d)) \cup Column(a, est[d])
  <2>1. CASE u[1] = a
    <3>1. u \in AdmittedUnits(d)' \/ u \in ReservationUnits(d)' => u \in Column(a, est[d])
      BY <1>4, <1>5, <1>8, <2>1 DEF AdmittedUnits, ReservationUnits, Column
    <3>2. u \notin ChargeUnits(d)'
      BY <1>4, <2>1 DEF ChargeUnits, Terminal
    <3>3. QED
      BY <3>1, <3>2
  <2>2. CASE u[1] # a /\ Live
    <3>1. InGeneration(u[1])' <=> InGeneration(u[1])
      BY <1>4, <1>8, <2>2 DEF InGeneration
    <3>2. hold'[u[1]] = hold[u[1]]
      BY <1>4, <1>8, <2>2
    <3>3. present = CounterKeys
      BY <1>1, <2>2, BudgetAssumption
    <3>4. InGeneration(u[1]) => ~ hold[u[1]].dg
      BY <3>3, <1>8 DEF BudgetInv, DegradedMeansLost
    <3>5. QED
      BY <2>2, <3>1, <3>2, <3>4 DEF AdmittedUnits, ReservationUnits, ChargeUnits
  <2>3. CASE u[1] # a /\ ~ Live
    BY <1>8, <1>9, <2>3 DEF AdmittedUnits, ReservationUnits, ChargeUnits
  <2>4. QED
    BY <2>1, <2>2, <2>3
<1>12. ASSUME NEW d \in Dims
       PROVE  /\ Cardinality(ReservationUnits(d)') <= reserved'[d]
              /\ Cardinality(ChargeUnits(d)') <= spent'[d]
              /\ Cardinality(AdmittedUnits(d)') <= reserved[d] + spent[d] + est[d]
  <2>1. ReservationUnits(d)' \subseteq R(d) \cup Column(a, est[d])
    BY <1>11 DEF ReservationUnits
  <2>2. ChargeUnits(d)' \subseteq C(d)
    BY <1>11 DEF ChargeUnits
  <2>3. AdmittedUnits(d)' \subseteq (R(d) \cup C(d)) \cup Column(a, est[d])
    BY <1>11 DEF AdmittedUnits
  <2>4. /\ IsFiniteSet(R(d) \cup C(d))
        /\ Cardinality(R(d) \cup C(d)) <= Cardinality(R(d)) + Cardinality(C(d))
    <3>1. /\ IsFiniteSet(R(d) \cup C(d))
          /\ Cardinality(R(d) \cup C(d)) =
                Cardinality(R(d)) + Cardinality(C(d)) - Cardinality(R(d) \cap C(d))
      BY <1>10, FS_Union
    <3>2. Cardinality(R(d) \cap C(d)) \in Nat
      BY <1>10, FS_Intersection, FS_CardinalityType
    <3>3. QED
      BY <1>10, <3>1, <3>2
  <2>5. Cardinality(ReservationUnits(d)') <= Cardinality(R(d)) + est[d]
    BY <1>5, <1>10, <2>1, Grows
  <2>6. Cardinality(ChargeUnits(d)') <= Cardinality(C(d))
    BY <1>10, <2>2, FS_Subset
  <2>7. Cardinality(AdmittedUnits(d)') <= Cardinality(R(d) \cup C(d)) + est[d]
    BY <1>5, <2>3, <2>4, Grows
  <2>8. Cardinality(R(d) \cup C(d)) \in Nat
    BY <2>4, FS_CardinalityType
  <2>9. Cardinality(R(d)) \in Nat /\ Cardinality(C(d)) \in Nat
        /\ Cardinality(R(d)) <= reserved[d] /\ Cardinality(C(d)) <= spent[d]
    BY <1>10
  <2>10. QED
    BY <1>1, <1>5, <1>6, <2>4, <2>5, <2>6, <2>7, <2>8, <2>9, NextUnitsAreNat
<1>13. ReservedCoversOpen' /\ SpentCoversCharges'
  BY <1>12 DEF ReservedCoversOpen, SpentCoversCharges
<1>14. AdmittedWithinCap'
  BY <1>5, <1>6, <1>7, <1>12, NextUnitsAreNat DEF AdmittedWithinCap
<1>15. DegradedMeansLost'
  <2>1. \A b \in Attempts : InGeneration(b)' => ~ hold'[b].dg
    BY <1>1, <1>4, <1>9, BudgetAssumption DEF BudgetInv, DegradedMeansLost, InGeneration
  <2>2. QED
    BY <2>1 DEF DegradedMeansLost
<1>16. NonNegative'
  BY <1>1, <1>5, <1>6 DEF BudgetInv, NonNegative
<1>17. StampsUsed' /\ OpenedIsStamped'
  BY <1>1, <1>4, BudgetAssumption DEF BudgetInv, StampsUsed, OpenedIsStamped
<1>18. DispatchedIsNeverReleased'
  BY <1>4 DEF BudgetInv, DispatchedIsNeverReleased
<1>19. QED
  BY <1>13, <1>14, <1>15, <1>16, <1>17, <1>18 DEF BudgetInv

\* An open of a guarded mode keeps the invariant, whatever it answers.
LEMMA GuardedOpenInv ==
  ASSUME BudgetInv, NEW a \in Attempts, NEW mode, Guarded(mode),
         NEW expected, NEW est \in Estimates, NEW mint \in Generations,
         NEW admit \in BOOLEAN,
         Open(a, mode, expected, est, mint, admit), ~ hold[a].gone
  PROVE  BudgetInv'
<1>1. TypeOK'
  BY OpenType DEF BudgetInv
<1>2. CASE UNCHANGED vars
  BY <1>2, StutterInv
<1>3. CASE OpenReply(a, mode, expected, est, admit) = "opened"
  BY <1>1, <1>3, AdmitInv
<1>4. CASE OpenReply(a, mode, expected, est, admit) \in {"replay", "denied"}
  BY <1>1, <1>4, RefusedInv
<1>5. QED
  BY <1>2, <1>3, <1>4 DEF Open, OpenReply

\* OPEN_LUA keeps the invariant while callers are fenced.
LEMMA OpenInv ==
  ASSUME FencedModes, BudgetInv, NEW a \in Attempts, OpenAny(a)
  PROVE  BudgetInv'
<1>1. PICK mode \in Modes, expected \in Generations, est \in Estimates,
              mint \in Generations, admit \in BOOLEAN :
         Open(a, mode, expected, est, mint, admit)
  BY DEF OpenAny
<1>2. Guarded(mode)
  BY DEF FencedModes, Guarded
<1>3. QED
  BY <1>1, <1>2, GuardedOpenInv DEF OpenAny

\* What a first call may find satisfies the invariant.
LEMMA InitInv == Init => BudgetInv
<1> SUFFICES ASSUME Init PROVE BudgetInv
  OBVIOUS
<1>1. TypeOK
  BY InitType
<1>2. NonNegative
  BY BudgetAssumption DEF Init, Nothing, NonNegative
<1>3. /\ StampsUsed /\ OpenedIsStamped /\ DispatchedIsNeverReleased
      /\ \A b \in Attempts : ~ InGeneration(b)
  BY DEF Init, NoHold, StampsUsed, OpenedIsStamped, DispatchedIsNeverReleased, InGeneration
<1>4. \A d \in Dims : AdmittedUnits(d) = {}
  <2>1. \A u \in Units : ~ InGeneration(u[1])
    BY <1>3 DEF Units
  <2>2. QED
    BY <2>1 DEF AdmittedUnits
<1>5. AdmittedWithinCap
  BY <1>4, FS_EmptySet DEF AdmittedWithinCap
<1>6. ReservedCoversOpen /\ SpentCoversCharges /\ DegradedMeansLost
  BY <1>3 DEF Init, ReservedCoversOpen, SpentCoversCharges, DegradedMeansLost
<1>7. QED
  BY <1>1, <1>2, <1>3, <1>5, <1>6 DEF BudgetInv

\* Every step keeps the invariant.
LEMMA NextInv ==
  ASSUME FencedModes, BudgetInv, [Next]_vars
  PROVE  BudgetInv'
<1>1. ASSUME NEW a \in Attempts, SettleAny(a) PROVE BudgetInv'
  BY <1>1, SettleInv, AmountType DEF SettleAny
<1>2. CASE RebaseAny
  BY <1>2, RebaseInv, AmountType DEF RebaseAny
<1>3. CASE RaiseAny
  BY <1>3, RaiseInv, AmountType DEF RaiseAny
<1>4. CASE LoseAny
  BY <1>4, LoseInv DEF LoseAny
<1>5. QED
  BY <1>1, <1>2, <1>3, <1>4, OpenInv, DispatchInv, LoseHoldInv, StutterInv DEF Next

\* The inductive invariant holds in every reachable state.
LEMMA Invariance == FencedModes => (Spec => []BudgetInv)
<1> SUFFICES ASSUME FencedModes PROVE Spec => []BudgetInv
  OBVIOUS
<1>1. BudgetInv /\ [Next]_vars => BudgetInv'
  BY NextInv
<1>2. QED
  BY <1>1, InitInv, PTL DEF Spec
-----------------------------------------------------------------------------
(* The theorems: invariants *)

\* The reservation counter covers the open estimates of its generation.
THEOREM ReservationsCovered == FencedModes => (Spec => []ReservedCoversOpen)
<1>1. BudgetInv => ReservedCoversOpen
  BY DEF BudgetInv
<1>2. QED
  BY <1>1, Invariance, PTL

\* The spend counter covers every charge its generation settled.
THEOREM SpendCovered == FencedModes => (Spec => []SpentCoversCharges)
<1>1. BudgetInv => SpentCoversCharges
  BY DEF BudgetInv
<1>2. QED
  BY <1>1, Invariance, PTL

\* The calls admitted in one generation never commit more than the cap.
THEOREM CapRespected == FencedModes => (Spec => []AdmittedWithinCap)
<1>1. BudgetInv => AdmittedWithinCap
  BY DEF BudgetInv
<1>2. QED
  BY <1>1, Invariance, PTL

\* A hold closed without a debit leaves its generation visibly damaged.
THEOREM DegradedIsVisible == FencedModes => (Spec => []DegradedMeansLost)
<1>1. BudgetInv => DegradedMeansLost
  BY DEF BudgetInv
<1>2. QED
  BY <1>1, Invariance, PTL

-----------------------------------------------------------------------------
(* What no mode can break: one hold, one outcome *)

\* One attempt's record is written by its open, its dispatch and its first settle.
LEMMA HoldSteps ==
  ASSUME TypeOK, [Next]_vars, NEW a \in Attempts
  PROVE  \/ hold'[a] = hold[a]
         \/ hold[a].st = "absent" /\ hold'[a].st = "open" /\ hold'[a].ph = "pre_dispatch"
         \/ /\ hold[a].st = "open" /\ hold'[a].st = "open"
         \/ /\ hold[a].st = "open" /\ hold'[a].st \in Terminal
            /\ hold'[a].st = "released" => hold'[a].ph = "pre_dispatch"
         \/ hold'[a] = [hold[a] EXCEPT !.gone = TRUE]
<1>1. ASSUME NEW b \in Attempts, OpenAny(b)
      PROVE  \/ hold'[a] = hold[a]
             \/ hold[a].st = "absent" /\ hold'[a].st = "open" /\ hold'[a].ph = "pre_dispatch"
  <2>1. PICK mode \in Modes, expected \in Generations, est \in Estimates,
              mint \in Generations, admit \in BOOLEAN :
           Open(b, mode, expected, est, mint, admit)
    BY <1>1 DEF OpenAny
  <2>2. CASE OpenReply(b, mode, expected, est, admit) = "opened"
    <3>1. hold[b].st = "absent"
      BY <1>1, <2>2 DEF OpenReply, Exists, OpenAny
    <3>2. Reserve(b, mode, est, mint)
      BY <2>1, <2>2 DEF Open
    <3>3. QED
      BY <3>1, <3>2 DEF Reserve, NoHold, TypeOK
  <2>3. CASE OpenReply(b, mode, expected, est, admit) # "opened"
    BY <2>1, <2>3 DEF Open, vars
  <2>4. QED
    BY <2>2, <2>3
<1>2. ASSUME NEW b \in Attempts, SettleAny(b)
      PROVE  \/ hold'[a] = hold[a]
             \/ /\ hold[a].st = "open" /\ hold'[a].st \in Terminal
                /\ hold'[a].st = "released" => hold'[a].ph = "pre_dispatch"
  <2>1. PICK outcome \in Outcomes, known \in Figures, certain \in [Dims -> BOOLEAN] :
           Settle(b, outcome, known, certain)
    BY <1>2 DEF SettleAny
  <2> DEFINE charge == Applied(b, outcome, known, certain)
  <2>2. charge \in Amount
    BY AppliedType, AmountType
  <2>3. ASSUME NEW lost \in BOOLEAN, CloseHold(b, outcome, charge, lost),
               SettleReply(b, outcome) \in {"applied", "degraded"}
        PROVE  \/ hold'[a] = hold[a]
               \/ /\ hold[a].st = "open" /\ hold'[a].st \in Terminal
                  /\ hold'[a].st = "released" => hold'[a].ph = "pre_dispatch"
    <3>1. /\ hold[b].st = "open" /\ hold'[b].st \in Terminal
          /\ hold'[b].ph = hold[b].ph
          /\ \A c \in Attempts \ {b} : hold'[c] = hold[c]
          /\ hold'[b].st = "released" => hold[b].ph = "pre_dispatch"
      BY <2>2, <2>3, Closed
    <3>2. QED
      BY <3>1
  <2>4. CASE UNCHANGED vars
    BY <2>4 DEF vars
  <2>5. QED
    BY <2>1, <2>3, <2>4 DEF Settle
<1>3. ASSUME NEW b \in Attempts, Dispatch(b)
      PROVE  hold'[a] = hold[a] \/ (hold[a].st = "open" /\ hold'[a].st = "open")
  <2>1. CASE DispatchReply(b) = "granted"
    <3>1. hold[b].st = "open"
      BY <2>1 DEF DispatchReply
    <3>2. QED
      BY <1>3, <2>1, <3>1 DEF Dispatch, TypeOK, Hold
  <2>2. CASE DispatchReply(b) # "granted"
    BY <1>3, <2>2 DEF Dispatch
  <2>3. QED
    BY <2>1, <2>2
<1>4. ASSUME NEW b \in Attempts, LoseHold(b)
      PROVE  hold'[a] = hold[a] \/ hold'[a] = [hold[a] EXCEPT !.gone = TRUE]
  BY <1>4 DEF LoseHold, TypeOK
<1>5. CASE RebaseAny \/ RaiseAny \/ LoseAny \/ UNCHANGED vars
  BY <1>5 DEF RebaseAny, RaiseAny, LoseAny, Rebase, Raise, Lose, vars
<1>6. QED
  BY <1>1, <1>2, <1>3, <1>4, <1>5 DEF Next

\* An attempt that may have been sent upstream is never written off as unsent.
THEOREM NeverReleasedOnceDispatched == Spec => []DispatchedIsNeverReleased
<1>1. TypeOK /\ DispatchedIsNeverReleased /\ [Next]_vars => DispatchedIsNeverReleased'
  <2> SUFFICES ASSUME TypeOK, DispatchedIsNeverReleased, [Next]_vars, NEW a \in Attempts,
                      hold'[a].st = "released"
               PROVE  hold'[a].ph = "pre_dispatch"
    BY DEF DispatchedIsNeverReleased
  <2>1. [hold[a] EXCEPT !.gone = TRUE].st = hold[a].st
        /\ [hold[a] EXCEPT !.gone = TRUE].ph = hold[a].ph
    BY DEF TypeOK, Hold
  <2>2. QED
    BY <2>1, HoldSteps DEF DispatchedIsNeverReleased
<1>2. Init => DispatchedIsNeverReleased
  BY DEF Init, NoHold, DispatchedIsNeverReleased
<1>3. QED
  BY <1>1, <1>2, TypeCorrect, PTL DEF Spec

\* The first settle of an attempt is the only one that counts.
THEOREM FirstSettleStands == Spec => FirstSettleIsFinal
<1> DEFINE Final == \A a \in Attempts :
                       hold[a].st \in Terminal =>
                          /\ hold'[a].st = hold[a].st
                          /\ hold'[a].at = hold[a].at
                          /\ hold'[a].dg = hold[a].dg
<1>1. TypeOK /\ [Next]_vars => [Final]_vars
  <2> SUFFICES ASSUME TypeOK, [Next]_vars, NEW a \in Attempts, hold[a].st \in Terminal
               PROVE  /\ hold'[a].st = hold[a].st
                      /\ hold'[a].at = hold[a].at
                      /\ hold'[a].dg = hold[a].dg
    OBVIOUS
  <2>1. /\ [hold[a] EXCEPT !.gone = TRUE].st = hold[a].st
        /\ [hold[a] EXCEPT !.gone = TRUE].at = hold[a].at
        /\ [hold[a] EXCEPT !.gone = TRUE].dg = hold[a].dg
    BY DEF TypeOK, Hold
  <2>2. QED
    BY <2>1, HoldSteps DEF Terminal
<1>2. QED
  BY <1>1, TypeCorrect, PTL DEF Spec, FirstSettleIsFinal

-----------------------------------------------------------------------------
(* The theorems: what a step may never do while callers are fenced *)

\* In one generation no step brings a counter back or lowers a spend counter.
LEMMA WithinGeneration ==
  ASSUME FencedModes, BudgetInv, [Next]_vars, epoch' = epoch, epoch # NoEpoch
  PROVE  /\ present' \subseteq present
         /\ \A d \in Dims : <<"spent", d>> \in present' => spent'[d] >= spent[d]
<1>1. \A d \in Dims : spent[d] \in Int
  BY DEF BudgetInv, TypeOK
<1>2. ASSUME NEW a \in Attempts, OpenAny(a)
      PROVE  present' \subseteq present /\ spent' = spent
  <2>1. PICK mode \in Modes, expected \in Generations, est \in Estimates,
              mint \in Generations, admit \in BOOLEAN :
           Open(a, mode, expected, est, mint, admit)
    BY <1>2 DEF OpenAny
  <2>2. CASE OpenReply(a, mode, expected, est, admit) = "state"
    BY <2>1, <2>2 DEF Open, vars
  <2>3. CASE OpenReply(a, mode, expected, est, admit) # "state"
    BY <2>1, <2>3, CheckedState DEF BudgetInv, FencedModes, Guarded
  <2>4. QED
    BY <2>2, <2>3
<1>3. ASSUME NEW a \in Attempts, SettleAny(a)
      PROVE  present' \subseteq present /\ \A d \in Dims : spent'[d] >= spent[d]
  <2>1. PICK outcome \in Outcomes, known \in Figures, certain \in [Dims -> BOOLEAN] :
           Settle(a, outcome, known, certain)
    BY <1>3 DEF SettleAny
  <2> DEFINE charge == Applied(a, outcome, known, certain)
  <2>2. CASE SettleReply(a, outcome) = "applied"
    <3>1. present = CounterKeys
      BY <2>2 DEF SettleReply, Fenced, BudgetInv, OpenedIsStamped
    <3>2. MoveCounters(a, charge)
      BY <2>1, <2>2 DEF Settle
    <3>3. present' \subseteq CounterKeys
      BY <3>1, <3>2 DEF MoveCounters, CounterKeys
    <3>4. charge \in Amount
      BY AppliedType, AmountType DEF BudgetInv
    <3>5. \A d \in Dims : charge[d] \in 0..MaxUnits
      BY <3>4 DEF Amount
    <3>6. \A d \in Dims : spent'[d] = spent[d] + charge[d]
      BY <3>2 DEF MoveCounters
    <3>7. QED
      BY <1>1, <3>1, <3>3, <3>5, <3>6, BudgetAssumption
  <2>3. CASE SettleReply(a, outcome) # "applied"
    <3>1. UNCHANGED <<present, spent>>
      BY <2>1, <2>3 DEF Settle, vars
    <3>2. QED
      BY <1>1, <3>1
  <2>4. QED
    BY <2>2, <2>3
<1>4. CASE RebaseAny
  BY <1>4, BudgetAssumption DEF RebaseAny, Rebase, BudgetInv, StampsUsed
<1>5. CASE RaiseAny
  <2>1. PICK floor \in Figures : Raise(floor)
    BY <1>5 DEF RaiseAny
  <2>2. floor \in [Dims -> Int]
    BY BudgetAssumption, AmountType DEF Amount
  <2>3. QED
    BY <1>1, <2>1, <2>2 DEF Raise, Larger
<1>6. CASE LoseAny
  BY <1>1, <1>6 DEF LoseAny, Lose, BudgetInv, TypeOK
<1>7. CASE UNCHANGED <<present, spent>>
  BY <1>1, <1>7
<1>8. ASSUME NEW a \in Attempts, Dispatch(a) \/ LoseHold(a)
      PROVE  UNCHANGED <<present, spent>>
  BY <1>8 DEF Dispatch, LoseHold
<1>9. CASE UNCHANGED vars
  BY <1>1, <1>9 DEF vars
<1>10. CASE Next
  <2>1. CASE \E a \in Attempts : OpenAny(a)
    BY <1>1, <1>2, <2>1
  <2>2. CASE \E a \in Attempts : SettleAny(a)
    BY <1>3, <2>2
  <2>3. QED
    BY <1>4, <1>5, <1>6, <1>7, <1>8, <1>10, <2>1, <2>2 DEF Next
<1>11. QED
  BY <1>9, <1>10

\* Inside a generation a lost counter is never re-created.
THEOREM LossIsPermanent == FencedModes => (Spec => LostCountersStayLost)
<1> SUFFICES ASSUME FencedModes PROVE Spec => LostCountersStayLost
  OBVIOUS
<1>1. BudgetInv /\ [Next]_vars => [epoch' = epoch /\ epoch # NoEpoch => present' \subseteq present]_vars
  BY WithinGeneration
<1>2. QED
  BY <1>1, Invariance, PTL DEF Spec, LostCountersStayLost

\* Inside a generation spend is never handed back.
THEOREM SpendIsMonotonic == FencedModes => (Spec => SpendNeverFalls)
<1> SUFFICES ASSUME FencedModes PROVE Spec => SpendNeverFalls
  OBVIOUS
<1> DEFINE Rises == \A d \in Dims :
                       /\ epoch' = epoch
                       /\ epoch # NoEpoch
                       /\ <<"spent", d>> \in present \cap present'
                       => spent'[d] >= spent[d]
<1>1. BudgetInv /\ [Next]_vars => [Rises]_vars
  BY WithinGeneration
<1>2. QED
  BY <1>1, Invariance, PTL DEF Spec, SpendNeverFalls

\* A call joins a live generation only while all of its counters exist.
THEOREM LiveGenerationIsWhole == FencedModes => (Spec => EpochProtectsCounters)
<1> SUFFICES ASSUME FencedModes PROVE Spec => EpochProtectsCounters
  OBVIOUS
<1> DEFINE Whole == \A a \in Attempts :
                       /\ epoch # NoEpoch
                       /\ hold[a].st = "absent"
                       /\ hold'[a].st = "open"
                       /\ hold'[a].ep = epoch
                       => present = CounterKeys
<1>1. BudgetInv /\ [Next]_vars => [Whole]_vars
  <2> SUFFICES ASSUME BudgetInv, Next, NEW a \in Attempts, epoch # NoEpoch,
                      hold[a].st = "absent", hold'[a].st = "open"
               PROVE  present = CounterKeys
    BY DEF vars
  <2>1. PICK b \in Attempts : OpenAny(b)
    <3>1. ASSUME NEW b \in Attempts, SettleAny(b) PROVE FALSE
      <4>1. PICK outcome \in Outcomes, known \in Figures, certain \in [Dims -> BOOLEAN] :
               Settle(b, outcome, known, certain)
        BY <3>1 DEF SettleAny
      <4>2. SettleReply(b, outcome) \in {"applied", "degraded"} => b # a
        BY DEF SettleReply
      <4>3. hold'[a] = hold[a]
        BY <4>1, <4>2 DEF Settle, CloseHold, vars, BudgetInv, TypeOK
      <4>4. QED
        BY <4>3
    <3>2. ASSUME NEW b \in Attempts, Dispatch(b) PROVE FALSE
      BY <3>2 DEF Dispatch, DispatchReply, Exists, BudgetInv, TypeOK
    <3>3. ASSUME NEW b \in Attempts, LoseHold(b) PROVE FALSE
      BY <3>3 DEF LoseHold, Exists, BudgetInv, TypeOK
    <3>4. QED
      BY <3>1, <3>2, <3>3 DEF Next, RebaseAny, RaiseAny, LoseAny, Rebase, Raise, Lose
  <2>2. PICK mode \in Modes, expected \in Generations, est \in Estimates,
              mint \in Generations, admit \in BOOLEAN :
           Open(b, mode, expected, est, mint, admit)
    BY <2>1 DEF OpenAny
  <2>3. OpenReply(b, mode, expected, est, admit) # "state"
    BY <2>2 DEF Open, vars
  <2>4. QED
    BY <2>2, <2>3, CheckedState DEF BudgetInv, FencedModes, Guarded
<1>2. QED
  BY <1>1, Invariance, PTL DEF Spec, EpochProtectsCounters

-----------------------------------------------------------------------------
(* The scripts implement BudgetAccount while callers are fenced: every step  *)
(* of theirs is a step of the account or leaves it as it was.  The inductive *)
(* invariant above is what makes the check of the cap in OPEN_LUA, made on   *)
(* counters, the account's check, made on calls.                             *)

\* An attempt that never opened carries no generation.
UnopenedIsBlank == \A a \in Attempts : hold[a].st = "absent" => hold[a].ep = NoEpoch

AccountInv == BudgetInv /\ UnopenedIsBlank

Told == [a \in Attempts |-> CallOf(a)]

\* No step of the scripts writes to a slot no call has opened.
LEMMA BlankInv == ASSUME TypeOK, UnopenedIsBlank, [Next]_vars PROVE UnopenedIsBlank'
<1> SUFFICES ASSUME NEW a \in Attempts, hold'[a].st = "absent" PROVE hold'[a].ep = NoEpoch
  BY DEF UnopenedIsBlank
<1>1. /\ [hold[a] EXCEPT !.gone = TRUE].st = hold[a].st
      /\ [hold[a] EXCEPT !.gone = TRUE].ep = hold[a].ep
  BY DEF TypeOK, Hold
<1>2. QED
  BY <1>1, HoldSteps DEF UnopenedIsBlank, Terminal

\* What the refinement needs holds in every reachable state of the fenced scripts.
LEMMA AccountInvariance == FencedModes => (Spec => []AccountInv)
<1> SUFFICES ASSUME FencedModes PROVE Spec => []AccountInv
  OBVIOUS
<1>1. Init => UnopenedIsBlank
  BY DEF Init, NoHold, UnopenedIsBlank
<1>2. TypeOK /\ UnopenedIsBlank /\ [Next]_vars => UnopenedIsBlank'
  BY BlankInv
<1>3. BudgetInv => TypeOK
  BY DEF BudgetInv
<1>4. QED
  BY <1>1, <1>2, <1>3, Invariance, PTL DEF Spec, AccountInv

-----------------------------------------------------------------------------
(* What a step is to the account *)

\* What an agent has at first is an account nobody used.
LEMMA AccountBegins == Init => Account!AccountInit
<1> SUFFICES ASSUME Init PROVE Account!AccountInit
  OBVIOUS
<1>1. \A a \in Attempts : hold[a] = NoHold
  BY DEF Init
<1>2. ASSUME NEW a \in Attempts PROVE CallOf(a) = Account!Unopened
  <2>1. /\ hold[a].st = "absent" /\ hold[a].ep = NoEpoch
        /\ hold[a].et = Account!None /\ hold[a].at = Account!None
        /\ (hold[a].ph = "dispatch_may_have_happened") = FALSE
    BY <1>1 DEF NoHold, Nothing, Account!None
  <2>2. QED
    BY <2>1, Zenon DEF CallOf, Account!Unopened
<1>3. [a \in Attempts |-> CallOf(a)] = [a \in Attempts |-> Account!Unopened]
  BY <1>2
<1>4. QED
  BY <1>3 DEF Init, Account!AccountInit

\* A record that keeps these fields tells the same call.
LEMMA SameCalls ==
  ASSUME \A a \in Attempts : /\ hold'[a].st = hold[a].st
                             /\ hold'[a].ep = hold[a].ep
                             /\ hold'[a].et = hold[a].et
                             /\ hold'[a].at = hold[a].at
                             /\ hold'[a].ph = hold[a].ph
  PROVE  Told' = Told
BY DEF Told, CallOf

\* The account counts as the store does.
LEMMA SameCount == ASSUME NEW S PROVE Account!Cardinality(S) = Cardinality(S)
BY DEF Account!Cardinality, Cardinality

\* The cap as the scripts keep it is the cap of the account.
LEMMA CapIsKept ==
  ASSUME NEW g \in Generations, TypeOK', AccountInv', epoch' = g
  PROVE  Account!WithinCap(g)'
<1> SUFFICES ASSUME NEW d \in Dims, Cap[d] >= 0
             PROVE  Cardinality(Account!CommittedTo(g, d)') <= Cap[d]
  BY SameCount DEF Account!WithinCap
<1>1. g # NoEpoch /\ Cap[d] \in Int
  BY BudgetAssumption
<1>2. Account!CommittedTo(g, d)' \subseteq AdmittedUnits(d)'
  <2> SUFFICES ASSUME NEW u \in Units,
                      hold'[u[1]].ep = g,
                      u[2] <= hold'[u[1]].et[d],
                      hold'[u[1]].st # "open" => u[2] <= hold'[u[1]].at[d]
               PROVE  u \in AdmittedUnits(d)'
    BY DEF Account!CommittedTo, CallOf, Units
  <2>1. u[1] \in Attempts
    BY DEF Units
  <2>2. hold'[u[1]].st # "absent"
    BY <1>1, <2>1 DEF AccountInv, UnopenedIsBlank
  <2>3. hold'[u[1]].st = "open" \/ hold'[u[1]].st \in Terminal
    BY <2>1, <2>2 DEF TypeOK, Hold
  <2>4. QED
    BY <1>1, <2>3 DEF AdmittedUnits, InGeneration
<1>3. AdmittedUnits(d)' \subseteq Units
  BY DEF AdmittedUnits
<1>4. /\ IsFiniteSet(AdmittedUnits(d)') /\ Cardinality(AdmittedUnits(d)') \in Nat
      /\ Cardinality(Account!CommittedTo(g, d)') \in Nat
  BY <1>2, <1>3, UnitsFinite
<1>5. Cardinality(Account!CommittedTo(g, d)') <= Cardinality(AdmittedUnits(d)')
  BY <1>2, <1>4, FS_Subset
<1>6. Cardinality(AdmittedUnits(d)') <= Cap[d]
  BY DEF AccountInv, BudgetInv, AdmittedWithinCap
<1>7. QED
  BY <1>1, <1>4, <1>5, <1>6

\* OPEN_LUA: begins a generation, admits a call, both, or neither.
LEMMA OpenTells ==
  ASSUME AccountInv, AccountInv', NEW a \in Attempts, NEW mode, Guarded(mode),
         NEW expected, NEW est \in Estimates, NEW mint \in Generations,
         NEW admit \in BOOLEAN,
         Open(a, mode, expected, est, mint, admit), ~ hold[a].gone
  PROVE  [Account!AccountNext]_(Account!accountVars)
<1> DEFINE reply == OpenReply(a, mode, expected, est, admit)
<1>1. CASE reply = "state"
  <2>1. UNCHANGED vars
    BY <1>1 DEF Open
  <2>2. QED
    BY <2>1 DEF vars, Account!accountVars, CallOf
<1>2. CASE reply # "state"
  <2>1. /\ LiveEpoch(mode, mint) = epoch' /\ epoch' \in Generations
        /\ mode # "-"
        /\ \/ epoch # NoEpoch /\ epoch' = epoch /\ used' = used
           \/ mint \notin used /\ epoch' = mint /\ used' = used \cup {mint}
    BY <1>2, CheckedState DEF AccountInv, BudgetInv
  <2> DEFINE g == epoch'
  <2>2. CASE reply = "opened"
    <3>1. hold[a].st = "absent"
      BY <2>2 DEF OpenReply, Exists
    <3>2. Reserve(a, mode, est, mint)
      BY <2>2 DEF Open
    <3>3. hold' = [hold EXCEPT ![a] = [NoHold EXCEPT !.st = "open", !.et = est, !.ep = epoch']]
      BY <2>1, <3>2 DEF Reserve
    <3>4. est \in Account!Amounts
      BY BudgetAssumption DEF Account!Amounts
    <3>5. Told' = [Told EXCEPT ![a] = [Account!Unopened EXCEPT !.st = "open", !.gen = epoch',
                                                              !.est = est]]
      BY <3>3 DEF Told, CallOf, NoHold, Nothing, Account!Unopened, Account!None,
                  AccountInv, BudgetInv, TypeOK
    <3>6. PICK h \in Generations : h = epoch'
      BY <2>1
    <3>7. Account!WithinCap(h)'
      BY <3>6, CapIsKept DEF AccountInv, BudgetInv
    <3>8. Account!Admit(a, h, est)
      BY <2>1, <3>1, <3>5, <3>6, <3>7 DEF Account!Admit, Account!Begin, Told, CallOf
    <3>9. QED
      BY <3>4, <3>6, <3>8 DEF Account!AccountNext
  <2>3. CASE reply # "opened"
    <3>1. UNCHANGED hold
      BY <1>2, <2>3 DEF Open
    <3>2. CASE epoch' = epoch /\ used' = used
      BY <3>1, <3>2 DEF Account!accountVars, CallOf
    <3>3. CASE mint \notin used /\ epoch' = mint /\ used' = used \cup {mint}
      <4>1. Account!Begin(mint) /\ Told' = Told
        BY <3>1, <3>3 DEF Account!Begin, Told, CallOf
      <4>2. QED
        BY <4>1 DEF Account!AccountNext, Told
    <3>4. QED
      BY <2>1, <3>2, <3>3
  <2>4. QED
    BY <2>2, <2>3
<1>3. QED
  BY <1>1, <1>2

\* SETTLE_LUA: closes a call of the current generation, or moves nothing of it.
LEMMA SettleTells ==
  ASSUME AccountInv, NEW a \in Attempts, NEW outcome \in Outcomes,
         NEW known \in Amount, NEW certain \in [Dims -> BOOLEAN],
         Settle(a, outcome, known, certain)
  PROVE  [Account!AccountNext]_(Account!accountVars)
<1> DEFINE charge == Applied(a, outcome, known, certain)
           st == TerminalState(outcome)
<1>1. charge \in Amount
  BY AppliedType DEF AccountInv, BudgetInv
<1>2. ASSUME NEW lost \in BOOLEAN, CloseHold(a, outcome, charge, lost), UNCHANGED <<epoch, used>>,
             SettleReply(a, outcome) \in {"applied", "degraded"}
      PROVE  Account!AccountNext
  <2>1. /\ hold[a].st = "open"
        /\ Fenced(a) => epoch = hold[a].ep
        /\ outcome = "not_dispatched" => hold[a].ph = "pre_dispatch"
    BY <1>2 DEF SettleReply
  <2>2. epoch = hold[a].ep
    BY <2>1 DEF Fenced, AccountInv, BudgetInv, OpenedIsStamped
  <2>3. Told' = [Told EXCEPT ![a] = [st |-> st, gen |-> @.gen, est |-> @.est,
                                     charge |-> charge, sent |-> @.sent]]
    <3>1. /\ hold'[a].st = st /\ hold'[a].at = charge
          /\ hold'[a].ep = hold[a].ep /\ hold'[a].et = hold[a].et /\ hold'[a].ph = hold[a].ph
          /\ \A b \in Attempts \ {a} : hold'[b] = hold[b]
      BY <1>2 DEF CloseHold, AccountInv, BudgetInv, TypeOK, Hold
    <3>2. \A b \in Attempts \ {a} : CallOf(b)' = CallOf(b)
      BY <3>1 DEF CallOf
    <3>3. CallOf(a)' = [st |-> st, gen |-> CallOf(a).gen, est |-> CallOf(a).est,
                        charge |-> charge, sent |-> CallOf(a).sent]
      BY <3>1 DEF CallOf
    <3>4. QED
      BY <3>2, <3>3 DEF Told
  <2>4. st \in {"settled", "released", "resolved"}
    BY DEF TerminalState
  <2>5. st = "released" => charge = Account!None /\ hold[a].ph = "pre_dispatch"
    BY <2>1 DEF TerminalState, Applied, Account!None, Outcomes
  <2>6. charge \in Account!Amounts
    BY <1>1 DEF Amount, Account!Amounts
  <2>7. Account!CloseCall(a, st, charge)
    BY <1>2, <2>1, <2>2, <2>3, <2>5 DEF Account!CloseCall, Told, CallOf
  <2>8. QED
    BY <2>4, <2>6, <2>7 DEF Account!AccountNext
<1>3. CASE UNCHANGED vars
  BY <1>3 DEF vars, Account!accountVars, CallOf
<1>4. QED
  BY <1>2, <1>3 DEF Settle

\* DISPATCH_LUA: sends the call, once.
LEMMA DispatchTells ==
  ASSUME AccountInv, NEW a \in Attempts, Dispatch(a)
  PROVE  [Account!AccountNext]_(Account!accountVars)
<1>1. CASE DispatchReply(a) = "granted"
  <2>1. hold[a].st = "open" /\ hold[a].ph = "pre_dispatch"
    BY <1>1 DEF DispatchReply
  <2>2. Told' = [Told EXCEPT ![a].sent = TRUE]
    BY <1>1 DEF Dispatch, Told, CallOf, AccountInv, BudgetInv, TypeOK, Hold
  <2>3. Account!Send(a)
    BY <2>1, <2>2 DEF Dispatch, Account!Send, Told, CallOf
  <2>4. QED
    BY <2>3 DEF Account!AccountNext
<1>2. CASE DispatchReply(a) # "granted"
  BY <1>2 DEF Dispatch, Account!accountVars, CallOf
<1>3. QED
  BY <1>1, <1>2

\* A rebuild begins a generation.
LEMMA RebaseTells ==
  ASSUME NEW g \in Generations, NEW total, NEW seed, Rebase(g, total, seed)
  PROVE  [Account!AccountNext]_(Account!accountVars)
<1>1. Account!Begin(g) /\ Told' = Told
  BY DEF Rebase, Account!Begin, Told, CallOf
<1>2. QED
  BY <1>1 DEF Account!AccountNext, Told

\* Of what Redis may lose, only the generation's key is told.
LEMMA LossTells ==
  ASSUME AccountInv, LoseAny \/ \E a \in Attempts : LoseHold(a)
  PROVE  [Account!AccountNext]_(Account!accountVars)
<1>1. ASSUME NEW key \in Evictable, Lose(key)
      PROVE  [Account!AccountNext]_(Account!accountVars)
  <2>1. Told' = Told /\ used' = used /\ (epoch' = NoEpoch \/ epoch' = epoch)
    BY <1>1 DEF Lose, Told, CallOf
  <2>2. QED
    BY <2>1 DEF Account!AccountNext, Account!Forget, Account!accountVars, Told
<1>2. ASSUME NEW a \in Attempts, LoseHold(a)
      PROVE  [Account!AccountNext]_(Account!accountVars)
  <2>1. \A b \in Attempts : /\ hold'[b].st = hold[b].st
                            /\ hold'[b].ep = hold[b].ep
                            /\ hold'[b].et = hold[b].et
                            /\ hold'[b].at = hold[b].at
                            /\ hold'[b].ph = hold[b].ph
    BY <1>2 DEF LoseHold, AccountInv, BudgetInv, TypeOK, Hold
  <2>2. QED
    BY <1>2, <2>1, SameCalls DEF LoseHold, Account!accountVars, Told
<1>3. QED
  BY <1>1, <1>2 DEF LoseAny

\* Each step of the scripts is a step of the account, or leaves the account as it was.
LEMMA StepTells ==
  ASSUME FencedModes, AccountInv, AccountInv', [Next]_vars
  PROVE  [Account!AccountNext]_(Account!accountVars)
<1>1. CASE RaiseAny
  BY <1>1 DEF RaiseAny, Raise, Account!accountVars, CallOf
<1>2. CASE UNCHANGED vars
  BY <1>2 DEF vars, Account!accountVars, CallOf
<1>3. ASSUME NEW a \in Attempts, OpenAny(a)
      PROVE  [Account!AccountNext]_(Account!accountVars)
  BY <1>3, OpenTells DEF OpenAny, FencedModes, Guarded
<1>4. ASSUME NEW a \in Attempts, SettleAny(a)
      PROVE  [Account!AccountNext]_(Account!accountVars)
  BY <1>4, SettleTells, AmountType DEF SettleAny
<1>5. QED
  BY <1>1, <1>2, <1>3, <1>4, DispatchTells, RebaseTells, LossTells DEF Next, RebaseAny

\* The scripts keep the account's promise: within the cap of its generation,
\* sent at most once, closed once and in its own generation, never written off
\* once sent, for every number of attempts, dimensions and generations, whatever
\* Redis loses and whoever repeats which script (OPEN_LUA to RAISE_LUA).
THEOREM ScriptsMeetAccount == FencedModes => (Spec => MeetsAccount)
<1> SUFFICES ASSUME FencedModes PROVE Spec => MeetsAccount
  OBVIOUS
<1>1. AccountInv /\ AccountInv' /\ [Next]_vars => [Account!AccountNext]_(Account!accountVars)
  BY StepTells
<1>2. QED
  BY <1>1, AccountBegins, AccountInvariance, PTL DEF Spec, MeetsAccount, Account!AccountSpec


-----------------------------------------------------------------------------
(* For the modules that run these scripts beside state of their own: what a  *)
(* step of theirs has to be so that this store and its account are kept.     *)

\* A step of the account, or none.
Tells == [Account!AccountNext]_(Account!accountVars)

GuardedOpen ==
  \E a \in Attempts, mode \in {"0", "1", "2"}, expected \in Generations \cup {NoEpoch},
     est \in Estimates, mint \in Generations, admit \in BOOLEAN :
        Guarded(mode) /\ ~ hold[a].gone /\ Open(a, mode, expected, est, mint, admit)

AnySettle ==
  \E a \in Attempts, outcome \in Outcomes, known \in Amount, certain \in [Dims -> BOOLEAN] :
     Settle(a, outcome, known, certain)

AnyRebase == \E g \in Generations, total, seed \in [Dims -> Nat] : Rebase(g, total, seed)

AnyRaise == \E floor \in [Dims -> Int] : Raise(floor)

GuardedStep ==
  \/ GuardedOpen
  \/ AnySettle
  \/ AnyRebase
  \/ AnyRaise
  \/ LoseAny
  \/ \E a \in Attempts : Dispatch(a) \/ LoseHold(a)
  \/ UNCHANGED vars

\* A script, run by a guarded caller with any figures, keeps the store's invariant and
\* is a step of the account or none.
LEMMA GuardedStepTells ==
  ASSUME AccountInv, GuardedStep
  PROVE  AccountInv' /\ Tells
<1>1. BudgetInv /\ TypeOK /\ UnopenedIsBlank
  BY DEF AccountInv, BudgetInv
<1>2. CASE GuardedOpen
  <2>1. PICK a \in Attempts, mode \in {"0", "1", "2"}, expected \in Generations \cup {NoEpoch},
             est \in Estimates, mint \in Generations, admit \in BOOLEAN :
                Guarded(mode) /\ ~ hold[a].gone /\ Open(a, mode, expected, est, mint, admit)
    BY <1>2 DEF GuardedOpen
  <2>2. BudgetInv'
    BY <1>1, <2>1, GuardedOpenInv
  <2>3. \A b \in Attempts : hold'[b].st = "absent" => hold'[b] = hold[b]
    <3>1. CASE OpenReply(a, mode, expected, est, admit) = "opened"
      <4>1. Reserve(a, mode, est, mint)
        BY <2>1, <3>1 DEF Open
      <4>2. QED
        BY <1>1, <4>1 DEF Reserve, NoHold, TypeOK
    <3>2. CASE OpenReply(a, mode, expected, est, admit) # "opened"
      BY <2>1, <3>2 DEF Open, vars
    <3>3. QED
      BY <3>1, <3>2
  <2>4. UnopenedIsBlank'
    BY <1>1, <2>3 DEF UnopenedIsBlank
  <2>5. Tells
    BY <1>1, <2>1, <2>2, <2>4, OpenTells DEF Tells, AccountInv
  <2>6. QED
    BY <2>2, <2>4, <2>5 DEF AccountInv
<1>3. CASE AnySettle
  <2>1. PICK a \in Attempts, outcome \in Outcomes, known \in Amount, certain \in [Dims -> BOOLEAN] :
           Settle(a, outcome, known, certain)
    BY <1>3 DEF AnySettle
  <2>2. /\ BudgetInv'
        /\ \A b \in Attempts \ {a} : hold'[b] = hold[b]
        /\ hold' = hold \/ hold'[a].st = TerminalState(outcome)
    BY <1>1, <2>1, SettleTouches
  <2>3. UnopenedIsBlank'
    BY <1>1, <2>2 DEF UnopenedIsBlank, TerminalState
  <2>4. QED
    BY <2>1, <2>2, <2>3, SettleTells DEF AccountInv, Tells
<1>4. CASE AnyRebase
  <2>1. PICK g \in Generations, total \in [Dims -> Nat], seed \in [Dims -> Nat] :
           Rebase(g, total, seed)
    BY <1>4 DEF AnyRebase
  <2>2. hold' = hold
    BY <2>1 DEF Rebase
  <2>3. QED
    BY <1>1, <2>1, <2>2, RebaseInv, RebaseTells DEF AccountInv, UnopenedIsBlank, Tells
<1>5. CASE AnyRaise
  <2>1. BudgetInv' /\ UNCHANGED <<epoch, used, hold>>
    BY <1>1, <1>5, RaiseInv DEF AnyRaise, Raise
  <2>2. Tells
    BY <2>1 DEF Tells, Account!accountVars, CallOf
  <2>3. QED
    BY <1>1, <2>1, <2>2 DEF AccountInv, UnopenedIsBlank
<1>6. CASE LoseAny \/ \E a \in Attempts : LoseHold(a)
  <2>1. BudgetInv' /\ Tells
    BY <1>1, <1>6, LoseInv, LoseHoldInv, LossTells DEF LoseAny, Tells
  <2>2. \A b \in Attempts : hold'[b].st = hold[b].st /\ hold'[b].ep = hold[b].ep
    BY <1>1, <1>6 DEF LoseAny, Lose, LoseHold, TypeOK, Hold
  <2>3. QED
    BY <1>1, <2>1, <2>2 DEF AccountInv, UnopenedIsBlank
<1>7. ASSUME NEW a \in Attempts, Dispatch(a) PROVE AccountInv' /\ Tells
  <2>1. BudgetInv' /\ Tells
    BY <1>1, <1>7, DispatchInv, DispatchTells DEF Tells
  <2>2. \A b \in Attempts : hold'[b].st = hold[b].st /\ hold'[b].ep = hold[b].ep
    BY <1>1, <1>7 DEF Dispatch, TypeOK, Hold
  <2>3. QED
    BY <1>1, <2>1, <2>2 DEF AccountInv, UnopenedIsBlank
<1>8. CASE UNCHANGED vars
  <2>1. BudgetInv' /\ UnopenedIsBlank'
    BY <1>1, <1>8, StutterInv DEF vars, UnopenedIsBlank
  <2>2. Tells
    BY <1>8 DEF vars, Tells, Account!accountVars, CallOf
  <2>3. QED
    BY <2>1, <2>2 DEF AccountInv
<1>9. QED
  BY <1>2, <1>3, <1>4, <1>5, <1>6, <1>7, <1>8 DEF GuardedStep
=============================================================================
