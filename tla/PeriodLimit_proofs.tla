-------------------------- MODULE PeriodLimit_proofs --------------------------
(***************************************************************************)
(* Theorems about PeriodLimit for any number of attempts and generations,  *)
(* any clocks and any limit: what was charged in a period is never handed  *)
(* back, what was admitted under the limit never exceeds it, and the       *)
(* agent's own account is kept, while callers are fenced or, before that,  *)
(* while Redis keeps the counters of a live generation.                    *)
(*                                                                         *)
(* The invariant places every settled call in a period the snapshot has    *)
(* not left behind, so that a roll empties the period it enters.           *)
(***************************************************************************)
EXTENDS PeriodLimit, BudgetHolds_proofs

-----------------------------------------------------------------------------
(* The inductive invariant *)

\* Callers are fenced, or at worst bring a limit to a first call while Redis loses no
\* counter of a generation that lives on.
Protected ==
  \/ FencedModes
  \/ Modes \subseteq {"0", "1", "2"} /\ Evictable \cap CounterKeys = {}

LiveIsWhole == Evictable \cap CounterKeys = {} /\ epoch # NoEpoch => present = CounterKeys

\* The calls in flight that were admitted under the limit.
OpenBounded ==
  {u \in Units : /\ u[1] \in bounded /\ InGeneration(u[1]) /\ hold[u[1]].st = "open"
                 /\ u[2] <= hold[u[1]].et[Cost]}

\* A call is counted in a period only once it is closed, and in none after the
\* snapshot's.
PeriodsPast ==
  /\ base # NoBase => base.ep \in used
  /\ \A a \in Attempts : /\ hold[a].st \notin Terminal => period[a] = Never
                         /\ a \in bounded => hold[a].st # "absent"
  /\ LiveBase => \A a \in Attempts : InGeneration(a) /\ period[a] \in Clock => period[a] <= base.pk

OpenWithinLimit == Cardinality(OpenBounded) <= PeriodCap

PeriodInv ==
  /\ BudgetInv
  /\ PeriodTypeOK
  /\ LiveIsWhole
  /\ PeriodsPast
  /\ OpenWithinLimit
  /\ PeriodUsageCovers
  /\ PeriodWithinLimit

-----------------------------------------------------------------------------
(* Counting in a period *)

\* The three sums are natural numbers.
LEMMA PeriodUnitsAreNat ==
  /\ OpenBounded \in SUBSET Units /\ Cardinality(OpenBounded) \in Nat
  /\ PeriodCharges \in SUBSET Units /\ Cardinality(PeriodCharges) \in Nat
  /\ PeriodAdmitted \in SUBSET Units /\ Cardinality(PeriodAdmitted) \in Nat
<1>1. /\ OpenBounded \in SUBSET Units /\ PeriodCharges \in SUBSET Units
      /\ PeriodAdmitted \in SUBSET Units
  BY DEF OpenBounded, PeriodCharges, PeriodAdmitted
<1>2. QED
  BY <1>1, UnitsFinite

\* The same sums, after a step.
LEMMA NextPeriodUnitsAreNat ==
  /\ OpenBounded' \in SUBSET Units /\ Cardinality(OpenBounded') \in Nat
  /\ PeriodCharges' \in SUBSET Units /\ Cardinality(PeriodCharges') \in Nat
  /\ PeriodAdmitted' \in SUBSET Units /\ Cardinality(PeriodAdmitted') \in Nat
<1>1. /\ OpenBounded' \in SUBSET Units /\ PeriodCharges' \in SUBSET Units
      /\ PeriodAdmitted' \in SUBSET Units
  BY DEF OpenBounded, PeriodCharges, PeriodAdmitted, Units
<1>2. QED
  BY <1>1, UnitsFinite

\* No call of the generation has been counted in the snapshot's period.
NothingCounted == \A b \in Attempts : InGeneration(b) => period[b] # base.pk

\* A period in which nothing is counted holds the calls in flight alone.
LEMMA PeriodStarts ==
  ASSUME NothingCounted'
  PROVE  Cardinality(PeriodCharges') = 0 /\ PeriodAdmitted' \subseteq OpenBounded'
<1>1. \A u \in Units : u[1] \in Attempts
  BY DEF Units
<1>2. PeriodCharges' = {}
  BY <1>1 DEF NothingCounted, PeriodCharges, Units
<1>3. PeriodAdmitted' \subseteq OpenBounded'
  BY <1>1 DEF NothingCounted, PeriodAdmitted, OpenBounded, Units
<1>4. QED
  BY <1>2, <1>3, FS_EmptySet

\* Without a call of the generation nothing is counted and nothing is open.
LEMMA PeriodEmpty ==
  ASSUME \A b \in Attempts : ~ InGeneration(b)'
  PROVE  NothingCounted' /\ Cardinality(OpenBounded') = 0
<1>1. \A u \in Units : u[1] \in Attempts
  BY DEF Units
<1>2. OpenBounded' = {}
  BY <1>1 DEF OpenBounded, Units
<1>3. QED
  BY <1>2, FS_EmptySet DEF NothingCounted

\* A day, and a month, of a clock is one of the clock's values.
LEMMA KeyInClock ==
  ASSUME NEW kind \in {"day", "month"}, NEW now \in Clock
  PROVE  PeriodKey(kind, now) \in Clock
<1>1. now \in 0..MaxTime /\ MaxTime \in Nat
  BY PeriodAssumption DEF Clock
<1>2. now \div 2 \in 0..MaxTime
  BY <1>1
<1>3. QED
  BY <1>1, <1>2 DEF PeriodKey, DaysPerMonth, Clock

\* The calls that may be in flight under the limit are among those reserved for.
LEMMA AdmittedIsCovered ==
  ASSUME TypeOK', PeriodUsageCovers', ReservedCoversOpen', LiveBase', present' = CounterKeys,
         base'.bc \in Int, PeriodCap \in Nat,
         (spent'[Cost] - base'.bc) + reserved'[Cost] <= PeriodCap
  PROVE  /\ Cardinality(PeriodAdmitted') <= PeriodCap
         /\ Cardinality(OpenBounded') <= PeriodCap
<1>1. Cost \in Dims
  BY PeriodAssumption
<1>2. spent'[Cost] \in Int /\ reserved'[Cost] \in Int
  BY <1>1 DEF TypeOK
<1>3. /\ <<"spent", Cost>> \in present' /\ <<"reserved", Cost>> \in present' /\ epoch' # NoEpoch
  BY <1>1 DEF CounterKeys, LiveBase
<1>4. /\ Cardinality(PeriodCharges') <= spent'[Cost] - base'.bc
      /\ Cardinality(ReservationUnits(Cost)') <= reserved'[Cost]
  BY <1>1, <1>3 DEF PeriodUsageCovers, ReservedCoversOpen
<1>5. /\ PeriodCharges' \in SUBSET Units /\ ReservationUnits(Cost)' \in SUBSET Units
      /\ Cardinality(PeriodCharges') \in Nat /\ Cardinality(ReservationUnits(Cost)') \in Nat
  BY <1>1, NextPeriodUnitsAreNat, NextUnitsAreNat DEF ReservationUnits, Units
<1>6. /\ PeriodAdmitted' \subseteq PeriodCharges' \cup ReservationUnits(Cost)'
      /\ OpenBounded' \subseteq PeriodCharges' \cup ReservationUnits(Cost)'
  BY DEF PeriodAdmitted, PeriodCharges, ReservationUnits, OpenBounded
<1>7. /\ IsFiniteSet(PeriodCharges' \cup ReservationUnits(Cost)')
      /\ Cardinality(PeriodCharges' \cup ReservationUnits(Cost)') \in Nat
      /\ Cardinality(PeriodCharges' \cup ReservationUnits(Cost)')
           <= Cardinality(PeriodCharges') + Cardinality(ReservationUnits(Cost)')
  <2>1. PeriodCharges' \cup ReservationUnits(Cost)' \in SUBSET Units
        /\ PeriodCharges' \cap ReservationUnits(Cost)' \in SUBSET Units
    BY <1>5
  <2>2. /\ IsFiniteSet(PeriodCharges') /\ IsFiniteSet(ReservationUnits(Cost)')
        /\ IsFiniteSet(PeriodCharges' \cup ReservationUnits(Cost)')
        /\ Cardinality(PeriodCharges' \cup ReservationUnits(Cost)') \in Nat
        /\ Cardinality(PeriodCharges' \cap ReservationUnits(Cost)') \in Nat
    BY <1>5, <2>1, UnitsFinite
  <2>3. Cardinality(PeriodCharges' \cup ReservationUnits(Cost)')
          = Cardinality(PeriodCharges') + Cardinality(ReservationUnits(Cost)')
              - Cardinality(PeriodCharges' \cap ReservationUnits(Cost)')
    BY <2>2, FS_Union
  <2>4. QED
    BY <1>5, <2>2, <2>3
<1>8. /\ Cardinality(PeriodAdmitted') <= Cardinality(PeriodCharges' \cup ReservationUnits(Cost)')
      /\ Cardinality(OpenBounded') <= Cardinality(PeriodCharges' \cup ReservationUnits(Cost)')
  BY <1>6, <1>7, FS_Subset
<1>9. QED
  BY <1>2, <1>4, <1>5, <1>7, <1>8, NextPeriodUnitsAreNat

-----------------------------------------------------------------------------
(* Rolling, and the limit *)

\* A roll goes forward, and begins the period at the counter.
LEMMA RollsForward ==
  ASSUME base \in Base, NEW now \in Clock, NEW at \in Int
  PROVE  /\ Rolled(now, at) \in Base
         /\ Rolled(now, at).ep = base.ep /\ base.pk <= Rolled(now, at).pk
         /\ \/ Rolled(now, at) = base
            \/ base.pk < Rolled(now, at).pk /\ Rolled(now, at).bc = at
<1> DEFINE key == PeriodKey(base.kind, now)
<1>1. base.pk \in Clock /\ base.kind \in {"day", "month"} /\ base.pk \in Int
  <2>1. base.pk \in Clock /\ base.kind \in Kinds
    BY DEF Base
  <2>2. Kinds \subseteq {"day", "month"} /\ MaxTime \in Nat
    BY PeriodAssumption
  <2>3. base.pk \in Int
    BY <2>1, <2>2 DEF Clock
  <2>4. base.kind \in {"day", "month"}
    BY <2>1, <2>2
  <2>5. QED
    BY <2>1, <2>3, <2>4
<1>2. key \in Clock
  BY <1>1, KeyInClock
<1>3. CASE base.pk < key
  <2>1. Rolled(now, at) = [base EXCEPT !.pk = key, !.bc = at]
    BY <1>3 DEF Rolled
  <2>2. [base EXCEPT !.pk = key, !.bc = at] \in Base
    BY <1>2 DEF Base
  <2>3. /\ [base EXCEPT !.pk = key, !.bc = at].ep = base.ep
        /\ [base EXCEPT !.pk = key, !.bc = at].pk = key
        /\ [base EXCEPT !.pk = key, !.bc = at].bc = at
    BY DEF Base
  <2>4. base.pk <= key
    <3>1. key \in Int
      BY <1>2, PeriodAssumption DEF Clock
    <3>2. QED
      BY <1>1, <1>3, <3>1
  <2>5. QED
    BY <1>3, <2>1, <2>2, <2>3, <2>4
<1>4. CASE ~ base.pk < key
  <2>1. Rolled(now, at) = base
    BY <1>4 DEF Rolled
  <2>2. QED
    BY <1>1, <2>1
<1>5. QED
  BY <1>3, <1>4

\* Nothing new is in flight under the limit, and what the snapshot's period counts was
\* counted before or was in flight.
LEMMA LimitKept ==
  ASSUME PeriodInv, OpenBounded' \subseteq OpenBounded,
         LiveBase' => \/ PeriodAdmitted' \subseteq OpenBounded
                      \/ LiveBase /\ PeriodAdmitted' \subseteq PeriodAdmitted
  PROVE  OpenWithinLimit' /\ PeriodWithinLimit'
<1>1. /\ IsFiniteSet(OpenBounded) /\ IsFiniteSet(PeriodAdmitted) /\ PeriodCap \in Nat
      /\ Cardinality(OpenBounded) \in Nat /\ Cardinality(PeriodAdmitted) \in Nat
      /\ Cardinality(OpenBounded') \in Nat /\ Cardinality(PeriodAdmitted') \in Nat
  BY PeriodUnitsAreNat, NextPeriodUnitsAreNat, UnitsFinite, PeriodAssumption
<1>2. Cardinality(OpenBounded) <= PeriodCap
  BY DEF PeriodInv, OpenWithinLimit
<1>3. OpenWithinLimit'
  <2>1. Cardinality(OpenBounded') <= Cardinality(OpenBounded)
    BY <1>1, FS_Subset
  <2>2. QED
    BY <1>1, <1>2, <2>1 DEF OpenWithinLimit
<1>4. PeriodWithinLimit'
  <2> SUFFICES ASSUME LiveBase' PROVE Cardinality(PeriodAdmitted') <= PeriodCap
    BY DEF PeriodWithinLimit
  <2>1. CASE PeriodAdmitted' \subseteq OpenBounded
    <3>1. Cardinality(PeriodAdmitted') <= Cardinality(OpenBounded)
      BY <1>1, <2>1, FS_Subset
    <3>2. QED
      BY <1>1, <1>2, <3>1
  <2>2. CASE LiveBase /\ PeriodAdmitted' \subseteq PeriodAdmitted
    <3>1. Cardinality(PeriodAdmitted') <= Cardinality(PeriodAdmitted)
      BY <1>1, <2>2, FS_Subset
    <3>2. Cardinality(PeriodAdmitted) <= PeriodCap
      BY <2>2 DEF PeriodInv, PeriodWithinLimit
    <3>3. QED
      BY <1>1, <3>1, <3>2
  <2>3. QED
    BY <2>1, <2>2
<1>5. QED
  BY <1>3, <1>4

-----------------------------------------------------------------------------
(* Steps that leave the period alone *)

\* Every hold keeps what the periods are counted from.
KeepsCall(b) ==
  /\ hold'[b].st = hold[b].st /\ hold'[b].ep = hold[b].ep
  /\ hold'[b].et = hold[b].et /\ hold'[b].at = hold[b].at

\* A step that neither closes nor opens a hold, nor lowers the usage of the period,
\* keeps the invariant.
LEMMA PeriodAside ==
  ASSUME PeriodInv, BudgetInv', LiveIsWhole', UNCHANGED <<period, bounded>>,
         base' \in Base \cup {NoBase},
         base' # NoBase => base # NoBase /\ base'.ep = base.ep /\ base'.pk = base.pk,
         epoch' = epoch \/ epoch' = NoEpoch, used' = used, present' \subseteq present,
         LiveBase' /\ <<"spent", Cost>> \in present'
           => spent'[Cost] - base'.bc >= spent[Cost] - base.bc,
         \A b \in Attempts : KeepsCall(b)
  PROVE  PeriodInv'
<1>1. \A u \in Units : u[1] \in Attempts
  BY DEF Units
<1>2. PeriodTypeOK'
  BY DEF PeriodInv, PeriodTypeOK, BudgetInv
<1>3. \A b \in Attempts : InGeneration(b)' => InGeneration(b) /\ epoch' = epoch
  BY DEF InGeneration, KeepsCall
<1>4. LiveBase' => LiveBase /\ epoch' = epoch /\ base'.pk = base.pk
  BY DEF LiveBase
<1>5. PeriodsPast'
  <2>1. base' # NoBase => base'.ep \in used'
    BY DEF PeriodInv, PeriodsPast
  <2>2. \A b \in Attempts : /\ hold'[b].st \notin Terminal => period'[b] = Never
                            /\ b \in bounded' => hold'[b].st # "absent"
    BY DEF PeriodInv, PeriodsPast, KeepsCall
  <2>3. LiveBase' => \A b \in Attempts : InGeneration(b)' /\ period'[b] \in Clock
                                           => period'[b] <= base'.pk
    BY <1>3, <1>4 DEF PeriodInv, PeriodsPast
  <2>4. QED
    BY <2>1, <2>2, <2>3 DEF PeriodsPast
<1>6. OpenBounded' \subseteq OpenBounded
  BY <1>1, <1>3 DEF OpenBounded, KeepsCall, Units
<1>7. LiveBase' => PeriodCharges' \subseteq PeriodCharges /\ PeriodAdmitted' \subseteq PeriodAdmitted
  BY <1>1, <1>3, <1>4 DEF PeriodCharges, PeriodAdmitted, KeepsCall, Units
<1>8. OpenWithinLimit' /\ PeriodWithinLimit'
  BY <1>4, <1>6, <1>7, LimitKept
<1>9. PeriodUsageCovers'
  <2> SUFFICES ASSUME LiveBase', <<"spent", Cost>> \in present'
               PROVE  spent'[Cost] - base'.bc >= Cardinality(PeriodCharges')
    BY DEF PeriodUsageCovers
  <2>1. spent[Cost] - base.bc >= Cardinality(PeriodCharges)
    BY <1>4 DEF PeriodInv, PeriodUsageCovers
  <2>2. Cardinality(PeriodCharges') <= Cardinality(PeriodCharges)
    BY <1>7, PeriodUnitsAreNat, UnitsFinite, FS_Subset
  <2>3. /\ spent[Cost] \in Int /\ spent'[Cost] \in Int
        /\ base.bc \in Int /\ base'.bc \in Int
    BY <1>2, <1>4, PeriodAssumption DEF LiveBase, PeriodInv, PeriodTypeOK, TypeOK, Base
  <2>4. QED
    BY <2>1, <2>2, <2>3, PeriodUnitsAreNat, NextPeriodUnitsAreNat
<1>10. QED
  BY <1>2, <1>5, <1>8, <1>9 DEF PeriodInv

-----------------------------------------------------------------------------
(* Settling *)

\* A settle that is not counted in a period keeps the invariant.
LEMMA UncountedSettle ==
  ASSUME PeriodInv, BudgetInv', NEW a \in Attempts, UNCHANGED <<base, period, bounded, used>>,
         epoch' = epoch, present' = present,
         \A b \in Attempts \ {a} : hold'[b] = hold[b],
         hold'[a].ep = hold[a].ep, hold'[a].et = hold[a].et,
         hold[a].st = "open", hold'[a].st \in Terminal,
         spent' = spent \/ ~ LiveBase
  PROVE  PeriodInv'
<1>1. \A u \in Units : u[1] \in Attempts
  BY DEF Units
<1>2. \A b \in Attempts : InGeneration(b)' <=> InGeneration(b)
  BY DEF InGeneration
<1>3. PeriodTypeOK' /\ LiveIsWhole'
  BY DEF PeriodInv, PeriodTypeOK, LiveIsWhole, BudgetInv
<1>4. LiveBase' <=> LiveBase
  BY DEF LiveBase
<1>5. \A b \in Attempts : /\ hold[b].st \in Terminal => hold'[b].st \in Terminal
                          /\ hold'[b].st = "absent" => hold[b].st = "absent"
                          /\ hold'[b].st = "open" => hold[b].st = "open"
                          /\ hold'[b].et = hold[b].et
  BY DEF Terminal
<1>6. PeriodsPast'
  BY <1>2, <1>4, <1>5 DEF PeriodInv, PeriodsPast
<1>7. LiveBase => period[a] # base.pk
  <2>1. LiveBase => base.pk \in Clock
    BY DEF LiveBase, PeriodInv, PeriodTypeOK, Base
  <2>2. period[a] = Never
    BY DEF PeriodInv, PeriodsPast, Terminal
  <2>3. QED
    BY <2>1, <2>2, PeriodAssumption
<1>8. OpenBounded' \subseteq OpenBounded
  BY <1>1, <1>2, <1>5 DEF OpenBounded
<1>9. LiveBase => PeriodCharges' \subseteq PeriodCharges /\ PeriodAdmitted' \subseteq PeriodAdmitted
  BY <1>1, <1>2, <1>5, <1>7 DEF PeriodCharges, PeriodAdmitted, Terminal
<1>10. OpenWithinLimit' /\ PeriodWithinLimit'
  BY <1>4, <1>8, <1>9, LimitKept
<1>11. PeriodUsageCovers'
  <2> SUFFICES ASSUME LiveBase', <<"spent", Cost>> \in present'
               PROVE  spent'[Cost] - base'.bc >= Cardinality(PeriodCharges')
    BY DEF PeriodUsageCovers
  <2>1. spent[Cost] - base.bc >= Cardinality(PeriodCharges) /\ spent' = spent
    BY <1>4 DEF PeriodInv, PeriodUsageCovers
  <2>2. Cardinality(PeriodCharges') <= Cardinality(PeriodCharges)
    BY <1>4, <1>9, PeriodUnitsAreNat, UnitsFinite, FS_Subset
  <2>3. spent[Cost] \in Int /\ base.bc \in Int
    BY <1>4, PeriodAssumption DEF LiveBase, PeriodInv, PeriodTypeOK, TypeOK, Base
  <2>4. QED
    BY <2>1, <2>2, <2>3, PeriodUnitsAreNat, NextPeriodUnitsAreNat
<1>12. QED
  BY <1>3, <1>6, <1>10, <1>11 DEF PeriodInv

\* A counted settle moves the counter and the period's usage alike, and takes no more
\* of the limit than the estimate it was admitted with.
LEMMA CountedSettle ==
  ASSUME PeriodInv, BudgetInv', NEW a \in Attempts, NEW now \in Clock, NEW charge \in Amount,
         base # NoBase, base.ep = epoch, epoch # NoEpoch, hold[a].ep = epoch,
         base' = SettleBase(now), period' = [period EXCEPT ![a] = SettleBase(now).pk],
         UNCHANGED <<epoch, present, bounded, used>>, present = CounterKeys,
         \A b \in Attempts \ {a} : hold'[b] = hold[b],
         hold'[a].ep = hold[a].ep, hold'[a].et = hold[a].et, hold'[a].at = charge,
         hold[a].st = "open", hold'[a].st \in Terminal,
         spent'[Cost] = spent[Cost] + charge[Cost]
  PROVE  PeriodInv'
<1> DEFINE snap == SettleBase(now)
           counts == IF snap = base THEN PeriodCharges ELSE {}
<1>1. \A u \in Units : u[1] \in Attempts /\ u[2] \in 1..MaxUnits /\ u = <<u[1], u[2]>>
  BY DEF Units
<1>2. \A b \in Attempts : InGeneration(b)' <=> InGeneration(b)
  BY DEF InGeneration
<1>3. /\ spent[Cost] \in Int /\ base \in Base /\ period \in [Attempts -> Clock \cup {Never}]
      /\ \A k \in Clock : k \in Int
  <2>1. MaxTime \in Nat /\ Cost \in Dims
    BY PeriodAssumption
  <2>2. \A k \in Clock : k \in Int
    BY <2>1 DEF Clock
  <2>3. QED
    BY <2>1, <2>2 DEF PeriodInv, PeriodTypeOK, TypeOK
<1>4. /\ snap \in Base /\ snap.ep = base.ep /\ base.pk <= snap.pk
      /\ \/ snap = base
         \/ base.pk < snap.pk /\ snap.bc = spent[Cost]
  BY <1>3, RollsForward DEF SettleBase
<1>5. base.pk \in Clock /\ snap.pk \in Clock /\ snap.bc \in Int /\ base.bc \in Int /\ base.ep \in Generations
  BY <1>3, <1>4 DEF Base
<1>6. /\ period'[a] = snap.pk
      /\ \A b \in Attempts \ {a} : period'[b] = period[b]
      /\ base' = snap
  BY <1>3
<1> HIDE DEF snap
<1>7. LiveBase /\ LiveBase' /\ base' \in Base
  <2>1. snap # NoBase
    BY <1>4, SnapshotAssumption
  <2>2. QED
    BY <1>4, <1>6, <2>1 DEF LiveBase
<1>8. PeriodTypeOK' /\ LiveIsWhole'
  BY <1>3, <1>5, <1>6, <1>7 DEF PeriodInv, PeriodTypeOK, LiveIsWhole, BudgetInv
<1>9. \A b \in Attempts : InGeneration(b) /\ period[b] \in Clock => period[b] <= base.pk
  BY <1>7 DEF PeriodInv, PeriodsPast
<1>10. PeriodsPast'
  <2>1. base'.ep \in used'
    BY <1>4, <1>6, <1>7 DEF PeriodInv, PeriodsPast, LiveBase
  <2>2. ASSUME NEW b \in Attempts
        PROVE  /\ hold'[b].st \notin Terminal => period'[b] = Never
               /\ b \in bounded' => hold'[b].st # "absent"
               /\ InGeneration(b)' /\ period'[b] \in Clock => period'[b] <= base'.pk
    <3>1. CASE b = a
      <4>1. hold'[b].st \in Terminal /\ hold'[b].st # "absent"
        BY <3>1 DEF Terminal
      <4>2. period'[b] = base'.pk /\ base'.pk \in Int
        BY <1>3, <1>5, <1>6, <3>1
      <4>3. QED
        BY <4>1, <4>2
    <3>2. CASE b # a
      <4>1. InGeneration(b)' /\ period'[b] \in Clock => period'[b] <= base'.pk
        BY <1>2, <1>3, <1>4, <1>5, <1>6, <1>9, <3>2
      <4>2. QED
        BY <1>6, <3>2, <4>1 DEF PeriodInv, PeriodsPast
    <3>3. QED
      BY <3>1, <3>2
  <2>3. QED
    BY <2>1, <2>2 DEF PeriodsPast
<1>11. \A b \in Attempts \ {a} : InGeneration(b) /\ period'[b] = snap.pk
                                  => snap = base /\ period[b] = base.pk
  BY <1>3, <1>4, <1>5, <1>6, <1>9
<1>12. OpenBounded' \subseteq OpenBounded
  BY <1>1, <1>2 DEF OpenBounded, Terminal
<1>13. charge[Cost] \in Nat /\ charge[Cost] \in 0..MaxUnits
  BY PeriodAssumption, BudgetAssumption DEF Amount
<1>14. PeriodCharges' \subseteq counts \cup Column(a, charge[Cost])
  <2>1. ASSUME NEW u \in PeriodCharges' PROVE u \in counts \cup Column(a, charge[Cost])
    <3>1. /\ u \in Units /\ InGeneration(u[1])' /\ hold'[u[1]].st \in Terminal
          /\ period'[u[1]] = snap.pk /\ u[2] <= hold'[u[1]].at[Cost]
      BY <1>6, <2>1 DEF PeriodCharges, Units
    <3>2. CASE u[1] = a
      <4>1. u[2] \in 1..charge[Cost]
        BY <1>1, <1>13, <3>1, <3>2
      <4>2. QED
        BY <1>1, <3>1, <3>2, <4>1 DEF Column
    <3>3. CASE u[1] # a
      BY <1>1, <1>2, <1>11, <3>1, <3>3 DEF PeriodCharges
    <3>4. QED
      BY <3>2, <3>3
  <2>2. QED
    BY <2>1
<1>15. IsFiniteSet(counts) /\ Cardinality(counts) \in Nat /\ Cardinality(counts) <= spent[Cost] - snap.bc
  <2>1. CASE snap = base
    <3>1. Cardinality(PeriodCharges) <= spent[Cost] - base.bc
      BY <1>7, PeriodAssumption DEF PeriodInv, PeriodUsageCovers, CounterKeys
    <3>2. QED
      BY <2>1, <3>1, PeriodUnitsAreNat, UnitsFinite
  <2>2. CASE snap # base
    BY <1>3, <1>4, <2>2, FS_EmptySet
  <2>3. QED
    BY <2>1, <2>2
<1>16. PeriodUsageCovers'
  <2>1. Cardinality(PeriodCharges') <= Cardinality(counts) + charge[Cost]
    BY <1>13, <1>14, <1>15, Grows
  <2>2. Cardinality(PeriodCharges') <= spent'[Cost] - base'.bc
    BY <1>3, <1>5, <1>6, <1>13, <1>15, <2>1, NextPeriodUnitsAreNat
  <2>3. QED
    BY <1>3, <1>5, <1>6, <1>13, <2>2, NextPeriodUnitsAreNat DEF PeriodUsageCovers
<1>17. \/ PeriodAdmitted' \subseteq OpenBounded
       \/ PeriodAdmitted' \subseteq PeriodAdmitted
  <2>1. ASSUME NEW u \in PeriodAdmitted'
        PROVE  u \in OpenBounded \/ (snap = base /\ u \in PeriodAdmitted)
    <3>1. /\ u \in Units /\ u[1] \in bounded /\ InGeneration(u[1]) /\ u[2] <= hold[u[1]].et[Cost]
          /\ \/ hold'[u[1]].st = "open"
             \/ /\ hold'[u[1]].st \in Terminal /\ period'[u[1]] = snap.pk
                /\ u[2] <= hold'[u[1]].at[Cost]
      BY <1>1, <1>2, <1>6, <2>1 DEF PeriodAdmitted, Units
    <3>2. CASE u[1] = a \/ hold'[u[1]].st = "open"
      BY <1>1, <3>1, <3>2 DEF OpenBounded, Terminal
    <3>3. CASE u[1] # a /\ hold'[u[1]].st # "open"
      BY <1>1, <1>11, <3>1, <3>3 DEF PeriodAdmitted
    <3>4. QED
      BY <3>2, <3>3
  <2>2. OpenBounded \subseteq PeriodAdmitted
    BY DEF OpenBounded, PeriodAdmitted
  <2>3. QED
    BY <2>1, <2>2
<1>18. OpenWithinLimit' /\ PeriodWithinLimit'
  BY <1>7, <1>12, <1>17, LimitKept
<1>19. QED
  BY <1>8, <1>10, <1>16, <1>18 DEF PeriodInv

\* SETTLE_LUA, whatever it answers, keeps the invariant.
LEMMA PeriodSettleStep ==
  ASSUME PeriodInv, NEW a \in Attempts, PeriodSettleAny(a)
  PROVE  PeriodInv'
<1>1. PICK outcome \in Outcomes, known \in Figures, certain \in [Dims -> BOOLEAN], now \in Clock :
         PeriodSettle(a, outcome, known, certain, now)
  BY DEF PeriodSettleAny
<1> DEFINE charge == Applied(a, outcome, known, certain)
<1>2. Settle(a, outcome, known, certain) /\ known \in Amount /\ UNCHANGED bounded /\ BudgetInv
  BY <1>1, AmountType DEF PeriodSettle, PeriodInv
<1>3. charge \in Amount
  BY <1>2, AppliedType DEF BudgetInv
<1>4. /\ BudgetInv' /\ epoch' = epoch /\ present' = present
      /\ \A b \in Attempts \ {a} : hold'[b] = hold[b]
      /\ hold'[a].ep = hold[a].ep /\ hold'[a].et = hold[a].et
      /\ \/ /\ SettleReply(a, outcome) \notin {"applied", "degraded"}
            /\ hold' = hold /\ spent' = spent
         \/ /\ SettleReply(a, outcome) \in {"applied", "degraded"}
            /\ hold[a].st = "open" /\ hold'[a].st = TerminalState(outcome)
            /\ hold'[a].at = charge
            /\ \/ SettleReply(a, outcome) = "degraded" /\ spent' = spent
               \/ /\ SettleReply(a, outcome) = "applied"
                  /\ epoch = hold[a].ep /\ present = CounterKeys
                  /\ \A d \in Dims : spent'[d] = spent[d] + charge[d]
  BY <1>2, SettleTouches
<1>5. used' = used
  BY <1>2 DEF Settle, vars
<1>6. TerminalState(outcome) \in Terminal
  BY DEF TerminalState, Terminal
<1>7. LiveIsWhole'
  BY <1>4 DEF PeriodInv, LiveIsWhole
<1> HIDE DEF charge
<1>8. CASE SettleReply(a, outcome) \notin {"applied", "degraded"}
  <2>1. UNCHANGED <<base, period>>
    BY <1>1, <1>8 DEF PeriodSettle, Counted
  <2>2. /\ \A b \in Attempts : KeepsCall(b)
        /\ spent' = spent
    BY <1>4, <1>8 DEF KeepsCall
  <2>3. base \in Base \cup {NoBase} /\ spent[Cost] \in Int
    BY PeriodAssumption DEF PeriodInv, PeriodTypeOK, TypeOK
  <2>4. LiveBase' => spent'[Cost] - base'.bc >= spent[Cost] - base.bc
    BY <2>1, <2>2, <2>3 DEF LiveBase, Base
  <2>5. QED
    BY <1>2, <1>4, <1>5, <1>7, <2>1, <2>2, <2>3, <2>4, PeriodAside
<1>9. CASE SettleReply(a, outcome) = "degraded"
  <2>1. UNCHANGED <<base, period>>
    BY <1>1, <1>9 DEF PeriodSettle, Counted
  <2>2. QED
    BY <1>2, <1>4, <1>5, <1>6, <1>9, <2>1, UncountedSettle
<1>10. CASE SettleReply(a, outcome) = "applied"
  <2>1. Fenced(a) /\ epoch # NoEpoch
    BY <1>4, <1>10 DEF Fenced, PeriodInv, BudgetInv, OpenedIsStamped
  <2>2. CASE base # NoBase /\ base.ep = epoch
    <3>1. base' = SettleBase(now) /\ period' = [period EXCEPT ![a] = SettleBase(now).pk]
      BY <1>1, <1>4, <1>10, <2>1, <2>2 DEF PeriodSettle, Counted
    <3>2. spent'[Cost] = spent[Cost] + charge[Cost]
      BY <1>4, <1>10, PeriodAssumption
    <3>3. QED
      BY <1>2, <1>3, <1>4, <1>5, <1>6, <1>10, <2>1, <2>2, <3>1, <3>2, CountedSettle
  <2>3. CASE ~ (base # NoBase /\ base.ep = epoch)
    <3>1. UNCHANGED <<base, period>> /\ ~ LiveBase
      BY <1>1, <1>4, <1>10, <2>3 DEF PeriodSettle, Counted, LiveBase
    <3>2. QED
      BY <1>2, <1>4, <1>5, <1>6, <1>10, <3>1, UncountedSettle
  <2>4. QED
    BY <2>2, <2>3
<1>11. QED
  BY <1>8, <1>9, <1>10

-----------------------------------------------------------------------------
(* Rebuilds, floors and losses *)

\* A rebuild begins a generation, and a period in it that has used what the ledger says.
LEMMA PeriodRebaseStep == ASSUME PeriodInv, PeriodRebaseAny PROVE PeriodInv'
<1>a. PICK g \in Generations, total \in Figures, seed \in Figures, limited \in BOOLEAN,
           kind \in Kinds, now \in Clock :
         \E spentSince \in 0..total[Cost] :
             PeriodRebase(g, total, seed, limited, kind, now, spentSince)
  BY DEF PeriodRebaseAny
<1>1. PICK spentSince \in 0..total[Cost] : PeriodRebase(g, total, seed, limited, kind, now, spentSince)
  BY <1>a
<1>2. /\ Rebase(g, total, seed) /\ period' = Recount /\ UNCHANGED bounded
      /\ base' = IF limited
                 THEN [ep |-> g, kind |-> kind, pk |-> PeriodKey(kind, now),
                       bc |-> total[Cost] - spentSince, cap |-> PeriodCap]
                 ELSE NoBase
  BY <1>1 DEF PeriodRebase
<1>3. total \in [Dims -> Nat] /\ seed \in [Dims -> Nat] /\ total[Cost] \in Nat
  BY AmountType, PeriodAssumption
<1>4. BudgetInv'
  BY <1>2, <1>3, RebaseInv DEF PeriodInv
<1>5. hold' = hold /\ present' = CounterKeys /\ epoch' = g /\ used' = used \cup {g} /\ spent' = total
  BY <1>2 DEF Rebase
<1>6. \A b \in Attempts : ~ InGeneration(b)'
  BY <1>2, <1>5, BudgetAssumption DEF Rebase, PeriodInv, BudgetInv, StampsUsed, InGeneration
<1>7. spentSince \in Int /\ spentSince >= 0
  BY <1>3
<1>8. /\ base' \in Base \cup {NoBase}
      /\ base' # NoBase => base'.ep = g /\ base'.bc = total[Cost] - spentSince
  <2>1. kind \in {"day", "month"}
    BY PeriodAssumption
  <2>2. PeriodKey(kind, now) \in Clock
    BY <2>1, KeyInClock
  <2>3. QED
    BY <1>2, <1>3, <1>7, <2>2 DEF Base
<1>9. \A b \in Attempts : period'[b] = Never
  BY <1>2 DEF Recount
<1>10. PeriodTypeOK' /\ LiveIsWhole'
  BY <1>2, <1>4, <1>5, <1>8 DEF PeriodInv, PeriodTypeOK, LiveIsWhole, BudgetInv, Recount
<1>11. PeriodsPast'
  BY <1>2, <1>5, <1>6, <1>8, <1>9 DEF PeriodInv, PeriodsPast
<1>12. NothingCounted' /\ OpenBounded' \subseteq OpenBounded
  <2>1. \A u \in Units : u[1] \in Attempts
    BY DEF Units
  <2>2. QED
    BY <1>6, <2>1 DEF OpenBounded, NothingCounted, Units
<1>13. Cardinality(PeriodCharges') = 0 /\ PeriodAdmitted' \subseteq OpenBounded
  BY <1>12, PeriodStarts
<1>14. OpenWithinLimit' /\ PeriodWithinLimit'
  BY <1>12, <1>13, LimitKept
<1>15. PeriodUsageCovers'
  <2>1. LiveBase' => spent'[Cost] - base'.bc >= 0
    BY <1>3, <1>5, <1>7, <1>8 DEF LiveBase
  <2>2. QED
    BY <1>13, <2>1 DEF PeriodUsageCovers
<1>16. QED
  BY <1>4, <1>10, <1>11, <1>14, <1>15 DEF PeriodInv

\* The cron's floor takes the baseline along in a period that began after what it
\* recovers: the usage of the period never falls.
LEMMA PeriodRaiseStep == ASSUME PeriodInv, PeriodRaiseAny PROVE PeriodInv'
<1>1. PICK floor \in Floors, cutoff \in Clock : PeriodRaise(floor, cutoff)
  BY DEF PeriodRaiseAny
<1>2. Raise(floor) /\ base' = RaisedBase(floor, cutoff) /\ UNCHANGED <<period, bounded>>
  BY <1>1 DEF PeriodRaise
<1>3. floor \in [Dims -> Nat] /\ floor \in [Dims -> Int] /\ floor[Cost] \in Int /\ Cost \in Dims
  BY PeriodAssumption
<1>4. BudgetInv'
  BY <1>2, <1>3, RaiseInv DEF PeriodInv
<1>5. UNCHANGED <<epoch, present, hold, used>> /\ spent'[Cost] = Larger(floor[Cost], spent[Cost])
  BY <1>2, <1>3 DEF Raise
<1>6. spent[Cost] \in Int /\ base \in Base \cup {NoBase}
  BY <1>3 DEF PeriodInv, PeriodTypeOK, TypeOK
<1>7. \/ base' = base
      \/ /\ base \in Base /\ floor[Cost] > spent[Cost]
         /\ base' = [base EXCEPT !.bc = @ + (floor[Cost] - spent[Cost])]
  BY <1>2, <1>6 DEF RaisedBase
<1>8. /\ base' \in Base \cup {NoBase}
      /\ base' # NoBase => base # NoBase /\ base'.ep = base.ep /\ base'.pk = base.pk
      /\ LiveBase' => spent'[Cost] - base'.bc >= spent[Cost] - base.bc
  <2>1. CASE base' = base
    BY <1>3, <1>5, <1>6, <2>1 DEF LiveBase, Base, Larger
  <2>2. CASE /\ base \in Base /\ floor[Cost] > spent[Cost]
             /\ base' = [base EXCEPT !.bc = @ + (floor[Cost] - spent[Cost])]
    <3>1. /\ base.bc \in Int /\ base'.bc = base.bc + (floor[Cost] - spent[Cost])
          /\ base'.ep = base.ep /\ base'.pk = base.pk
      BY <2>2 DEF Base
    <3>2. base' \in Base /\ base # NoBase
      BY <1>3, <1>6, <2>2, <3>1, SnapshotAssumption DEF Base
    <3>3. spent'[Cost] = floor[Cost]
      BY <1>5, <2>2 DEF Larger
    <3>4. QED
      BY <1>3, <1>6, <3>1, <3>2, <3>3
  <2>3. QED
    BY <1>7, <2>1, <2>2
<1>9. LiveIsWhole' /\ \A b \in Attempts : KeepsCall(b)
  BY <1>5 DEF PeriodInv, LiveIsWhole, KeepsCall
<1>10. QED
  BY <1>2, <1>4, <1>5, <1>8, <1>9, PeriodAside

\* A snapshot, a counter or a hold that is lost takes nothing from what was counted.
LEMMA PeriodLossStep ==
  ASSUME PeriodInv, LoseBase \/ Elsewhere \/ UNCHANGED pvars
  PROVE  PeriodInv'
<1>1. /\ UNCHANGED <<period, bounded>> /\ base' \in {base, NoBase}
      /\ \/ UNCHANGED vars
         \/ \E a \in Attempts : Dispatch(a) \/ LoseHold(a)
         \/ LoseAny
  BY DEF LoseBase, Elsewhere, pvars
<1>2. /\ base' \in Base \cup {NoBase} /\ spent[Cost] \in Int /\ Cost \in Dims
      /\ base' # NoBase => base # NoBase /\ base' = base /\ base'.bc \in Int
  BY <1>1, PeriodAssumption DEF PeriodInv, PeriodTypeOK, TypeOK, Base
<1>3. ASSUME UNCHANGED <<epoch, present, spent, used>>, \A b \in Attempts : KeepsCall(b), BudgetInv'
      PROVE  PeriodInv'
  <2>1. LiveIsWhole'
    BY <1>3 DEF PeriodInv, LiveIsWhole
  <2>2. LiveBase' => spent'[Cost] - base'.bc >= spent[Cost] - base.bc
    BY <1>2, <1>3 DEF LiveBase
  <2>3. QED
    BY <1>1, <1>2, <1>3, <2>1, <2>2, PeriodAside
<1>4. CASE UNCHANGED vars
  BY <1>3, <1>4, StutterInv DEF vars, KeepsCall, PeriodInv
<1>5. ASSUME NEW a \in Attempts, Dispatch(a) \/ LoseHold(a) PROVE PeriodInv'
  <2>1. hold \in [Attempts -> Hold]
    BY DEF PeriodInv, BudgetInv, TypeOK
  <2>2. \A b \in Attempts : KeepsCall(b)
    BY <1>5, <2>1 DEF Dispatch, LoseHold, KeepsCall, Hold
  <2>3. UNCHANGED <<epoch, present, spent, used>>
    BY <1>5 DEF Dispatch, LoseHold
  <2>4. BudgetInv'
    BY <1>5, DispatchInv, LoseHoldInv DEF PeriodInv
  <2>5. QED
    BY <1>3, <2>2, <2>3, <2>4
<1>6. ASSUME NEW key \in Evictable, Lose(key) PROVE PeriodInv'
  <2>1. BudgetInv'
    BY <1>6, LoseInv DEF PeriodInv
  <2>2. /\ epoch' \in {epoch, NoEpoch} /\ present' = present \ {key} /\ UNCHANGED <<hold, used>>
        /\ <<"spent", Cost>> \in present' => spent'[Cost] = spent[Cost]
    BY <1>2, <1>6 DEF Lose
  <2>3. LiveIsWhole'
    BY <2>2 DEF PeriodInv, LiveIsWhole
  <2>4. LiveBase' /\ <<"spent", Cost>> \in present'
          => spent'[Cost] - base'.bc >= spent[Cost] - base.bc
    BY <1>2, <2>2 DEF LiveBase
  <2>5. QED
    BY <1>1, <1>2, <2>1, <2>2, <2>3, <2>4, PeriodAside DEF KeepsCall
<1>7. QED
  BY <1>1, <1>4, <1>5, <1>6 DEF LoseAny

-----------------------------------------------------------------------------
(* Opening *)

\* What an open that is judged does to the snapshot: it drops it, leaves one that does
\* not bound it, begins a period from the ledger's figure, or rolls the one it finds.
LEMMA SnapshotKinds ==
  ASSUME PeriodTypeOK, NEW pmode \in PeriodModes, NEW kind \in Kinds, NEW now \in Clock,
         NEW live \in Generations, NEW seed \in {f[Cost] : f \in Figures} \cup {NoSeed},
         ~ NeedsSeed(pmode, kind, live, seed)
  PROVE  LET snap == Snapshot(pmode, kind, now, live, seed)
             valid == Valid(pmode, kind, live)
         IN  \/ snap = NoBase /\ pmode = "none"
             \/ snap = base /\ pmode # "set" /\ ~ Bounds(pmode, kind, live)
             \/ /\ pmode = "set" /\ ~ valid
                /\ snap \in Base /\ snap.ep = live
                /\ spent[Cost] - snap.bc \in Int /\ spent[Cost] - snap.bc >= 0
             \/ /\ pmode \in {"set", "unknown"} /\ valid
                /\ base \in Base /\ base.ep = live
                /\ snap = Rolled(now, spent[Cost])
<1> DEFINE snap == Snapshot(pmode, kind, now, live, seed)
           valid == Valid(pmode, kind, live)
<1>1. pmode \in {"skip", "none", "set", "unknown"} /\ kind \in {"day", "month"} /\ Cost \in Dims
  BY PeriodAssumption
<1>2. spent[Cost] \in Int /\ base \in Base \cup {NoBase}
  BY <1>1 DEF PeriodTypeOK, TypeOK
<1>3. CASE pmode = "none"
  BY <1>3 DEF Snapshot
<1>4. CASE pmode = "set" /\ ~ valid
  <2>1. snap = [ep |-> live, kind |-> kind, pk |-> PeriodKey(kind, now),
                bc |-> spent[Cost] - seed, cap |-> PeriodCap]
    BY <1>4 DEF Snapshot
  <2>2. seed \in Int /\ seed >= 0
    <3>1. PICK f \in Figures : seed = f[Cost]
      BY <1>4 DEF NeedsSeed
    <3>2. f[Cost] \in Nat
      BY <1>1, AmountType
    <3>3. QED
      BY <3>1, <3>2
  <2>3. PeriodKey(kind, now) \in Clock
    BY <1>1, KeyInClock
  <2>4. snap \in Base /\ snap.ep = live /\ snap.bc = spent[Cost] - seed
    BY <1>2, <2>1, <2>2, <2>3 DEF Base
  <2>5. QED
    BY <1>2, <1>4, <2>2, <2>4
<1>5. CASE pmode \in {"set", "unknown"} /\ valid
  <2>1. snap = Rolled(now, spent[Cost])
    BY <1>5 DEF Snapshot
  <2>2. base \in Base /\ base.ep = live
    BY <1>2, <1>5 DEF Valid
  <2>3. QED
    BY <1>5, <2>1, <2>2
<1>6. CASE pmode = "skip" \/ (pmode = "unknown" /\ ~ valid)
  <2>1. snap = base
    BY <1>6 DEF Snapshot
  <2>2. QED
    BY <1>6, <2>1 DEF Bounds
<1>7. QED
  BY <1>1, <1>3, <1>4, <1>5, <1>6

\* What an open that the state check lets through does: it leaves the holds alone, or
\* opens the caller's; it touches the snapshot in one of four ways; and the call it
\* opens joins those under the limit only where a live snapshot has room for it.
LEMMA OpenTouchesPeriod ==
  ASSUME PeriodInv, NEW a \in Attempts, NEW mode, Guarded(mode), NEW g \in Generations,
         NEW est \in Estimates, NEW pmode \in PeriodModes, NEW kind \in Kinds,
         NEW now \in Clock, NEW seed \in {f[Cost] : f \in Figures} \cup {NoSeed},
         NEW admit \in BOOLEAN, admit = Admits(pmode, kind, now, LiveEpoch(mode, g), seed, est),
         PeriodOpen(a, mode, g, est, g, pmode, kind, now, seed),
         OpenReply(a, mode, g, est, admit) # "state", ~ hold[a].gone
  PROVE  /\ epoch' \in Generations /\ present' = CounterKeys /\ spent' = spent
         /\ \/ epoch # NoEpoch /\ epoch' = epoch /\ used' = used /\ present = CounterKeys
            \/ epoch = NoEpoch /\ epoch' \notin used /\ used' = used \cup {epoch'}
         /\ \A b \in Attempts \ {a} : hold'[b] = hold[b]
         /\ \/ hold' = hold /\ bounded' = bounded
            \/ /\ hold[a].st = "absent" /\ hold'[a].st = "open"
               /\ reserved'[Cost] = reserved[Cost] + est[Cost]
               /\ \/ bounded' = bounded
                  \/ /\ bounded' = bounded \cup {a}
                     /\ base' \in Base /\ base'.ep = epoch'
                     /\ (spent[Cost] - base'.bc) + reserved[Cost] + est[Cost] <= PeriodCap
         /\ \/ base' \in {base, NoBase} /\ period' = period
            \/ /\ base' \in Base /\ base'.ep = epoch' /\ period' = Recount
               /\ spent[Cost] - base'.bc \in Int /\ spent[Cost] - base'.bc >= 0
            \/ /\ base \in Base /\ base.ep = epoch' /\ period' = period
               /\ base' = Rolled(now, spent[Cost])
<1> DEFINE live == LiveEpoch(mode, g)
           reply == OpenReply(a, mode, g, est, admit)
           snap == Snapshot(pmode, kind, now, live, seed)
           valid == Valid(pmode, kind, live)
           judged == /\ reply \notin {"state", "replay"}
                     /\ ~ Unfenced(pmode, live)
                     /\ ~ NeedsSeed(pmode, kind, live, seed)
<1>1. /\ Open(a, mode, g, est, g, admit)
      /\ base' = IF judged THEN snap ELSE base
      /\ period' = IF judged /\ pmode = "set" /\ ~ valid THEN Recount ELSE period
      /\ bounded' = IF reply = "opened" /\ Bounds(pmode, kind, live)
                    THEN bounded \cup {a} ELSE bounded
  BY DEF PeriodOpen
<1>2. TypeOK /\ PeriodTypeOK
  BY DEF PeriodInv, BudgetInv
<1>3. /\ live = epoch' /\ epoch' \in Generations /\ present' = CounterKeys /\ spent' = spent
      /\ \/ epoch # NoEpoch /\ epoch' = epoch /\ used' = used /\ present = CounterKeys
         \/ epoch = NoEpoch /\ g \notin used /\ epoch' = g /\ used' = used \cup {g}
  BY <1>1, <1>2, CheckedState
<1> HIDE DEF live
<1>4. /\ reply = "opened" => Reserve(a, mode, est, g) /\ hold[a].st = "absent"
      /\ reply # "opened" => hold' = hold /\ bounded' = bounded
  BY <1>1 DEF Open, OpenReply, Exists
<1>5. /\ \A b \in Attempts \ {a} : hold'[b] = hold[b]
      /\ reply = "opened" => hold'[a].st = "open" /\ reserved'[Cost] = reserved[Cost] + est[Cost]
  <2>1. CASE reply = "opened"
    <3>1. Cost \in Dims
      BY PeriodAssumption
    <3>2. hold'[a] = [NoHold EXCEPT !.st = "open", !.et = est, !.ep = LiveEpoch(mode, g)]
      BY <1>2, <1>4, <2>1 DEF Reserve, TypeOK
    <3>3. QED
      BY <1>2, <1>4, <2>1, <3>1, <3>2 DEF Reserve, TypeOK, NoHold
  <2>2. CASE reply # "opened"
    BY <1>4, <2>2
  <2>3. QED
    BY <2>1, <2>2
<1>6. live \in Generations /\ live # NoEpoch /\ ~ Unfenced(pmode, live)
  BY <1>3, BudgetAssumption DEF Unfenced
<1>7. CASE judged
  <2>1. \/ snap = NoBase /\ pmode = "none"
        \/ snap = base /\ pmode # "set" /\ ~ Bounds(pmode, kind, live)
        \/ /\ pmode = "set" /\ ~ valid
           /\ snap \in Base /\ snap.ep = live
           /\ spent[Cost] - snap.bc \in Int /\ spent[Cost] - snap.bc >= 0
        \/ /\ pmode \in {"set", "unknown"} /\ valid
           /\ base \in Base /\ base.ep = live
           /\ snap = Rolled(now, spent[Cost])
    BY <1>2, <1>6, <1>7, SnapshotKinds
  <2>2. base' = snap
    BY <1>1, <1>7
  <2>3. \/ base' \in {base, NoBase} /\ period' = period
        \/ /\ base' \in Base /\ base'.ep = epoch' /\ period' = Recount
           /\ spent[Cost] - base'.bc \in Int /\ spent[Cost] - base'.bc >= 0
        \/ /\ base \in Base /\ base.ep = epoch' /\ period' = period
           /\ base' = Rolled(now, spent[Cost])
    BY <1>1, <1>3, <1>7, <2>1, <2>2
  <2>4. ASSUME reply = "opened", Bounds(pmode, kind, live)
        PROVE  /\ base' \in Base /\ base'.ep = epoch'
               /\ (spent[Cost] - base'.bc) + reserved[Cost] + est[Cost] <= PeriodCap
    <3>1. \/ pmode = "set"
          \/ pmode = "unknown" /\ valid
      BY <2>4 DEF Bounds
    <3>2. snap \in Base /\ snap.ep = live
      <4>1. spent[Cost] \in Int
        BY <1>2, PeriodAssumption DEF TypeOK
      <4>2. \/ snap \in Base /\ snap.ep = live
            \/ base \in Base /\ base.ep = live /\ snap = Rolled(now, spent[Cost])
        BY <2>1, <2>4, <3>1
      <4>3. base \in Base => /\ Rolled(now, spent[Cost]) \in Base
                             /\ Rolled(now, spent[Cost]).ep = base.ep
        BY <4>1, RollsForward
      <4>4. QED
        BY <4>2, <4>3
    <3>3. admit
      BY <2>4 DEF OpenReply
    <3>4. Admits(pmode, kind, now, live, seed, est)
      BY <3>3 DEF live
    <3>5. Within(snap, est)
      BY <3>1, <3>4 DEF Admits
    <3>6. snap # NoBase /\ snap.cap = PeriodCap
      BY <3>2, SnapshotAssumption DEF Base
    <3>7. QED
      BY <1>3, <2>2, <3>2, <3>5, <3>6 DEF Within
  <2>5. QED
    BY <1>1, <1>3, <1>4, <1>5, <2>3, <2>4
<1>8. CASE ~ judged
  <2>1. base' = base /\ period' = period
    BY <1>1, <1>8
  <2>2. reply # "opened"
    <3>1. reply = "opened" => admit
      BY DEF OpenReply
    <3>2. admit => ~ NeedsSeed(pmode, kind, live, seed)
      BY DEF Admits, live
    <3>3. QED
      BY <1>6, <1>8, <3>1, <3>2
  <2>3. QED
    BY <1>3, <1>4, <1>5, <2>1, <2>2
<1>9. QED
  BY <1>7, <1>8

\* After an open the snapshot's period is the one it was, or one in which nothing is
\* counted yet.
LEMMA OpenStartsOrKeeps ==
  ASSUME PeriodInv, BudgetInv', NEW a \in Attempts, NEW now \in Clock,
         epoch' \in Generations, spent' = spent, LiveBase',
         \/ epoch' = epoch
         \/ epoch = NoEpoch /\ epoch' \notin used,
         \A b \in Attempts \ {a} : hold'[b] = hold[b],
         hold' = hold \/ hold[a].st = "absent",
         \/ base' \in {base, NoBase} /\ period' = period
         \/ /\ base' \in Base /\ base'.ep = epoch' /\ period' = Recount
            /\ spent[Cost] - base'.bc \in Int /\ spent[Cost] - base'.bc >= 0
         \/ /\ base \in Base /\ base.ep = epoch' /\ period' = period
            /\ base' = Rolled(now, spent[Cost])
  PROVE  /\ \A b \in Attempts : InGeneration(b)' /\ period'[b] \in Clock => period'[b] <= base'.pk
         /\ \/ LiveBase /\ UNCHANGED <<epoch, base, period>>
            \/ NothingCounted' /\ spent'[Cost] - base'.bc >= 0
<1>1. /\ base \in Base \cup {NoBase} /\ period \in [Attempts -> Clock \cup {Never}]
      /\ spent[Cost] \in Int /\ Never \notin Clock
      /\ \A k \in Clock : k \in Int
  <2>1. MaxTime \in Nat /\ Cost \in Dims /\ Never \notin Clock
    BY PeriodAssumption
  <2>2. \A k \in Clock : k \in Int
    BY <2>1 DEF Clock
  <2>3. QED
    BY <2>1, <2>2 DEF PeriodInv, PeriodTypeOK, TypeOK
<1>2. ASSUME base # NoBase, base.ep = epoch' PROVE epoch' = epoch /\ LiveBase
  <2>1. base.ep \in used
    BY <1>2 DEF PeriodInv, PeriodsPast
  <2>2. QED
    BY <1>2, <2>1, BudgetAssumption DEF LiveBase
<1>3. ASSUME LiveBase, epoch' = epoch, NEW b \in Attempts, InGeneration(b)', period[b] \in Clock
      PROVE  period[b] <= base.pk
  <2>1. period[a] = Never \/ hold' = hold
    BY DEF PeriodInv, PeriodsPast, Terminal
  <2>2. hold'[b] = hold[b]
    BY <1>1, <1>3, <2>1
  <2>3. InGeneration(b)
    BY <1>3, <2>2 DEF InGeneration
  <2>4. QED
    BY <1>3, <2>3 DEF PeriodInv, PeriodsPast
<1>4. CASE base' \in {base, NoBase} /\ period' = period
  <2>1. base' = base /\ base # NoBase /\ base.ep = epoch'
    BY <1>4 DEF LiveBase
  <2>2. QED
    BY <1>2, <1>3, <1>4, <2>1
<1>5. CASE /\ base' \in Base /\ base'.ep = epoch' /\ period' = Recount
           /\ spent[Cost] - base'.bc \in Int /\ spent[Cost] - base'.bc >= 0
  <2>1. \A b \in Attempts : period'[b] = Never
    BY <1>5 DEF Recount
  <2>2. base'.pk \in Clock
    BY <1>5 DEF Base
  <2>3. QED
    BY <1>1, <1>5, <2>1, <2>2 DEF NothingCounted
<1>6. CASE /\ base \in Base /\ base.ep = epoch' /\ period' = period
           /\ base' = Rolled(now, spent[Cost])
  <2>1. epoch' = epoch /\ LiveBase
    BY <1>2, <1>6, SnapshotAssumption
  <2>2. /\ base' \in Base /\ base.pk <= base'.pk
        /\ \/ base' = base
           \/ base.pk < base'.pk /\ base'.bc = spent[Cost]
    BY <1>1, <1>6, RollsForward
  <2>3. base.pk \in Clock /\ base'.pk \in Clock
    BY <1>6, <2>2 DEF Base
  <2>4. base.pk \in Int /\ base'.pk \in Int
    BY <1>1, <2>3
  <2>5. \A b \in Attempts : InGeneration(b)' /\ period'[b] \in Clock => period'[b] <= base.pk
    BY <1>3, <1>6, <2>1
  <2>6. \A b \in Attempts : period'[b] \in Clock => period'[b] \in Int
    BY <1>1
  <2>7. \A b \in Attempts : InGeneration(b)' /\ period'[b] \in Clock => period'[b] <= base'.pk
    BY <2>2, <2>4, <2>5, <2>6
  <2>8. CASE base' = base
    BY <1>6, <2>1, <2>7, <2>8
  <2>9. CASE base.pk < base'.pk /\ base'.bc = spent[Cost]
    <3>1. NothingCounted'
      BY <2>3, <2>4, <2>5, <2>9 DEF NothingCounted
    <3>2. spent'[Cost] - base'.bc >= 0
      BY <1>1, <2>9
    <3>3. QED
      BY <2>7, <3>1, <3>2
  <2>10. QED
    BY <2>2, <2>8, <2>9
<1>7. QED
  BY <1>4, <1>5, <1>6

\* An open that touches the holds and the snapshot in these ways keeps the invariant.
LEMMA OpenedPeriod ==
  ASSUME PeriodInv, BudgetInv', NEW a \in Attempts, NEW now \in Clock, NEW est \in Estimates,
         epoch' \in Generations, present' = CounterKeys, spent' = spent,
         \/ epoch # NoEpoch /\ epoch' = epoch /\ used' = used /\ present = CounterKeys
         \/ epoch = NoEpoch /\ epoch' \notin used /\ used' = used \cup {epoch'},
         \A b \in Attempts \ {a} : hold'[b] = hold[b],
         \/ hold' = hold /\ bounded' = bounded
         \/ /\ hold[a].st = "absent" /\ hold'[a].st = "open"
            /\ reserved'[Cost] = reserved[Cost] + est[Cost]
            /\ \/ bounded' = bounded
               \/ /\ bounded' = bounded \cup {a}
                  /\ base' \in Base /\ base'.ep = epoch'
                  /\ (spent[Cost] - base'.bc) + reserved[Cost] + est[Cost] <= PeriodCap,
         \/ base' \in {base, NoBase} /\ period' = period
         \/ /\ base' \in Base /\ base'.ep = epoch' /\ period' = Recount
            /\ spent[Cost] - base'.bc \in Int /\ spent[Cost] - base'.bc >= 0
         \/ /\ base \in Base /\ base.ep = epoch' /\ period' = period
            /\ base' = Rolled(now, spent[Cost])
  PROVE  PeriodInv'
<1>1. \A u \in Units : u[1] \in Attempts
  BY DEF Units
<1>2. /\ base \in Base \cup {NoBase} /\ period \in [Attempts -> Clock \cup {Never}]
      /\ bounded \subseteq Attempts /\ spent[Cost] \in Int /\ reserved[Cost] \in Int
      /\ PeriodCap \in Nat
  BY PeriodAssumption DEF PeriodInv, PeriodTypeOK, TypeOK
<1>3. /\ base' \in Base \cup {NoBase}
      /\ base' # NoBase => base'.ep \in used'
      /\ period' \in {period, Recount}
  <2>1. base # NoBase => base.ep \in used
    BY DEF PeriodInv, PeriodsPast
  <2>2. epoch' \in used'
    BY BudgetAssumption DEF BudgetInv, StampsUsed
  <2>3. base \in Base => Rolled(now, spent[Cost]) \in Base /\ Rolled(now, spent[Cost]).ep = base.ep
    BY <1>2, RollsForward
  <2>4. QED
    BY <1>2, <2>1, <2>2, <2>3
<1>4. PeriodTypeOK' /\ LiveIsWhole'
  BY <1>2, <1>3 DEF PeriodTypeOK, LiveIsWhole, BudgetInv, Recount
<1>5. LiveBase' =>
        /\ \A b \in Attempts : InGeneration(b)' /\ period'[b] \in Clock => period'[b] <= base'.pk
        /\ \/ LiveBase /\ UNCHANGED <<epoch, base, period>>
           \/ NothingCounted' /\ spent'[Cost] - base'.bc >= 0
  BY OpenStartsOrKeeps
<1>6. ASSUME NEW b \in Attempts
      PROVE  /\ hold'[b].st \notin Terminal => period'[b] = Never
             /\ b \in bounded' => hold'[b].st # "absent"
  <2>1. period'[b] \in {period[b], Never}
    BY <1>3 DEF Recount
  <2>2. hold[b].st \notin Terminal => period[b] = Never
    BY DEF PeriodInv, PeriodsPast
  <2>3. hold'[b] = hold[b] \/ (b = a /\ hold[b].st = "absent" /\ hold'[b].st = "open")
    OBVIOUS
  <2>4. hold'[b].st \notin Terminal => period'[b] = Never
    BY <2>1, <2>2, <2>3 DEF Terminal
  <2>5. b \in bounded' => hold'[b].st # "absent"
    BY <2>3 DEF PeriodInv, PeriodsPast
  <2>6. QED
    BY <2>4, <2>5
<1>7. PeriodsPast'
  BY <1>3, <1>5, <1>6 DEF PeriodsPast
<1>8. PeriodUsageCovers'
  <2> SUFFICES ASSUME LiveBase'
               PROVE  spent'[Cost] - base'.bc >= Cardinality(PeriodCharges')
    BY DEF PeriodUsageCovers
  <2>1. CASE LiveBase /\ UNCHANGED <<epoch, base, period>>
    <3>1. present = CounterKeys /\ <<"spent", Cost>> \in present
      BY <2>1, PeriodAssumption DEF LiveBase, CounterKeys
    <3>2. spent[Cost] - base.bc >= Cardinality(PeriodCharges)
      BY <2>1, <3>1 DEF PeriodInv, PeriodUsageCovers
    <3>3. PeriodCharges' \subseteq PeriodCharges
      <4>1. ASSUME NEW u \in PeriodCharges' PROVE u \in PeriodCharges
        <5>1. /\ u \in Units /\ u[1] \in Attempts /\ InGeneration(u[1])'
              /\ hold'[u[1]].st \in Terminal /\ period[u[1]] = base.pk
              /\ u[2] <= hold'[u[1]].at[Cost]
          BY <1>1, <2>1, <4>1 DEF PeriodCharges, Units
        <5>2. hold'[u[1]] = hold[u[1]]
          BY <5>1 DEF Terminal
        <5>3. QED
          BY <2>1, <5>1, <5>2 DEF PeriodCharges, InGeneration
      <4>2. QED
        BY <4>1
    <3>4. Cardinality(PeriodCharges') <= Cardinality(PeriodCharges)
      BY <3>3, PeriodUnitsAreNat, UnitsFinite, FS_Subset
    <3>5. base.bc \in Int
      BY <1>2, <2>1 DEF LiveBase, Base
    <3>6. QED
      BY <1>2, <2>1, <3>2, <3>4, <3>5, PeriodUnitsAreNat, NextPeriodUnitsAreNat
  <2>2. CASE NothingCounted' /\ spent'[Cost] - base'.bc >= 0
    BY <2>2, PeriodStarts
  <2>3. QED
    BY <1>5, <2>1, <2>2
<1>9. CASE bounded' = bounded
  <2>1. ASSUME NEW b \in Attempts, b \in bounded, InGeneration(b)'
        PROVE  hold'[b] = hold[b] /\ InGeneration(b) /\ epoch' = epoch
    <3>1. hold'[b] = hold[b]
      BY <2>1 DEF PeriodInv, PeriodsPast
    <3>2. epoch' = epoch
      BY <2>1, <3>1, BudgetAssumption DEF InGeneration, PeriodInv, BudgetInv, StampsUsed
    <3>3. QED
      BY <2>1, <3>1, <3>2 DEF InGeneration
  <2>2. OpenBounded' \subseteq OpenBounded
    BY <1>1, <1>9, <2>1 DEF OpenBounded, Units
  <2>3. LiveBase' => \/ PeriodAdmitted' \subseteq OpenBounded
                     \/ LiveBase /\ PeriodAdmitted' \subseteq PeriodAdmitted
    <3>1. CASE LiveBase /\ UNCHANGED <<epoch, base, period>>
      BY <1>1, <1>9, <2>1, <3>1 DEF PeriodAdmitted, Units
    <3>2. CASE NothingCounted'
      BY <2>2, <3>2, PeriodStarts
    <3>3. QED
      BY <1>5, <3>1, <3>2
  <2>4. OpenWithinLimit' /\ PeriodWithinLimit'
    BY <2>2, <2>3, LimitKept
  <2>5. QED
    BY <1>4, <1>7, <1>8, <2>4 DEF PeriodInv
<1>10. CASE bounded' # bounded
  <2>1. /\ base' \in Base /\ base'.ep = epoch'
        /\ reserved'[Cost] = reserved[Cost] + est[Cost]
        /\ (spent[Cost] - base'.bc) + reserved[Cost] + est[Cost] <= PeriodCap
    BY <1>10
  <2>2. LiveBase' /\ base'.bc \in Int
    BY <2>1, SnapshotAssumption, BudgetAssumption DEF LiveBase, Base
  <2>3. est[Cost] \in Int
    BY BudgetAssumption, PeriodAssumption
  <2>4. (spent'[Cost] - base'.bc) + reserved'[Cost] <= PeriodCap
    BY <1>2, <2>1, <2>2, <2>3
  <2>5. OpenWithinLimit' /\ PeriodWithinLimit'
    BY <1>2, <1>8, <2>2, <2>4, AdmittedIsCovered
       DEF BudgetInv, OpenWithinLimit, PeriodWithinLimit
  <2>6. QED
    BY <1>4, <1>7, <1>8, <2>5 DEF PeriodInv
<1>11. QED
  BY <1>9, <1>10

\* OPEN_LUA, judged under whatever limit the caller brings, keeps the invariant.
LEMMA PeriodOpenStep ==
  ASSUME Protected, PeriodInv, NEW a \in Attempts, PeriodOpenAny(a)
  PROVE  PeriodInv'
<1>1. PICK mode \in Modes, g \in Generations, est \in Estimates, pmode \in PeriodModes,
           kind \in Kinds, now \in Clock, seed \in {f[Cost] : f \in Figures} \cup {NoSeed} :
         PeriodOpen(a, mode, g, est, g, pmode, kind, now, seed)
  BY DEF PeriodOpenAny
<1>2. Guarded(mode) /\ ~ hold[a].gone /\ BudgetInv /\ PeriodTypeOK
  BY DEF Protected, FencedModes, Guarded, PeriodInv, LiveIsWhole, PeriodOpenAny
<1> DEFINE admit == Admits(pmode, kind, now, LiveEpoch(mode, g), seed, est)
           reply == OpenReply(a, mode, g, est, admit)
<1>3. Open(a, mode, g, est, g, admit) /\ admit \in BOOLEAN
  BY <1>1 DEF PeriodOpen, Admits
<1>4. CASE reply = "state"
  <2>1. UNCHANGED vars
    BY <1>3, <1>4 DEF Open
  <2>2. UNCHANGED <<base, period, bounded>>
    BY <1>1, <1>4 DEF PeriodOpen
  <2>3. QED
    BY <2>1, <2>2, PeriodLossStep DEF pvars, vars
<1>5. CASE reply # "state"
  <2>1. BudgetInv'
    BY <1>2, <1>3, GuardedOpenInv
  <2>2. /\ epoch' \in Generations /\ present' = CounterKeys /\ spent' = spent
        /\ \/ epoch # NoEpoch /\ epoch' = epoch /\ used' = used /\ present = CounterKeys
           \/ epoch = NoEpoch /\ epoch' \notin used /\ used' = used \cup {epoch'}
        /\ \A b \in Attempts \ {a} : hold'[b] = hold[b]
        /\ \/ hold' = hold /\ bounded' = bounded
           \/ /\ hold[a].st = "absent" /\ hold'[a].st = "open"
              /\ reserved'[Cost] = reserved[Cost] + est[Cost]
              /\ \/ bounded' = bounded
                 \/ /\ bounded' = bounded \cup {a}
                    /\ base' \in Base /\ base'.ep = epoch'
                    /\ (spent[Cost] - base'.bc) + reserved[Cost] + est[Cost] <= PeriodCap
        /\ \/ base' \in {base, NoBase} /\ period' = period
           \/ /\ base' \in Base /\ base'.ep = epoch' /\ period' = Recount
              /\ spent[Cost] - base'.bc \in Int /\ spent[Cost] - base'.bc >= 0
           \/ /\ base \in Base /\ base.ep = epoch' /\ period' = period
              /\ base' = Rolled(now, spent[Cost])
    BY <1>1, <1>2, <1>3, <1>5, OpenTouchesPeriod
  <2> HIDE DEF admit, reply
  <2>3. QED
    BY <1>2, <2>1, <2>2, OpenedPeriod
<1>6. QED
  BY <1>4, <1>5

-----------------------------------------------------------------------------
(* The theorems about the periodic limit *)

\* Before the first call there is no snapshot, and nothing was counted.
LEMMA PeriodInitInv == PeriodInit => PeriodInv
<1> SUFFICES ASSUME PeriodInit PROVE PeriodInv
  OBVIOUS
<1>1. BudgetInv /\ epoch = NoEpoch /\ base = NoBase /\ period = Recount /\ bounded = {}
  BY InitInv DEF PeriodInit, Init
<1>2. PeriodTypeOK /\ LiveIsWhole
  BY <1>1 DEF BudgetInv, PeriodTypeOK, LiveIsWhole, Recount
<1>3. ~ LiveBase
  BY <1>1 DEF LiveBase
<1>4. PeriodsPast
  BY <1>1, <1>3 DEF PeriodsPast, Recount
<1>5. OpenBounded = {}
  BY <1>1 DEF OpenBounded
<1>6. OpenWithinLimit
  BY <1>5, FS_EmptySet, PeriodAssumption DEF OpenWithinLimit
<1>7. QED
  BY <1>1, <1>2, <1>3, <1>4, <1>6 DEF PeriodInv, PeriodUsageCovers, PeriodWithinLimit

\* Every step keeps the invariant.
LEMMA PeriodNextInv == ASSUME Protected, PeriodInv, [PeriodNext]_pvars PROVE PeriodInv'
<1>1. ASSUME NEW a \in Attempts, PeriodOpenAny(a) \/ PeriodSettleAny(a) PROVE PeriodInv'
  BY <1>1, PeriodOpenStep, PeriodSettleStep
<1>2. QED
  BY <1>1, PeriodRebaseStep, PeriodRaiseStep, PeriodLossStep DEF PeriodNext

\* The inductive invariant holds in every reachable state.
LEMMA PeriodInvariance == Protected => (PeriodSpec => []PeriodInv)
<1> SUFFICES ASSUME Protected PROVE PeriodSpec => []PeriodInv
  OBVIOUS
<1>1. PeriodInv /\ [PeriodNext]_pvars => PeriodInv'
  BY PeriodNextInv
<1>2. QED
  BY <1>1, PeriodInitInv, PTL DEF PeriodSpec

\* Whatever clock rolls the snapshot and whatever the cron raises, what was charged in
\* a period stays counted in it: the derived usage is never below it.
THEOREM PeriodIsNeverHandedBack == Protected => (PeriodSpec => []PeriodUsageCovers)
<1>1. PeriodInv => PeriodUsageCovers
  BY DEF PeriodInv
<1>2. QED
  BY <1>1, PeriodInvariance, PTL

\* The calls admitted under the limit never commit more than it in one period.
THEOREM PeriodLimitRespected == Protected => (PeriodSpec => []PeriodWithinLimit)
<1>1. PeriodInv => PeriodWithinLimit
  BY DEF PeriodInv
<1>2. QED
  BY <1>1, PeriodInvariance, PTL

\* A period beside the counters costs the agent's own cap nothing: what the scripts
\* promise of reservations, charges and the cap they promise with a snapshot too.
THEOREM PeriodKeepsHolds ==
  Protected => (PeriodSpec => [](ReservedCoversOpen /\ SpentCoversCharges /\ AdmittedWithinCap))
<1>1. PeriodInv => ReservedCoversOpen /\ SpentCoversCharges /\ AdmittedWithinCap
  BY DEF PeriodInv, BudgetInv
<1>2. QED
  BY <1>1, PeriodInvariance, PTL

\* An open of any mode leaves a well typed snapshot.
LEMMA PeriodOpenType ==
  ASSUME PeriodTypeOK, NEW a \in Attempts, PeriodOpenAny(a)
  PROVE  PeriodTypeOK'
<1>1. PICK mode \in Modes, g \in Generations, est \in Estimates, pmode \in PeriodModes,
           kind \in Kinds, now \in Clock, seed \in {f[Cost] : f \in Figures} \cup {NoSeed} :
         PeriodOpen(a, mode, g, est, g, pmode, kind, now, seed)
  BY DEF PeriodOpenAny
<1> DEFINE live == LiveEpoch(mode, g)
           admit == Admits(pmode, kind, now, live, seed, est)
           reply == OpenReply(a, mode, g, est, admit)
           snap == Snapshot(pmode, kind, now, live, seed)
<1>2. Open(a, mode, g, est, g, admit) /\ admit \in BOOLEAN /\ TypeOK
  BY <1>1 DEF PeriodOpen, Admits, PeriodTypeOK
<1>3. TypeOK'
  BY <1>2, OpenType
<1>4. period' \in {period, Recount} /\ bounded' \in {bounded, bounded \cup {a}}
  BY <1>1 DEF PeriodOpen
<1>5. live \in Generations \cup {NoEpoch}
  BY <1>2 DEF LiveEpoch, TypeOK
<1>6. spent[Cost] \in Int /\ base \in Base \cup {NoBase}
  BY PeriodAssumption DEF PeriodTypeOK, TypeOK
<1>7. base \in Base => Rolled(now, spent[Cost]) \in Base
  BY <1>6, RollsForward
<1>8. base' \in Base \cup {NoBase}
  <2>1. CASE base' = base
    BY <1>6, <2>1
  <2>2. CASE base' # base
    <3>1. base' = snap /\ ~ Unfenced(pmode, live) /\ ~ NeedsSeed(pmode, kind, live, seed)
      BY <1>1, <2>2 DEF PeriodOpen
    <3>2. CASE live = NoEpoch
      BY <1>6, <3>1, <3>2, PeriodAssumption DEF Unfenced, Snapshot
    <3>3. CASE live # NoEpoch
      <4>1. live \in Generations
        BY <1>5, <3>3
      <4> HIDE DEF live
      <4>2. QED
        BY <1>6, <1>7, <3>1, <4>1, SnapshotKinds
    <3>4. QED
      BY <3>2, <3>3
  <2>3. QED
    BY <2>1, <2>2
<1>9. QED
  BY <1>3, <1>4, <1>8 DEF PeriodTypeOK, Recount

\* Every step keeps the types, however unfenced its caller and whatever Redis loses.
LEMMA PeriodNextType == ASSUME PeriodTypeOK, [PeriodNext]_pvars PROVE PeriodTypeOK'
<1>1. TypeOK /\ spent[Cost] \in Int /\ base \in Base \cup {NoBase} /\ Cost \in Dims
  BY PeriodAssumption DEF PeriodTypeOK, TypeOK
<1>2. ASSUME NEW a \in Attempts, PeriodSettleAny(a) PROVE PeriodTypeOK'
  <2>1. PICK outcome \in Outcomes, known \in Figures, certain \in [Dims -> BOOLEAN], now \in Clock :
           PeriodSettle(a, outcome, known, certain, now)
    BY <1>2 DEF PeriodSettleAny
  <2>2. TypeOK' /\ UNCHANGED bounded
    BY <1>1, <2>1, SettleType, AmountType DEF PeriodSettle
  <2>3. \/ UNCHANGED <<base, period>>
        \/ /\ base # NoBase /\ base' = SettleBase(now)
           /\ period' = [period EXCEPT ![a] = SettleBase(now).pk]
    BY <2>1 DEF PeriodSettle, Counted
  <2>4. base # NoBase => SettleBase(now) \in Base /\ SettleBase(now).pk \in Clock
    <3>1. base # NoBase => SettleBase(now) \in Base
      BY <1>1, RollsForward DEF SettleBase
    <3>2. QED
      BY <3>1 DEF Base
  <2>5. QED
    BY <2>2, <2>3, <2>4 DEF PeriodTypeOK
<1>3. CASE PeriodRebaseAny
  <2>1. PICK g \in Generations, total \in Figures, seed \in Figures, limited \in BOOLEAN,
             kind \in Kinds, now \in Clock :
           \E spentSince \in 0..total[Cost] :
               PeriodRebase(g, total, seed, limited, kind, now, spentSince)
    BY <1>3 DEF PeriodRebaseAny
  <2>2. PICK spentSince \in 0..total[Cost] :
           PeriodRebase(g, total, seed, limited, kind, now, spentSince)
    BY <2>1
  <2>3. TypeOK'
    BY <1>1, <2>2, RebaseType, AmountType DEF PeriodRebase
  <2>4. total[Cost] \in Int /\ spentSince \in Int
    BY <1>1, AmountType
  <2>5. PeriodKey(kind, now) \in Clock
    BY KeyInClock, PeriodAssumption
  <2>6. base' \in Base \cup {NoBase}
    BY <2>2, <2>4, <2>5 DEF PeriodRebase, Base
  <2>7. QED
    BY <2>2, <2>3, <2>6 DEF PeriodRebase, PeriodTypeOK, Recount
<1>4. CASE PeriodRaiseAny
  <2>1. PICK floor \in Floors, cutoff \in Clock : PeriodRaise(floor, cutoff)
    BY <1>4 DEF PeriodRaiseAny
  <2>2. floor \in [Dims -> Int] /\ floor[Cost] \in Int
    BY <1>1, PeriodAssumption
  <2>3. TypeOK'
    BY <1>1, <2>1, <2>2, RaiseType DEF PeriodRaise
  <2>4. base' = base \/ (base # NoBase /\ base' = [base EXCEPT !.bc = @ + (floor[Cost] - spent[Cost])])
    BY <2>1 DEF PeriodRaise, RaisedBase
  <2>5. base' \in Base \cup {NoBase}
    BY <1>1, <2>2, <2>4 DEF Base
  <2>6. QED
    BY <2>1, <2>3, <2>5 DEF PeriodRaise, PeriodTypeOK
<1>5. CASE LoseBase \/ Elsewhere
  <2>1. UNCHANGED <<period, bounded>> /\ base' \in {base, NoBase}
    BY <1>5 DEF LoseBase, Elsewhere
  <2>2. TypeOK'
    BY <1>1, <1>5, DispatchType, LoseHoldType, LoseType
       DEF LoseBase, Elsewhere, LoseAny, vars, TypeOK
  <2>3. QED
    BY <2>1, <2>2 DEF PeriodTypeOK
<1>6. CASE UNCHANGED pvars
  BY <1>6 DEF pvars, vars, PeriodTypeOK, TypeOK
<1>7. QED
  BY <1>2, <1>3, <1>4, <1>5, <1>6, PeriodOpenType DEF PeriodNext

\* The snapshot is well typed for callers of every mode: no caller without a
\* generation ever leaves one.
THEOREM PeriodTypeCorrect == PeriodSpec => []PeriodTypeOK
<1>1. PeriodInit => PeriodTypeOK
  BY InitType DEF PeriodInit, PeriodTypeOK, Recount
<1>2. PeriodTypeOK /\ [PeriodNext]_pvars => PeriodTypeOK'
  BY PeriodNextType
<1>3. QED
  BY <1>1, <1>2, PTL DEF PeriodSpec

-----------------------------------------------------------------------------
(* The account, under the limit *)

\* Under a periodic limit, a step is a script of a guarded caller, a loss or nothing.
LEMMA PeriodStepsAreGuarded ==
  ASSUME Protected, PeriodInv, [PeriodNext]_pvars
  PROVE  GuardedStep
<1>1. ASSUME NEW a \in Attempts, PeriodOpenAny(a) PROVE GuardedStep
  <2>1. PICK mode \in Modes, g \in Generations, est \in Estimates, pmode \in PeriodModes,
             kind \in Kinds, now \in Clock, seed \in {f[Cost] : f \in Figures} \cup {NoSeed} :
           PeriodOpen(a, mode, g, est, g, pmode, kind, now, seed)
    BY <1>1 DEF PeriodOpenAny
  <2>2. Guarded(mode) /\ ~ hold[a].gone /\ mode \in {"0", "1", "2"}
    BY <1>1, <2>1 DEF Protected, FencedModes, Guarded, PeriodInv, LiveIsWhole, PeriodOpenAny
  <2>3. \E admit \in BOOLEAN : Open(a, mode, g, est, g, admit)
    BY <2>1 DEF PeriodOpen, Admits
  <2>4. GuardedOpen
    BY <2>2, <2>3, Zenon DEF GuardedOpen
  <2>5. QED
    BY <2>4 DEF GuardedStep
<1>2. ASSUME NEW a \in Attempts, PeriodSettleAny(a) PROVE GuardedStep
  <2>1. AnySettle
    BY <1>2, AmountType DEF PeriodSettleAny, PeriodSettle, AnySettle
  <2>2. QED
    BY <2>1 DEF GuardedStep
<1>3. CASE PeriodRebaseAny
  <2>1. \E g \in Generations, total \in Figures, seed \in Figures : Rebase(g, total, seed)
    BY <1>3, Zenon DEF PeriodRebaseAny, PeriodRebase
  <2>2. Figures \subseteq [Dims -> Nat]
    BY AmountType
  <2>3. AnyRebase
    BY <2>1, <2>2 DEF AnyRebase
  <2>4. QED
    BY <2>3 DEF GuardedStep
<1>4. CASE PeriodRaiseAny
  <2>1. PICK top \in Floors, cutoff \in Clock : PeriodRaise(top, cutoff)
    BY <1>4 DEF PeriodRaiseAny
  <2>2. top \in [Dims -> Int]
    BY PeriodAssumption
  <2>3. AnyRaise
    BY <2>1, <2>2 DEF PeriodRaise, AnyRaise
  <2>4. QED
    BY <2>3 DEF GuardedStep
<1>5. CASE LoseBase \/ Elsewhere \/ UNCHANGED pvars
  BY <1>5 DEF LoseBase, Elsewhere, pvars, GuardedStep, vars
<1>6. QED
  BY <1>1, <1>2, <1>3, <1>4, <1>5 DEF PeriodNext

\* With a period's snapshot beside the counters the agent's account is kept as without
\* one, by callers that read their policy before generations existed too.
THEOREM PeriodMeetsAccount == Protected => (PeriodSpec => MeetsAccount)
<1> SUFFICES ASSUME Protected PROVE PeriodSpec => MeetsAccount
  OBVIOUS
<1>1. PeriodInit => UnopenedIsBlank /\ Account!AccountInit
  BY AccountBegins DEF PeriodInit, Init, NoHold, UnopenedIsBlank
<1>2. PeriodInv /\ UnopenedIsBlank /\ [PeriodNext]_pvars => UnopenedIsBlank' /\ Tells
  <2> SUFFICES ASSUME PeriodInv, UnopenedIsBlank, [PeriodNext]_pvars
               PROVE  AccountInv' /\ Tells
    BY DEF AccountInv
  <2>1. AccountInv
    BY DEF AccountInv, PeriodInv
  <2>2. QED
    BY <2>1, PeriodStepsAreGuarded, GuardedStepTells
<1>3. Tells => [Account!AccountNext]_(Account!accountVars)
  BY DEF Tells
<1>4. QED
  BY <1>1, <1>2, <1>3, PeriodInvariance, PTL DEF PeriodSpec, MeetsAccount, Account!AccountSpec
=============================================================================
