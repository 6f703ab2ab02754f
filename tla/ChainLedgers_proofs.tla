------------------------- MODULE ChainLedgers_proofs -------------------------
(***************************************************************************)
(* Theorems about ChainLedgers for any number of links, sub-agents and     *)
(* attempts, in every calling mode: what was admitted under a delegation   *)
(* link never exceeds its cap, whatever keys are lost, and the same for a  *)
(* sub-agent while its ledger does not idle out under an open call.  And   *)
(* the agent's own account is kept under a chain as without one.           *)
(***************************************************************************)
EXTENDS ChainLedgers, BudgetHolds_proofs

\* A ledger that can still be made: a sub-agent's that is not there, a link's
\* whose exchange has not been recorded or not yet reached Redis.
Unmade(l) == IF l \in Subs THEN ~ledger[l].there ELSE l \notin exchanged \/ l \in creating

HeldUnits(l) ==
    {u \in Units : /\ u[1] \in counted[l] /\ hold[u[1]].st = "open"
                   /\ u[2] <= hold[u[1]].et[Money]}

ChargedUnits(l) ==
    {u \in Units : /\ u[1] \in counted[l] /\ hold[u[1]].st \in Terminal
                   /\ u[2] <= hold[u[1]].et[Money] /\ u[2] <= hold[u[1]].at[Money]}

\* A counted attempt is a stamped one that opened, and an open one that is
\* stamped is counted.
CountedAreStamped(l) ==
  \A a \in Attempts :
     /\ a \in counted[l] => hold[a].st # "absent" /\ l \in stamp[a]
     /\ hold[a].st = "open" /\ l \in stamp[a] => a \in counted[l]

\* A ledger that is there covers its open reservations and its charges; one that
\* was lost for good admits nothing more.
LedgerCovers(l) ==
  ledger[l].there => /\ Cardinality(HeldUnits(l)) <= ledger[l].r
                     /\ Cardinality(ChargedUnits(l)) <= ledger[l].s

LedgerWithinCap(l) == Cardinality(CommittedUnits(counted[l])) <= LedgerCap[l]

LedgerInv(l) ==
  /\ Unmade(l) => ledger[l] = Zero /\ counted[l] = {}
  /\ CountedAreStamped(l)
  /\ LedgerCovers(l)
  /\ LedgerWithinCap(l)

\* The ledgers that never forget a call that is still open.
Faithful(l) == l \in Links \/ SubsIdleOutUnused

ChainInv == ChainTypeOK /\ \A l \in Ledgers : Faithful(l) => LedgerInv(l)

-----------------------------------------------------------------------------
(* Counting *)

SameHold(b) == /\ hold'[b].st = hold[b].st
               /\ hold'[b].et = hold[b].et
               /\ hold'[b].at = hold[b].at

\* The sums are natural numbers, now and after a step.
LEMMA LedgerUnitsFinite ==
  ASSUME NEW l \in Ledgers
  PROVE  /\ IsFiniteSet(HeldUnits(l)) /\ Cardinality(HeldUnits(l)) \in Nat
         /\ IsFiniteSet(ChargedUnits(l)) /\ Cardinality(ChargedUnits(l)) \in Nat
         /\ IsFiniteSet(CommittedUnits(counted[l]))
         /\ Cardinality(CommittedUnits(counted[l])) \in Nat
<1>1. /\ HeldUnits(l) \subseteq Units /\ ChargedUnits(l) \subseteq Units
      /\ CommittedUnits(counted[l]) \subseteq Units
  BY DEF HeldUnits, ChargedUnits, CommittedUnits
<1>2. QED
  BY <1>1, UnitsFinite

LEMMA NextLedgerUnitsFinite ==
  ASSUME NEW l \in Ledgers
  PROVE  /\ IsFiniteSet(HeldUnits(l)') /\ Cardinality(HeldUnits(l)') \in Nat
         /\ IsFiniteSet(ChargedUnits(l)') /\ Cardinality(ChargedUnits(l)') \in Nat
         /\ IsFiniteSet(CommittedUnits(counted[l])')
         /\ Cardinality(CommittedUnits(counted[l])') \in Nat
<1>1. /\ HeldUnits(l)' \subseteq Units /\ ChargedUnits(l)' \subseteq Units
      /\ CommittedUnits(counted[l])' \subseteq Units
  BY DEF HeldUnits, ChargedUnits, CommittedUnits
<1>2. QED
  BY <1>1, UnitsFinite

\* A ledger stays one when it reserves and when it settles.
LEMMA LedgerMoves ==
  ASSUME NEW now \in [there : BOOLEAN, r : Int, s : Int], NEW n \in Int, NEW m \in Int
  PROVE  /\ [now EXCEPT !.there = TRUE, !.r = @ + n] \in [there : BOOLEAN, r : Int, s : Int]
         /\ [now EXCEPT !.r = @ - n, !.s = @ + m] \in [there : BOOLEAN, r : Int, s : Int]
<1>1. now.r + n \in Int /\ now.r - n \in Int /\ now.s + m \in Int
  OBVIOUS
<1>2. ASSUME NEW r \in Int, NEW s \in Int
      PROVE  /\ [now EXCEPT !.there = TRUE, !.r = r] \in [there : BOOLEAN, r : Int, s : Int]
             /\ [now EXCEPT !.r = r, !.s = s] \in [there : BOOLEAN, r : Int, s : Int]
  OBVIOUS
<1>3. QED
  BY <1>1, <1>2

\* What is committed is held or charged.
LEMMA CommittedIsCovered ==
  ASSUME NEW l \in Ledgers, (ChainTypeOK /\ CountedAreStamped(l))'
  PROVE  Cardinality(CommittedUnits(counted[l])')
            <= Cardinality(HeldUnits(l)') + Cardinality(ChargedUnits(l)')
<1>1. CommittedUnits(counted[l])' \subseteq HeldUnits(l)' \cup ChargedUnits(l)'
  <2> SUFFICES ASSUME NEW u \in CommittedUnits(counted[l])'
               PROVE  u \in HeldUnits(l)' \cup ChargedUnits(l)'
    OBVIOUS
  <2>1. /\ u \in Units /\ u[1] \in Attempts /\ u[1] \in counted'[l]
        /\ u[2] <= hold'[u[1]].et[Money]
        /\ hold'[u[1]].st \in Terminal => u[2] <= hold'[u[1]].at[Money]
    BY DEF CommittedUnits, Units
  <2>2. hold'[u[1]].st # "absent"
    BY <2>1 DEF CountedAreStamped
  <2>3. hold'[u[1]].st \in {"open"} \cup Terminal
    BY <2>1, <2>2 DEF ChainTypeOK, TypeOK, Hold
  <2>4. QED
    BY <2>1, <2>3 DEF HeldUnits, ChargedUnits
<1>2. /\ IsFiniteSet(HeldUnits(l)' \cup ChargedUnits(l)')
      /\ Cardinality(HeldUnits(l)' \cup ChargedUnits(l)') =
            Cardinality(HeldUnits(l)') + Cardinality(ChargedUnits(l)')
               - Cardinality(HeldUnits(l)' \cap ChargedUnits(l)')
  BY NextLedgerUnitsFinite, FS_Union
<1>3. Cardinality(CommittedUnits(counted[l])')
         <= Cardinality(HeldUnits(l)' \cup ChargedUnits(l)')
  BY <1>1, <1>2, FS_Subset
<1>4. Cardinality(HeldUnits(l)' \cap ChargedUnits(l)') \in Nat
  BY NextLedgerUnitsFinite, FS_Intersection, FS_CardinalityType
<1>5. QED
  BY <1>2, <1>3, <1>4, NextLedgerUnitsFinite

\* A step that leaves a ledger alone, with the attempts it counts.
LEMMA LedgerAside ==
  ASSUME NEW l \in Ledgers, LedgerInv(l),
         ledger'[l] = ledger[l], counted'[l] = counted[l], Unmade(l)' => Unmade(l),
         \A b \in Attempts :
            \/ SameHold(b) /\ (l \in stamp'[b] <=> l \in stamp[b])
            \/ b \notin counted[l] /\ ~(hold'[b].st = "open" /\ l \in stamp'[b])
  PROVE  LedgerInv(l)'
<1>1. \A u \in Units : u[1] \in Attempts
  BY DEF Units
<1>2. \A b \in Attempts : b \in counted[l] => SameHold(b)
  OBVIOUS
<1>3. HeldUnits(l)' = HeldUnits(l)
  BY <1>1, <1>2, Zenon DEF HeldUnits, SameHold
<1>4. ChargedUnits(l)' = ChargedUnits(l)
  BY <1>1, <1>2, Zenon DEF ChargedUnits, SameHold
<1>5. CommittedUnits(counted[l])' = CommittedUnits(counted[l])
  BY <1>1, <1>2, Zenon DEF CommittedUnits, SameHold
<1>6. CountedAreStamped(l)'
  BY DEF LedgerInv, CountedAreStamped, SameHold
<1>7. LedgerCovers(l)'
  BY <1>3, <1>4 DEF LedgerInv, LedgerCovers
<1>8. LedgerWithinCap(l)'
  BY <1>5 DEF LedgerInv, LedgerWithinCap
<1>9. QED
  BY <1>6, <1>7, <1>8 DEF LedgerInv

\* A ledger that counts nobody.
LEMMA LedgerEmpty ==
  ASSUME NEW l \in Ledgers, counted'[l] = {}, ledger'[l].r = 0, ledger'[l].s = 0,
         Unmade(l)' => ledger'[l] = Zero,
         \A b \in Attempts : ~(hold'[b].st = "open" /\ l \in stamp'[b])
  PROVE  LedgerInv(l)'
<1>1. HeldUnits(l)' = {} /\ ChargedUnits(l)' = {} /\ CommittedUnits(counted[l])' = {}
  BY DEF HeldUnits, ChargedUnits, CommittedUnits
<1>2. Cardinality({}) = 0
  BY FS_EmptySet
<1>3. LedgerCap[l] \in Nat
  BY ChainAssumption
<1>4. LedgerCovers(l)' /\ LedgerWithinCap(l)'
  BY <1>1, <1>2, <1>3 DEF LedgerCovers, LedgerWithinCap
<1>5. CountedAreStamped(l)'
  BY DEF CountedAreStamped
<1>6. QED
  BY <1>4, <1>5 DEF LedgerInv

-----------------------------------------------------------------------------
(* OPEN_LUA *)

\* An open either writes one new hold, or no hold at all.
LEMMA OpenHoldEffect ==
  ASSUME TypeOK, NEW a \in Attempts, ~hold[a].gone, NEW mode, NEW expected,
         NEW est \in Estimates, NEW mint, NEW admit \in BOOLEAN,
         Open(a, mode, expected, est, mint, admit)
  PROVE  /\ \A b \in Attempts : b # a => hold'[b] = hold[b]
         /\ IF OpenReply(a, mode, expected, est, admit) = "opened"
            THEN /\ admit /\ hold[a].st = "absent"
                 /\ hold'[a].st = "open" /\ hold'[a].et = est
            ELSE hold' = hold
<1>1. CASE OpenReply(a, mode, expected, est, admit) = "opened"
  <2>1. admit /\ hold[a].st = "absent"
    BY <1>1 DEF OpenReply, Exists
  <2>2. Reserve(a, mode, est, mint)
    BY <1>1 DEF Open
  <2>3. QED
    BY <1>1, <2>1, <2>2 DEF Reserve, NoHold, TypeOK
<1>2. CASE OpenReply(a, mode, expected, est, admit) # "opened"
  BY <1>2 DEF Open, vars
<1>3. QED
  BY <1>1, <1>2

\* The stamped ledgers had room, and reserve the estimate.
LEMMA LedgerReserves ==
  ASSUME ChainTypeOK, ChainTypeOK', NEW l \in Ledgers, LedgerInv(l), NEW a \in Attempts,
         NEW est \in Amount, Fits(l, est), ledger[l].there \/ Unmade(l),
         ledger'[l] = [ledger[l] EXCEPT !.there = TRUE, !.r = @ + est[Money]],
         counted'[l] = counted[l] \cup {a}, l \in stamp'[a], ~Unmade(l)',
         hold[a].st = "absent", hold'[a].st = "open", hold'[a].et = est,
         \A b \in Attempts : b # a => hold'[b] = hold[b] /\ stamp'[b] = stamp[b]
  PROVE  LedgerInv(l)'
<1>1. est[Money] \in Nat
  BY BudgetAssumption, ChainAssumption DEF Amount
<1>2. ledger[l] \in [there : BOOLEAN, r : Int, s : Int]
  BY DEF ChainTypeOK
<1>3. ledger'[l].r = ledger[l].r + est[Money] /\ ledger'[l].s = ledger[l].s
  BY <1>2
<1>4. a \notin counted[l]
  BY DEF LedgerInv, CountedAreStamped
<1>5. CountedAreStamped(l)'
  BY <1>4 DEF LedgerInv, CountedAreStamped
<1>6. /\ Cardinality(HeldUnits(l)) <= ledger[l].r
      /\ Cardinality(ChargedUnits(l)) <= ledger[l].s
  <2>1. CASE ledger[l].there
    BY <2>1 DEF LedgerInv, LedgerCovers
  <2>2. CASE Unmade(l)
    <3>1. counted[l] = {} /\ ledger[l].r = 0 /\ ledger[l].s = 0
      BY <2>2 DEF LedgerInv, Zero
    <3>2. HeldUnits(l) = {} /\ ChargedUnits(l) = {}
      BY <3>1 DEF HeldUnits, ChargedUnits
    <3>3. QED
      BY <3>1, <3>2, FS_EmptySet
  <2>3. QED
    BY <2>1, <2>2
<1>7. Cardinality(HeldUnits(l)') <= Cardinality(HeldUnits(l)) + est[Money]
  <2>1. HeldUnits(l)' \subseteq HeldUnits(l) \cup Column(a, est[Money])
    <3> SUFFICES ASSUME NEW u \in HeldUnits(l)', u[1] # a
                 PROVE  u \in HeldUnits(l)
      BY <1>1 DEF HeldUnits, Units, Column
    <3>1. u \in Units /\ u[1] \in Attempts
      BY DEF HeldUnits, Units
    <3>2. QED
      BY <3>1 DEF HeldUnits
  <2>2. QED
    BY <1>1, <2>1, LedgerUnitsFinite, Grows
<1>8. ChargedUnits(l)' \subseteq ChargedUnits(l)
  <2> SUFFICES ASSUME NEW u \in ChargedUnits(l)' PROVE u \in ChargedUnits(l)
    OBVIOUS
  <2>1. u \in Units /\ u[1] \in Attempts /\ u[1] # a
    BY DEF ChargedUnits, Units, Terminal
  <2>2. QED
    BY <2>1 DEF ChargedUnits
<1>9. Cardinality(ChargedUnits(l)') <= Cardinality(ChargedUnits(l))
  BY <1>8, LedgerUnitsFinite, FS_Subset
<1>10. LedgerCovers(l)'
  BY <1>1, <1>2, <1>3, <1>6, <1>7, <1>9, LedgerUnitsFinite, NextLedgerUnitsFinite DEF LedgerCovers
<1>11. LedgerWithinCap(l)'
  <2>1. Cardinality(CommittedUnits(counted[l])')
           <= Cardinality(HeldUnits(l)') + Cardinality(ChargedUnits(l)')
    BY <1>5, CommittedIsCovered
  <2>2. ledger[l].s + ledger[l].r + est[Money] <= LedgerCap[l] /\ LedgerCap[l] \in Nat
    BY ChainAssumption DEF Fits
  <2>3. QED
    <3> DEFINE committed == Cardinality(CommittedUnits(counted[l])')
               held == Cardinality(HeldUnits(l)')
               charged == Cardinality(ChargedUnits(l)')
               cap == LedgerCap[l]
    <3>1. committed \in Nat /\ held \in Nat /\ charged \in Nat /\ committed <= held + charged
      BY <2>1, NextLedgerUnitsFinite
    <3>2. held <= ledger[l].r + est[Money] /\ charged <= ledger[l].s
      BY <1>1, <1>2, <1>6, <1>7, <1>9, LedgerUnitsFinite, NextLedgerUnitsFinite
    <3>3. LedgerWithinCap(l)' <=> committed <= cap
      BY DEF LedgerWithinCap
    <3>4. ledger[l].s + ledger[l].r + est[Money] <= cap /\ cap \in Nat
      BY <2>2
    <3> HIDE DEF committed, held, charged, cap
    <3>5. QED
      BY <1>1, <1>2, <3>1, <3>2, <3>3, <3>4
<1>12. QED
  BY <1>5, <1>10, <1>11 DEF LedgerInv

LEMMA ChainOpenStep ==
  ASSUME ChainInv, NEW a \in Attempts, ~hold[a].gone,
         NEW mode, NEW g \in Generations, NEW est \in Estimates,
         NEW links \in SUBSET Links, NEW sub \in Subs \cup {NoSub}, NEW room \in BOOLEAN,
         ChainOpen(a, mode, g, est, g, links, sub, room)
  PROVE  ChainInv'
<1> DEFINE admit == ChainAdmits(links, sub, est, room)
           mine == Stamped(links, sub)
           reply == OpenReply(a, mode, g, est, admit)
<1>1. ChainTypeOK /\ TypeOK
  BY DEF ChainInv, ChainTypeOK
<1>2. admit \in BOOLEAN /\ Open(a, mode, g, est, g, admit)
  BY DEF ChainOpen, ChainAdmits
<1>3. TypeOK'
  BY <1>1, <1>2, OpenType
<1>4. est \in Amount /\ est[Money] \in Int
  BY BudgetAssumption, ChainAssumption DEF Amount
<1>5. mine \subseteq Ledgers
  BY DEF Stamped, Ledgers
<1>6. /\ \A b \in Attempts : b # a => hold'[b] = hold[b]
      /\ IF reply = "opened"
         THEN /\ admit /\ hold[a].st = "absent"
              /\ hold'[a].st = "open" /\ hold'[a].et = est
         ELSE hold' = hold
  BY <1>1, <1>2, OpenHoldEffect
<1>7. CASE reply = "opened"
  <2>1. /\ ledger' = [l \in Ledgers |->
                         IF l \in mine
                         THEN [ledger[l] EXCEPT !.there = TRUE, !.r = @ + est[Money]]
                         ELSE ledger[l]]
        /\ stamp' = [stamp EXCEPT ![a] = mine]
        /\ counted' = [l \in Ledgers |->
                          IF l \in mine THEN counted[l] \cup {a} ELSE counted[l]]
        /\ UNCHANGED <<exchanged, creating>>
    BY <1>7 DEF ChainOpen
  <2> HIDE DEF admit, mine, reply
  <2>2. ChainTypeOK'
    <3>1. ledger' \in [Ledgers -> [there : BOOLEAN, r : Int, s : Int]]
      <4> SUFFICES ASSUME NEW l \in Ledgers
                   PROVE  ledger'[l] \in [there : BOOLEAN, r : Int, s : Int]
        BY <2>1
      <4>1. ledger[l] \in [there : BOOLEAN, r : Int, s : Int]
        BY <1>1 DEF ChainTypeOK
      <4>2. [ledger[l] EXCEPT !.there = TRUE, !.r = @ + est[Money]]
               \in [there : BOOLEAN, r : Int, s : Int]
        BY <1>4, <4>1, LedgerMoves
      <4>3. QED
        BY <2>1, <4>1, <4>2
    <3>2. QED
      BY <1>1, <1>3, <1>5, <2>1, <3>1 DEF ChainTypeOK
  <2>3. stamp'[a] = mine /\ \A b \in Attempts : b # a => stamp'[b] = stamp[b]
    BY <1>1, <2>1 DEF ChainTypeOK
  <2>4. ASSUME NEW l \in Ledgers, Faithful(l), l \in mine PROVE LedgerInv(l)'
    <3>1. Fits(l, est) /\ (ledger[l].there \/ l \in Subs)
      BY <1>6, <1>7, <2>4 DEF admit, mine, ChainAdmits, LinkAdmits, SubAdmits, Stamped
    <3>2. ledger[l].there \/ Unmade(l)
      BY <3>1 DEF Unmade
    <3>3. LedgerInv(l)
      BY <2>4 DEF ChainInv
    <3>4. /\ ledger'[l] = [ledger[l] EXCEPT !.there = TRUE, !.r = @ + est[Money]]
          /\ ledger'[l].there
          /\ counted'[l] = counted[l] \cup {a}
      BY <1>1, <2>1, <2>4 DEF ChainTypeOK
    <3>5. ~Unmade(l)'
      <4>1. CASE l \in Subs
        BY <3>4, <4>1 DEF Unmade
      <4>2. CASE l \notin Subs
        <5>1. ledger[l].there
          BY <3>1, <4>2
        <5>2. ~Unmade(l)
          BY <3>3, <5>1 DEF LedgerInv, Zero
        <5>3. QED
          BY <2>1, <4>2, <5>2 DEF Unmade
      <4>3. QED
        BY <4>1, <4>2
    <3>6. QED
      BY <1>1, <1>4, <1>6, <1>7, <2>2, <2>3, <2>4, <3>1, <3>2, <3>3, <3>4, <3>5, LedgerReserves
  <2>5. ASSUME NEW l \in Ledgers, Faithful(l), l \notin mine PROVE LedgerInv(l)'
    <3>1. LedgerInv(l)
      BY <2>5 DEF ChainInv
    <3>2. ledger'[l] = ledger[l] /\ counted'[l] = counted[l] /\ (Unmade(l)' => Unmade(l))
      BY <2>1, <2>5 DEF Unmade
    <3>3. a \notin counted[l] /\ l \notin stamp'[a]
      BY <1>6, <1>7, <2>3, <2>5, <3>1 DEF LedgerInv, CountedAreStamped
    <3>4. \A b \in Attempts :
            \/ SameHold(b) /\ (l \in stamp'[b] <=> l \in stamp[b])
            \/ b \notin counted[l] /\ ~(hold'[b].st = "open" /\ l \in stamp'[b])
      BY <1>6, <2>3, <3>3 DEF SameHold
    <3>5. QED
      BY <3>1, <3>2, <3>4, LedgerAside
  <2>6. QED
    BY <2>2, <2>4, <2>5 DEF ChainInv, Faithful
<1>8. CASE reply # "opened"
  <2>1. UNCHANGED <<ledger, stamp, counted, exchanged, creating, hold>>
    BY <1>6, <1>8 DEF ChainOpen
  <2>2. ChainTypeOK'
    BY <1>1, <1>3, <2>1 DEF ChainTypeOK
  <2>3. ASSUME NEW l \in Ledgers, Faithful(l) PROVE LedgerInv(l)'
    <3>1. LedgerInv(l)
      BY <2>3 DEF ChainInv
    <3>2. Unmade(l)' <=> Unmade(l)
      BY <2>1 DEF Unmade
    <3>3. QED
      BY <2>1, <3>1, <3>2, LedgerAside DEF SameHold
  <2>4. QED
    BY <2>2, <2>3 DEF ChainInv, Faithful
<1>9. QED
  BY <1>7, <1>8

-----------------------------------------------------------------------------
(* SETTLE_LUA *)

\* A settle closes one open hold at its charge, or moves no hold.
LEMMA SettleHoldEffect ==
  ASSUME TypeOK, NEW a \in Attempts, NEW outcome \in Outcomes,
         NEW known \in Amount, NEW certain \in [Dims -> BOOLEAN],
         Settle(a, outcome, known, certain)
  PROVE  /\ \A b \in Attempts : b # a => hold'[b] = hold[b]
         /\ IF MovesLedgers(SettleReply(a, outcome))
            THEN /\ hold[a].st = "open" /\ hold'[a].st \in Terminal
                 /\ hold'[a].et = hold[a].et
                 /\ hold'[a].at = Applied(a, outcome, known, certain)
            ELSE hold' = hold
<1> DEFINE charge == Applied(a, outcome, known, certain)
<1>1. ASSUME NEW lost \in BOOLEAN, CloseHold(a, outcome, charge, lost),
             SettleReply(a, outcome) \in {"applied", "degraded"}
      PROVE  /\ \A b \in Attempts : b # a => hold'[b] = hold[b]
             /\ hold[a].st = "open" /\ hold'[a].st \in Terminal
             /\ hold'[a].et = hold[a].et /\ hold'[a].at = charge
  BY <1>1, AppliedType, Closed
<1>2. CASE SettleReply(a, outcome) = "applied"
  <2>1. CloseHold(a, outcome, charge, FALSE)
    BY <1>2 DEF Settle
  <2>2. QED
    BY <1>1, <1>2, <2>1 DEF MovesLedgers
<1>3. CASE SettleReply(a, outcome) = "degraded"
  <2>1. CloseHold(a, outcome, charge, TRUE)
    BY <1>3 DEF Settle
  <2>2. QED
    BY <1>1, <1>3, <2>1 DEF MovesLedgers
<1>4. CASE SettleReply(a, outcome) \notin {"applied", "degraded"}
  BY <1>4 DEF Settle, vars, MovesLedgers
<1>5. QED
  BY <1>2, <1>3, <1>4

\* The ledgers that count the hold give its reservation for its charge.
LEMMA LedgerSettles ==
  ASSUME ChainTypeOK, NEW l \in Ledgers, LedgerInv(l), NEW a \in Attempts,
         NEW charge \in Amount, a \in counted[l],
         ledger'[l] = IF ledger[l].there
                      THEN [ledger[l] EXCEPT !.r = @ - hold[a].et[Money],
                                             !.s = @ + charge[Money]]
                      ELSE ledger[l],
         counted' = counted, stamp' = stamp, Unmade(l)' => Unmade(l),
         hold[a].st = "open", hold'[a].st \in Terminal,
         hold'[a].et = hold[a].et, hold'[a].at = charge,
         \A b \in Attempts : b # a => hold'[b] = hold[b]
  PROVE  LedgerInv(l)'
<1> DEFINE et == hold[a].et[Money]
           ch == charge[Money]
<1>1. et \in Nat /\ ch \in Nat
  <2>1. hold[a].et \in Amount
    BY DEF ChainTypeOK, TypeOK, Hold
  <2>2. QED
    BY <2>1, BudgetAssumption, ChainAssumption DEF Amount
<1>2. ledger[l] \in [there : BOOLEAN, r : Int, s : Int]
  BY DEF ChainTypeOK
<1>3. hold'[a].st # "open" /\ hold'[a].st # "absent" /\ hold[a].st \notin Terminal
  BY DEF Terminal
<1> HIDE DEF et, ch
<1>4. CountedAreStamped(l)'
  BY <1>3 DEF LedgerInv, CountedAreStamped
<1>5. \A u \in Units : u[1] \in Attempts
  BY DEF Units
<1>6. Cardinality(HeldUnits(l)') + et <= Cardinality(HeldUnits(l))
  <2>1. Column(a, et) \subseteq HeldUnits(l)
    <3>1. et <= MaxUnits
      BY BudgetAssumption, ChainAssumption DEF et, ChainTypeOK, TypeOK, Hold, Amount
    <3>2. QED
      BY <1>1, <3>1, BudgetAssumption DEF Column, HeldUnits, Units, et
  <2>2. HeldUnits(l)' \subseteq HeldUnits(l) \ Column(a, et)
    <3> SUFFICES ASSUME NEW u \in HeldUnits(l)'
                 PROVE  u \in HeldUnits(l) /\ u[1] # a
      BY DEF Column
    <3>1. u \in Units /\ u[1] \in Attempts /\ u[1] # a
      BY <1>3, <1>5 DEF HeldUnits
    <3>2. QED
      BY <3>1 DEF HeldUnits
  <2>3. QED
    BY <1>1, <2>1, <2>2, LedgerUnitsFinite, Shrinks
<1>7. Cardinality(ChargedUnits(l)') <= Cardinality(ChargedUnits(l)) + ch
  <2>1. ChargedUnits(l)' \subseteq ChargedUnits(l) \cup Column(a, ch)
    <3> SUFFICES ASSUME NEW u \in ChargedUnits(l)'
                 PROVE  u \in ChargedUnits(l) \cup Column(a, ch)
      OBVIOUS
    <3>1. CASE u[1] = a
      BY <1>1, <3>1 DEF ChargedUnits, Units, Column, ch
    <3>2. CASE u[1] # a
      <4>1. u \in Units /\ u[1] \in Attempts
        BY <1>5 DEF ChargedUnits
      <4>2. QED
        BY <3>2, <4>1 DEF ChargedUnits
    <3>3. QED
      BY <3>1, <3>2
  <2>2. QED
    BY <1>1, <2>1, LedgerUnitsFinite, Grows
<1>8. LedgerCovers(l)'
  <2> SUFFICES ASSUME ledger'[l].there
               PROVE  /\ Cardinality(HeldUnits(l)') <= ledger'[l].r
                      /\ Cardinality(ChargedUnits(l)') <= ledger'[l].s
    BY DEF LedgerCovers
  <2>1. ledger[l].there
    OBVIOUS
  <2>2. ledger'[l].r = ledger[l].r - et /\ ledger'[l].s = ledger[l].s + ch
    BY <1>2, <2>1 DEF et, ch
  <2>3. /\ Cardinality(HeldUnits(l)) <= ledger[l].r
        /\ Cardinality(ChargedUnits(l)) <= ledger[l].s
    BY <2>1 DEF LedgerInv, LedgerCovers
  <2>4. QED
    BY <1>1, <1>2, <1>6, <1>7, <2>2, <2>3, LedgerUnitsFinite, NextLedgerUnitsFinite
<1>9. LedgerWithinCap(l)'
  <2>1. CommittedUnits(counted[l])' \subseteq CommittedUnits(counted[l])
    <3> SUFFICES ASSUME NEW u \in CommittedUnits(counted[l])'
                 PROVE  u \in CommittedUnits(counted[l])
      OBVIOUS
    <3>1. u \in Units /\ u[1] \in Attempts
      BY <1>5 DEF CommittedUnits
    <3>2. QED
      BY <1>3, <3>1 DEF CommittedUnits
  <2>2. Cardinality(CommittedUnits(counted[l])') <= Cardinality(CommittedUnits(counted[l]))
    BY <2>1, LedgerUnitsFinite, FS_Subset
  <2>3. QED
    BY <2>2, LedgerUnitsFinite, NextLedgerUnitsFinite, ChainAssumption
       DEF LedgerInv, LedgerWithinCap
<1>10. Unmade(l)' => ledger'[l] = Zero /\ counted'[l] = {}
  BY DEF LedgerInv
<1>11. QED
  BY <1>4, <1>8, <1>9, <1>10 DEF LedgerInv

LEMMA ChainSettleStep ==
  ASSUME ChainInv, NEW a \in Attempts, NEW outcome \in Outcomes,
         NEW known \in Amount, NEW certain \in [Dims -> BOOLEAN],
         ChainSettle(a, outcome, known, certain)
  PROVE  ChainInv'
<1> DEFINE reply == SettleReply(a, outcome)
           charge == Applied(a, outcome, known, certain)
<1>1. ChainTypeOK /\ TypeOK
  BY DEF ChainInv, ChainTypeOK
<1>2. /\ Settle(a, outcome, known, certain)
      /\ ledger' = [l \in Ledgers |->
                       IF MovesLedgers(reply) /\ l \in stamp[a] /\ ledger[l].there
                       THEN [ledger[l] EXCEPT !.r = @ - hold[a].et[Money],
                                              !.s = @ + charge[Money]]
                       ELSE ledger[l]]
      /\ UNCHANGED <<exchanged, creating, stamp, counted>>
  BY DEF ChainSettle
<1>3. TypeOK' /\ charge \in Amount
  BY <1>1, <1>2, SettleType, AppliedType
<1>4. /\ \A b \in Attempts : b # a => hold'[b] = hold[b]
      /\ IF MovesLedgers(reply)
         THEN /\ hold[a].st = "open" /\ hold'[a].st \in Terminal
              /\ hold'[a].et = hold[a].et /\ hold'[a].at = charge
         ELSE hold' = hold
  BY <1>1, <1>2, SettleHoldEffect
<1> HIDE DEF reply, charge
<1>5. hold[a].et[Money] \in Int /\ charge[Money] \in Int
  <2>1. hold[a].et \in Amount
    BY <1>1 DEF TypeOK, Hold
  <2>2. QED
    BY <1>3, <2>1, BudgetAssumption, ChainAssumption DEF Amount
<1>6. ChainTypeOK'
  <2>1. ledger' \in [Ledgers -> [there : BOOLEAN, r : Int, s : Int]]
    <3> SUFFICES ASSUME NEW l \in Ledgers
                 PROVE  ledger'[l] \in [there : BOOLEAN, r : Int, s : Int]
      BY <1>2
    <3>1. ledger[l] \in [there : BOOLEAN, r : Int, s : Int]
      BY <1>1 DEF ChainTypeOK
    <3>2. ASSUME NEW n \in Int, NEW m \in Int
          PROVE  [ledger[l] EXCEPT !.r = @ - n, !.s = @ + m]
                    \in [there : BOOLEAN, r : Int, s : Int]
      BY <3>1, LedgerMoves
    <3>3. QED
      BY <1>2, <1>5, <3>1, <3>2
  <2>2. QED
    BY <1>1, <1>2, <1>3, <2>1 DEF ChainTypeOK
<1>7. ASSUME NEW l \in Ledgers, Faithful(l) PROVE LedgerInv(l)'
  <2>1. LedgerInv(l)
    BY <1>7 DEF ChainInv
  <2>2. ledger'[l] = IF MovesLedgers(reply) /\ l \in stamp[a] /\ ledger[l].there
                     THEN [ledger[l] EXCEPT !.r = @ - hold[a].et[Money],
                                            !.s = @ + charge[Money]]
                     ELSE ledger[l]
    BY <1>2
  <2>3. ledger'[l].there = ledger[l].there
    BY <1>1, <2>2 DEF ChainTypeOK
  <2>4. Unmade(l)' => Unmade(l)
    BY <1>2, <2>3 DEF Unmade
  <2>5. CASE MovesLedgers(reply) /\ l \in stamp[a]
    <3>1. a \in counted[l]
      BY <1>4, <2>1, <2>5 DEF LedgerInv, CountedAreStamped
    <3>2. QED
      BY <1>1, <1>2, <1>3, <1>4, <2>1, <2>2, <2>4, <2>5, <3>1, LedgerSettles
  <2>6. CASE MovesLedgers(reply) /\ l \notin stamp[a]
    <3>1. a \notin counted[l]
      BY <2>1, <2>6 DEF LedgerInv, CountedAreStamped
    <3>2. ledger'[l] = ledger[l] /\ counted'[l] = counted[l]
      BY <1>2, <2>2, <2>6
    <3>3. \A b \in Attempts :
            \/ SameHold(b) /\ (l \in stamp'[b] <=> l \in stamp[b])
            \/ b \notin counted[l] /\ ~(hold'[b].st = "open" /\ l \in stamp'[b])
      BY <1>2, <1>4, <2>6, <3>1 DEF SameHold
    <3>4. QED
      BY <2>1, <2>4, <3>2, <3>3, LedgerAside
  <2>7. CASE ~MovesLedgers(reply)
    <3>1. ledger'[l] = ledger[l] /\ counted'[l] = counted[l]
      BY <1>2, <2>2, <2>7
    <3>2. \A b \in Attempts : SameHold(b) /\ (l \in stamp'[b] <=> l \in stamp[b])
      BY <1>2, <1>4, <2>7 DEF SameHold
    <3>3. QED
      BY <2>1, <2>4, <3>1, <3>2, LedgerAside
  <2>8. QED
    BY <2>5, <2>6, <2>7
<1>8. QED
  BY <1>6, <1>7 DEF ChainInv, Faithful

-----------------------------------------------------------------------------
(* The exchange, the losses, and what leaves the ledgers alone *)

\* The exchange records a link before it makes the ledger, and makes it once.
LEMMA ExchangeStep ==
  ASSUME ChainInv, NEW l \in Links, FirstExchange(l) \/ CreateLedger(l)
  PROVE  ChainInv'
<1>1. /\ UNCHANGED <<vars, stamp, counted>>
      /\ hold' = hold
  BY DEF FirstExchange, CreateLedger, vars
<1>2. ChainTypeOK /\ l \in Ledgers
  BY DEF ChainInv, Ledgers
<1>3. ledger' = ledger \/ ledger' = [ledger EXCEPT ![l].there = TRUE]
  BY DEF FirstExchange, CreateLedger
<1>4. ChainTypeOK'
  <2>1. exchanged' \subseteq Links /\ creating' \subseteq exchanged'
    BY <1>2 DEF ChainTypeOK, FirstExchange, CreateLedger
  <2>2. ledger' \in [Ledgers -> [there : BOOLEAN, r : Int, s : Int]]
    BY <1>2, <1>3 DEF ChainTypeOK
  <2>3. TypeOK'
    BY <1>1, <1>2 DEF ChainTypeOK, TypeOK, vars
  <2>4. QED
    BY <1>1, <1>2, <2>1, <2>2, <2>3 DEF ChainTypeOK
<1>5. ASSUME NEW k \in Ledgers, Faithful(k), k # l PROVE LedgerInv(k)'
  <2>1. ledger'[k] = ledger[k]
    BY <1>2, <1>3, <1>5 DEF ChainTypeOK
  <2>2. Unmade(k)' => Unmade(k)
    BY <1>5, <2>1 DEF Unmade, FirstExchange, CreateLedger
  <2>3. LedgerInv(k)
    BY <1>5 DEF ChainInv
  <2>4. QED
    BY <1>1, <2>1, <2>2, <2>3, LedgerAside DEF SameHold
<1>6. LedgerInv(l)'
  <2>1. l \notin Subs
    BY ChainAssumption
  <2>2. LedgerInv(l)
    BY <1>2 DEF ChainInv, Faithful
  <2>3. Unmade(l)
    BY <2>1 DEF Unmade, FirstExchange, CreateLedger
  <2>4. counted[l] = {} /\ ledger[l] = Zero
    BY <2>2, <2>3 DEF LedgerInv
  <2>5. ledger'[l].r = 0 /\ ledger'[l].s = 0 /\ counted'[l] = {}
    BY <1>1, <1>2, <1>3, <2>4 DEF Zero, ChainTypeOK
  <2>6. Unmade(l)' => ledger'[l] = Zero
    BY <1>2, <2>1, <2>4 DEF Unmade, FirstExchange, CreateLedger, ChainTypeOK
  <2>7. \A b \in Attempts : ~(hold'[b].st = "open" /\ l \in stamp'[b])
    BY <1>1, <2>2, <2>4 DEF LedgerInv, CountedAreStamped
  <2>8. QED
    BY <1>2, <2>5, <2>6, <2>7, LedgerEmpty
<1>7. QED
  BY <1>4, <1>5, <1>6 DEF ChainInv, Faithful

\* A link's lost ledger stays lost; a sub-agent's starts another life, which no
\* open call remembers.
LEMMA LoseLedgerStep ==
  ASSUME ChainInv, NEW l \in Ledgers, LoseLedger(l)
  PROVE  ChainInv'
<1>1. ChainTypeOK
  BY DEF ChainInv
<1>2. /\ UNCHANGED <<vars, exchanged, creating, stamp>>
      /\ hold' = hold
      /\ ledger' = [ledger EXCEPT ![l] = Zero]
      /\ counted' = IF l \in Subs THEN [counted EXCEPT ![l] = {}] ELSE counted
  BY DEF LoseLedger, vars
<1>3. ChainTypeOK'
  <2>1. Zero \in [there : BOOLEAN, r : Int, s : Int]
    BY DEF Zero
  <2>2. TypeOK'
    BY <1>1, <1>2 DEF ChainTypeOK, TypeOK, vars
  <2>3. QED
    BY <1>1, <1>2, <2>1, <2>2 DEF ChainTypeOK
<1>4. ASSUME NEW k \in Ledgers, Faithful(k), k # l PROVE LedgerInv(k)'
  <2>1. ledger'[k] = ledger[k] /\ counted'[k] = counted[k]
    BY <1>1, <1>2, <1>4 DEF ChainTypeOK
  <2>2. Unmade(k)' => Unmade(k)
    BY <1>2, <2>1 DEF Unmade
  <2>3. LedgerInv(k)
    BY <1>4 DEF ChainInv
  <2>4. QED
    BY <1>2, <2>1, <2>2, <2>3, LedgerAside DEF SameHold
<1>5. ledger'[l] = Zero
  BY <1>1, <1>2 DEF ChainTypeOK
<1>6. ASSUME Faithful(l), l \in Subs PROVE LedgerInv(l)'
  <2>1. OpenIn(l) = {}
    BY <1>6, ChainAssumption DEF LoseLedger, Faithful
  <2>2. \A b \in Attempts : ~(hold'[b].st = "open" /\ l \in stamp'[b])
    BY <1>2, <2>1 DEF OpenIn
  <2>3. counted'[l] = {}
    BY <1>1, <1>2, <1>6 DEF ChainTypeOK
  <2>4. QED
    BY <1>5, <2>2, <2>3, LedgerEmpty DEF Zero
<1>7. ASSUME Faithful(l), l \notin Subs PROVE LedgerInv(l)'
  <2>1. LedgerInv(l) /\ counted' = counted
    BY <1>2, <1>7 DEF ChainInv
  <2>2. ~Unmade(l)'
    <3>1. ledger[l] # Zero
      BY DEF LoseLedger, Zero
    <3>2. ~Unmade(l)
      BY <2>1, <3>1 DEF LedgerInv
    <3>3. QED
      BY <1>2, <1>7, <3>2 DEF Unmade
  <2>3. CountedAreStamped(l)'
    BY <1>2, <2>1 DEF LedgerInv, CountedAreStamped
  <2>4. LedgerCovers(l)'
    BY <1>5 DEF LedgerCovers, Zero
  <2>5. CommittedUnits(counted[l])' = CommittedUnits(counted[l])
    BY <1>2, <2>1 DEF CommittedUnits
  <2>6. LedgerWithinCap(l)'
    BY <2>1, <2>5 DEF LedgerInv, LedgerWithinCap
  <2>7. QED
    BY <2>2, <2>3, <2>4, <2>6 DEF LedgerInv
<1>8. QED
  BY <1>3, <1>4, <1>6, <1>7 DEF ChainInv, Faithful

\* What moves no ledger, and of a hold neither its state nor its figures.
LEMMA BesideStep ==
  ASSUME ChainInv, Beside \/ UNCHANGED cvars
  PROVE  ChainInv'
<1>1. TypeOK /\ ChainTypeOK
  BY DEF ChainInv, ChainTypeOK
<1>2. UNCHANGED chainVars
  BY DEF Beside, chainVars, cvars
<1>3. TypeOK' /\ \A b \in Attempts : SameHold(b)
  <2>1. ASSUME NEW a \in Attempts, Dispatch(a)
        PROVE  TypeOK' /\ \A b \in Attempts : SameHold(b)
    <3>1. \A b \in Attempts : SameHold(b)
      BY <1>1, <2>1 DEF Dispatch, SameHold, TypeOK, Hold
    <3>2. QED
      BY <1>1, <2>1, <3>1, DispatchType
  <2>2. ASSUME NEW a \in Attempts, LoseHold(a)
        PROVE  TypeOK' /\ \A b \in Attempts : SameHold(b)
    <3>1. \A b \in Attempts : SameHold(b)
      BY <1>1, <2>2 DEF LoseHold, SameHold, TypeOK, Hold
    <3>2. QED
      BY <1>1, <2>2, <3>1, LoseHoldType
  <2>3. CASE RebaseAny
    <3>1. TypeOK'
      BY <1>1, <2>3, RebaseType, AmountType DEF RebaseAny
    <3>2. QED
      BY <2>3, <3>1 DEF RebaseAny, Rebase, SameHold
  <2>4. CASE RaiseAny
    <3>1. TypeOK'
      BY <1>1, <2>4, RaiseType, AmountType DEF RaiseAny
    <3>2. QED
      BY <2>4, <3>1 DEF RaiseAny, Raise, SameHold
  <2>5. CASE LoseAny
    <3>1. TypeOK'
      BY <1>1, <2>5, LoseType DEF LoseAny
    <3>2. QED
      BY <2>5, <3>1 DEF LoseAny, Lose, SameHold
  <2>6. CASE UNCHANGED cvars
    BY <1>1, <2>6 DEF cvars, vars, TypeOK, SameHold
  <2>7. QED
    BY <2>1, <2>2, <2>3, <2>4, <2>5, <2>6 DEF Beside
<1>4. ChainTypeOK'
  BY <1>1, <1>2, <1>3 DEF ChainTypeOK, chainVars
<1>5. ASSUME NEW l \in Ledgers, Faithful(l) PROVE LedgerInv(l)'
  <2>1. LedgerInv(l)
    BY <1>5 DEF ChainInv
  <2>2. Unmade(l)' <=> Unmade(l)
    BY <1>2 DEF Unmade, chainVars
  <2>3. QED
    BY <1>2, <1>3, <2>1, <2>2, LedgerAside DEF chainVars
<1>6. QED
  BY <1>4, <1>5 DEF ChainInv, Faithful

LEMMA ChainInitInv == ChainInit => ChainInv
<1> SUFFICES ASSUME ChainInit PROVE ChainInv
  OBVIOUS
<1>1. ChainTypeOK
  BY InitType DEF ChainInit, ChainTypeOK, Zero
<1>2. ASSUME NEW l \in Ledgers PROVE LedgerInv(l)
  <2>1. ledger[l] = Zero /\ counted[l] = {} /\ \A a \in Attempts : stamp[a] = {}
    BY DEF ChainInit
  <2>2. CountedAreStamped(l) /\ LedgerCovers(l)
    BY <2>1 DEF CountedAreStamped, LedgerCovers, Zero
  <2>3. CommittedUnits(counted[l]) = {}
    BY <2>1 DEF CommittedUnits
  <2>4. LedgerWithinCap(l)
    BY <2>3, FS_EmptySet, ChainAssumption DEF LedgerWithinCap
  <2>5. QED
    BY <2>1, <2>2, <2>4 DEF LedgerInv
<1>3. QED
  BY <1>1, <1>2 DEF ChainInv

LEMMA ChainInvariance == ChainSpec => []ChainInv
<1>1. ChainInv /\ [ChainNext]_cvars => ChainInv'
  <2> SUFFICES ASSUME ChainInv, [ChainNext]_cvars PROVE ChainInv'
    OBVIOUS
  <2>1. ASSUME NEW a \in Attempts, ChainOpenAny(a) PROVE ChainInv'
    BY <2>1, ChainOpenStep DEF ChainOpenAny
  <2>2. ASSUME NEW a \in Attempts, ChainSettleAny(a) PROVE ChainInv'
    BY <2>2, ChainSettleStep, AmountType DEF ChainSettleAny
  <2>3. QED
    BY <2>1, <2>2, ExchangeStep, LoseLedgerStep, BesideStep DEF ChainNext
<1>2. QED
  BY <1>1, ChainInitInv, PTL DEF ChainSpec

-----------------------------------------------------------------------------
(* What follows *)

\* Every reachable state of the ledgers is well typed.
THEOREM ChainTypeCorrect == ChainSpec => []ChainTypeOK
<1>1. ChainInv => ChainTypeOK
  BY DEF ChainInv
<1>2. QED
  BY <1>1, ChainInvariance, PTL

\* The calls made under a delegation link never commit more than its cap over
\* its whole life (the dl: blocks of OPEN_LUA and SETTLE_LUA and
\* recordFirstExchanges), whatever is lost and in every calling mode.
THEOREM LinksKeepTheirCap == ChainSpec => []DelegationWithinCap
<1>1. ChainInv => DelegationWithinCap
  BY DEF ChainInv, Faithful, Ledgers, LedgerInv, LedgerWithinCap, DelegationWithinCap
<1>2. QED
  BY <1>1, ChainInvariance, PTL

\* The same for a sub-agent in the life of one ledger, if that does not idle out
\* under an open call (the sl: blocks of the same scripts).
THEOREM SubAgentsKeepTheirCap == SubsIdleOutUnused => (ChainSpec => []SubAgentWithinCap)
<1> SUFFICES ASSUME SubsIdleOutUnused PROVE ChainSpec => []SubAgentWithinCap
  OBVIOUS
<1>1. ChainInv => SubAgentWithinCap
  BY DEF ChainInv, Faithful, Ledgers, LedgerInv, LedgerWithinCap, SubAgentWithinCap
<1>2. QED
  BY <1>1, ChainInvariance, PTL

-----------------------------------------------------------------------------
(* The agent's own counters, under a chain *)

\* A step under a delegation chain is, to the agent's own counters, a step of the
\* scripts or none: the chain only adds reasons to refuse.
LEMMA ChainStepsAreScripts == ASSUME [ChainNext]_cvars PROVE [Next]_vars
<1>1. ASSUME NEW a \in Attempts, ChainOpenAny(a) PROVE Next
  <2>1. PICK mode \in Modes, g \in Generations, est \in Estimates,
             links \in SUBSET Links, sub \in Subs \cup {NoSub}, room \in BOOLEAN :
           ChainOpen(a, mode, g, est, g, links, sub, room)
    BY <1>1 DEF ChainOpenAny
  <2>2. /\ ChainAdmits(links, sub, est, room) \in BOOLEAN
        /\ Open(a, mode, g, est, g, ChainAdmits(links, sub, est, room))
    BY <2>1 DEF ChainOpen, ChainAdmits
  <2>3. OpenAny(a)
    BY <1>1, <2>2, Zenon DEF ChainOpenAny, OpenAny
  <2>4. QED
    BY <2>3 DEF Next
<1>2. ASSUME NEW a \in Attempts, ChainSettleAny(a) PROVE Next
  BY <1>2, Zenon DEF ChainSettleAny, ChainSettle, SettleAny, Next
<1>3. CASE \/ \E l \in Links : FirstExchange(l) \/ CreateLedger(l)
           \/ \E l \in Ledgers : LoseLedger(l)
  BY <1>3 DEF FirstExchange, CreateLedger, LoseLedger
<1>4. CASE Beside
  BY <1>4 DEF Beside, Next
<1>5. CASE UNCHANGED cvars
  BY <1>5 DEF cvars
<1>6. QED
  BY <1>1, <1>2, <1>3, <1>4, <1>5 DEF ChainNext

\* Calls under delegation links and sub-agents keep the agent's account as calls
\* without them do.
THEOREM LinksMeetAccount == FencedModes => (ChainSpec => MeetsAccount)
<1>1. ChainInit => Init
  BY DEF ChainInit
<1>2. [ChainNext]_cvars => [Next]_vars
  BY ChainStepsAreScripts
<1>3. ChainSpec => Spec
  BY <1>1, <1>2, PTL DEF ChainSpec, Spec
<1>4. QED
  BY <1>3, ScriptsMeetAccount
=============================================================================
