--------------------------- MODULE RiskGateProofs ---------------------------
(***************************************************************************)
(* What RiskGate keeps for all limits, equities, cooldowns, symbols and    *)
(* console readers: a seen breach stops trading, a closed breaker has room *)
(* for losses, and, unless a reader wrote over it, a breaker that cools    *)
(* down is open and lets one test order through.                           *)
(***************************************************************************)
EXTENDS RiskGate, TLAPS

\* The frames that the actions leave unchanged.
USE DEF breaker, money, others

-----------------------------------------------------------------------------
(* Types *)

LEMMA RefreshTypes ==
  ASSUME TypeOK, NEW claimed \in BOOLEAN, Refresh(claimed)
  PROVE  /\ circuit' \in {"CLOSED", "OPEN", "HALF_OPEN"} /\ tested' \in BOOLEAN
         /\ streak' \in 0..LossStreak /\ openLeft' \in 0..Cooldown /\ tests' \in Nat
BY DEF TypeOK, Refresh, Refreshed

LEMMA TypeInductive ==
  ASSUME TypeOK, [Next]_vars
  PROVE  TypeOK'
<1> USE RiskConstants
<1>1. ASSUME Refused PROVE TypeOK'
  BY <1>1, RefreshTypes DEF Refused, TypeOK
<1>2. ASSUME BreachFound PROVE TypeOK'
  BY <1>2, RefreshTypes DEF BreachFound, TypeOK
<1>3. ASSUME NEW s \in Symbols, Approved(s) PROVE TypeOK'
  BY <1>3, RefreshTypes DEF Approved, TypeOK
<1>4. ASSUME NEW pnl \in {-1, 0, 1}, Fills(pnl) PROVE TypeOK'
  <2>1. Records(pnl) /\ pnl \in Int
    BY <1>4 DEF Fills
  <2>3. /\ streak' \in 0..LossStreak /\ openLeft' \in 0..Cooldown
        /\ circuit' \in {"CLOSED", "OPEN", "HALF_OPEN"}
    <3>1. CASE pnl >= 0
      BY <2>1, <3>1 DEF Records, TypeOK
    <3>2. CASE ~(pnl >= 0)
      BY <2>1, <3>2 DEF Records, Opens, TypeOK
    <3> QED BY <3>1, <3>2
  <2>4. tested' \in BOOLEAN
    BY <2>1, Zenon DEF Records, TypeOK
  <2>2. held' \subseteq Symbols
    BY <1>4 DEF Fills, TypeOK
  <2> QED BY <1>4, <2>2, <2>3, <2>4 DEF Fills, TypeOK
<1>5. ASSUME DoesNotFill PROVE TypeOK'
  BY <1>5 DEF DoesNotFill, TypeOK
<1>6. ASSUME NEW e \in Equities, NEW newDay \in BOOLEAN, ReportEquity(e, newDay) PROVE TypeOK'
  <2>1. killActive' \in BOOLEAN /\ halted' \in BOOLEAN
    BY <1>6, Zenon DEF ReportEquity, TypeOK
  <2>2. {peak', equity', dayStart'} \subseteq Equities \cup {0}
    BY <1>6 DEF ReportEquity, TypeOK
  <2>3. circuit' \in {"CLOSED", "OPEN", "HALF_OPEN"} /\ openLeft' \in 0..Cooldown
    BY <1>6 DEF ReportEquity, Opens, TypeOK
  <2> QED BY <1>6, <2>1, <2>2, <2>3 DEF ReportEquity, TypeOK
<1>7. ASSUME NEW r \in Readers, ReaderTests(r) PROVE TypeOK'
  BY <1>7 DEF ReaderTests, TypeOK
<1>8. ASSUME NEW r \in Readers, ReaderHalfOpens(r) PROVE TypeOK'
  BY <1>8 DEF ReaderHalfOpens, TypeOK
<1>9. ASSUME NEW r \in Readers, ReaderFreesSlot(r) PROVE TypeOK'
  BY <1>9 DEF ReaderFreesSlot, TypeOK
<1>10. ASSUME Activate PROVE TypeOK'
  BY <1>10 DEF Activate, TypeOK
<1>11. ASSUME NEW how \in Resets, ResetSwitch(how) PROVE TypeOK'
  BY <1>11 DEF ResetSwitch, TypeOK
<1>12. ASSUME StartCooldown PROVE TypeOK'
  <2>1. {killActive, tested, resetting, halted, misread}' \subseteq BOOLEAN
    BY <1>12, Zenon DEF StartCooldown, ForceClose, TypeOK
  <2> QED BY <1>12, <2>1 DEF StartCooldown, ForceClose, CooldownTicks, TypeOK
<1>13. ASSUME Tick PROVE TypeOK'
  BY <1>13 DEF Tick, TypeOK
<1>14. CASE UNCHANGED vars
  BY <1>14 DEF vars, TypeOK
<1>15. CASE Evaluate
  BY <1>1, <1>2, <1>3, <1>15 DEF Evaluate
<1>16. CASE Settle
  BY <1>4, <1>5, <1>16 DEF Settle
<1> QED
  BY <1>6, <1>7, <1>8, <1>9, <1>10, <1>11, <1>12, <1>13, <1>14, <1>15, <1>16 DEF Next

\* The state of the breaker, its counters and timers, the equities and the book
\* keep their types, whatever the limits are.
THEOREM TypeCorrect == Spec => []TypeOK
<1>1. Init => TypeOK
  <2> SUFFICES ASSUME Init PROVE TypeOK
    OBVIOUS
  <2>1. {killActive, tested, resetting, halted, misread} \subseteq BOOLEAN
    BY Zenon DEF Init
  <2> QED BY <2>1, RiskConstants DEF Init, TypeOK
<1> QED BY <1>1, TypeInductive, PTL DEF Spec

-----------------------------------------------------------------------------
(* The latch *)

\* Whatever raised the alarm has also activated the switch.
HaltedIsActive == halted => killActive

\* What update_equity tests is what evaluate_order would test afterwards.
LEMMA ReportTestsLimits ==
  ASSUME TypeOK, NEW e \in Equities, NEW newDay \in BOOLEAN, ReportEquity(e, newDay), Breached'
  PROVE  killActive'
<1> DEFINE p == IF e > peak THEN e ELSE peak
           day == IF newDay THEN e ELSE dayStart
<1>1. peak' = p /\ equity' = e /\ dayStart' = day
  BY DEF ReportEquity
<1>2. BreachSeen(p, e, day)
  <2>1. CASE Drawdown' >= MaxDrawdown
    BY <1>1, <2>1 DEF Drawdown, BreachSeen
  <2>2. CASE DailyLoss' >= MaxDailyLoss
    <3>1. ~(0 >= MaxDailyLoss)
      BY RiskConstants
    <3>2. e < day /\ Percent(day - e, day) >= MaxDailyLoss
      BY <1>1, <2>2, <3>1 DEF DailyLoss
    <3> QED BY <3>2 DEF BreachSeen
  <2> QED BY <2>1, <2>2 DEF Breached
<1> QED BY <1>2 DEF ReportEquity

LEMMA HaltedInductive ==
  ASSUME TypeOK, HaltedIsActive, [Next]_vars
  PROVE  HaltedIsActive'
<1> USE DEF HaltedIsActive
<1>1. ASSUME Refused PROVE HaltedIsActive'
  BY <1>1 DEF Refused
<1>2. ASSUME BreachFound PROVE HaltedIsActive'
  BY <1>2 DEF BreachFound
<1>3. ASSUME NEW s \in Symbols, Approved(s) PROVE HaltedIsActive'
  BY <1>3 DEF Approved
<1>4. ASSUME NEW pnl \in {-1, 0, 1}, Fills(pnl) PROVE HaltedIsActive'
  BY <1>4 DEF Fills
<1>5. ASSUME DoesNotFill PROVE HaltedIsActive'
  BY <1>5 DEF DoesNotFill
<1>6. ASSUME NEW e \in Equities, NEW newDay \in BOOLEAN, ReportEquity(e, newDay)
      PROVE  HaltedIsActive'
  <2>1. CASE halted
    BY <1>6, <2>1, Zenon DEF ReportEquity
  <2>2. CASE ~halted
    BY <1>6, <2>2, ReportTestsLimits, Zenon DEF ReportEquity
  <2> QED BY <2>1, <2>2
<1>7. ASSUME NEW r \in Readers, ReaderTests(r) \/ ReaderHalfOpens(r) \/ ReaderFreesSlot(r)
      PROVE  HaltedIsActive'
  BY <1>7 DEF ReaderTests, ReaderHalfOpens, ReaderFreesSlot
<1>8. ASSUME Activate PROVE HaltedIsActive'
  BY <1>8 DEF Activate
<1>9. ASSUME NEW how \in Resets, ResetSwitch(how) PROVE HaltedIsActive'
  BY <1>9 DEF ResetSwitch
<1>10. ASSUME StartCooldown \/ Tick \/ UNCHANGED vars PROVE HaltedIsActive'
  BY <1>10 DEF StartCooldown, Tick, vars
<1>11. CASE Evaluate
  BY <1>1, <1>2, <1>3, <1>11 DEF Evaluate
<1>12. CASE Settle
  BY <1>4, <1>5, <1>12 DEF Settle
<1> QED BY <1>6, <1>7, <1>8, <1>9, <1>10, <1>11, <1>12 DEF Next

\* A step that approves an order finds the switch off.
LEMMA ApprovalFindsSwitchOff ==
  ASSUME [Next]_vars, pending = None, pending' # None
  PROVE  ~killActive
<1>1. \/ \E s \in Symbols : Approved(s)
      \/ UNCHANGED pending
  <2>1. CASE Evaluate
    BY <2>1 DEF Evaluate, Refused, BreachFound
  <2>2. CASE Settle
    BY <2>2 DEF Settle, Fills, DoesNotFill
  <2>3. ASSUME NEW e \in Equities, NEW newDay \in BOOLEAN, ReportEquity(e, newDay)
        PROVE  UNCHANGED pending
    BY <2>3, Zenon DEF ReportEquity
  <2>4. ASSUME NEW r \in Readers, ReaderTests(r) \/ ReaderHalfOpens(r) \/ ReaderFreesSlot(r)
        PROVE  UNCHANGED pending
    BY <2>4 DEF ReaderTests, ReaderHalfOpens, ReaderFreesSlot
  <2>5. ASSUME NEW how \in Resets, ResetSwitch(how) PROVE UNCHANGED pending
    BY <2>5 DEF ResetSwitch
  <2>6. ASSUME Activate \/ StartCooldown \/ Tick \/ UNCHANGED vars PROVE UNCHANGED pending
    BY <2>6 DEF Activate, StartCooldown, Tick, vars
  <2> QED BY <2>1, <2>2, <2>3, <2>4, <2>5, <2>6 DEF Next
<1> QED BY <1>1 DEF Approved, MayApprove

\* After a breach was seen by an equity report, by an order or by an operator,
\* no order passes before a reset of the switch: evaluate_order and update_equity
\* test the same limits, and what either sees is latched in the switch.
THEOREM BreachesLatch == Spec => BreachLatches
<1>1. Init => HaltedIsActive
  BY DEF Init, HaltedIsActive
<1>2. Spec => []HaltedIsActive
  BY <1>1, HaltedInductive, TypeCorrect, PTL DEF Spec
<1>3. HaltedIsActive /\ [Next]_vars => [pending = None /\ pending' # None => ~halted]_vars
  BY ApprovalFindsSwitchOff DEF HaltedIsActive
<1> QED BY <1>2, <1>3, PTL DEF Spec, BreachLatches

-----------------------------------------------------------------------------
(* The breaker *)

\* The test slot counts the orders of the episode.
SlotCounts == ~misread /\ circuit = "HALF_OPEN" => tests <= 1 /\ (~tested => tests = 0)

BreakerInv == ClosedHasRoom /\ CooldownMeansOpen /\ SlotCounts

\* Reading the breaker, and claiming its slot where it is free.
LEMMA RefreshKeeps ==
  ASSUME TypeOK, BreakerInv, NEW claimed \in BOOLEAN, claimed => ~Halts, Refresh(claimed), UNCHANGED misread
  PROVE  BreakerInv'
<1>1. ClosedHasRoom'
  BY DEF BreakerInv, ClosedHasRoom, Refresh, Refreshed
<1>2. CooldownMeansOpen'
  BY DEF BreakerInv, CooldownMeansOpen, Refresh, Refreshed
<1>3. SlotCounts'
  <2> SUFFICES ASSUME ~misread, circuit' = "HALF_OPEN"
               PROVE  tests' <= 1 /\ (~tested' => tests' = 0)
    BY DEF SlotCounts
  <2>1. CASE circuit = "OPEN"
    <3>1. Refreshed = [state |-> "HALF_OPEN", tested |-> FALSE]
      BY <2>1, Zenon DEF Refresh, Refreshed
    <3> QED BY <2>1, <3>1 DEF Refresh
  <2>2. CASE circuit = "HALF_OPEN"
    <3>1. Refreshed = [state |-> "HALF_OPEN", tested |-> tested]
      BY <2>2, Zenon DEF Refreshed
    <3>2. claimed => ~tested
      BY <3>1 DEF Halts
    <3>3. tests <= 1 /\ (~tested => tests = 0) /\ tests \in Nat
      BY <2>2 DEF BreakerInv, SlotCounts, TypeOK
    <3>4. tests' = tests + (IF claimed THEN 1 ELSE 0)
      BY <2>2, <3>1 DEF Refresh
    <3>5. tested' <=> tested \/ claimed
      BY <3>1, Zenon DEF Refresh
    <3> QED BY <3>2, <3>3, <3>4, <3>5
  <2>3. CASE circuit = "CLOSED"
    BY <2>3 DEF Refresh, Refreshed
  <2> QED BY <2>1, <2>2, <2>3 DEF TypeOK
<1> QED BY <1>1, <1>2, <1>3 DEF BreakerInv

\* Opening the breaker, with whatever the streak is then.
LEMMA OpensKeeps ==
  ASSUME TypeOK, BreakerInv, Opens
  PROVE  BreakerInv'
BY DEF BreakerInv, ClosedHasRoom, CooldownMeansOpen, SlotCounts, Opens

\* A trade result closes a half-open breaker with an empty streak, and a loss
\* that fills the streak opens a closed one.
LEMMA RecordsKeeps ==
  ASSUME TypeOK, BreakerInv, NEW pnl \in {-1, 0, 1}, Records(pnl), UNCHANGED <<misread, tests>>
  PROVE  BreakerInv'
<1>1. CASE pnl >= 0
  <2>1. streak' = 0 /\ openLeft' = openLeft /\ circuit' # "HALF_OPEN"
        /\ (circuit = "OPEN" => circuit' = "OPEN")
    BY <1>1 DEF Records
  <2> QED
    BY <2>1, RiskConstants DEF BreakerInv, ClosedHasRoom, CooldownMeansOpen, SlotCounts
<1>2. CASE ~(pnl >= 0)
  <2>1. CASE circuit = "HALF_OPEN" \/ streak + 1 >= LossStreak
    BY <1>2, <2>1, OpensKeeps DEF Records
  <2>2. CASE ~(circuit = "HALF_OPEN" \/ streak + 1 >= LossStreak)
    <3>1. circuit' = circuit /\ openLeft' = openLeft /\ streak' < LossStreak
      BY <1>2, <2>2, RiskConstants DEF Records, TypeOK
    <3> QED
      BY <2>2, <3>1 DEF BreakerInv, ClosedHasRoom, CooldownMeansOpen, SlotCounts
  <2> QED BY <2>1, <2>2
<1> QED BY <1>1, <1>2

LEMMA ForceCloseKeeps ==
  ASSUME ForceClose
  PROVE  BreakerInv'
BY RiskConstants DEF ForceClose, BreakerInv, ClosedHasRoom, CooldownMeansOpen, SlotCounts

\* Nothing that BreakerInv reads has changed.
LEMMA BreakerFrame ==
  ASSUME BreakerInv, UNCHANGED <<circuit, tested, streak, openLeft, misread, tests>>
  PROVE  BreakerInv'
BY DEF BreakerInv, ClosedHasRoom, CooldownMeansOpen, SlotCounts

LEMMA BreakerInductive ==
  ASSUME TypeOK, BreakerInv, [Next]_vars
  PROVE  BreakerInv'
<1>1. ASSUME Refused \/ BreachFound PROVE BreakerInv'
  BY <1>1, RefreshKeeps DEF Refused, BreachFound
<1>2. ASSUME NEW s \in Symbols, Approved(s) PROVE BreakerInv'
  BY <1>2, RefreshKeeps DEF Approved, MayApprove
<1>3. ASSUME NEW pnl \in {-1, 0, 1}, Fills(pnl) PROVE BreakerInv'
  BY <1>3, RecordsKeeps DEF Fills
<1>4. ASSUME DoesNotFill PROVE BreakerInv'
  BY <1>4, BreakerFrame DEF DoesNotFill
<1>5. ASSUME NEW e \in Equities, NEW newDay \in BOOLEAN, ReportEquity(e, newDay)
      PROVE  BreakerInv'
  <2>1. UNCHANGED <<tested, streak, misread, tests>> /\ (Opens \/ UNCHANGED <<circuit, openLeft>>)
    BY <1>5, Zenon DEF ReportEquity
  <2> QED BY <2>1, OpensKeeps, BreakerFrame
<1>6. ASSUME NEW r \in Readers, ReaderTests(r) PROVE BreakerInv'
  BY <1>6, BreakerFrame DEF ReaderTests
<1>7. ASSUME NEW r \in Readers, ReaderHalfOpens(r) PROVE BreakerInv'
  <2>1. circuit' = "HALF_OPEN" /\ openLeft' = openLeft
    BY <1>7 DEF ReaderHalfOpens
  <2>2. ~misread' => ~misread /\ circuit = "OPEN" /\ ~(openLeft > 0)
    BY <1>7, Zenon DEF ReaderHalfOpens
  <2>3. ~misread' => tests' = 0
    BY <1>7, <2>2 DEF ReaderHalfOpens
  <2> QED BY <2>1, <2>2, <2>3 DEF BreakerInv, ClosedHasRoom, CooldownMeansOpen, SlotCounts
<1>8. ASSUME NEW r \in Readers, ReaderFreesSlot(r) PROVE BreakerInv'
  <2>1. UNCHANGED <<circuit, streak, openLeft, tests>>
    BY <1>8 DEF ReaderFreesSlot
  <2>2. ~misread' => ~misread /\ ~(tests > 0)
    BY <1>8, Zenon DEF ReaderFreesSlot
  <2> QED BY <2>1, <2>2 DEF BreakerInv, ClosedHasRoom, CooldownMeansOpen, SlotCounts, TypeOK
<1>9. ASSUME NEW how \in Resets, ResetSwitch(how) PROVE BreakerInv'
  BY <1>9, BreakerFrame DEF ResetSwitch
<1>10. ASSUME StartCooldown PROVE BreakerInv'
  BY <1>10, ForceCloseKeeps DEF StartCooldown
<1>11. ASSUME Tick PROVE BreakerInv'
  <2>1. openLeft' > 0 => openLeft > 0
    BY <1>11 DEF Tick, TypeOK
  <2>2. UNCHANGED <<circuit, tested, streak, misread, tests>>
    BY <1>11 DEF Tick
  <2> QED BY <2>1, <2>2 DEF BreakerInv, ClosedHasRoom, CooldownMeansOpen, SlotCounts
<1>12. ASSUME Activate \/ UNCHANGED vars PROVE BreakerInv'
  BY <1>12, BreakerFrame DEF Activate, vars
<1>13. CASE Evaluate
  BY <1>1, <1>2, <1>13 DEF Evaluate
<1>14. CASE Settle
  BY <1>3, <1>4, <1>14 DEF Settle
<1> QED BY <1>5, <1>6, <1>7, <1>8, <1>9, <1>10, <1>11, <1>12, <1>13, <1>14 DEF Next

LEMMA BreakerAlways == Spec => []BreakerInv
<1>1. Init => BreakerInv
  BY RiskConstants DEF Init, BreakerInv, ClosedHasRoom, CooldownMeansOpen, SlotCounts
<1> QED BY <1>1, BreakerInductive, TypeCorrect, PTL DEF Spec

\* However a breaker comes to be closed -- a trade result, the reset of an
\* operator, a half-open test -- its streak of losses is short of the limit; and
\* while its cooldown runs it is OPEN, unless a console reader wrote over it.
THEOREM BreakerIsSound == Spec => []BreakerSound
<1>1. BreakerInv => BreakerSound
  BY DEF BreakerInv, BreakerSound
<1> QED BY <1>1, BreakerAlways, PTL

\* A half-open breaker lets one order through, unless a console reader freed its
\* slot: the slot, not the check before it, counts the orders.
THEOREM OneOrderTests == Spec => []OneTestOrder
<1>1. BreakerInv => OneTestOrder
  BY DEF BreakerInv, SlotCounts, OneTestOrder
<1> QED BY <1>1, BreakerAlways, PTL

=============================================================================
