------------------------------ MODULE RiskGate ------------------------------
(***************************************************************************)
(* pyrobot/risk: RiskManager.evaluate_order with the state it consults --  *)
(* kill switch, circuit breaker, drawdown monitor -- and the calls that    *)
(* change that state.  The trading loop evaluates, settles and reports     *)
(* equity one call at a time under the manager's lock; console threads     *)
(* read status() without it, and an operator resets the switch.            *)
(* Time passes in ticks; a timer counts down the ticks it has left.        *)
(***************************************************************************)
EXTENDS Integers, FiniteSets

CONSTANTS
  Symbols,          \* symbols the loop trades, one unit of each
  Equities,         \* account values the broker may report
  MaxDrawdown,      \* max_drawdown_pct, in percent
  MaxDailyLoss,     \* max_daily_loss_pct, in percent
  CircuitDrawdown,  \* circuit_breaker_drawdown_pct, in percent
  LossStreak,       \* circuit_breaker_loss_streak
  Cooldown,         \* cooldown_seconds of the breaker, in ticks
  ResetCooldown,    \* cooldown_after_kill_switch_seconds, in ticks
  Readers,          \* console threads that read status()
  Resets            \* how an operator resets the switch: "manager", "switch"

ASSUME RiskConstants ==
  /\ Equities \subseteq Nat \ {0}
  /\ {MaxDrawdown, MaxDailyLoss, CircuitDrawdown} \subseteq 1..100
  /\ LossStreak \in Nat \ {0}
  /\ Cooldown \in Nat
  /\ ResetCooldown \in Nat
  /\ Resets \subseteq {"manager", "switch"}

VARIABLES
  killActive,   \* KillSwitch._active
  circuit,      \* CircuitBreaker._state
  tested,       \* CircuitBreaker._half_open_tested
  streak,       \* CircuitBreaker._consecutive_losses
  openLeft,     \* ticks until _cooldown_expired
  resetLeft,    \* ticks until _check_cooldown passes
  peak, equity, \* DrawdownMonitor: peak and current equity
  dayStart,     \* DrawdownMonitor: equity at the start of the day, 0 for None
  held,         \* symbols with a position in the risk book
  pending,      \* the approved order the loop is placing: its symbol, or None
  reader,       \* per reader: where it is in the property `state`
  resetting,    \* RiskManager.reset_kill_switch is between its two parts
  halted,       \* history: a breach was seen and no reset followed
  tests,        \* history: orders approved in this HALF_OPEN episode
  misread       \* history: a reader wrote over a breaker that had moved on

None == "none"

breaker == <<circuit, tested, streak, openLeft>>
money == <<peak, equity, dayStart>>
others == <<reader, resetting, misread>>
vars == <<killActive, breaker, resetLeft, money, held, pending, others, halted, tests>>

-----------------------------------------------------------------------------
(* DrawdownMonitor *)

Percent(part, whole) == IF whole > 0 THEN (part * 100) \div whole ELSE 0

Drawdown == Percent(peak - equity, peak)
DailyLoss == IF equity < dayStart THEN Percent(dayStart - equity, dayStart) ELSE 0

Breached == Drawdown >= MaxDrawdown \/ DailyLoss >= MaxDailyLoss

-----------------------------------------------------------------------------
(* CircuitBreaker *)

\* What the property `state` returns and leaves behind.
Refreshed ==
  IF circuit = "OPEN" /\ openLeft = 0
  THEN [state |-> "HALF_OPEN", tested |-> FALSE]
  ELSE [state |-> circuit, tested |-> tested]

\* The history of test orders: an episode starts when the breaker half-opens.
Refresh(claimed) ==
  /\ circuit' = Refreshed.state
  /\ tested' = (Refreshed.tested \/ (claimed /\ Refreshed.state = "HALF_OPEN"))
  /\ tests' = (IF circuit = "HALF_OPEN" THEN tests ELSE 0)
              + (IF claimed /\ Refreshed.state = "HALF_OPEN" THEN 1 ELSE 0)
  /\ UNCHANGED <<streak, openLeft>>

\* is_open, and claim_test_order refusing.
Halts == Refreshed.state = "OPEN" \/ (Refreshed.state = "HALF_OPEN" /\ Refreshed.tested)

\* Mutant of Opens: a breaker that is already open starts its cooldown again.
Opens_Restarts == circuit' = "OPEN" /\ openLeft' = Cooldown

\* _open: no effect on a breaker that is already open.
Opens ==
  /\ circuit' = "OPEN"
  /\ openLeft' = IF circuit = "OPEN" THEN openLeft ELSE Cooldown

\* record_trade_result.  A win is any result that is not a loss.
Records(pnl) ==
  IF pnl >= 0
  THEN /\ streak' = 0
       /\ circuit' = IF circuit = "HALF_OPEN" THEN "CLOSED" ELSE circuit
       /\ tested' = (tested /\ circuit # "HALF_OPEN")
       /\ UNCHANGED openLeft
  ELSE /\ streak' = IF streak < LossStreak THEN streak + 1 ELSE streak
       /\ UNCHANGED tested
       /\ IF circuit = "HALF_OPEN" \/ streak + 1 >= LossStreak
          THEN Opens
          ELSE UNCHANGED <<circuit, openLeft>>

\* Mutant of ForceClose: the streak that opened the breaker survives.
ForceClose_KeepsStreak ==
  circuit' = "CLOSED" /\ tested' = FALSE /\ openLeft' = 0 /\ UNCHANGED streak

\* force_close.
ForceClose ==
  circuit' = "CLOSED" /\ tested' = FALSE /\ openLeft' = 0 /\ streak' = 0

-----------------------------------------------------------------------------
(* Bounds of the model: loss counters stop at LossStreak, beyond which the   *)
(* code does not tell them apart, and timers at the cooldown they belong to. *)

Init ==
  /\ killActive = FALSE
  /\ circuit = "CLOSED" /\ tested = FALSE /\ streak = 0 /\ openLeft = 0
  /\ resetLeft = 0
  /\ peak = 0 /\ equity = 0 /\ dayStart = 0
  /\ held = {} /\ pending = None
  /\ reader = [r \in Readers |-> "out"]
  /\ resetting = FALSE
  /\ halted = FALSE /\ tests = 0 /\ misread = FALSE

-----------------------------------------------------------------------------
(* RiskManager.evaluate_order.  The metrics snapshot reads position_scale   *)
(* before any check, so the breaker half-opens even for a refused order.    *)

Idle == pending = None
Evaluating == Idle /\ equity > 0

\* A check refuses: active switch (it raises), breaker, cooldown, exposure.
Refused ==
  /\ Evaluating
  /\ Refresh(FALSE)
  /\ UNCHANGED <<killActive, resetLeft, money, held, pending, others, halted>>

\* The loss limits are read again here, from the last reported equity.
BreachFound ==
  /\ Evaluating
  /\ ~killActive /\ ~Halts /\ resetLeft = 0
  /\ Breached
  /\ Refresh(FALSE)
  /\ killActive' = TRUE
  /\ halted' = TRUE
  /\ UNCHANGED <<resetLeft, money, held, pending, others>>

\* Mutant of MayApprove: the test slot is not looked at.
MayApprove_NoSlot == ~killActive /\ Refreshed.state # "OPEN" /\ resetLeft = 0 /\ ~Breached

\* Every check before the exposure limits passes.
MayApprove ==
  /\ ~killActive
  /\ ~Halts
  /\ resetLeft = 0
  /\ ~Breached

Approved(s) ==
  /\ Evaluating
  /\ MayApprove
  /\ Refresh(TRUE)
  /\ pending' = s
  /\ UNCHANGED <<killActive, resetLeft, money, held, others, halted>>

-----------------------------------------------------------------------------
(* TradingPipeline settles the order it placed: record_fill, or nothing at  *)
(* all when the broker rejected it or has not filled it yet.                *)

\* An opening fill realises no profit; a closing fill realises pnl.
Fills(pnl) ==
  /\ pending # None
  /\ pnl # 0 => pending \in held
  /\ held' = IF pending \in held THEN held \ {pending} ELSE held \cup {pending}
  /\ Records(pnl)
  /\ pending' = None
  /\ UNCHANGED <<killActive, resetLeft, money, others, halted, tests>>

DoesNotFill ==
  /\ pending # None
  /\ pending' = None
  /\ UNCHANGED <<killActive, breaker, resetLeft, money, held, others, halted, tests>>

-----------------------------------------------------------------------------
(* Equity reports, once per bar. *)

\* Mutant of BreachSeen: the daily limit does not reach the kill switch.
BreachSeen_DrawdownOnly(p, e, day) == Percent(p - e, p) >= MaxDrawdown

\* The limits update_equity tests, for a peak p, an equity e and a day start.
BreachSeen(p, e, day) ==
  \/ Percent(p - e, p) >= MaxDrawdown
  \/ e < day /\ Percent(day - e, day) >= MaxDailyLoss

\* process_bar reports the equity: set_daily_start on the first bar of a day,
\* then update_equity.
ReportEquity(e, newDay) ==
  LET p == IF e > peak THEN e ELSE peak
      day == IF newDay THEN e ELSE dayStart
  IN /\ Idle
     /\ dayStart = 0 => newDay
     /\ peak' = p
     /\ equity' = e
     /\ dayStart' = day
     /\ killActive' = (killActive \/ BreachSeen(p, e, day))
     /\ halted' = (halted \/ Breached')
     /\ IF Percent(p - e, p) >= CircuitDrawdown
        THEN Opens ELSE UNCHANGED <<circuit, openLeft>>
     /\ UNCHANGED <<tested, streak, resetLeft, held, pending, others, tests>>

-----------------------------------------------------------------------------
(* Other threads. *)

\* status() reads the property `state` without the manager's lock: the test of
\* the cooldown and the two assignments are separate steps.
ReaderTests(r) ==
  /\ reader[r] = "out"
  /\ circuit = "OPEN" /\ openLeft = 0
  /\ reader' = [reader EXCEPT ![r] = "tested"]
  /\ UNCHANGED <<killActive, breaker, resetLeft, money, held, pending, resetting, misread, halted, tests>>

ReaderHalfOpens(r) ==
  /\ reader[r] = "tested"
  /\ circuit' = "HALF_OPEN"
  /\ tests' = IF circuit = "HALF_OPEN" THEN tests ELSE 0
  /\ misread' = (misread \/ circuit # "OPEN" \/ openLeft > 0)
  /\ reader' = [reader EXCEPT ![r] = "opened"]
  /\ UNCHANGED <<killActive, tested, streak, openLeft, resetLeft, money, held, pending, resetting, halted>>

ReaderFreesSlot(r) ==
  /\ reader[r] = "opened"
  /\ tested' = FALSE
  /\ misread' = (misread \/ tests > 0)
  /\ reader' = [reader EXCEPT ![r] = "out"]
  /\ UNCHANGED <<killActive, circuit, streak, openLeft, resetLeft, money, held, pending, resetting, halted, tests>>

\* activate_kill_switch by an operator or a monitor.
Activate ==
  /\ ~killActive
  /\ killActive' = TRUE
  /\ halted' = TRUE
  /\ UNCHANGED <<breaker, resetLeft, money, held, pending, others, tests>>

\* KillSwitch.reset: alone, or as the first part of reset_kill_switch.
ResetSwitch(how) ==
  /\ ~resetting
  /\ killActive
  /\ killActive' = FALSE
  /\ halted' = FALSE
  /\ resetting' = (how = "manager")
  /\ UNCHANGED <<breaker, resetLeft, money, held, pending, reader, misread, tests>>

CooldownTicks == ResetCooldown

\* The second part, under the manager's lock.
StartCooldown ==
  /\ resetting
  /\ resetting' = FALSE
  /\ resetLeft' = CooldownTicks
  /\ ForceClose
  /\ UNCHANGED <<killActive, money, held, pending, reader, misread, halted, tests>>

Tick ==
  /\ openLeft > 0 \/ resetLeft > 0
  /\ openLeft' = IF openLeft > 0 THEN openLeft - 1 ELSE 0
  /\ resetLeft' = IF resetLeft > 0 THEN resetLeft - 1 ELSE 0
  /\ UNCHANGED <<killActive, circuit, tested, streak, money, held, pending, others, halted, tests>>

-----------------------------------------------------------------------------
Settle == (\E pnl \in {-1, 0, 1} : Fills(pnl)) \/ DoesNotFill
Evaluate == Refused \/ BreachFound \/ \E s \in Symbols : Approved(s)

Next ==
  \/ Evaluate
  \/ Settle
  \/ \E e \in Equities, newDay \in BOOLEAN : ReportEquity(e, newDay)
  \/ \E r \in Readers : ReaderTests(r) \/ ReaderHalfOpens(r) \/ ReaderFreesSlot(r)
  \/ Activate
  \/ \E how \in Resets : ResetSwitch(how)
  \/ StartCooldown
  \/ Tick

Spec == Init /\ [][Next]_vars

\* The loop keeps evaluating and settling orders and time passes; what the
\* market and the operator do is not forced.
FairSpec == Spec /\ WF_vars(Tick) /\ WF_vars(Evaluate) /\ WF_vars(Settle)

-----------------------------------------------------------------------------
(* Properties *)

\* Types; a running cooldown belongs to a breaker that was opened.
TypeOK ==
  /\ {killActive, tested, resetting, halted, misread} \subseteq BOOLEAN
  /\ circuit \in {"CLOSED", "OPEN", "HALF_OPEN"}
  /\ streak \in 0..LossStreak
  /\ openLeft \in 0..Cooldown
  /\ resetLeft \in 0..ResetCooldown
  /\ {peak, equity, dayStart} \subseteq Equities \cup {0}
  /\ held \subseteq Symbols /\ pending \in Symbols \cup {None}
  /\ reader \in [Readers -> {"out", "tested", "opened"}]
  /\ tests \in Nat

\* A limit that was seen breached stops trading until an operator resets the
\* switch: a new day, a recovery or the order of the checks does not undo it.
BreachLatches == [][pending = None /\ pending' # None => ~halted]_vars

\* No order passes while a cooldown of the breaker is running: whatever closed
\* it or half-opened it, the countdown was over or was cancelled.  The one way
\* around it is the misread of a console thread.
CooldownMeansOpen == ~misread /\ openLeft > 0 => circuit = "OPEN"

\* "allows exactly one test order" (circuit_breaker.py): a half-open breaker
\* lets one order through until its result is known.  Only a thread that was
\* inside the property `state`, which status() reads without the manager's lock,
\* while the breaker moved on can give a claimed slot out again.
OneTestOrder == ~misread /\ circuit = "HALF_OPEN" => tests <= 1

\* A closed breaker has room left: no path -- trade results, the operator's
\* override, a half-open test -- closes it over a full loss streak.
ClosedHasRoom == circuit = "CLOSED" => streak < LossStreak

\* The breaker's state, its cooldown and its streak of losses agree, whatever
\* combination of results, drawdowns, ticks, overrides and readers made them.
BreakerSound == ClosedHasRoom /\ CooldownMeansOpen

\* However often the drawdown is reported again, an opened breaker reaches the
\* half-open test (or a reset closes it).
BreakerHalfOpens == circuit = "OPEN" ~> circuit # "OPEN"

-----------------------------------------------------------------------------
(* What the documentation claims and the code does not keep. *)

\* "automatically deactivates after a cooldown period" (circuit_breaker.py): a
\* claimed test slot comes free, so the breaker closes or opens again.  A test
\* order that the broker rejects, or that fills after the only poll, keeps the
\* slot for good.
SlotClaimed == circuit = "HALF_OPEN" /\ tested
SlotReleased == SlotClaimed ~> ~SlotClaimed

=============================================================================
