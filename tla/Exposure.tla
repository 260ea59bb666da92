------------------------------ MODULE Exposure ------------------------------
(***************************************************************************)
(* The exposure side of the risk gate: pyrobot/risk/exposure.py with the   *)
(* limits, the order throttle and the sizes of risk/manager.py, as         *)
(* process_bar of runtime/pipeline.py uses them.  Positions, prices and    *)
(* equity are read once per bar; every order of the bar is sized by and    *)
(* checked against that snapshot, and an approved order fills before the   *)
(* next one is looked at.  Money is integer and limits are percents.       *)
(***************************************************************************)
EXTENDS Integers, FiniteSets, Functions

CONSTANTS
  Symbols,
  Prices,         \* prices of a bar
  Monitors,       \* ExposureMonitors: [sector, volatile, correlated]
  Limits,         \* gross, long, short, sector, position (percent), count, order
  RiskPct,        \* per_trade_risk_pct, in percent
  StopPct,        \* default_stop_distance_pct, in percent
  Confidences,    \* confidence of a signal, in percent
  Scales,         \* breaker scale times model risk scale, in percent
  InitialCash,
  MaxBars         \* bound of the model

VARIABLES
  monitor,     \* the ExposureMonitor
  bar,
  price,       \* _current_prices, 0 for a symbol without one
  cash, held,  \* the account: signed quantities
  snapshot,    \* what the bar read: positions and equity
  todo,        \* symbols of the bar whose signal is still to come
  lately,      \* symbols inside min_order_interval_seconds
  increases,   \* history: orders of the bar filled that add exposure
  verdict      \* history: the last order checked and the answer

vars == <<monitor, bar, price, cash, held, snapshot, todo, lately, increases, verdict>>

-----------------------------------------------------------------------------
(* calculate_exposure *)

Abs(n) == IF n < 0 THEN -n ELSE n
AtLeast(n, m) == IF n < m THEN m ELSE n
AtMost(n, m) == IF n > m THEN m ELSE n

ValueOf(positions, some) == SumFunction([s \in some |-> Abs(positions[s]) * price[s]])

CalculateExposure(positions) ==
  [long   |-> ValueOf(positions, {s \in Symbols : positions[s] > 0}),
   short  |-> ValueOf(positions, {s \in Symbols : positions[s] < 0}),
   count  |-> Cardinality({s \in Symbols : positions[s] # 0}),
   sector |-> [c \in {monitor.sector[s] : s \in Symbols} |->
                 ValueOf(positions, {s \in Symbols : monitor.sector[s] = c})]]

Equity == cash + SumFunction([s \in Symbols |-> held[s] * price[s]])

-----------------------------------------------------------------------------
(* check_order *)

IsBuy(o) == o.side \in {"BUY", "BUY_TO_COVER"}

\* The part of an order that closes what is held, in shares.
Closed(positions, o) ==
  AtMost(o.qty, AtLeast(IF IsBuy(o) THEN -positions[o.sym] ELSE positions[o.sym], 0))

\* The portfolio after the order.
ProjectOrder(e, positions, o) ==
  LET less == Closed(positions, o) * price[o.sym]
      more == o.qty * price[o.sym] - less
      opens == IsBuy(o) /\ more > 0 /\ positions[o.sym] = 0
  IN [long     |-> IF IsBuy(o) THEN e.long + more ELSE AtLeast(e.long - less, 0),
      short    |-> IF IsBuy(o) THEN AtLeast(e.short - less, 0) ELSE e.short + more,
      count    |-> e.count + IF opens THEN 1 ELSE 0,
      delta    |-> more - less,
      increase |-> more]

\* A correlated symbol is held, or the symbol is too volatile.
Correlated(positions, o) ==
  \E s \in Symbols \ {o.sym} : positions[s] # 0 /\ {s, o.sym} \in monitor.correlated

\* The limits an order would pass, of a book worth equity.
Breaks(positions, equity, o) ==
  LET e == CalculateExposure(positions)
      p == ProjectOrder(e, positions, o)
      base == AtLeast(equity, 1)
      Over(value, limit) == value * 100 > limit * base
  IN {x \in {"gross", "long", "short", "count", "position", "sector", "order", "volatile", "correlated"} :
        CASE x = "gross"      -> Over(p.long + p.short, Limits.gross)
          [] x = "long"       -> Over(p.long, Limits.long)
          [] x = "short"      -> Over(p.short, Limits.short)
          [] x = "count"      -> p.count > Limits.count
          [] x = "position"   -> Over(p.increase, Limits.position)
          [] x = "sector"     -> Over(AtLeast(e.sector[monitor.sector[o.sym]] + p.delta, 0), Limits.sector)
          [] x = "order"      -> Limits.order > 0 /\ o.qty * price[o.sym] > Limits.order
          [] x = "volatile"   -> o.sym \in monitor.volatile
          [] x = "correlated" -> Correlated(positions, o)}

-----------------------------------------------------------------------------
(* calculate_position_size, and the cap of _execute_signal *)

\* Fixed fraction of the equity at risk, within the value of one order.
FixedFraction(equity, p, confidence) ==
  LET risked == (equity * RiskPct * confidence) \div (100 * p * StopPct)
  IN IF equity <= 0 THEN 0 ELSE AtMost(risked, IF Limits.order > 0 THEN Limits.order \div p ELSE risked)

\* Mutant of Capped: the size is not capped by the limit on a position.
Capped_Uncapped(equity, p, qty) == qty
Capped(equity, p, qty) == AtMost(qty, AtLeast((equity * Limits.position) \div (100 * p), 0))

EntrySize(s, confidence, scale) ==
  Capped(snapshot.equity, price[s],
         (FixedFraction(snapshot.equity, price[s], AtLeast(confidence, 5)) * scale) \div 100)

Quantity(s, side, confidence, scale) ==
  IF side \in {"SELL", "BUY_TO_COVER"} THEN Abs(snapshot.held[s]) ELSE EntrySize(s, confidence, scale)

-----------------------------------------------------------------------------
NoVerdict == [order |-> [sym |-> "none", side |-> "none", qty |-> 0], breaks |-> {}, throttled |-> FALSE]

Init ==
  /\ monitor \in Monitors
  /\ bar = 0
  /\ price = [s \in Symbols |-> 0]
  /\ cash = InitialCash /\ held = [s \in Symbols |-> 0]
  /\ snapshot = [held |-> held, equity |-> InitialCash]
  /\ todo = {} /\ lately = {} /\ increases = 0
  /\ verdict = NoVerdict

\* Mutant of Seen: the bar keeps the positions of the one before.
Seen_OfLastBar == snapshot.held
Seen == held

\* A bar brings prices for some symbols; the others keep their last one.  It may
\* come before the interval between two orders of a symbol is over.
BeginBar(here, p, fast) ==
  /\ todo = {} /\ bar < MaxBars
  /\ bar' = bar + 1
  /\ price' = [s \in Symbols |-> IF s \in here THEN p[s] ELSE price[s]]
  /\ snapshot' = [held |-> Seen, equity |-> cash + SumFunction([s \in Symbols |-> held[s] * price'[s]])]
  /\ todo' = here
  /\ lately' = IF fast THEN lately ELSE {}
  /\ increases' = 0 /\ verdict' = NoVerdict
  /\ UNCHANGED <<monitor, cash, held>>

NoSignal(s) ==
  /\ s \in todo
  /\ todo' = todo \ {s}
  /\ verdict' = NoVerdict
  /\ UNCHANGED <<monitor, bar, price, cash, held, snapshot, lately, increases>>

\* A purchase the cash does not cover is rejected by the broker.
Fills(o) ==
  IF IsBuy(o) /\ o.qty * price[o.sym] > cash THEN UNCHANGED <<cash, held>>
  ELSE LET sign == IF IsBuy(o) THEN 1 ELSE -1
       IN /\ held' = [held EXCEPT ![o.sym] = @ + sign * o.qty]
          /\ cash' = cash - sign * o.qty * price[o.sym]

\* _execute_signal: the size, the throttle and the exposure check.  The throttle
\* is set by an order that the check then refuses.
Signal(s, side, confidence, scale) ==
  LET o == [sym |-> s, side |-> side, qty |-> Quantity(s, side, confidence, scale)]
      breaks == Breaks(snapshot.held, snapshot.equity, o)
      approved == s \notin lately /\ breaks = {}
      adds == Closed(snapshot.held, o) < o.qty
  IN /\ s \in todo /\ o.qty > 0
     /\ todo' = todo \ {s}
     /\ verdict' = [order |-> o, breaks |-> breaks, throttled |-> s \in lately]
     /\ lately' = lately \cup {s}
     /\ IF approved THEN Fills(o) ELSE UNCHANGED <<cash, held>>
     /\ increases' = IF adds /\ held' # held THEN increases + 1 ELSE increases
     /\ UNCHANGED <<monitor, bar, price, snapshot>>

Next ==
  \/ \E here \in SUBSET Symbols, fast \in BOOLEAN : \E p \in [here -> Prices] : BeginBar(here, p, fast)
  \/ \E s \in Symbols : NoSignal(s)
  \/ \E s \in Symbols, side \in {"BUY", "SELL", "SELL_SHORT", "BUY_TO_COVER"},
        c \in Confidences, k \in Scales : Signal(s, side, c, k)

Spec == Init /\ [][Next]_vars

-----------------------------------------------------------------------------
(* Properties *)

\* "Project portfolio state after an order executes": long, short and sector
\* values of the projection are those of the positions after the order.
Executed(positions, o) ==
  [positions EXCEPT ![o.sym] = IF IsBuy(o) THEN @ + o.qty ELSE @ - o.qty]

ProjectionIsExact ==
  \A s \in Symbols, side \in {"BUY", "SELL_SHORT"}, q \in 1..3 :
    LET o == [sym |-> s, side |-> side, qty |-> q]
        before == CalculateExposure(held)
        p == ProjectOrder(before, held, o)
        after == CalculateExposure(Executed(held, o))
    IN price[s] > 0 =>
         /\ p.long = after.long /\ p.short = after.short
         /\ before.sector[monitor.sector[s]] + p.delta = after.sector[monitor.sector[s]]

\* All orders of a bar are compared with one snapshot: their sum may pass the
\* limits, but by no more than one position for each order after the first; a
\* bar that approves no entry adds no exposure.
Within(value, before, limit) ==
  value * 100 <= IF increases = 0 THEN before * 100
                 ELSE (limit + (increases - 1) * Limits.position) * AtLeast(snapshot.equity, 1)

OvershootBounded ==
  LET now == CalculateExposure(held)
      before == CalculateExposure(snapshot.held)
  IN bar > 0 =>
       /\ Within(now.long + now.short, before.long + before.short, Limits.gross)
       /\ increases > 0 => now.short <= before.short \/ Within(now.short, before.short, Limits.short)

\* "risk-reducing orders are not penalized": an exit is refused only when the
\* book was beyond that limit before, by the limit on one order, or by the
\* throttle, the volatility and the correlation, which do not look at the side.
\* "Cap by the per-position exposure limit so routine orders pass": an entry is
\* never refused for its own size.
Closes(o) == Closed(snapshot.held, o) = o.qty

OrdersPass ==
  LET o == verdict.order
      e == CalculateExposure(snapshot.held)
      Beyond(value, limit) == value * 100 > limit * AtLeast(snapshot.equity, 1)
  IN o.qty > 0 =>
       /\ Closes(o) =>
            /\ "gross" \in verdict.breaks => Beyond(e.long + e.short, Limits.gross)
            /\ "long" \in verdict.breaks => Beyond(e.long, Limits.long)
            /\ "short" \in verdict.breaks => Beyond(e.short, Limits.short)
            /\ "sector" \in verdict.breaks => Beyond(e.sector[monitor.sector[o.sym]], Limits.sector)
            /\ "count" \in verdict.breaks => e.count > Limits.count
            /\ "position" \notin verdict.breaks
       /\ o.side \in {"BUY", "SELL_SHORT"} => verdict.breaks \cap {"position", "order"} = {}

\* check_order projects an order exactly, and refuses neither an exit for what it
\* adds nor an entry for its own size.
OrderChecked == ProjectionIsExact /\ OrdersPass

=============================================================================
