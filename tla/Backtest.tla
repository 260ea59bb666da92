------------------------------ MODULE Backtest ------------------------------
(***************************************************************************)
(* BacktestEngine.run of pyrobot/backtesting/engine.py with the fills of   *)
(* cost_model.py.  Each bar: the orders of earlier bars fill at its open,  *)
(* positions are tested against stop and target, the strategy decides.     *)
(* Spread, slippage and impact are one number, Spread; the commission is   *)
(* flat.  A position carries what was paid for it, not the price per share.*)
(***************************************************************************)
EXTENDS Integers, Sequences, SequencesExt

CONSTANTS
  Symbols,
  Markets,         \* bars the data may hold: per symbol a row, or NoRow
  InitialBalance,
  Fraction,        \* position_size_fraction, in percent
  Spread,          \* what a fill is worse than the price it is made at
  Fee,             \* commission of a fill
  Stop, Target,    \* stop_loss_pct and take_profit_pct, in percent
  MaxBars          \* bound of the model: bars in the data

\* The symbol has no bar at this time.
NoRow == [open |-> 0, low |-> 0, high |-> 0, cap |-> 0]

VARIABLES
  bar,       \* bars begun
  phase,     \* "open", "exits" or "decide": what is next in the bar
  market,    \* the rows of the bar
  queue,     \* pending orders the bar has still to fill
  pending,   \* orders that wait for the next bar
  unchecked, \* symbols whose exits are still to be tested
  cash,
  position,  \* per symbol: quantity, paid, fees, bar of entry
  profit,    \* sum of the pnl of the recorded trades
  dropped    \* history: what was paid for shares that left without a sale

vars == <<bar, phase, market, queue, pending, unchecked, cash, position, profit, dropped>>

-----------------------------------------------------------------------------
NoPosition == [qty |-> 0, paid |-> 0, fees |-> 0, entry |-> 0]
Held == {s \in Symbols : position[s].qty > 0}

\* An order of quantity 0 is sized when it fills.
Buy(s, qty) == [sym |-> s, side |-> "BUY", qty |-> qty]
Sell(s) == [sym |-> s, side |-> "SELL", qty |-> position[s].qty]

AtLeast(n, m) == IF n < m THEN m ELSE n
AtMost(n, m) == IF n > m THEN m ELSE n

Init ==
  /\ bar = 1 /\ phase = "open"
  /\ market \in Markets
  /\ queue = <<>> /\ pending = <<>> /\ unchecked = {}
  /\ cash = InitialBalance
  /\ position = [s \in Symbols |-> NoPosition]
  /\ profit = 0 /\ dropped = 0

-----------------------------------------------------------------------------
(* Fills at the open. *)

\* What the order asks for: a new one takes its fraction of cash and costs.
Wanted(o, row) ==
  IF o.qty > 0 THEN o.qty
  ELSE ((cash + SumFunction([s \in Symbols |-> position[s].paid])) * Fraction) \div (100 * row.open)

\* The volume of the bar bounds an entry; no fill is below one share.
Fillable(qty, row) == AtMost(qty, AtLeast(row.cap, 1))

\* Mutant of Afforded: the fee is not looked at when the cash is short.
Afforded_Full(qty, price) == qty

\* What the cash pays for.  Short of cash, the price is all that is counted,
\* and a share is left out when the cash is an exact multiple of it.
Afforded(qty, price) ==
  IF qty * price + Fee <= cash THEN qty ELSE IF cash <= 0 THEN 0 ELSE (cash - 1) \div price

Bought(s, qty, price) ==
  LET p == position[s]
  IN [qty |-> p.qty + qty, paid |-> p.paid + qty * price, fees |-> p.fees + Fee,
      entry |-> IF p.qty = 0 THEN bar ELSE p.entry]

\* The part of an entry that did not fill waits for another bar.
Remainder(o, left) == IF left > 0 THEN <<Buy(o.sym, left)>> ELSE <<>>

\* A BUY that asks for nothing, or finds no cash, is forgotten.
FillsBuy(o, row) ==
  LET want == Wanted(o, row)
      price == row.open + Spread
      qty == IF want <= 0 THEN 0 ELSE Afforded(Fillable(want, row), price)
  IN IF qty <= 0
     THEN UNCHANGED <<cash, position, pending>>
     ELSE /\ cash' = cash - qty * price - Fee
          /\ position' = [position EXCEPT ![o.sym] = Bought(o.sym, qty, price)]
          /\ pending' = pending \o Remainder(o, want - qty)

\* A sale: the trade is recorded with the pnl of the shares it sold, and the
\* position is deleted whatever it still holds.
Closes(s, qty, proceeds) ==
  LET p == position[s]
      cost == (p.paid * qty) \div p.qty
  IN /\ cash' = cash + proceeds - Fee
     /\ profit' = profit + proceeds - cost - Fee - p.fees
     /\ dropped' = dropped + p.paid - cost
     /\ position' = [position EXCEPT ![s] = NoPosition]

FillsSell(o, row) ==
  /\ UNCHANGED pending
  /\ IF o.sym \in Held
     THEN LET qty == AtMost(o.qty, position[o.sym].qty) IN Closes(o.sym, qty, qty * AtLeast(row.open - Spread, 0))
     ELSE UNCHANGED <<cash, position, profit, dropped>>

Fill ==
  /\ phase = "open" /\ queue # <<>>
  /\ LET o == Head(queue) row == market[o.sym]
     IN \/ /\ row = NoRow
           /\ pending' = Append(pending, o)
           /\ UNCHANGED <<cash, position, profit, dropped>>
        \/ row # NoRow /\ o.side = "BUY" /\ FillsBuy(o, row) /\ UNCHANGED <<profit, dropped>>
        \/ row # NoRow /\ o.side = "SELL" /\ FillsSell(o, row)
  /\ queue' = Tail(queue)
  /\ UNCHANGED <<bar, phase, market, unchecked>>

-----------------------------------------------------------------------------
(* Stop and target, for entries of this bar too. *)

\* Mutant of Exposed: a position of this bar is not tested.
Exposed_Later == {s \in Held : market[s] # NoRow /\ position[s].entry < bar}
Exposed == {s \in Held : market[s] # NoRow}

BeginExits ==
  /\ phase = "open" /\ queue = <<>>
  /\ phase' = "exits"
  /\ unchecked' = Exposed
  /\ UNCHANGED <<bar, market, queue, pending, cash, position, profit, dropped>>

StopHit(s) == market[s].low * position[s].qty * 100 <= position[s].paid * (100 - Stop)
TargetHit(s) == market[s].high * position[s].qty * 100 >= position[s].paid * (100 + Target)

\* What the shares fetch at the barrier, or at an open beyond it for a position
\* of an earlier bar.
AtStop(s) ==
  LET level == (position[s].paid * (100 - Stop)) \div 100
  IN IF position[s].entry = bar THEN level ELSE AtMost(level, market[s].open * position[s].qty)
AtTarget(s) ==
  LET level == (position[s].paid * (100 + Target)) \div 100
  IN IF position[s].entry = bar THEN level ELSE AtLeast(level, market[s].open * position[s].qty)

\* The stop comes first when the bar touches both.
Leaves(s, value) == Closes(s, position[s].qty, AtLeast(value - Spread * position[s].qty, 0))

CheckExit(s) ==
  /\ phase = "exits" /\ s \in unchecked
  /\ unchecked' = unchecked \ {s}
  /\ \/ StopHit(s) /\ Leaves(s, AtStop(s))
     \/ ~StopHit(s) /\ TargetHit(s) /\ Leaves(s, AtTarget(s))
     \/ ~StopHit(s) /\ ~TargetHit(s) /\ UNCHANGED <<cash, position, profit, dropped>>
  /\ UNCHANGED <<bar, phase, market, queue, pending>>

EndExits ==
  /\ phase = "exits" /\ unchecked = {}
  /\ phase' = "decide"
  /\ UNCHANGED <<bar, market, queue, pending, unchecked, cash, position, profit, dropped>>

-----------------------------------------------------------------------------
(* The decision and the next bar. *)

Decided(signal) ==
  CASE signal = "buy"  -> {Buy(s, 0) : s \in Symbols \ Held}
    [] signal = "sell" -> {Sell(s) : s \in Held}
    [] signal = "none" -> {}

\* The strategy has seen the bars so far; its orders wait behind the pending.
Decide(signal, rows) ==
  /\ phase = "decide" /\ bar < MaxBars
  /\ queue' = pending \o SetToSeq(Decided(signal))
  /\ bar' = bar + 1 /\ phase' = "open"
  /\ market' = rows
  /\ pending' = <<>>
  /\ UNCHANGED <<unchecked, cash, position, profit, dropped>>

Next ==
  \/ Fill \/ BeginExits \/ EndExits
  \/ \E s \in Symbols : CheckExit(s)
  \/ \E signal \in {"buy", "sell", "none"}, rows \in Markets : Decide(signal, rows)

Spec == Init /\ [][Next]_vars

-----------------------------------------------------------------------------
(* Properties *)

\* The trades explain the cash: what is left is the balance, the profit of the
\* recorded trades and the cost of what is held, less what a sale dropped.
TradesExplainCash ==
  cash + dropped + SumFunction([s \in Symbols |-> position[s].paid + position[s].fees])
    = InitialBalance + profit

\* An account without credit: entries of several symbols and remainders spend at
\* most the fee of one fill that the reduction to the cash does not count.
OverdraftIsOneFee == cash >= -Fee

\* Both: the report's trades explain the cash, and the cash pays for them.
CashIsExplained == TradesExplainCash /\ OverdraftIsOneFee

\* "Intrabar exit checks against OHLC (after entries at this bar's open)": when
\* the strategy decides, it holds nothing whose bar touched the stop.
StopProtects ==
  phase = "decide" => \A s \in Held : market[s] # NoRow => ~StopHit(s)

=============================================================================
