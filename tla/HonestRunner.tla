---------------------------- MODULE HonestRunner ----------------------------
(***************************************************************************)
(* The honest backtest of pyrobot/backtesting/runner.py, and of the older  *)
(* us_strategy_backtest.py: orders of earlier bars fill at the open and    *)
(* are told to the strategy, shorts pay borrow, the account is marked, the *)
(* strategy sees each symbol's bar and its signals become orders.  Spread, *)
(* slippage and impact are one number, commission and fees another.        *)
(* A position carries what its shares cost or brought in.                  *)
(***************************************************************************)
EXTENDS SignalStrategy, Sequences, SequencesExt

CONSTANTS
  Symbols,
  Setups,          \* strategy and script: [profile, multi]
  Rows,            \* rows a symbol may have: [open, close, cap, atr]
  InitialBalance,
  Fraction,        \* max_position_fraction, in percent
  Spread, Fee,
  Borrow,          \* borrow cost per bar, in percent of the notional
  MaxBars          \* bound of the model

NoRow == [open |-> 0, close |-> 0, cap |-> 0, atr |-> 0]

VARIABLES
  setup,      \* the strategy class and the script that runs it
  bar, phase, \* bars begun; "open" or "decide"
  rows,       \* the bar
  queue,      \* pending orders still to be tried in this bar
  pending,    \* orders that wait for the next bar
  undecided,  \* symbols whose on_bar is still to come
  cash,
  position,   \* signed quantity, value, entry_fees
  close,      \* last_close, 0 before the first row
  belief,     \* the strategy's belief, per symbol
  profit,     \* sum of the pnl of the recorded trades
  borrowed,   \* total_borrow_cost
  stray,      \* history: symbols a sale left shares of, or of which a fill without a
              \* side turned the belief the wrong way
  miscounted  \* history: entry fees charged to two trades, less those charged to none

vars == <<setup, bar, phase, rows, queue, pending, undecided, cash, position, close, belief, profit, borrowed, stray, miscounted>>
books == <<cash, position, profit, miscounted>>

-----------------------------------------------------------------------------
NoPosition == [qty |-> 0, value |-> 0, fees |-> 0]
Order(s, side, qty) == [sym |-> s, side |-> side, qty |-> qty]
Abs(n) == IF n < 0 THEN -n ELSE n

Init ==
  /\ setup \in Setups
  /\ bar = 1 /\ phase = "open"
  /\ rows \in [Symbols -> Rows]
  /\ queue = <<>> /\ pending = <<>> /\ undecided = {}
  /\ cash = InitialBalance
  /\ position = [s \in Symbols |-> NoPosition]
  /\ close = [s \in Symbols |-> 0]
  /\ belief = [s \in Symbols |-> NoBelief]
  /\ profit = 0 /\ borrowed = 0 /\ stray = {} /\ miscounted = 0

-----------------------------------------------------------------------------
(* _fill *)

Entry(side) == side \in {"BUY", "SELL_SHORT"}

\* "Entries respect the volume-participation cap; exits complete regardless."
Filled(o, row) == IF Entry(o.side) THEN Lower(o.qty, Higher(row.cap, 1)) ELSE o.qty

\* A sale brings the least price, 0.01, at worst.
FillPrice(side, row) ==
  IF side \in {"BUY", "BUY_TO_COVER"} THEN row.open + Spread ELSE Higher(row.open - Spread, 1)

\* Short of cash, a BUY takes what the cash pays for before fees, and leaves a
\* share when it is an exact multiple.
Paid(qty, price) ==
  IF qty * price + Fee <= cash THEN qty ELSE IF cash <= 0 THEN 0 ELSE (cash - 1) \div price

\* The fill is told; us_strategy_backtest tells no side.
Tell(s, side, price) ==
  belief' = [belief EXCEPT ![s] = IF setup.multi THEN OnOrderFill(setup.profile, @, side, price)
                                  ELSE OnOrderFill(setup.profile, @, "none", 0)]

\* A sale that leaves shares is told as one that does not; a fill without a side
\* turns the belief round also when the account holds shares before and after.
Misled(s, exit, stillHeld) ==
  CASE setup.multi /\ exit /\ stillHeld    -> stray \cup {s}
    [] setup.multi /\ ~(exit /\ stillHeld) -> stray \ {s}
    [] ~setup.multi /\ stillHeld           -> SymDiff(stray, {s})
    [] OTHER                               -> stray

\* The fees the trade that closes the position will bear.  Mutant: those of the
\* last fill only.
FeesAfter_LastFill(p, fee) == fee
FeesAfter(p, fee) == p.fees + fee

\* An entry adds to the position, and what did not fill waits behind the others.
\* The older script charges only the first fill's fees to the trade.
Adds(o, qty, price) ==
  LET p == position[o.sym]
      sign == IF o.side = "BUY" THEN 1 ELSE -1
      counted == IF setup.multi \/ p.qty = 0 THEN Fee ELSE 0
  IN /\ cash' = cash - sign * qty * price - Fee
     /\ position' = [position EXCEPT ![o.sym] =
                       [qty |-> @.qty + sign * qty, value |-> @.value + qty * price, fees |-> FeesAfter(@, counted)]]
     /\ miscounted' = miscounted - (Fee - counted)
     /\ pending' = IF qty < o.qty THEN Append(pending, Order(o.sym, o.side, o.qty - qty)) ELSE pending
     /\ Tell(o.sym, o.side, price)
     /\ stray' = Misled(o.sym, FALSE, p.qty # 0)
     /\ UNCHANGED profit

\* An exit never turns the position round.
Sold(o) == Lower(o.qty, Abs(position[o.sym].qty))

\* An exit records a trade, which bears all entry fees so far; a position that
\* keeps shares keeps them too.  paid: the shares that money changes hands for.
Closes(o, price, paid) ==
  LET p == position[o.sym]
      qty == Sold(o)
      long == p.qty > 0
      value == (p.value * qty) \div Abs(p.qty)
      left == Abs(p.qty) - qty
  IN /\ cash' = cash + (IF long THEN paid * price ELSE -paid * price) - Fee
     /\ profit' = profit + (IF long THEN qty * price - value ELSE value - qty * price) - Fee - p.fees
     /\ position' = [position EXCEPT ![o.sym] =
                       IF left <= 0 THEN NoPosition
                       ELSE [qty |-> IF long THEN left ELSE -left, value |-> p.value - value, fees |-> p.fees]]
     /\ miscounted' = miscounted + (IF left > 0 THEN p.fees ELSE 0)
     /\ stray' = Misled(o.sym, TRUE, left > 0)
     /\ Tell(o.sym, IF long THEN "SELL" ELSE "BUY_TO_COVER", price)
     /\ UNCHANGED pending

Skips == UNCHANGED <<books, pending, belief, stray>>

\* A BUY that meets a short covers it, and pays for what it does not cover too.
FillEntry(o, row) ==
  LET held == position[o.sym].qty
      price == FillPrice(o.side, row)
      qty == IF o.side = "BUY" THEN Paid(Filled(o, row), price) ELSE Filled(o, row)
  IN IF qty <= 0 \/ (o.side = "SELL_SHORT" /\ held > 0) THEN Skips
     ELSE IF o.side = "BUY" /\ held < 0 THEN Closes([o EXCEPT !.qty = qty], price, qty)
     ELSE Adds(o, qty, price)

FillExit(o, row) ==
  LET held == position[o.sym].qty
  IN IF (o.side = "SELL" /\ held > 0) \/ (o.side = "BUY_TO_COVER" /\ held < 0)
     THEN Closes(o, FillPrice(o.side, row), Sold(o)) ELSE Skips

\* One pending order.  Without a row, or at an open of 0, it waits.
Fill ==
  /\ phase = "open" /\ queue # <<>>
  /\ LET o == Head(queue) row == rows[o.sym]
     IN \/ row = NoRow /\ pending' = Append(pending, o) /\ UNCHANGED <<books, belief, stray>>
        \/ row # NoRow /\ Entry(o.side) /\ FillEntry(o, row)
        \/ row # NoRow /\ ~Entry(o.side) /\ FillExit(o, row)
  /\ queue' = Tail(queue)
  /\ UNCHANGED <<setup, bar, phase, rows, undecided, close, borrowed>>

-----------------------------------------------------------------------------
(* The end of the bar. *)

Notional(s, marks) == Abs(position[s].qty) * marks[s]
Carry(marks) ==
  SumFunction([s \in Symbols |-> IF position[s].qty < 0 THEN (Notional(s, marks) * Borrow) \div 100 ELSE 0])

Mark ==
  /\ phase = "open" /\ queue = <<>>
  /\ LET marks == [s \in Symbols |-> IF rows[s] = NoRow THEN close[s] ELSE rows[s].close]
         carry == IF setup.multi THEN Carry(marks) ELSE 0
     IN /\ close' = marks
        /\ cash' = cash - carry
        /\ borrowed' = borrowed + carry
  /\ undecided' = {s \in Symbols : rows[s] # NoRow}
  /\ phase' = "decide"
  /\ UNCHANGED <<setup, bar, rows, queue, pending, position, belief, profit, stray, miscounted>>

Equity == cash + SumFunction([s \in Symbols |-> position[s].qty * close[s]])

Quantity(s) == IF Equity > 0 THEN (Equity * Fraction) \div (100 * close[s]) ELSE 0

\* What a signal orders.  Entries only without a position, exits only with one;
\* the quantity is that of the decision.
Ordered(s, action) ==
  CASE Entry(action) /\ position[s].qty = 0 /\ Quantity(s) > 0 -> <<Order(s, action, Quantity(s))>>
    [] action \in {"SELL", "BUY_TO_COVER"} /\ position[s].qty # 0 ->
         <<Order(s, action, IF action = "SELL" THEN position[s].qty ELSE Abs(position[s].qty))>>
    [] OTHER -> <<>>

Decide(s, view) ==
  /\ phase = "decide" /\ s \in undecided
  /\ LET answer == OnBar(setup.profile, belief[s], rows[s].close, rows[s].atr, view)
     IN /\ belief' = [belief EXCEPT ![s] = answer.belief]
        /\ pending' = pending \o Ordered(s, answer.action)
  /\ undecided' = undecided \ {s}
  /\ UNCHANGED <<setup, bar, phase, rows, queue, books, close, borrowed, stray>>

\* us_strategy_backtest reads a row of every symbol for every bar.
NextBar(r) ==
  /\ phase = "decide" /\ undecided = {} /\ bar < MaxBars
  /\ ~setup.multi => \A s \in Symbols : r[s] # NoRow
  /\ bar' = bar + 1 /\ phase' = "open" /\ rows' = r
  /\ queue' = pending /\ pending' = <<>>
  /\ UNCHANGED <<setup, undecided, books, close, belief, borrowed, stray>>

Next ==
  \/ Fill \/ Mark
  \/ \E s \in Symbols, view \in Views : Decide(s, view)
  \/ \E r \in [Symbols -> Rows \cup {NoRow}] : NextBar(r)

Spec == Init /\ [][Next]_vars

-----------------------------------------------------------------------------
(* Properties *)

\* The report explains the ending balance: trades, borrow and open positions
\* account for the cash, up to the entry fees that a sale of part of a position
\* charges twice and that the older script leaves out for remainders.
TradesExplainCash ==
  cash + SumFunction([s \in Symbols |-> (IF position[s].qty < 0 THEN -position[s].value ELSE position[s].value)
                                           + position[s].fees])
    = InitialBalance + profit - borrowed + miscounted

\* "Never flip a long into a short on one order", "defensive path": a remainder is
\* always tried before the exit that overtakes it, so no entry ever meets a
\* position of the other direction.
NeverFlips ==
  \A i \in DOMAIN queue :
    /\ queue[i].side = "BUY" => position[queue[i].sym].qty >= 0
    /\ queue[i].side = "SELL_SHORT" => position[queue[i].sym].qty <= 0

\* Both: the defensive path that pays for shares it does not cover is not taken.
BalanceIsExplained == TradesExplainCash /\ NeverFlips

\* The strategy knows what the
\* account holds, and in which direction, as long as no sale was overtaken by a
\* remainder of its entry and, in the older script, no remainder was told as a fill.
BeliefMatches ==
  \A s \in Symbols \ stray :
    /\ belief[s].holding = (position[s].qty # 0)
    /\ belief[s].holding => (Long(setup.profile, belief[s]) = (position[s].qty > 0))

\* Once the strategy has seen a bar, a position it believes in whose close is
\* beyond its stop, or whose time is up, is on its way out: an exit of all its
\* shares waits for the next bar.
BreachIsSold ==
  phase = "decide" => \A s \in Symbols :
    rows[s] # NoRow /\ s \notin undecided /\ belief[s].holding /\ position[s].qty # 0
      /\ (StopHit(setup.profile, belief[s], rows[s].close) \/ Expired(setup.profile, belief[s]))
    => Contains(pending, Order(s, IF position[s].qty > 0 THEN "SELL" ELSE "BUY_TO_COVER", Abs(position[s].qty)))

\* Strategy and account stay together: it knows what is held and leaves on time.
StrategyInStep == BeliefMatches /\ BreachIsSold

=============================================================================
