--------------------------- MODULE SignalStrategy ---------------------------
(***************************************************************************)
(* The seven rule-based strategies of pyrobot/strategies.  Each keeps, per *)
(* symbol, a belief about its position: whether and in which direction it  *)
(* holds, since when, from which price, and the best close since.  Fills,  *)
(* bars and a snapshot of the account change the belief; a bar also gives  *)
(* a signal.  Indicators are a view the market takes of the symbol: "up"   *)
(* and "down" meet the entry conditions, "out" the exit condition that is  *)
(* no stop.                                                                *)
(***************************************************************************)
EXTENDS Integers

CONSTANTS
  Pct,       \* trailing_stop_pct and stop_loss_pct, in percent
  MaxHold,   \* max_holding_days
  Far        \* above every price: float("inf")

(***************************************************************************)
(* How a strategy protects its position, and what else it does.            *)
(*   "trail"   : percent of the best close since entry                     *)
(*   "peak"    : the same, the best close counted from the signal          *)
(*   "ratchet" : width times the ATR from the best close, never loosened   *)
(*   "fixed"   : percent of the entry price                                *)
(* clock: has a time stop.  leaves: has an exit by indicators.             *)
(***************************************************************************)
USTrend         == [rule |-> "trail",   width |-> 0, shorts |-> FALSE, clock |-> FALSE, leaves |-> TRUE]
MetalsTrend     == [rule |-> "trail",   width |-> 0, shorts |-> TRUE,  clock |-> FALSE, leaves |-> TRUE]
USBreakout      == [rule |-> "peak",    width |-> 0, shorts |-> TRUE,  clock |-> TRUE,  leaves |-> FALSE]
MetalsMomentum  == [rule |-> "ratchet", width |-> 2, shorts |-> TRUE,  clock |-> TRUE,  leaves |-> FALSE]
CryptoTrend     == [rule |-> "ratchet", width |-> 3, shorts |-> TRUE,  clock |-> TRUE,  leaves |-> FALSE]
USMeanReversion == [rule |-> "fixed",   width |-> 0, shorts |-> TRUE,  clock |-> TRUE,  leaves |-> TRUE]
CryptoMeanRev   == [rule |-> "fixed",   width |-> 0, shorts |-> TRUE,  clock |-> TRUE,  leaves |-> TRUE]

Views == {"none", "up", "down", "out"}

\* A missing price is 0, a missing low or short stop is Far: max and min then do
\* what the code does with a missing key.
NoBelief == [holding |-> FALSE, dir |-> "flat", age |-> 0, entry |-> 0,
             high |-> 0, low |-> Far, floor |-> 0, ceiling |-> Far]

Higher(a, b) == IF a < b THEN b ELSE a
Lower(a, b) == IF a < b THEN a ELSE b

-----------------------------------------------------------------------------
(* on_order_fill *)

\* An exit fill forgets everything.
Flattened(b) == NoBelief

Direction(side, old) == CASE side = "BUY" -> "long" [] side = "SELL_SHORT" -> "short" [] OTHER -> old

\* An entry fill, of a remainder too, restarts the time stop.
Opened(b, side) == [b EXCEPT !.holding = TRUE, !.dir = Direction(side, @), !.age = 0]

\* "the strategy records it so risk stops measure from the true entry cost"
Anchored(b, price) == [b EXCEPT !.entry = IF price > 0 THEN price ELSE @]

\* The ratchet starts again from the price of the last fill.
Unratcheted(b) == [b EXCEPT !.high = 0, !.low = Far, !.floor = 0, !.ceiling = Far]

Entered(p, b, side, price) ==
  CASE p.rule = "ratchet" -> Unratcheted(Anchored(Opened(b, side), price))
    [] p.rule = "fixed"   -> Anchored(Opened(b, side), price)
    [] OTHER              -> Opened(b, side)

\* Mutant of OnOrderFill: a cover counts as a purchase.
OnOrderFill_CoverEnters(p, b, side, price) ==
  IF side \in {"BUY", "BUY_TO_COVER", "SELL_SHORT"} \/ (side = "none" /\ ~b.holding)
  THEN Entered(p, b, side, price) ELSE Flattened(b)

\* The sides that enter; the long-only strategy reads a cover as a purchase and a
\* short sale as an exit.
Entries(p) == IF p.shorts THEN {"BUY", "SELL_SHORT"} ELSE {"BUY", "BUY_TO_COVER"}

\* A fill without a side turns the belief round.
OnOrderFill(p, b, side, price) ==
  IF side \in Entries(p) \/ (side = "none" /\ ~b.holding)
  THEN Entered(p, b, side, price) ELSE Flattened(b)

-----------------------------------------------------------------------------
(* sync_positions: the account's quantity, which carries no price. *)

Synced(p, b, qty) ==
  LET held == [b EXCEPT !.holding = TRUE, !.dir = IF qty > 0 THEN "long" ELSE "short", !.age = 0]
  IN CASE qty = 0 \/ (qty < 0 /\ ~p.shorts) -> Flattened(b)
       [] qty # 0 /\ p.rule = "ratchet"     -> Unratcheted(held)
       [] p.rule = "peak" /\ qty > 0        -> [held EXCEPT !.high = 0]
       [] p.rule = "peak" /\ qty < 0        -> [held EXCEPT !.low = Far]
       [] OTHER                             -> held

-----------------------------------------------------------------------------
(* _evaluate *)

\* USTrend keeps no direction.
Long(p, b) == b.dir = "long" \/ ~p.shorts

\* The best close since the entry, for the direction held.
Trailed(p, b, close) ==
  IF Long(p, b) THEN [b EXCEPT !.high = Higher(@, close)] ELSE [b EXCEPT !.low = Lower(@, close)]

\* Without an entry price the close stands for it.
Anchor(b, close) == IF b.entry = 0 THEN close ELSE b.entry

Ratcheted(p, b, close, atr) ==
  LET high == IF b.high = 0 THEN Higher(Anchor(b, close), close) ELSE Higher(b.high, close)
      low == IF b.low = Far THEN Lower(Anchor(b, close), close) ELSE Lower(b.low, close)
  IN IF Long(p, b)
     THEN [b EXCEPT !.high = high, !.floor = Higher(@, high - p.width * atr)]
     ELSE [b EXCEPT !.low = low, !.ceiling = Lower(@, low + p.width * atr)]

\* A strategy that looks at its clock first leaves the extremes alone.
Expired(p, b) == p.clock /\ b.age > MaxHold

Tracked(p, b, close, atr) ==
  CASE p.rule = "trail"                      -> Trailed(p, b, close)
    [] p.rule = "peak" /\ ~Expired(p, b)     -> Trailed(p, b, close)
    [] p.rule = "ratchet" /\ ~Expired(p, b)  -> Ratcheted(p, b, close, atr)
    [] OTHER                                 -> b

\* The close is beyond the protective stop.
StopHit(p, b, close) ==
  CASE p.rule = "ratchet" -> IF Long(p, b) THEN close < b.floor ELSE close > b.ceiling
    [] p.rule = "fixed"   ->
         /\ b.entry > 0
         /\ \/ b.dir = "long"  /\ close * 100 <= b.entry * (100 - Pct)
            \/ b.dir = "short" /\ close * 100 >= b.entry * (100 + Pct)
    [] OTHER -> IF Long(p, b) THEN close * 100 < b.high * (100 - Pct)
                ELSE close * 100 > b.low * (100 + Pct)

\* What an entry signal notes before any fill.
Noted(p, b, dir, close) ==
  CASE p.rule \in {"ratchet", "fixed"}   -> [b EXCEPT !.dir = dir, !.entry = close]
    [] p.rule = "peak" /\ dir = "long"   -> [b EXCEPT !.dir = dir, !.high = close]
    [] p.rule = "peak" /\ dir = "short"  -> [b EXCEPT !.dir = dir, !.low = close]
    [] OTHER                             -> [b EXCEPT !.dir = dir]

Closing(p, b) == IF Long(p, b) THEN "SELL" ELSE "BUY_TO_COVER"

Answer(b, action) == [belief |-> b, action |-> action]

\* on_bar with the history complete.
OnBar(p, b, close, atr, view) ==
  IF b.holding
  THEN LET aged == [b EXCEPT !.age = IF p.clock THEN @ + 1 ELSE 0]
           now == Tracked(p, aged, close, atr)
       IN Answer(now, IF Expired(p, now) \/ StopHit(p, now, close) \/ (p.leaves /\ view = "out")
                      THEN Closing(p, now) ELSE "HOLD")
  ELSE CASE view = "up" -> Answer(Noted(p, b, "long", close), "BUY")
         [] view = "down" /\ p.shorts -> Answer(Noted(p, b, "short", close), "SELL_SHORT")
         [] OTHER -> Answer(b, "HOLD")

=============================================================================
