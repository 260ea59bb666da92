------------------------------- MODULE MCBooks -------------------------------
(* Books for TLC: small values for each of its components.                   *)
EXTENDS Books

CONSTANTS s1, s2

Two == {s1, s2}
One == {s1}

-----------------------------------------------------------------------------
(* The ledger: two contents, two ledgers, a hash that is injective as      *)
(* SHA-256 is taken to be.                                                 *)

MCHash(id, action, prev) == <<id, action, prev>>

-----------------------------------------------------------------------------
(* The paper broker: two symbols and a menu of orders of every side and    *)
(* type; cash for one or two units at a time.                              *)

Asked(sym, side, type, qty, limit, stop) ==
  [sym |-> sym, side |-> side, type |-> type, qty |-> qty, limit |-> limit, stop |-> stop]
Ask(side, type, qty, limit, stop) == Asked(s1, side, type, qty, limit, stop)

Menu ==
  {Ask(side, "MARKET", 1, 0, 0) : side \in {"SELL", "SELL_SHORT", "BUY_TO_COVER"}}
  \cup {Ask("BUY", "MARKET", 2, 0, 0), Ask("SELL", "LIMIT", 2, 2, 0),
        Ask("BUY_TO_COVER", "STOP", 1, 0, 3), Ask("SELL_SHORT", "STOP_LIMIT", 1, 2, 2),
        Asked(s2, "BUY", "LIMIT", 1, 2, 0), Asked(s2, "SELL", "STOP", 2, 0, 2)}

-----------------------------------------------------------------------------
(* The backtest engine: two symbols quoted alike, each with or without a bar. *)

Row(open1, low, high, cap) == [open |-> open1, low |-> low, high |-> high, cap |-> cap]
Bars == {Row(4, 4, 4, 1), Row(4, 2, 4, 4), Row(4, 4, 8, 4), Row(8, 2, 16, 1), Row(2, 2, 2, 0)}
Days == UNION {{[s \in {s1, s2} |-> IF s \in here THEN q ELSE Row(0, 0, 0, 0)] : here \in SUBSET {s1, s2}} : q \in Bars}

-----------------------------------------------------------------------------
(* The honest runner: every strategy with the script that runs it, over a  *)
(* symbol whose bars gap, trend and trade thinly.                          *)

Strategies == INSTANCE SignalStrategy WITH Pct <- 30, MaxHold <- 1, Far <- 100

Scripts == {[profile |-> Strategies!USTrend, multi |-> FALSE]}
  \cup {[profile |-> p, multi |-> TRUE] :
          p \in {Strategies!MetalsTrend, Strategies!USBreakout, Strategies!MetalsMomentum,
                 Strategies!CryptoTrend, Strategies!USMeanReversion, Strategies!CryptoMeanRev}}

Quotes == {[open |-> 4, close |-> 4, cap |-> 1, atr |-> 1],
           [open |-> 4, close |-> 2, cap |-> 4, atr |-> 0],
           [open |-> 2, close |-> 8, cap |-> 2, atr |-> 1]}

-----------------------------------------------------------------------------
(* Exposure: two symbols of one sector or of two, one of them too volatile *)
(* or both correlated; limits that two orders of one bar pass.             *)

MCMonitors ==
  {[sector |-> [s \in {s1, s2} |-> "tech"], volatile |-> {}, correlated |-> {}],
   [sector |-> [s \in {s1, s2} |-> IF s = s1 THEN "tech" ELSE "UNKNOWN"], volatile |-> {s2}, correlated |-> {{s1, s2}}]}
MCLimits == [gross |-> 40, long |-> 35, short |-> 30, sector |-> 35, position |-> 30, count |-> 1, order |-> 50]

-----------------------------------------------------------------------------
(* The hypotheses of the theorems about the cash hold of these values.     *)

ASSUME CostsAreCovered == CommissionIsCovered /\ SalesPayTheFee

=============================================================================
