------------------------------- MODULE MCDesk --------------------------------
(* Desk for TLC: small values for each of its components.                    *)
EXTENDS Desk, TLC

-----------------------------------------------------------------------------
(* Threads of the pool are alike. *)

CallersAlike == Permutations(Callers)

-----------------------------------------------------------------------------
(* The three scripts of the daily sessions over one symbol. *)

Strategies == INSTANCE SignalStrategy

Scripts ==
  {[alpaca |-> TRUE,  breakout |-> FALSE, profile |-> Strategies!USTrend],
   [alpaca |-> FALSE, breakout |-> FALSE, profile |-> Strategies!MetalsTrend],
   [alpaca |-> FALSE, breakout |-> TRUE,  profile |-> Strategies!CryptoTrend]}

-----------------------------------------------------------------------------
(* Three models, two of which share a file. *)

Names == "a:1" :> "a_1" @@ "b:1" :> "b" @@ "b/1" :> "b"
Fleet == DOMAIN Names

-----------------------------------------------------------------------------
(* Indicators of every kind of column, and the two that share one. *)

Shelf ==
  {[kind |-> k, key |-> k] : k \in {"change_in_price", "rsi", "bollinger_bands", "average_true_range", "macd",
                                    "stochastic_oscillator", "mass_index", "kst_oscillator", "ichimoku_cloud"}}
  \cup {[kind |-> "rsi", key |-> "rsi_fast"], [kind |-> "own", key |-> "sma"],
        [kind |-> "ease_of_movement", key |-> "ease"]}

ASSUME DeskHypotheses == KeysDiffer

-----------------------------------------------------------------------------
(* Two symbols whose bars have gaps, and folds of every shape. *)

Both == <<"a", "b">>
Months == {1..10, (1..10) \ {6}, 3..9, (1..10) \ {2, 7, 8}}
Shapes ==
  {[warm |-> w, horizon |-> h, splits |-> s, train |-> 3, test |-> t, embargo |-> 1, holdout |-> 2, samples |-> 3] :
     w \in {0, 1}, h \in {1, 2}, s \in {1, 2, 3}, t \in {1, 2}}

=============================================================================
