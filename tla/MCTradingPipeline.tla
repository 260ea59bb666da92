-------------------------- MODULE MCTradingPipeline -------------------------
(* TradingPipeline for TLC: a long-only strategy in a symbol whose account   *)
(* holds a lot of two or nothing, a reconciliation every second bar, and two *)
(* new orders at the broker: the exit and the exit that is sent again.       *)
EXTENDS TradingPipeline

=============================================================================
