--------------------------- MODULE MCPaperSession ---------------------------
(* PaperSession for TLC: the three scripts over one symbol.                 *)
EXTENDS PaperSession

Scripts == {[alpaca |-> TRUE,  breakout |-> FALSE, profile |-> USTrend],
            [alpaca |-> FALSE, breakout |-> FALSE, profile |-> MetalsTrend],
            [alpaca |-> FALSE, breakout |-> TRUE,  profile |-> CryptoTrend]}

=============================================================================
