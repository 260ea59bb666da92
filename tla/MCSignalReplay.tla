--------------------------- MODULE MCSignalReplay ---------------------------
(* SignalReplay for TLC: two symbols, four rows.                             *)
EXTENDS SignalReplay
=============================================================================
