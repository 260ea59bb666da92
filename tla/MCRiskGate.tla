----------------------------- MODULE MCRiskGate -----------------------------
(* RiskGate for TLC: account values around the thresholds.  From a peak of  *)
(* 10, the value 9 reaches the breaker's drawdown, 8 the daily limit of a    *)
(* day that began at 9, and 7 the drawdown limit.                            *)
EXTENDS RiskGate

Values == {7, 8, 9, 10}
Calm == {10}

=============================================================================
