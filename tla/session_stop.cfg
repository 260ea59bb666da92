SPECIFICATION Spec
CONSTANTS
  Markets <- Scripts
  Closes = {4, 10}
  Atr = 1
  Lookback = 2
  Lot = 2
  Pct = 30
  MaxHold = 1
  Far = 100
  MaxDays = 3
  MaxSessions = 3
CHECK_DEADLOCK FALSE
INVARIANT CrossSessionStop
