SPECIFICATION FairSpec
CONSTANTS
  Symbols = {s1}
  Actions = {"BUY", "SELL"}
  Lot = 2
  Interval = 2
  MaxPlaced = 3
INVARIANTS ShortsNeedOverlap
PROPERTIES AlarmHasCause DivergenceIsCaught
