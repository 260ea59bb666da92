SPECIFICATION FairSpec
CONSTANTS
  Callers = {c1, c2}
  MaxLoops = 2
CHECK_DEADLOCK FALSE
INVARIANTS RunningIsLive
PROPERTIES PausedIsQuiet StopEndsLoop RequestsEnd
