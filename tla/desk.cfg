SPECIFICATION DeskSpec
CONSTANTS
  \* Console
  Callers = {c1, c2}
  Fields = {"x", "y"}
  Values = {"a", "b"}
  Bounded = {"a"}
  LiveAllowed = TRUE
  MaxStarts = 2
  MaxEdits = 2
  \* PaperSession
  Markets <- Scripts
  Closes = {4, 10}
  Atr = 1
  Lookback = 2
  Lot = 2
  Pct = 30
  MaxHold = 1
  Far = 100
  MaxDays = 3
  MaxSessions = 3
  \* ModelRegistry
  Models <- Fleet
  FileOf <- Names
  MaxFits = 3
  MaxOps = 4
  \* Trade
  Prices = {10, 12}
  Sizes = {1}
  Quantities = {1, 2}
  Venue = {"QUEUED", "FILLED", "REJECTED"}
  Final = {"FILLED", "REJECTED"}
  MaxChildren = 2
  MaxCalls = 3
  \* Robot
  Tickers = {"a", "b"}
  RobotCalls = 2
  \* Indicators
  Catalogue <- Shelf
  Ruled = {"change_in_price", "rsi"}
  MaxRevisions = 3
  MaxRules = 1
  MaxIndicators = 3
  \* Training
  Universe <- Both
  Calendars <- Months
  Geometries <- Shapes
  \* SignalReplay
  MaxRows = 4
SYMMETRY CallersAlike
CHECK_DEADLOCK FALSE
INVARIANTS OnePosition SessionKnows OperatorHeeded EditsKept RegistrySound TradeSound RecordsKept RefreshedColumns FoldsSound ReplayMirrors
