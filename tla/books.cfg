SPECIFICATION BooksSpec
CONSTANTS
  s1 = s1
  s2 = s2
  \* the two backtesters, where they agree
  InitialBalance = 20
  Spread = 1
  Fee = 1
  Symbols <- Two
  \* AuditLedger
  Ledgers = {l1, l2}
  Actions = {a1, a2}
  Hash <- MCHash
  Genesis = GENESIS
  MaxEvents = 3
  \* PaperBroker
  PaperSymbols <- Two
  PaperPrices = {1, 3}
  Requests <- Menu
  PaperCash = 3
  Commission = 1
  MaxPlaced = 3
  \* Backtest
  Markets <- Days
  Fraction = 95
  Stop = 25
  Target = 50
  MaxBars = 4
  \* HonestRunner
  RunnerSymbols <- One
  Setups <- Scripts
  Rows <- Quotes
  RunnerFraction = 60
  Borrow = 10
  RunnerBars = 6
  Pct = 30
  MaxHold = 1
  Far = 100
  \* Exposure
  Prices = {5, 10}
  Monitors <- MCMonitors
  Limits <- MCLimits
  RiskPct = 1
  StopPct = 2
  Confidences = {50, 100}
  Scales = {100}
  RiskCash = 100
  RiskBars = 3
CHECK_DEADLOCK FALSE
INVARIANTS IntactUnlessHarmed NothingMissing AccountSound CashIsExplained StopProtects BalanceIsExplained StrategyInStep OrderChecked OvershootBounded
PROPERTY FillsAreNeutral
