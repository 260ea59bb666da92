SPECIFICATION FairSpec
CONSTANTS
  Equities <- Calm
  Symbols = {a, b}
  MaxDrawdown = 30
  MaxDailyLoss = 11
  CircuitDrawdown = 10
  LossStreak = 2
  Cooldown = 2
  ResetCooldown = 1
  Readers = {}
  Resets = {}
CHECK_DEADLOCK FALSE
PROPERTY SlotReleased
