SPECIFICATION FairSpec
CONSTANTS
  Equities <- Values
  Symbols = {a, b}
  MaxDrawdown = 30
  MaxDailyLoss = 11
  CircuitDrawdown = 10
  LossStreak = 2
  Cooldown = 2
  ResetCooldown = 1
  Readers = {r1}
  Resets = {"manager", "switch"}
CHECK_DEADLOCK FALSE
INVARIANTS BreakerSound OneTestOrder
PROPERTIES BreachLatches BreakerHalfOpens
