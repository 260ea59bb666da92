SPECIFICATION Spec
CONSTANTS
  Orders = {o1, o2}
  Threads = {loop, op1, op2}
  Loop = loop
  Qty = 2
  MaxRetries = 1
  MaxOrders = 1
  PassesTransient = TRUE
  CancelIsFinal = FALSE
CHECK_DEADLOCK FALSE
SYMMETRY Operators
CONSTRAINT Focus
INVARIANTS TypeOK ActiveBudget PlacedOnce FillReportedOnce FillsAreReal EndsAsTold
PROPERTIES Lifecycle NewsIsKept
