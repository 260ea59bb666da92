SPECIFICATION Spec
CONSTANTS
  Orders = {o1, o2}
  Threads = {loop}
  Loop = loop
  Qty = 1
  MaxRetries = 1
  MaxOrders = 1
  PassesTransient = FALSE
  CancelIsFinal = TRUE
CHECK_DEADLOCK FALSE
INVARIANT NoneAfterKill
