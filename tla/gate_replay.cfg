SPECIFICATION Spec
CONSTANTS
  Symbols = {"a", "b"}
  MaxRows = 4
CHECK_DEADLOCK FALSE
INVARIANT LongWhereSignalled
