SPECIFICATION Spec
CONSTANTS
  Universe <- Listing
  Calendars <- Months
  Geometries <- Shapes
CHECK_DEADLOCK FALSE
INVARIANT PricesAligned
