\* Two seats whose keyboards come and go.
SPECIFICATION Spec
CONSTANTS
  Seats = {"seat0", "seat1"}
  None = None
  Keys = {"a", "b"}
  Rates <- SomeRates
  Delay = 600
  MaxChanges = 3
INVARIANTS RepeatJustified
PROPERTIES ReleaseStops
CHECK_DEADLOCK FALSE
