\* closeDay is never forced.
SPECIFICATION Spec
CONSTANTS
  None = None
  Amounts <- MCAmounts
  MaxAhead = 1
  LateDelivery = FALSE
  ForceClose = FALSE
  KeepsOldDay = FALSE
  ClockMayLag = FALSE
  MaxSigned = 2
  MaxDays = 1
  MaxTime = 2
  MaxFaults = 2
INVARIANT RefusesRedUpFront
CHECK_DEADLOCK FALSE
