\* A request given up on reaches FDMS afterwards.
SPECIFICATION Spec
CONSTANTS
  None = None
  Amounts <- MCAmounts
  MaxAhead = 1
  LateDelivery = TRUE
  ForceClose = TRUE
  KeepsOldDay = FALSE
  ClockMayLag = FALSE
  MaxSigned = 2
  MaxDays = 1
  MaxTime = 2
  MaxFaults = 2
INVARIANT NoDuplicateNumber
CHECK_DEADLOCK FALSE
