\* The answer to OpenDay can be lost.
SPECIFICATION Spec
CONSTANTS
  None = None
  Amounts <- MCAmounts
  MaxAhead = 1
  LateDelivery = FALSE
  ForceClose = TRUE
  KeepsOldDay = FALSE
  ClockMayLag = FALSE
  MaxSigned = 2
  MaxDays = 1
  MaxTime = 3
  MaxFaults = 2
INVARIANT Resumable
CHECK_DEADLOCK FALSE
