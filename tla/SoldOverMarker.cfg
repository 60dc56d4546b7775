\* A receipt is queued while an earlier submit is unresolved.
SPECIFICATION QueueSpec
CONSTANTS
  None = None
  Amounts = {1}
  MaxAhead = 0
  LateDelivery = FALSE
  ForceClose = TRUE
  KeepsOldDay = FALSE
  ClockMayLag = FALSE
  MaxSigned = 2
  MaxDays = 1
  MaxTime = 1
  MaxFaults = 2
INVARIANT UnresolvedNumberNotReused
CHECK_DEADLOCK FALSE
