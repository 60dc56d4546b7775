\* A sale journaled by a process that died, and a day opened after it.
SPECIFICATION QueueSpec
CONSTANTS
  None = None
  Amounts = {1}
  MaxAhead = 0
  LateDelivery = FALSE
  ForceClose = TRUE
  KeepsOldDay = FALSE
  ClockMayLag = FALSE
  MaxSigned = 2
  MaxDays = 2
  MaxTime = 2
  MaxFaults = 1
INVARIANT JournaledNumberNotReused
\* The application may stop calling: nothing to sell, the day closed.
CHECK_DEADLOCK FALSE
