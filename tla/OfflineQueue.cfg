\* One application selling through the queue for one day.
SPECIFICATION FairQueueSpec
CONSTANTS
  None = None
  Amounts = {1}
  MaxAhead = 0
  LateDelivery = FALSE
  ForceClose = TRUE
  KeepsOldDay = FALSE
  ClockMayLag = FALSE
  MaxSigned = 2
  MaxDays = 1
  MaxTime = 1
  MaxFaults = 2
INVARIANTS
  QueueTypeOK
  QueueKeepsSequence
  QueueInStep
  NothingLost
PROPERTY
  DayWaitsForQueue
  QueueDrains
\* The application may stop calling: nothing to sell, the day closed.
CHECK_DEADLOCK FALSE
