\* The commands of one profile over two fiscal days.
SPECIFICATION FairProfileSpec
CONSTANTS
  None = None
  Amounts <- MCAmounts
  MaxAhead = 0
  LateDelivery = FALSE
  ForceClose = FALSE
  KeepsOldDay = TRUE
  ClockMayLag = FALSE
  MaxSigned = 2
  MaxDays = 2
  MaxTime = 2
  MaxFaults = 2
INVARIANTS
  ProfileTypeOK
  CommandsKeepSequence
  ProfileInStep
PROPERTY
  ServerCountersMatch
  DayKeptUntilClosed
  CommandsImplementLedger
  DayIsClosed
  ProfileIsRepaired
