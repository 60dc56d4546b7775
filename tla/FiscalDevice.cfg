\* One caller, every crash, failed write and lost answer; a request given up
\* on is gone, the old day is cleared and the clock moves past it.
SPECIFICATION Spec
CONSTANTS
  None = None
  Amounts <- MCAmounts
  MaxAhead = 1
  LateDelivery = FALSE
  ForceClose = TRUE
  KeepsOldDay = FALSE
  ClockMayLag = FALSE
  MaxSigned = 3
  MaxDays = 2
  MaxTime = 3
  MaxFaults = 2
INVARIANTS
  TypeOK
  NoSequencingRed
  InStep
  NoCloseMismatch
  IssuedIsDurable
  RedIsTruthful
PROPERTIES
  ImplementsLedger
\* The application may stop calling: no receipts to sell, the day closed.
CHECK_DEADLOCK FALSE
