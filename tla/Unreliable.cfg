\* Everything the environment can do: requests that arrive after they were
\* given up on, days opened over old state, a clock that lags.
SPECIFICATION FairSpec
CONSTANTS
  None = None
  Amounts = {1}
  MaxAhead = 0
  LateDelivery = TRUE
  ForceClose = TRUE
  KeepsOldDay = TRUE
  ClockMayLag = TRUE
  MaxSigned = 2
  MaxDays = 2
  MaxTime = 2
  MaxFaults = 2
INVARIANT NoGap
PROPERTY PendingIsSettled
CHECK_DEADLOCK FALSE
