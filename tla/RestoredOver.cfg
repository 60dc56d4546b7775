\* The README: it "never issues a duplicate or skips a number", and the CLI and the
\* MCP server reconcile on every command.
SPECIFICATION ProfileSpec
CONSTANTS
  None = None
  Amounts <- MCAmounts
  MaxAhead = 0
  LateDelivery = FALSE
  ForceClose = FALSE
  KeepsOldDay = TRUE
  ClockMayLag = FALSE
  MaxSigned = 2
  MaxDays = 1
  MaxTime = 2
  MaxFaults = 1
INVARIANT
  NoDuplicateNumber
