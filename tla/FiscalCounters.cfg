\* Two receipts of a day, begun under either version.
SPECIFICATION DaySpec
CONSTANTS
  None = None
  TaxTable = {1, 2, 3}
  MaxSafe = 1000000
  ShortTies <- MCShortTies
  Scales = {1, 10, 100, 1000, 100000}
  Precision = 10000
  Inputs <- MCInputs
  MaxReceipts = 2
INVARIANTS
  CountersTypeOK
  SignedAsWritten
  TaxIsExact
  CreditsCancel
  TotalsAddUp
  CountersBalance
  SignedAsFdmsCounts
  OrderDoesNotMatter
\* The day is full.
CHECK_DEADLOCK FALSE
