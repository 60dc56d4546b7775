\* Torn appends and crashes; compact() runs on an idle queue and is not
\* interrupted, and nothing is appended after a torn line.
SPECIFICATION Spec
CONSTANTS
  Nothing = Nothing
  Torn = Torn
  Garbage = Garbage
  DiesInCompact = FALSE
  CompactsLive = FALSE
  AppendsToTail = FALSE
  MaxIssued = 5
  MaxCrashes = 3
INVARIANTS
  TypeOK
  ListMatchesLog
  Readable
PROPERTY
  ImplementsJournalLog
\* The appends run out.
CHECK_DEADLOCK FALSE
