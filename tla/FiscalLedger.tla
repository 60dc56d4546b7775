----------------------------- MODULE FiscalLedger -----------------------------
(***************************************************************************)
(* What the SDK promises about receipt numbers: every signed receipt       *)
(* enters the tax authority's ledger at most once, numbered one after      *)
(* another and chained by hash within a day; one receipt at a time may be  *)
(* unresolved; and when none is, what the device remembers as issued is    *)
(* exactly what the ledger holds - no duplicate and no gap.                *)
(***************************************************************************)
EXTENDS Integers, Sequences

CONSTANTS Hashes,  \* what a receipt is chained by
          NoHash   \* what the first receipt of a day carries instead

VARIABLES
  ledger,    \* the entries, in order
  firstOfDay,\* no receipt has been entered since the day was opened
  pending,   \* the unresolved receipts: none or one
  issued     \* the highest number the device remembers as entered

vars == <<ledger, firstOfDay, pending, issued>>

\* The entry with hash h that would follow the ledger's last one.
NextEntry(h) ==
  [number |-> Len(ledger) + 1,
   previous |-> IF firstOfDay THEN NoHash ELSE ledger[Len(ledger)].hash,
   hash |-> h]

Init ==
  /\ ledger = <<>>
  /\ firstOfDay = TRUE
  /\ pending = {}
  /\ issued = 0

\* The device signs a receipt.
Sign ==
  /\ pending = {}
  /\ \E h \in Hashes : pending' = {NextEntry(h)}
  /\ UNCHANGED <<ledger, firstOfDay, issued>>

\* The ledger takes the unresolved receipt, once.
Enter ==
  /\ \E h \in Hashes : NextEntry(h) \in pending /\ ledger' = Append(ledger, NextEntry(h))
  /\ firstOfDay' = FALSE
  /\ UNCHANGED <<pending, issued>>

\* The device notes durably that the unresolved receipt was entered.
Note ==
  /\ \E r \in pending : r.number = Len(ledger) /\ issued' = r.number
  /\ UNCHANGED <<ledger, firstOfDay, pending>>

\* The receipt is resolved: entered and noted, or refused and never entered.
Resolve ==
  /\ issued = Len(ledger)
  /\ pending' = {}
  /\ UNCHANGED <<ledger, firstOfDay, issued>>

\* A new day starts a new chain; numbers go on.
NewDay ==
  /\ pending = {}
  /\ firstOfDay' = TRUE
  /\ UNCHANGED <<ledger, pending, issued>>

Next == Sign \/ Enter \/ Note \/ Resolve \/ NewDay

Spec == Init /\ [][Next]_vars

=============================================================================
