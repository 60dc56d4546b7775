-------------------------------- MODULE Fdms --------------------------------
(***************************************************************************)
(* ZIMRA's Fiscal Device Management System as one registered device sees   *)
(* it, after the local FDMS of src/src/simulator/server.ts: a fiscal day   *)
(* that is opened, filled with receipts and closed asynchronously, and the *)
(* validation that colours a receipt Red.  FDMS records a receipt whatever *)
(* its colour; a day that holds a Red one cannot be closed by the device.  *)
(*                                                                         *)
(* A receipt's lines, taxes and payments are abstracted to one amount, the *)
(* fiscal counters of a day to the sum of its amounts, a receipt's hash to *)
(* a serial number that no two signings share (0 stands for no hash), and  *)
(* a receiptDate to a positive number of seconds (0 stands for no date).   *)
(***************************************************************************)
EXTENDS Integers, Sequences, FiniteSetsExt

Statuses == {"FiscalDayClosed", "FiscalDayOpened", "FiscalDayCloseInitiated"}

\* What the device's bookkeeping (numbers, hash chain, dates) can get wrong.
SequencingCodes == {"RCPT010", "RCPT011", "RCPT012", "RCPT030"}

\* RCPT013 (a tax ID outside the device's tax table) stands for the Red
\* errors of a receipt's contents.
RedCodes == SequencingCodes \cup {"RCPT013"}

ClosingErrors ==
  {"None", "BadCertificateSignature", "ReceiptsWithValidationErrors", "CountersMismatch"}

Receipt == [globalNo : Nat, counter : Nat, date : Nat, amount : Int,
            previousHash : Nat, hash : Nat, badTax : BOOLEAN]

Recorded == [receipt : Receipt, errors : SUBSET RedCodes]

SubmitRequest == [endpoint : {"SubmitReceipt"}, receipt : Receipt]
OpenRequest   == [endpoint : {"OpenDay"}]
CloseRequest  == [endpoint : {"CloseDay"}, fiscalDayNo : Nat, counter : Nat, total : Int]
Request       == SubmitRequest \cup OpenRequest \cup CloseRequest

\* `red` says that validationErrors holds a Red one, `fiscalDayNo` is
\* OpenDay's answer; ok = FALSE is a definite refusal (a 4xx).
Answer == [ok : BOOLEAN, red : BOOLEAN, fiscalDayNo : Nat]

VARIABLES
  status,           \* device.status
  fiscalDayNo,      \* fiscalDayNo of the last day, 0 before the first
  receipts,         \* the receipts of all the days, in the order recorded
  dayStart,         \* how many of them belong to earlier days
  dayTotal,         \* the last day's counters
  closingErrorCode  \* how the last CloseDay settles; "None" closes the day

fdmsVars == <<status, fiscalDayNo, receipts, dayStart, dayTotal, closingErrorCode>>

FdmsTypeOK ==
  /\ status \in Statuses
  /\ fiscalDayNo \in Nat
  /\ receipts \in Seq(Recorded)
  /\ dayStart \in 0..Len(receipts)
  /\ dayTotal \in Int
  /\ closingErrorCode \in ClosingErrors

FdmsInit ==
  /\ status = "FiscalDayClosed"
  /\ fiscalDayNo = 0
  /\ receipts = <<>>
  /\ dayStart = 0
  /\ dayTotal = 0
  /\ closingErrorCode = "None"

-----------------------------------------------------------------------------
(* What FDMS derives from its receipts.                                    *)

ReceiptAt(i) == receipts[i].receipt

GlobalNos == {ReceiptAt(i).globalNo : i \in DOMAIN receipts}

HighestGlobalNo == Max(GlobalNos \cup {0})

DayReceiptCount == Len(receipts) - dayStart

LastHash == IF DayReceiptCount = 0 THEN 0 ELSE ReceiptAt(Len(receipts)).hash

LastDate == IF DayReceiptCount = 0 THEN 0 ELSE ReceiptAt(Len(receipts)).date

\* Receipt i has the latest receiptDate; of equals, the one recorded last.
IsLatest(i) ==
  \A j \in DOMAIN receipts :
    \/ ReceiptAt(j).date < ReceiptAt(i).date
    \/ ReceiptAt(j).date = ReceiptAt(i).date /\ j <= i

\* GetStatus.lastReceiptGlobalNo is the number of the receipt with the latest
\* date, not the highest number; 0 when there is no receipt.
LastReceiptGlobalNo ==
  IF \E i \in DOMAIN receipts : IsLatest(i)
  THEN ReceiptAt(CHOOSE i \in DOMAIN receipts : IsLatest(i)).globalNo
  ELSE 0

\* Which Red validation each receipt fails.  The signature check recomputes
\* the hash with FDMS's own previous receipt of the day, so it fails when the
\* receipt chains to another.
Fails(r) ==
  [RCPT010 |-> r.previousHash # LastHash,
   RCPT011 |-> r.counter # DayReceiptCount + 1,
   RCPT012 |-> r.globalNo # HighestGlobalNo + 1,
   RCPT030 |-> DayReceiptCount > 0 /\ r.date <= LastDate,
   RCPT013 |-> r.badTax]

ValidationErrors(r) == {c \in RedCodes : Fails(r)[c]}

DayHasRed == \E i \in (dayStart + 1)..Len(receipts) : receipts[i].errors # {}

-----------------------------------------------------------------------------
(* The endpoints that change the device's record, and what they answer.    *)

\* Mutation of OpenDayAtFdms: the new day's receipts start one too late.
OpenDayAtFdmsOffByOne ==
  /\ status' = "FiscalDayOpened"
  /\ fiscalDayNo' = fiscalDayNo + 1
  /\ dayStart' = Len(receipts) + 1
  /\ dayTotal' = 0
  /\ closingErrorCode' = "None"
  /\ UNCHANGED receipts

OpenDayAtFdms ==
  /\ status' = "FiscalDayOpened"
  /\ fiscalDayNo' = fiscalDayNo + 1
  /\ dayStart' = Len(receipts)
  /\ dayTotal' = 0
  /\ closingErrorCode' = "None"
  /\ UNCHANGED receipts

\* Recorded regardless of colour.
RecordReceipt(r) ==
  /\ receipts' = Append(receipts, [receipt |-> r, errors |-> ValidationErrors(r)])
  /\ dayTotal' = dayTotal + r.amount
  /\ UNCHANGED <<status, fiscalDayNo, dayStart, closingErrorCode>>

\* Computed when CloseDay is accepted, applied when the close settles.
CloseVerdict(q) ==
  IF q.total # dayTotal THEN "BadCertificateSignature"
  ELSE IF DayHasRed THEN "ReceiptsWithValidationErrors"
  ELSE IF q.counter # DayReceiptCount THEN "CountersMismatch"
  ELSE "None"

CloseDayAtFdms(q) ==
  /\ status' = "FiscalDayCloseInitiated"
  /\ closingErrorCode' = CloseVerdict(q)
  /\ UNCHANGED <<fiscalDayNo, receipts, dayStart, dayTotal>>

\* FDMS takes request q; any other is refused with a 422 and changes nothing.
Takes(q) ==
  \/ q.endpoint = "SubmitReceipt" /\ status = "FiscalDayOpened"
  \/ q.endpoint = "OpenDay" /\ status = "FiscalDayClosed"
  \/ q.endpoint = "CloseDay" /\ status = "FiscalDayOpened" /\ q.fiscalDayNo = fiscalDayNo

AnswerTo(q) ==
  [ok |-> Takes(q),
   red |-> Takes(q) /\ q.endpoint = "SubmitReceipt" /\ ValidationErrors(q.receipt) # {},
   fiscalDayNo |-> IF Takes(q) /\ q.endpoint = "OpenDay" THEN fiscalDayNo + 1 ELSE 0]

Handle(q) ==
  \/ Takes(q) /\ q.endpoint = "SubmitReceipt" /\ RecordReceipt(q.receipt)
  \/ Takes(q) /\ q.endpoint = "OpenDay" /\ OpenDayAtFdms
  \/ Takes(q) /\ q.endpoint = "CloseDay" /\ CloseDayAtFdms(q)
  \/ ~Takes(q) /\ UNCHANGED fdmsVars

\* The timer set by CloseDay: the day closes, or opens again with an error.
SettleClose ==
  /\ status = "FiscalDayCloseInitiated"
  /\ status' = IF closingErrorCode = "None" THEN "FiscalDayClosed" ELSE "FiscalDayOpened"
  /\ UNCHANGED <<fiscalDayNo, receipts, dayStart, dayTotal, closingErrorCode>>

=============================================================================
