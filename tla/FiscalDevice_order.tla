------------------------ MODULE FiscalDevice_order ------------------------
(***************************************************************************)
(* Theorems about FiscalDevice in an orderly environment, for every value  *)
(* of the other constants: what the device promises about the sequence of  *)
(* receipts holds over every crash, failed write and lost answer.          *)
(***************************************************************************)
EXTENDS FiscalDevice_proofs, SequenceTheorems

-----------------------------------------------------------------------------
(* The invariant behind the other properties, for an environment in which  *)
(* what the device gave up on is gone, a clock that has passed every       *)
(* receipt by the time a day opens, and an application that clears a       *)
(* closed day before it opens the next.                                    *)

Punctual == ~LateDelivery /\ ~ClockMayLag

Orderly == Punctual /\ ~KeepsOldDay

\* The receipts recorded are numbered from 1 and their dates rise.
BookInv ==
  /\ \A i \in DOMAIN receipts :
       ReceiptAt(i).globalNo = i /\ receipts[i].errors \cap SequencingCodes = {}
  /\ \A i, j \in DOMAIN receipts : i < j => ReceiptAt(i).date < ReceiptAt(j).date
  /\ \A i \in 1..dayStart : ReceiptAt(i).date < now

\* Agrees(s), with the highest number replaced by the length it is equal to.
Fits(s) ==
  /\ s.fiscalDayNo = fiscalDayNo
  /\ s.receiptCounter = DayReceiptCount
  /\ s.receiptGlobalNo = Len(receipts)
  /\ s.previousReceiptHash = LastHash
  /\ s.previousReceiptDate = LastDate
  /\ s.counters = dayTotal

\* The signed receipt of p is the very next one FDMS expects.
Waiting(p) ==
  /\ p.receipt.globalNo = Len(receipts) + 1
  /\ p.receipt.counter = DayReceiptCount + 1
  /\ p.receipt.previousHash = LastHash
  /\ \A i \in DOMAIN receipts : ReceiptAt(i).date < p.receipt.date
  /\ p.stateAfter.fiscalDayNo = fiscalDayNo
  /\ p.stateAfter.receiptCounter = p.receipt.counter
  /\ p.stateAfter.receiptGlobalNo = p.receipt.globalNo
  /\ p.stateAfter.previousReceiptHash = p.receipt.hash
  /\ p.stateAfter.previousReceiptDate = p.receipt.date
  /\ p.stateAfter.counters = dayTotal + p.receipt.amount

\* It is FDMS's last.
Entered(p) == p.receipt.globalNo = Len(receipts) /\ Fits(p.stateAfter)

\* s is up to date, or behind a receipt that was entered since.
FitsOrBehind(s) == Fits(s) \/ s.receiptGlobalNo < Len(receipts)

QuietInv == pending = None =>
  /\ state # None => Fits(state)
  /\ dayState # None => Fits(dayState)
  /\ lastGlobal = Len(receipts)

PendingInv == pending # None =>
  \/ /\ Waiting(pending)
     /\ state # None => Fits(state)
     /\ dayState # None => Fits(dayState)
     /\ lastGlobal = Len(receipts)
  \/ /\ Entered(pending)
     /\ state # None => FitsOrBehind(state)
     /\ dayState # None => FitsOrBehind(dayState)
     /\ lastGlobal <= Len(receipts)

\* Where a call is, what it waits for and what it knows.
CallInv ==
  /\ late = <<>>
  /\ answer # None => sent = None
  /\ pc = "idle" => sent = None /\ answer = None
  /\ pc = "submit" =>
       /\ pending # None
       /\ sent # None => sent = Submit(pending.receipt) /\ Waiting(pending)
       /\ answer # None /\ answer.ok => Entered(pending)
       /\ answer # None /\ ~answer.ok => Waiting(pending)
  /\ pc = "open" =>
       /\ pending = None /\ OldDayCleared /\ ClockPassed /\ reported <= Len(receipts)
       /\ sent # None => sent.endpoint = "OpenDay"
       /\ answer # None /\ answer.ok =>
            Fits(NewDayState(answer.fiscalDayNo, Len(receipts)))
  /\ pc = "close" =>
       /\ pending = None /\ state # None
       /\ sent # None => sent = CloseBody(state)
  /\ pc \in {"saveDay", "saveGlobal", "clearPending"} =>
       /\ sent = None /\ answer = None
       /\ state # None /\ Fits(state)
       /\ pending # None => Entered(pending)
  /\ pc \in {"saveGlobal", "clearPending"} => dayState # None /\ Fits(dayState)
  /\ pc = "clearPending" => pending # None /\ lastGlobal = Len(receipts)

OrderInv == BookInv /\ QuietInv /\ PendingInv /\ CallInv /\ NoCloseMismatch

-----------------------------------------------------------------------------
(* What the book looks like: the two ways FDMS finds the last receipt, by  *)
(* number and by date, agree.                                              *)

LEMMA BookTypes ==
  ASSUME FdmsTypeOK
  PROVE  /\ Len(receipts) \in Nat /\ DOMAIN receipts = 1..Len(receipts)
         /\ \A i \in DOMAIN receipts : ReceiptAt(i).date \in Nat /\ ReceiptAt(i).globalNo \in Nat
         /\ DayReceiptCount \in Nat
<1>1. \A i \in DOMAIN receipts : ReceiptAt(i) \in Receipt
  BY ReceiptType
<1> QED
  BY <1>1 DEF FdmsTypeOK, Receipt, DayReceiptCount

LEMMA HighestIsLen ==
  ASSUME FdmsTypeOK, BookInv
  PROVE  HighestGlobalNo = Len(receipts)
<1> DEFINE n == Len(receipts)
<1>1. n \in Nat /\ DOMAIN receipts = 1..n
  BY BookTypes
<1>2. GlobalNos \cup {0} = 0..n
  BY <1>1 DEF GlobalNos, BookInv
<1> HIDE DEF n
<1>3. n \in 0..n /\ \A y \in 0..n : n >= y
  BY <1>1
<1>4. \A x \in 0..n : (\A y \in 0..n : x >= y) => x = n
  BY <1>1
<1>5. HighestGlobalNo \in 0..n /\ \A y \in 0..n : HighestGlobalNo >= y
  BY <1>2, <1>3 DEF HighestGlobalNo, Max
<1>6. HighestGlobalNo = n
  BY <1>4, <1>5
<1> QED
  BY <1>6 DEF n

LEMMA LatestIsLast ==
  ASSUME FdmsTypeOK, BookInv
  PROVE  LastReceiptGlobalNo = Len(receipts)
<1> DEFINE n == Len(receipts)
<1>1. n \in Nat /\ DOMAIN receipts = 1..n /\ \A i \in 1..n : ReceiptAt(i).date \in Nat
  BY BookTypes
<1>2. \A i, j \in 1..n : i < j => ReceiptAt(i).date < ReceiptAt(j).date
  BY <1>1 DEF BookInv
<1>5. \A i \in 1..n : ReceiptAt(i).globalNo = i
  BY <1>1 DEF BookInv
<1> HIDE DEF n
<1>3. CASE n = 0
  BY <1>1, <1>3 DEF LastReceiptGlobalNo
<1>4. CASE n > 0
  <2>1. IsLatest(n)
    <3>1. \A j \in 1..n : j = n \/ j < n
      BY <1>1
    <3> QED
      BY <1>1, <1>2, <1>4, <3>1 DEF IsLatest
  <2>2. \A i \in 1..n : IsLatest(i) => i = n
    <3> SUFFICES ASSUME NEW i \in 1..n, IsLatest(i), i # n
                 PROVE  FALSE
      OBVIOUS
    <3>1. ReceiptAt(i).date < ReceiptAt(n).date
      BY <1>1, <1>2, <1>4
    <3> QED
      BY <1>1, <1>4, <3>1 DEF IsLatest
  <2>3. n \in 1..n /\ ReceiptAt(n).globalNo = n
    BY <1>1, <1>5, <1>4
  <2>4. (CHOOSE i \in 1..n : IsLatest(i)) = n
    BY <2>1, <2>2, <2>3
  <2> QED
    BY <1>1, <2>1, <2>3, <2>4 DEF LastReceiptGlobalNo, n
<1> QED
  BY <1>1, <1>3, <1>4 DEF n

\* While FDMS's book stays as it is, so does what it derives from it.
LEMMA SameBook ==
  ASSUME UNCHANGED <<receipts, dayStart>>
  PROVE  /\ DayReceiptCount' = DayReceiptCount
         /\ LastHash' = LastHash /\ LastDate' = LastDate
BY DEF DayReceiptCount, LastHash, LastDate, ReceiptAt

\* The receipt FDMS expects is recorded without a sequencing error and is
\* its last from then on.
LEMMA Recording ==
  ASSUME TypeOK, BookInv, pending # None, Waiting(pending),
         RecordReceipt(pending.receipt), UNCHANGED <<pending, now>>
  PROVE  BookInv' /\ Entered(pending)' /\ Len(receipts') = Len(receipts) + 1
<1> DEFINE r == pending.receipt
           n == Len(receipts)
           e == [receipt |-> r, errors |-> ValidationErrors(r)]
<1>1. n \in Nat /\ DOMAIN receipts = 1..n /\ DayReceiptCount \in Nat
      /\ DayReceiptCount = n - dayStart /\ dayStart \in 0..n
      /\ \A i \in 1..n : ReceiptAt(i).date \in Nat
  BY BookTypes DEF TypeOK, FdmsTypeOK, DayReceiptCount
<1>2. r \in Receipt /\ r.date \in Nat
  BY DEF TypeOK, PreparedReceipt, Receipt
<1>3. r.globalNo = n + 1 /\ \A i \in 1..n : ReceiptAt(i).date < r.date
  BY <1>1 DEF Waiting
<1>4. e.receipt = r /\ e.errors = ValidationErrors(r)
  OBVIOUS
<1>5. ValidationErrors(r) \cap SequencingCodes = {}
  <2>1. (r.previousHash # LastHash) = FALSE /\ (r.counter # DayReceiptCount + 1) = FALSE
    BY DEF Waiting
  <2>2. (r.globalNo # HighestGlobalNo + 1) = FALSE
    BY <1>3, HighestIsLen DEF TypeOK
  <2>3. ASSUME DayReceiptCount > 0
        PROVE  ~(r.date <= LastDate)
    <3>1. DayReceiptCount # 0
      BY <2>3
    <3>2. LastDate = ReceiptAt(n).date
      BY <3>1 DEF LastDate
    <3> HIDE DEF n, r
    <3>3. n \in 1..n
      BY <1>1, <2>3
    <3> QED
      BY <1>1, <1>2, <1>3, <3>2, <3>3
  <2>4. (DayReceiptCount > 0 /\ r.date <= LastDate) = FALSE
    BY <2>3
  <2> HIDE DEF r
  <2>5. /\ Fails(r)["RCPT010"] = FALSE /\ Fails(r)["RCPT011"] = FALSE
        /\ Fails(r)["RCPT012"] = FALSE /\ Fails(r)["RCPT030"] = FALSE
    BY <2>1, <2>2, <2>4 DEF Fails
  <2>6. \A c \in SequencingCodes : ~Fails(r)[c]
    BY <2>5 DEF SequencingCodes
  <2> QED
    BY <2>6 DEF ValidationErrors
<1>6. receipts' = Append(receipts, e) /\ UNCHANGED <<fiscalDayNo, dayStart>> /\ dayTotal' = dayTotal + r.amount
  BY DEF RecordReceipt
<1> HIDE DEF e
<1>7. /\ Len(receipts') = n + 1 /\ DOMAIN receipts' = 1..(n + 1)
      /\ \A i \in 1..n : receipts'[i] = receipts[i]
      /\ receipts'[n + 1] = e
  BY <1>1, <1>6 DEF TypeOK, FdmsTypeOK
<1>8. \A i \in 1..(n + 1) : i \in 1..n \/ i = n + 1
  BY <1>1
<1>9. BookInv'
  <2>1. \A i \in 1..(n + 1) : receipts'[i].receipt.globalNo = i /\ receipts'[i].errors \cap SequencingCodes = {}
    BY <1>1, <1>3, <1>4, <1>5, <1>7, <1>8 DEF BookInv, ReceiptAt
  <2>2. \A i, j \in 1..(n + 1) : i < j => receipts'[i].receipt.date < receipts'[j].receipt.date
    <3> SUFFICES ASSUME NEW i \in 1..(n + 1), NEW j \in 1..(n + 1), i < j
                 PROVE  receipts'[i].receipt.date < receipts'[j].receipt.date
      OBVIOUS
    <3>1. i \in 1..n
      BY <1>1
    <3> QED
      BY <1>1, <1>3, <1>4, <1>7, <1>8, <3>1 DEF BookInv, ReceiptAt
  <2>3. \A i \in 1..dayStart : receipts'[i].receipt.date < now
    <3>1. \A i \in 1..dayStart : i \in 1..n
      BY <1>1
    <3> QED
      BY <1>7, <3>1 DEF BookInv, ReceiptAt
  <2> QED
    BY <1>6, <1>7, <2>1, <2>2, <2>3 DEF BookInv, ReceiptAt
<1>10. /\ DayReceiptCount' = DayReceiptCount + 1
       /\ LastHash' = r.hash /\ LastDate' = r.date
  BY <1>1, <1>4, <1>6, <1>7 DEF DayReceiptCount, LastHash, LastDate, ReceiptAt
<1>11. Entered(pending)'
  BY <1>3, <1>6, <1>7, <1>10 DEF Entered, Fits, Waiting
<1> QED
  BY <1>7, <1>9, <1>11

-----------------------------------------------------------------------------
(* OrderInv is inductive, given TypeInv, in an orderly environment.        *)

LEMMA InitOrder == Init => OrderInv
<1>1. Init => receipts = <<>> /\ Len(<<>>) = 0 /\ DOMAIN <<>> = {} /\ dayStart = 0 /\ 1..0 = {}
  BY DEF Init, FdmsInit
<1>2. Init => BookInv
  BY <1>1 DEF BookInv
<1>3. Init => QuietInv /\ PendingInv /\ CallInv /\ NoCloseMismatch
  BY <1>1 DEF Init, FdmsInit, QuietInv, PendingInv, CallInv, NoCloseMismatch
<1> QED
  BY <1>2, <1>3 DEF OrderInv

\* The receipt a state that fits signs next is the one FDMS expects.
LEMMA SignedIsNext ==
  ASSUME TypeOK, Punctual, BookInv, state # None, Fits(state),
         NEW amount \in Amounts, NEW badTax \in BOOLEAN, NEW date \in ReceiptDates(state)
  PROVE  Waiting(Prepare(state, SignReceipt(state, date, amount, badTax)))
<1> DEFINE n == Len(receipts)
<1>1. n \in Nat /\ DOMAIN receipts = 1..n /\ DayReceiptCount \in Nat
  BY BookTypes DEF TypeOK
<1>2. \A i \in 1..n : ReceiptAt(i).date \in Nat
  BY <1>1, BookTypes DEF TypeOK
<1>3. now \in Nat /\ now > 0 /\ MaxAhead \in Nat /\ date \in Nat /\ state.previousReceiptDate \in Nat
  BY BoundsAreNumbers, PrepareType DEF TypeOK, DayState
<1>4. date > state.previousReceiptDate /\ (state.previousReceiptDate = 0 => date >= now)
  <2>1. CASE date = AutoDate(state)
    BY <1>3, <2>1 DEF AutoDate
  <2>2. CASE date \in 1..(now + MaxAhead) /\ date > state.previousReceiptDate /\ date >= now
    BY <1>3, <2>2
  <2> QED
    BY <2>1, <2>2 DEF ReceiptDates, Punctual
<1>5. state.previousReceiptDate = LastDate
  BY DEF Fits
<1>6. dayStart \in 0..n /\ DayReceiptCount = n - dayStart
  BY DEF TypeOK, FdmsTypeOK, DayReceiptCount
<1>7. \A i \in 1..n : ReceiptAt(i).date < date
  <2>1. CASE DayReceiptCount = 0
    <3>1. LastDate = 0
      BY <2>1 DEF LastDate
    <3>2. dayStart = n
      <4> HIDE DEF n
      <4> QED
        BY <1>1, <1>6, <2>1
    <3>3. \A i \in 1..n : ReceiptAt(i).date < now
      BY <3>2 DEF BookInv
    <3> QED
      BY <1>2, <1>3, <1>4, <1>5, <3>1, <3>3
  <2>2. CASE DayReceiptCount # 0
    <3>1. LastDate = ReceiptAt(n).date
      BY <2>2 DEF LastDate
    <3>2. n > 0
      <4> HIDE DEF n
      <4> QED
        BY <1>1, <1>6, <2>2
    <3>3. \A i, j \in 1..n : i < j => ReceiptAt(i).date < ReceiptAt(j).date
      BY <1>1 DEF BookInv
    <3> HIDE DEF n
    <3>4. \A i \in 1..n : i = n \/ i < n
      BY <1>1
    <3>5. n \in 1..n
      BY <1>1, <3>2
    <3> QED
      BY <1>2, <1>3, <1>4, <1>5, <3>1, <3>3, <3>4, <3>5
  <2> QED
    BY <2>1, <2>2
<1> QED
  BY <1>1, <1>7 DEF Waiting, Prepare, SignReceipt, StateAfter, Fits

\* Committing a receipt that FDMS has brings the device up to date.
LEMMA CommittedFits ==
  ASSUME TypeOK, NEW s \in DayState \cup {None}, NEW p \in PreparedReceipt, NEW red \in BOOLEAN,
         Entered(p), s # None => FitsOrBehind(s)
  PROVE  Fits(CommittedState(s, p, red))
<1> DEFINE t == IF s = None THEN p.stateAfter
                ELSE IF s.receiptGlobalNo < p.receipt.globalNo THEN p.stateAfter ELSE s
<1>1. t \in DayState
  BY DEF PreparedReceipt
<1>2. Fits(t)
  BY DEF Entered, FitsOrBehind, Fits, DayState
<1>3. CommittedState(s, p, red) = IF red THEN [t EXCEPT !.redErrors = @ \cup {p.receipt.globalNo}] ELSE t
  BY DEF CommittedState
<1> HIDE DEF t
<1>4. [t EXCEPT !.redErrors = @ \cup {p.receipt.globalNo}] =
        [fiscalDayNo |-> t.fiscalDayNo, receiptCounter |-> t.receiptCounter,
         receiptGlobalNo |-> t.receiptGlobalNo, previousReceiptHash |-> t.previousReceiptHash,
         previousReceiptDate |-> t.previousReceiptDate, counters |-> t.counters,
         redErrors |-> t.redErrors \cup {p.receipt.globalNo}]
  BY <1>1 DEF DayState
<1> QED
  BY <1>2, <1>3, <1>4 DEF Fits

\* A signed receipt is either the next one or the last one, never both.
LEMMA NotBoth ==
  ASSUME TypeOK
  PROVE  ~(Waiting(pending) /\ Entered(pending))
BY BookTypes DEF Waiting, Entered, TypeOK

\* Nor does anything else that is said about the book change.
LEMMA SamePending ==
  ASSUME UNCHANGED <<receipts, dayStart, fiscalDayNo, dayTotal, pending>>
  PROVE  Waiting(pending)' = Waiting(pending) /\ Entered(pending)' = Entered(pending)
BY SameBook DEF Waiting, Entered, Fits, ReceiptAt

LEMMA SameMemory ==
  ASSUME UNCHANGED <<receipts, dayStart, fiscalDayNo, dayTotal, state>>
  PROVE  Fits(state)' = Fits(state) /\ FitsOrBehind(state)' = FitsOrBehind(state)
BY SameBook DEF Fits, FitsOrBehind

LEMMA SameStored ==
  ASSUME UNCHANGED <<receipts, dayStart, fiscalDayNo, dayTotal, dayState>>
  PROVE  Fits(dayState)' = Fits(dayState) /\ FitsOrBehind(dayState)' = FitsOrBehind(dayState)
BY SameBook DEF Fits, FitsOrBehind

\* Without a receipt or a new day, and with time going forward, the book
\* stays in order.
LEMMA SameBookInv ==
  ASSUME TypeOK, BookInv, UNCHANGED <<receipts, dayStart>>, now' = now \/ now' = now + 1
  PROVE  BookInv'
<1>1. \A i \in 1..dayStart : ReceiptAt(i).date \in Nat
  BY BookTypes DEF TypeOK, FdmsTypeOK
<1>2. now \in Nat /\ \A i \in 1..dayStart : ReceiptAt(i).date < now
  BY DEF TypeOK, BookInv
<1>3. \A i \in 1..dayStart : ReceiptAt(i).date < now'
  BY <1>1, <1>2
<1> QED
  BY <1>3 DEF BookInv, ReceiptAt

LEMMA SameClockPassed ==
  ASSUME TypeOK, ClockPassed, UNCHANGED receipts, now' = now \/ now' = now + 1
  PROVE  ClockPassed'
<1>1. \A i \in DOMAIN receipts : ReceiptAt(i).date \in Nat
  BY BookTypes DEF TypeOK
<1>2. now \in Nat /\ \A i \in DOMAIN receipts : ReceiptAt(i).date < now
  BY DEF TypeOK, ClockPassed
<1>3. \A i \in DOMAIN receipts : ReceiptAt(i).date < now'
  BY <1>1, <1>2
<1> QED
  BY <1>3 DEF ClockPassed, ReceiptAt

\* With nothing arriving late, a call given up on leaves nothing behind.
LEMMA AbandonQuiet ==
  ASSUME Punctual, CallInv, AbandonCall
  PROVE  late' = <<>> /\ sent' = None /\ answer' = None /\ pc' = "idle"
BY DEF Punctual, CallInv, AbandonCall

LEMMA NextOrder == TypeInv /\ Orderly /\ OrderInv /\ [Next]_vars => OrderInv'
<1> SUFFICES ASSUME TypeInv, Orderly, OrderInv, [Next]_vars
             PROVE  OrderInv'
  OBVIOUS
<1> USE DEF TypeInv, Orderly
<1>0. BookInv /\ QuietInv /\ PendingInv /\ CallInv /\ NoCloseMismatch
  BY DEF OrderInv
<1>00. LastReceiptGlobalNo = Len(receipts) /\ Len(receipts) \in Nat
  BY <1>0, LatestIsLast, BookTypes DEF TypeOK
<1>1. CASE OpenDay
  <2>1. BookInv'
    BY <1>1, <1>0, SameBookInv DEF OpenDay, fdmsVars, worldVars
  <2>2. QuietInv'
    BY <1>1, <1>0, <1>00, SameBook DEF OpenDay, QuietInv, CallInv, Fits, fdmsVars, storageVars
  <2>3. PendingInv'
    BY <1>1 DEF OpenDay, PendingInv, NoPending, storageVars
  <2>4. CallInv'
    BY <1>1, <1>0, <1>00, SameClockPassed
       DEF OpenDay, CallInv, Punctual, OldDayCleared, NoPending, fdmsVars, storageVars, worldVars
  <2>5. NoCloseMismatch'
    BY <1>1, <1>0 DEF OpenDay, NoCloseMismatch, fdmsVars
  <2> QED
    BY <2>1, <2>2, <2>3, <2>4, <2>5 DEF OrderInv
<1>2. CASE CloseDay
  <2>1. BookInv'
    BY <1>2, <1>0, SameBookInv DEF CloseDay, fdmsVars, worldVars
  <2>2. QuietInv'
    BY <1>2, <1>0, <1>00, SameBook DEF CloseDay, QuietInv, CallInv, Fits, fdmsVars, storageVars
  <2>3. PendingInv'
    BY <1>2 DEF CloseDay, PendingInv, NoPending, storageVars
  <2>4. CallInv'
    BY <1>2, <1>0 DEF CloseDay, CallInv, NoPending, storageVars
  <2>5. NoCloseMismatch'
    BY <1>2, <1>0 DEF CloseDay, NoCloseMismatch, fdmsVars
  <2> QED
    BY <2>1, <2>2, <2>3, <2>4, <2>5 DEF OrderInv
<1>3. CASE ClearPersistedState
  <2>1. BookInv'
    BY <1>3, <1>0, SameBookInv DEF ClearPersistedState, fdmsVars, worldVars
  <2>2. QuietInv'
    BY <1>3, <1>0, <1>00, SameBook DEF ClearPersistedState, QuietInv, CallInv, Fits, fdmsVars, storageVars
  <2>3. PendingInv'
    BY <1>3, <1>0, SamePending, SameMemory, SameStored DEF ClearPersistedState, PendingInv, fdmsVars, storageVars
  <2>4. CallInv'
    BY <1>3, <1>0, <1>00, SameBook DEF ClearPersistedState, CallInv, QuietInv, PendingInv, Fits, FitsOrBehind, Waiting, Entered, fdmsVars, storageVars, wireVars, worldVars
  <2>5. NoCloseMismatch'
    BY <1>3, <1>0 DEF ClearPersistedState, NoCloseMismatch, fdmsVars
  <2> QED
    BY <2>1, <2>2, <2>3, <2>4, <2>5 DEF OrderInv
<1>4. CASE ReconcileNothing
  <2>1. BookInv'
    BY <1>4, <1>0, SameBookInv DEF ReconcileNothing, fdmsVars, worldVars
  <2>2. QuietInv'
    BY <1>4, <1>0, <1>00, SameBook DEF ReconcileNothing, QuietInv, CallInv, Fits, fdmsVars, storageVars, LoadedState
  <2>3. PendingInv'
    BY <1>4, <1>0, <1>00, SameBook DEF ReconcileNothing, PendingInv, CallInv, Fits, FitsOrBehind, Waiting, Entered, fdmsVars, storageVars
  <2>4. CallInv'
    BY <1>4, <1>0, <1>00, SameBook DEF ReconcileNothing, CallInv, QuietInv, PendingInv, Fits, FitsOrBehind, Waiting, Entered, fdmsVars, storageVars, wireVars, worldVars, LoadedState
  <2>5. NoCloseMismatch'
    BY <1>4, <1>0 DEF ReconcileNothing, NoCloseMismatch, fdmsVars
  <2> QED
    BY <2>1, <2>2, <2>3, <2>4, <2>5 DEF OrderInv
<1>5. CASE SubmitRefused
  BY <1>5, <1>00, SameBook, SameBookInv, NotBoth
     DEF SubmitRefused, OrderInv, QuietInv, PendingInv, CallInv, NoCloseMismatch, Fits, FitsOrBehind, Waiting, Entered, fdmsVars, storageVars, wireVars, worldVars
<1>6. CASE SaveDayState
  BY <1>6, <1>00, SameBook, SameBookInv, NotBoth
     DEF SaveDayState, OrderInv, QuietInv, PendingInv, CallInv, NoCloseMismatch, Fits, FitsOrBehind, Waiting, Entered, fdmsVars, storageVars, wireVars, worldVars
<1>7. CASE SaveLastGlobal
  <2>1. BookInv'
    BY <1>7, <1>0, SameBookInv DEF SaveLastGlobal, fdmsVars, worldVars
  <2>2. QuietInv'
    BY <1>7, <1>0, <1>00, SameBook DEF SaveLastGlobal, QuietInv, CallInv, Fits, fdmsVars, storageVars
  <2>3. PendingInv'
    BY <1>7, <1>0, <1>00, SameBook DEF SaveLastGlobal, PendingInv, CallInv, Fits, FitsOrBehind, Waiting, Entered, fdmsVars, storageVars
  <2>4. CallInv'
    <3>1. state.receiptGlobalNo = Len(receipts) /\ lastGlobal <= Len(receipts) /\ lastGlobal \in Nat
      BY <1>7, <1>0, <1>00 DEF SaveLastGlobal, CallInv, QuietInv, PendingInv, Fits, TypeOK
    <3>2. lastGlobal' = Len(receipts)
      BY <1>7, <1>00, <3>1 DEF SaveLastGlobal
    <3> QED
      BY <1>7, <1>0, <3>2, SamePending, SameMemory, SameStored DEF SaveLastGlobal, CallInv, fdmsVars, wireVars
  <2>5. NoCloseMismatch'
    BY <1>7, <1>0 DEF SaveLastGlobal, NoCloseMismatch, fdmsVars
  <2> QED
    BY <2>1, <2>2, <2>3, <2>4, <2>5 DEF OrderInv
<1>8. CASE ClearPending
  BY <1>8, <1>00, SameBook, SameBookInv, NotBoth
     DEF ClearPending, OrderInv, QuietInv, PendingInv, CallInv, NoCloseMismatch, Fits, FitsOrBehind, Waiting, Entered, fdmsVars, storageVars, wireVars, worldVars
<1>9. CASE CloseAnswered
  BY <1>9, <1>00, SameBook, SameBookInv, NotBoth
     DEF CloseAnswered, OrderInv, QuietInv, PendingInv, CallInv, NoCloseMismatch, Fits, FitsOrBehind, Waiting, Entered, fdmsVars, storageVars, wireVars, worldVars
<1>10. CASE DayCallRefused
  BY <1>10, <1>00, SameBook, SameBookInv, NotBoth
     DEF DayCallRefused, OrderInv, QuietInv, PendingInv, CallInv, NoCloseMismatch, Fits, FitsOrBehind, Waiting, Entered, fdmsVars, storageVars, wireVars, worldVars
<1>11. CASE StorageFails
  BY <1>11, <1>00, SameBook, SameBookInv, NotBoth
     DEF StorageFails, OrderInv, QuietInv, PendingInv, CallInv, NoCloseMismatch, Fits, FitsOrBehind, Waiting, Entered, fdmsVars, storageVars, wireVars, worldVars
<1>12. CASE Tick
  <2>1. BookInv'
    BY <1>12, <1>0, SameBookInv DEF Tick, fdmsVars, worldVars
  <2>2. QuietInv'
    BY <1>12, <1>0, <1>00, SameBook DEF Tick, QuietInv, CallInv, Fits, fdmsVars, storageVars
  <2>3. PendingInv'
    BY <1>12, <1>0, SamePending, SameMemory, SameStored DEF Tick, PendingInv, fdmsVars, storageVars
  <2>4. CallInv'
    BY <1>12, <1>0, SameBook, SamePending, SameMemory, SameStored, SameClockPassed
       DEF Tick, CallInv, OldDayCleared, Fits, fdmsVars, storageVars, wireVars
  <2>5. NoCloseMismatch'
    BY <1>12, <1>0 DEF Tick, NoCloseMismatch, fdmsVars
  <2> QED
    BY <2>1, <2>2, <2>3, <2>4, <2>5 DEF OrderInv
<1>13. CASE SubmitReceipt
  <2>1. PICK amount \in Amounts, badTax \in BOOLEAN, date \in ReceiptDates(state) :
          /\ pending' = Prepare(state, SignReceipt(state, date, amount, badTax))
          /\ sent' = Submit(SignReceipt(state, date, amount, badTax))
    BY <1>13 DEF SubmitReceipt
  <2>2. /\ state # None
        /\ Fits(state)
        /\ dayState # None => Fits(dayState)
        /\ lastGlobal = Len(receipts)
    BY <1>13, <1>0 DEF SubmitReceipt, NoPending, QuietInv
  <2>3. Waiting(pending')
    <3>1. TypeOK
      OBVIOUS
    <3> QED
      BY <1>0, <2>1, <2>2, <3>1, SignedIsNext
  <2>4. sent' = Submit(pending'.receipt)
    BY <2>1 DEF Prepare
  <2>5. Waiting(pending)'
    BY <1>13, <2>3, SameBook DEF SubmitReceipt, Waiting, fdmsVars, ReceiptAt
  <2>6. pending' # None
    <3>1. state \in DayState
      BY <2>2 DEF TypeOK
    <3> QED
      BY <2>1, <3>1, PrepareType, NoneIsNothing
  <2>7. BookInv' /\ NoCloseMismatch'
    BY <1>13, <1>0, SameBookInv DEF SubmitReceipt, NoCloseMismatch, fdmsVars
  <2>8. QuietInv' /\ PendingInv'
    BY <1>13, <2>2, <2>5, <2>6, SameMemory, SameStored
       DEF SubmitReceipt, QuietInv, PendingInv, fdmsVars
  <2>9. CallInv'
    BY <1>13, <1>0, <2>4, <2>5, <2>6 DEF SubmitReceipt, CallInv
  <2> QED
    BY <2>7, <2>8, <2>9 DEF OrderInv
<1>14. CASE ReconcileConfirmed
  <2>1. Entered(pending) /\ ~Waiting(pending)
    BY <1>14, <1>0, <1>00, NotBoth DEF ReconcileConfirmed, ReportedAsRecorded, PendingInv, Waiting
  <2>2. LoadedState # None => FitsOrBehind(LoadedState)
    BY <1>14, <1>0, <2>1 DEF ReconcileConfirmed, LoadedState, PendingInv
  <2>3. LoadedState \in DayState \cup {None} /\ pending \in PreparedReceipt
    BY <1>14 DEF ReconcileConfirmed, LoadedState, TypeOK
  <2>4. state' \in DayState /\ Fits(state')
    BY <1>14, <2>1, <2>2, <2>3, CommittedFits, CommittedStateType DEF ReconcileConfirmed
  <2>5. state' # None /\ Fits(state)'
    BY <1>14, <2>4, SameBook, NoneIsNothing DEF ReconcileConfirmed, Fits, fdmsVars
  <2>6. Entered(pending)'
    BY <1>14, <2>1, SamePending DEF ReconcileConfirmed, fdmsVars, storageVars
  <2>7. BookInv' /\ NoCloseMismatch'
    BY <1>14, <1>0, SameBookInv DEF ReconcileConfirmed, NoCloseMismatch, fdmsVars, worldVars
  <2>8. QuietInv' /\ PendingInv'
    BY <1>14, <1>0, <2>1, <2>5, <2>6, SameStored
       DEF ReconcileConfirmed, QuietInv, PendingInv, FitsOrBehind, fdmsVars, storageVars
  <2>9. CallInv'
    BY <1>14, <1>0, <2>5, <2>6 DEF ReconcileConfirmed, CallInv, wireVars
  <2> QED
    BY <2>7, <2>8, <2>9 DEF OrderInv
<1>15. CASE ReconcileResubmit
  <2>1. Waiting(pending)
    BY <1>15, <1>0, <1>00 DEF ReconcileResubmit, ReportedAsRecorded, PendingInv, Entered
  <2>2. ~Entered(pending)
    BY <2>1, NotBoth
  <2>3. /\ state # None => Fits(state)
        /\ dayState # None => Fits(dayState)
        /\ lastGlobal = Len(receipts)
    BY <1>15, <1>0, <2>2 DEF ReconcileResubmit, PendingInv
  <2>4. state' # None => Fits(state')
    BY <1>15, <2>3 DEF ReconcileResubmit, LoadedState
  <2>5. state' # None => Fits(state)'
    BY <1>15, <2>4, SameBook DEF ReconcileResubmit, Fits, fdmsVars
  <2>6. Waiting(pending)'
    BY <1>15, <2>1, SamePending DEF ReconcileResubmit, fdmsVars, storageVars
  <2>7. BookInv' /\ NoCloseMismatch'
    BY <1>15, <1>0, SameBookInv DEF ReconcileResubmit, NoCloseMismatch, fdmsVars, worldVars
  <2>8. QuietInv' /\ PendingInv'
    BY <1>15, <2>3, <2>5, <2>6, SameStored
       DEF ReconcileResubmit, QuietInv, PendingInv, fdmsVars, storageVars
  <2>9. CallInv'
    BY <1>15, <1>0, <2>6 DEF ReconcileResubmit, CallInv, storageVars
  <2> QED
    BY <2>7, <2>8, <2>9 DEF OrderInv
<1>16. CASE SubmitAnswered
  <2>1. pending # None /\ Entered(pending) /\ ~Waiting(pending) /\ sent = None
    BY <1>16, <1>0, NotBoth DEF SubmitAnswered, CallInv
  <2>2. state # None => FitsOrBehind(state)
    BY <1>0, <2>1 DEF PendingInv
  <2>3. /\ state \in DayState \cup {None} /\ pending \in PreparedReceipt
        /\ answer.red \in BOOLEAN
    BY <1>16, <2>1 DEF SubmitAnswered, TypeOK, Answer
  <2>4. state' \in DayState /\ Fits(state')
    BY <1>16, <2>1, <2>2, <2>3, CommittedFits, CommittedStateType DEF SubmitAnswered
  <2>5. state' # None /\ Fits(state)'
    BY <1>16, <2>4, SameBook, NoneIsNothing DEF SubmitAnswered, Fits, fdmsVars
  <2>6. Entered(pending)'
    BY <1>16, <2>1, SamePending DEF SubmitAnswered, fdmsVars, storageVars
  <2>7. BookInv' /\ NoCloseMismatch'
    BY <1>16, <1>0, SameBookInv DEF SubmitAnswered, NoCloseMismatch, fdmsVars, worldVars
  <2>8. QuietInv' /\ PendingInv'
    BY <1>16, <1>0, <2>1, <2>5, <2>6, SameStored
       DEF SubmitAnswered, QuietInv, PendingInv, FitsOrBehind, fdmsVars, storageVars
  <2>9. CallInv'
    BY <1>16, <1>0, <2>1, <2>5, <2>6 DEF SubmitAnswered, CallInv
  <2> QED
    BY <2>7, <2>8, <2>9 DEF OrderInv
<1>17. CASE OpenAnswered
  <2>1. /\ pending = None /\ state = None /\ dayState = None /\ sent = None
        /\ lastGlobal = Len(receipts) /\ reported <= Len(receipts)
        /\ Fits(NewDayState(answer.fiscalDayNo, Len(receipts)))
    BY <1>17, <1>0 DEF OpenAnswered, CallInv, QuietInv, OldDayCleared
  <2>2. OpeningGlobalNo = Len(receipts)
    BY <2>1, <1>00 DEF OpeningGlobalNo, TypeOK
  <2>3. state' = NewDayState(answer.fiscalDayNo, Len(receipts))
    BY <1>17, <2>2 DEF OpenAnswered
  <2>4. Fits(state)'
    BY <1>17, <2>1, <2>3, SameBook DEF OpenAnswered, Fits, fdmsVars
  <2>5. state' # None
    <3>1. answer.fiscalDayNo \in Nat
      BY <1>17 DEF OpenAnswered, TypeOK, Answer
    <3>2. state' \in DayState
      BY <1>00, <2>3, <3>1 DEF NewDayState, DayState
    <3> QED
      BY <3>2, NoneIsNothing
  <2>6. BookInv' /\ NoCloseMismatch'
    BY <1>17, <1>0, SameBookInv DEF OpenAnswered, NoCloseMismatch, fdmsVars, worldVars
  <2>7. QuietInv' /\ PendingInv'
    BY <1>17, <2>1, <2>4 DEF OpenAnswered, QuietInv, PendingInv, fdmsVars, storageVars
  <2>8. CallInv'
    BY <1>17, <1>0, <2>1, <2>4, <2>5 DEF OpenAnswered, CallInv, storageVars
  <2> QED
    BY <2>6, <2>7, <2>8 DEF OrderInv
<1>18. CASE FdmsAnswers
  <2>1. /\ sent # None /\ sent' = None /\ answer = None
        /\ pc \in {"submit", "open", "close"}
        /\ Handle(sent) /\ answer' = AnswerTo(sent) /\ AnswerTo(sent).ok = Takes(sent)
        /\ UNCHANGED <<state, pc, reported, storageVars, late, now>>
    BY <1>18, <1>0 DEF FdmsAnswers, CallInv, TypeOK, Places, AnswerTo, worldVars
  <2>2. CASE Takes(sent) /\ pc = "submit"
    <3>1. pending # None /\ Waiting(pending) /\ sent = Submit(pending.receipt)
      BY <1>0, <2>1, <2>2 DEF CallInv
    <3>2. RecordReceipt(pending.receipt)
      BY <2>1, <2>2, <3>1 DEF Handle, Submit
    <3>3. BookInv' /\ Entered(pending)' /\ Len(receipts') = Len(receipts) + 1
      BY <1>0, <2>1, <3>1, <3>2, Recording DEF storageVars
    <3>4. /\ state # None => Fits(state)
          /\ dayState # None => Fits(dayState)
          /\ lastGlobal = Len(receipts)
      BY <1>0, <3>1, NotBoth DEF PendingInv
    <3>5. /\ state' # None => FitsOrBehind(state)'
          /\ dayState' # None => FitsOrBehind(dayState)'
          /\ lastGlobal' <= Len(receipts')
      BY <1>00, <2>1, <3>3, <3>4 DEF FitsOrBehind, Fits, storageVars
    <3>6. QuietInv' /\ PendingInv'
      BY <2>1, <3>1, <3>3, <3>5 DEF QuietInv, PendingInv, storageVars
    <3>7. CallInv'
      BY <1>0, <2>1, <2>2, <3>1, <3>3 DEF CallInv, storageVars
    <3>8. NoCloseMismatch'
      BY <1>0, <3>2 DEF RecordReceipt, NoCloseMismatch
    <3> QED
      BY <3>3, <3>6, <3>7, <3>8 DEF OrderInv
  <2>3. CASE Takes(sent) /\ pc = "open"
    <3>1. /\ pending = None /\ OldDayCleared /\ ClockPassed /\ reported <= Len(receipts)
          /\ sent.endpoint = "OpenDay"
      BY <1>0, <2>1, <2>3 DEF CallInv
    <3>2. OpenDayAtFdms /\ AnswerTo(sent).fiscalDayNo = fiscalDayNo + 1
      BY <2>1, <2>3, <3>1 DEF Handle, AnswerTo
    <3>3. /\ fiscalDayNo' = fiscalDayNo + 1 /\ receipts' = receipts
          /\ DayReceiptCount' = 0 /\ LastHash' = 0 /\ LastDate' = 0 /\ dayTotal' = 0
      BY <1>00, <3>2 DEF OpenDayAtFdms, DayReceiptCount, LastHash, LastDate
    <3>4. BookInv'
      BY <1>0, <1>00, <2>1, <3>1, <3>2 DEF OpenDayAtFdms, BookInv, ClockPassed, ReceiptAt
    <3>5. QuietInv' /\ PendingInv'
      BY <1>0, <2>1, <3>1, <3>3 DEF QuietInv, PendingInv, OldDayCleared, storageVars
    <3>6. ClockPassed' /\ OldDayCleared'
      BY <2>1, <3>1, <3>3 DEF ClockPassed, OldDayCleared, ReceiptAt, storageVars
    <3>7. Fits(NewDayState(answer.fiscalDayNo, Len(receipts)))'
      BY <2>1, <3>2, <3>3 DEF Fits, NewDayState
    <3>8. CallInv'
      BY <1>0, <2>1, <2>3, <3>1, <3>3, <3>6, <3>7 DEF CallInv, storageVars
    <3>9. NoCloseMismatch'
      BY <3>2 DEF OpenDayAtFdms, NoCloseMismatch
    <3> QED
      BY <3>4, <3>5, <3>8, <3>9 DEF OrderInv
  <2>4. CASE Takes(sent) /\ pc = "close"
    <3>1. pending = None /\ state # None /\ sent = CloseBody(state)
      BY <1>0, <2>1, <2>4 DEF CallInv
    <3>2. CloseDayAtFdms(sent)
      BY <2>1, <2>4, <3>1 DEF Handle, CloseBody
    <3>3. Fits(state)
      BY <1>0, <3>1 DEF QuietInv
    <3>4. CloseVerdict(sent) \notin {"BadCertificateSignature", "CountersMismatch"}
      BY <3>1, <3>3 DEF CloseVerdict, CloseBody, Fits
    <3>5. BookInv' /\ NoCloseMismatch'
      BY <1>0, <2>1, <3>2, <3>4, SameBookInv DEF CloseDayAtFdms, NoCloseMismatch
    <3>6. QuietInv' /\ PendingInv'
      BY <1>0, <2>1, <3>1, <3>2, SameMemory, SameStored DEF CloseDayAtFdms, QuietInv, PendingInv, storageVars
    <3>7. CallInv'
      BY <1>0, <2>1, <2>4, <3>1 DEF CallInv, storageVars
    <3> QED
      BY <3>5, <3>6, <3>7 DEF OrderInv
  <2>5. CASE ~Takes(sent)
    <3>1. UNCHANGED fdmsVars /\ ~AnswerTo(sent).ok
      BY <2>1, <2>5 DEF Handle
    <3>2. BookInv' /\ NoCloseMismatch'
      BY <1>0, <2>1, <3>1, SameBookInv DEF NoCloseMismatch, fdmsVars
    <3>3. QuietInv' /\ PendingInv'
      BY <1>0, <2>1, <3>1, SamePending, SameMemory, SameStored DEF QuietInv, PendingInv, fdmsVars, storageVars
    <3>4. ClockPassed' = ClockPassed /\ OldDayCleared' = OldDayCleared
      BY <2>1, <3>1 DEF ClockPassed, OldDayCleared, ReceiptAt, fdmsVars, storageVars
    <3>5. CallInv'
      BY <1>0, <2>1, <3>1, <3>4, SamePending DEF CallInv, fdmsVars, storageVars
    <3> QED
      BY <3>2, <3>3, <3>5 DEF OrderInv
  <2> QED
    BY <2>1, <2>2, <2>3, <2>4, <2>5
<1>19. CASE /\ UNCHANGED <<receipts, dayStart, fiscalDayNo, dayTotal, closingErrorCode>>
           /\ UNCHANGED <<state, pc, reported, storageVars, wireVars, worldVars>>
  <2>1. BookInv' /\ NoCloseMismatch'
    BY <1>19, <1>0, SameBookInv DEF NoCloseMismatch, worldVars
  <2>2. QuietInv' /\ PendingInv'
    BY <1>19, <1>0, SamePending, SameMemory, SameStored DEF QuietInv, PendingInv, storageVars
  <2>3. /\ ClockPassed' = ClockPassed /\ OldDayCleared' = OldDayCleared
        /\ Fits(NewDayState(answer.fiscalDayNo, Len(receipts)))' = Fits(NewDayState(answer.fiscalDayNo, Len(receipts)))
    BY <1>19, SameBook DEF ClockPassed, OldDayCleared, Fits, ReceiptAt, storageVars, wireVars, worldVars
  <2>4. CallInv'
    BY <1>19, <1>0, <2>3, SamePending, SameMemory, SameStored DEF CallInv, storageVars, wireVars
  <2> QED
    BY <2>1, <2>2, <2>4 DEF OrderInv
<1>20. CASE LateArrives
  BY <1>20, <1>0 DEF LateArrives, CallInv
<1>21. CASE OutcomeUnknown
  <2>1. /\ late' = <<>> /\ sent' = None /\ answer' = None /\ pc' = "idle"
        /\ UNCHANGED <<fdmsVars, state, storageVars, now>>
    BY <1>21, <1>0, AbandonQuiet DEF OutcomeUnknown
  <2>2. BookInv' /\ NoCloseMismatch'
    BY <1>0, <2>1, SameBookInv DEF NoCloseMismatch, fdmsVars
  <2>3. QuietInv' /\ PendingInv'
    BY <1>0, <2>1, SamePending, SameMemory, SameStored DEF QuietInv, PendingInv, fdmsVars, storageVars
  <2>4. CallInv'
    BY <2>1 DEF CallInv
  <2> QED
    BY <2>2, <2>3, <2>4 DEF OrderInv
<1>22. CASE Crash
  <2>1. /\ late' = <<>> /\ sent' = None /\ answer' = None /\ pc' = "idle" /\ state' = None
        /\ UNCHANGED <<fdmsVars, storageVars, now>>
    BY <1>22, <1>0, AbandonQuiet DEF Crash
  <2>2. BookInv' /\ NoCloseMismatch'
    BY <1>0, <2>1, SameBookInv DEF NoCloseMismatch, fdmsVars
  <2>3. QuietInv' /\ PendingInv'
    BY <1>0, <2>1, SamePending, SameStored DEF QuietInv, PendingInv, fdmsVars, storageVars
  <2>4. CallInv'
    BY <2>1 DEF CallInv
  <2> QED
    BY <2>2, <2>3, <2>4 DEF OrderInv
<1>23. CASE DaySettles
  BY <1>23, <1>19 DEF DaySettles, SettleClose
<1>24. CASE UNCHANGED vars
  BY <1>24, <1>19 DEF vars, fdmsVars
<1>25. CASE FdmsRefuses
  <2>1. /\ sent # None /\ sent' = None /\ answer = None /\ ~answer'.ok
        /\ pc \in {"submit", "open", "close"}
        /\ UNCHANGED <<fdmsVars, state, pc, reported, storageVars, late, now>>
    BY <1>25, <1>0 DEF FdmsRefuses, CallInv, TypeOK, Places, worldVars
  <2>2. BookInv' /\ NoCloseMismatch'
    BY <1>0, <2>1, SameBookInv DEF NoCloseMismatch, fdmsVars
  <2>3. QuietInv' /\ PendingInv'
    BY <1>0, <2>1, SamePending, SameMemory, SameStored DEF QuietInv, PendingInv, fdmsVars, storageVars
  <2>4. ClockPassed' = ClockPassed /\ OldDayCleared' = OldDayCleared
    BY <2>1 DEF ClockPassed, OldDayCleared, ReceiptAt, fdmsVars, storageVars
  <2>5. CallInv'
    BY <1>0, <2>1, <2>4, SamePending DEF CallInv, fdmsVars, storageVars
  <2> QED
    BY <2>2, <2>3, <2>5 DEF OrderInv
<1> QED
  BY <1>1, <1>2, <1>3, <1>4, <1>5, <1>6, <1>7, <1>8, <1>9, <1>10, <1>11, <1>12, <1>13,
     <1>14, <1>15, <1>16, <1>17, <1>18, <1>20, <1>21, <1>22, <1>23, <1>24, <1>25
     DEF Next, Reconcile, Continue

LEMMA OrderInvariance ==
  ASSUME Orderly
  PROVE  Spec => []OrderInv
<1>1. TypeInv /\ OrderInv /\ [Next]_vars => OrderInv'
  BY NextOrder
<1> QED
  BY <1>1, InitOrder, TypeInvariance, PTL DEF Spec

-----------------------------------------------------------------------------

\* In an orderly environment FDMS colours no receipt Red for its number, its
\* hash chain or its date, over every crash, failed write and lost answer
\* (submitReceipt(), submitPrepared(), reconcile(), openDay()).
THEOREM SequenceIsSound ==
  ASSUME Orderly
  PROVE  Spec => []NoSequencingRed
<1>1. OrderInv => NoSequencingRed
  BY DEF OrderInv, BookInv, NoSequencingRed
<1> QED
  BY <1>1, OrderInvariance, PTL

\* Between calls with nothing unresolved, memory and storage both describe
\* the day as FDMS holds it (commitPrepared(), persistState(),
\* loadPersistedState()).
THEOREM DeviceInStep ==
  ASSUME Orderly
  PROVE  Spec => []InStep
<1>1. TypeInv /\ OrderInv => InStep
  <2> SUFFICES ASSUME TypeInv, OrderInv, pending = None, NEW s \in {state, dayState} \ {None}
               PROVE  Agrees(s)
    BY DEF InStep
  <2>1. Fits(s)
    BY DEF OrderInv, QuietInv
  <2>2. HighestGlobalNo = Len(receipts)
    BY HighestIsLen DEF OrderInv, TypeInv, TypeOK
  <2> QED
    BY <2>1, <2>2 DEF Fits, Agrees
<1> QED
  BY <1>1, OrderInvariance, TypeInvariance, PTL

\* With nothing unresolved the stored highest number is FDMS's own, so
\* openDay() never reuses a number (persistState(), openDay()).
THEOREM IssuedDurable ==
  ASSUME Orderly
  PROVE  Spec => []IssuedIsDurable
<1>1. TypeInv /\ OrderInv => IssuedIsDurable
  BY HighestIsLen DEF OrderInv, QuietInv, TypeInv, TypeOK, IssuedIsDurable
<1> QED
  BY <1>1, OrderInvariance, TypeInvariance, PTL

\* closeDay() never signs counters other than FDMS's.
THEOREM CloseMatches ==
  ASSUME Orderly
  PROVE  Spec => []NoCloseMismatch
<1>1. OrderInv => NoCloseMismatch
  BY DEF OrderInv
<1> QED
  BY <1>1, OrderInvariance, PTL

-----------------------------------------------------------------------------
(* The Red receipts a device knows of are FDMS's.                          *)

\* FDMS coloured receipt n of the current day Red.
RedInBook(n) ==
  \E i \in (dayStart + 1)..Len(receipts) : ReceiptAt(i).globalNo = n /\ receipts[i].errors # {}

Truthful(s) == \A n \in s.redErrors : RedInBook(n)

\* RedIsTruthful for the marker as well, and a Red verdict on its way back is
\* the pending receipt's.
RedInv ==
  /\ state # None => Truthful(state)
  /\ dayState # None => Truthful(dayState)
  /\ pending # None => Truthful(pending.stateAfter)
  /\ pc = "submit" /\ answer # None /\ answer.red => RedInBook(pending.receipt.globalNo)

\* What FDMS coloured Red stays so.
RedStays == \A n : RedInBook(n) => RedInBook(n)'

-----------------------------------------------------------------------------

LEMMA SameRed ==
  ASSUME UNCHANGED <<receipts, dayStart>>
  PROVE  RedStays
BY DEF RedStays, RedInBook, ReceiptAt

\* A day state keeps being truthful while its Red receipts do.
LEMMA StaysTruthful ==
  ASSUME RedStays
  PROVE  /\ Truthful(state) /\ state' = state => Truthful(state)'
         /\ Truthful(dayState) /\ dayState' = dayState => Truthful(dayState)'
         /\ Truthful(dayState) /\ state' = dayState => Truthful(state)'
         /\ Truthful(state) /\ dayState' = state => Truthful(dayState)'
         /\ Truthful(pending.stateAfter) /\ pending' = pending => Truthful(pending.stateAfter)'
BY DEF RedStays, Truthful

\* A receipt that is recorded colours no other, and its own verdict is in the
\* answer.
LEMMA RecordingRed ==
  ASSUME TypeOK, NEW r \in Receipt, RecordReceipt(r)
  PROVE  /\ RedStays
         /\ ValidationErrors(r) # {} => RedInBook(r.globalNo)'
<1> DEFINE n == Len(receipts)
           e == [receipt |-> r, errors |-> ValidationErrors(r)]
<1>1. e.receipt = r /\ e.errors = ValidationErrors(r)
  OBVIOUS
<1>2. receipts' = Append(receipts, e) /\ dayStart' = dayStart /\ dayStart \in 0..n /\ n \in Nat
  BY DEF RecordReceipt, TypeOK, FdmsTypeOK
<1> HIDE DEF e
<1>3. /\ Len(receipts') = n + 1 /\ receipts'[n + 1] = e
      /\ \A i \in 1..n : receipts'[i] = receipts[i]
  BY <1>2 DEF TypeOK, FdmsTypeOK
<1> HIDE DEF n
<1>4. /\ \A i \in (dayStart + 1)..n : i \in 1..n /\ i \in (dayStart + 1)..(n + 1)
      /\ n + 1 \in (dayStart + 1)..(n + 1)
  BY <1>2
<1>5. RedStays
  BY <1>2, <1>3, <1>4 DEF RedStays, RedInBook, ReceiptAt, n
<1>6. ValidationErrors(r) # {} => RedInBook(r.globalNo)'
  BY <1>1, <1>2, <1>3, <1>4 DEF RedInBook, ReceiptAt
<1> QED
  BY <1>5, <1>6

\* A committed receipt adds at most its own number.
LEMMA CommittedTruthful ==
  ASSUME NEW s \in DayState \cup {None}, NEW p \in PreparedReceipt, NEW red \in BOOLEAN,
         s # None => Truthful(s), Truthful(p.stateAfter),
         red => RedInBook(p.receipt.globalNo)
  PROVE  Truthful(CommittedState(s, p, red))
<1> DEFINE t == IF s = None THEN p.stateAfter
                ELSE IF s.receiptGlobalNo < p.receipt.globalNo THEN p.stateAfter ELSE s
<1>1. t \in DayState /\ Truthful(t)
  BY DEF PreparedReceipt
<1>2. CommittedState(s, p, red) = IF red THEN [t EXCEPT !.redErrors = @ \cup {p.receipt.globalNo}] ELSE t
  BY DEF CommittedState
<1> HIDE DEF t
<1>3. [t EXCEPT !.redErrors = @ \cup {p.receipt.globalNo}].redErrors = t.redErrors \cup {p.receipt.globalNo}
  BY <1>1 DEF DayState
<1> QED
  BY <1>1, <1>2, <1>3 DEF Truthful

-----------------------------------------------------------------------------
(* RedInv is inductive, given TypeInv and OrderInv.                        *)

LEMMA InitRed == Init => RedInv
BY DEF Init, RedInv

LEMMA NextRed == TypeInv /\ Orderly /\ OrderInv /\ RedInv /\ [Next]_vars => RedInv'
<1> SUFFICES ASSUME TypeInv, Orderly, OrderInv, RedInv, [Next]_vars
             PROVE  RedInv'
  OBVIOUS
<1>0. TypeOK /\ CallInv
  BY DEF TypeInv, OrderInv
<1>1. CASE SubmitReceipt
  <2>1. PICK amount \in Amounts, badTax \in BOOLEAN, date \in ReceiptDates(state) :
          pending' = Prepare(state, SignReceipt(state, date, amount, badTax))
    BY <1>1 DEF SubmitReceipt
  <2>2. pending'.stateAfter.redErrors = state.redErrors
    BY <2>1 DEF Prepare, StateAfter
  <2>3. RedStays /\ state # None /\ answer = None
    BY <1>0, <1>1, SameRed DEF SubmitReceipt, CallInv, fdmsVars
  <2> QED
    BY <1>1, <2>2, <2>3, StaysTruthful DEF SubmitReceipt, RedInv, Truthful, RedStays
<1>2. CASE SubmitAnswered
  <2>1. /\ state \in DayState \cup {None} /\ pending \in PreparedReceipt
        /\ pending # None /\ answer.red \in BOOLEAN
    BY <1>2 DEF SubmitAnswered, TypeInv, TypeOK, Answer
  <2>2. Truthful(CommittedState(state, pending, answer.red))
    BY <1>2, <2>1, CommittedTruthful DEF SubmitAnswered, RedInv
  <2>3. RedStays
    BY <1>2, SameRed DEF SubmitAnswered, fdmsVars
  <2>4. Truthful(state)'
    BY <1>2, <2>2, <2>3 DEF SubmitAnswered, Truthful, RedStays
  <2> QED
    BY <1>2, <2>3, <2>4, StaysTruthful DEF SubmitAnswered, RedInv, storageVars
<1>3. CASE ReconcileConfirmed
  <2>1. LoadedState \in DayState \cup {None} /\ pending \in PreparedReceipt
    BY <1>0, <1>3 DEF ReconcileConfirmed, LoadedState, TypeOK
  <2>2. LoadedState # None => Truthful(LoadedState)
    BY DEF LoadedState, RedInv
  <2>3. Truthful(CommittedState(LoadedState, pending, FALSE))
    BY <1>3, <2>1, <2>2, CommittedTruthful DEF ReconcileConfirmed, RedInv
  <2>4. RedStays
    BY <1>3, SameRed DEF ReconcileConfirmed, fdmsVars
  <2>5. Truthful(state)'
    BY <1>3, <2>3, <2>4 DEF ReconcileConfirmed, Truthful, RedStays
  <2> QED
    BY <1>3, <2>4, <2>5, StaysTruthful DEF ReconcileConfirmed, RedInv, storageVars
<1>4. CASE OpenAnswered
  <2>1. state'.redErrors = {}
    BY <1>4 DEF OpenAnswered, NewDayState
  <2>2. RedStays
    BY <1>4, SameRed DEF OpenAnswered, fdmsVars
  <2> QED
    BY <1>4, <2>1, <2>2, StaysTruthful DEF OpenAnswered, RedInv, Truthful, storageVars
<1>5. CASE FdmsAnswers
  <2>1. /\ sent # None /\ answer = None /\ Handle(sent) /\ answer' = AnswerTo(sent)
        /\ pc \in {"submit", "open", "close"}
        /\ UNCHANGED <<state, pc, storageVars>>
    BY <1>0, <1>5 DEF FdmsAnswers, CallInv, TypeOK, Places
  <2>2. CASE Takes(sent) /\ pc = "submit"
    <3>1. sent = Submit(pending.receipt) /\ pending # None /\ pending.receipt \in Receipt
      BY <1>0, <2>1, <2>2 DEF CallInv, TypeOK, PreparedReceipt
    <3>2. PICK r \in Receipt : r = pending.receipt
      BY <3>1
    <3>3. RecordReceipt(r)
      BY <2>1, <2>2, <3>1, <3>2 DEF Handle, Submit
    <3>4. answer'.red => ValidationErrors(r) # {}
      BY <2>1, <3>1, <3>2 DEF AnswerTo, Submit
    <3>5. RedStays /\ (ValidationErrors(r) # {} => RedInBook(r.globalNo)')
      BY <1>0, <3>3, RecordingRed
    <3>6. pending' = pending
      BY <2>1 DEF storageVars
    <3>7. answer'.red => RedInBook(pending.receipt.globalNo)'
      BY <3>2, <3>4, <3>5, <3>6
    <3> QED
      BY <2>1, <3>5, <3>6, <3>7, StaysTruthful DEF RedInv, storageVars
  <2>3. CASE Takes(sent) /\ pc = "open"
    BY <1>0, <2>1, <2>3 DEF CallInv, OldDayCleared, RedInv, storageVars
  <2>4. CASE Takes(sent) /\ pc = "close"
    <3>1. CloseDayAtFdms(sent)
      BY <1>0, <2>1, <2>4 DEF CallInv, Handle, CloseBody
    <3>2. RedStays
      BY <3>1, SameRed DEF CloseDayAtFdms
    <3> QED
      BY <2>1, <2>4, <3>2, StaysTruthful DEF RedInv, storageVars
  <2>5. CASE ~Takes(sent)
    <3>1. RedStays /\ answer'.red = FALSE
      BY <2>1, <2>5, SameRed DEF Handle, AnswerTo, fdmsVars
    <3> QED
      BY <2>1, <3>1, StaysTruthful DEF RedInv, storageVars
  <2> QED
    BY <2>1, <2>2, <2>3, <2>4, <2>5
<1>14. CASE FdmsRefuses
  <2>1. RedStays /\ answer'.red = FALSE
    BY <1>14, SameRed DEF FdmsRefuses, fdmsVars
  <2> QED
    BY <1>14, <2>1, StaysTruthful DEF FdmsRefuses, RedInv, storageVars
<1>6. CASE LateArrives
  BY <1>0, <1>6 DEF LateArrives, CallInv
\* Every other step moves the day state between memory and storage, drops it
\* or leaves it alone.
<1>7. CASE /\ UNCHANGED <<receipts, dayStart>>
           /\ state' \in {state, dayState, None}
           /\ dayState' \in {state, dayState, None}
           /\ pending' \in {pending, None}
           /\ pc' = "submit" /\ answer' # None /\ answer'.red => UNCHANGED <<pc, answer, pending>>
  <2>1. RedStays
    BY <1>7, SameRed
  <2>2. pc' = "submit" /\ answer' # None /\ answer'.red => RedInBook(pending.receipt.globalNo)'
    <3> SUFFICES ASSUME pc' = "submit", answer' # None, answer'.red
                 PROVE  RedInBook(pending.receipt.globalNo)'
      OBVIOUS
    <3>1. RedInBook(pending.receipt.globalNo) /\ pending' = pending
      BY <1>7 DEF RedInv
    <3> QED
      BY <2>1, <3>1 DEF RedStays
  <2> QED
    BY <1>7, <2>1, <2>2, StaysTruthful DEF RedInv
<1>8. CASE Reconcile /\ ~ReconcileConfirmed
  BY <1>0, <1>7, <1>8
     DEF Reconcile, ReconcileNothing, ReconcileResubmit, LoadedState, CallInv, fdmsVars, storageVars, wireVars
<1>9. CASE OpenDay \/ CloseDay \/ ClearPersistedState
  BY <1>7, <1>9 DEF OpenDay, CloseDay, ClearPersistedState, fdmsVars, storageVars, wireVars
<1>10. CASE SubmitRefused \/ SaveDayState \/ SaveLastGlobal \/ ClearPending
  BY <1>7, <1>10 DEF SubmitRefused, SaveDayState, SaveLastGlobal, ClearPending, fdmsVars, storageVars, wireVars
<1>11. CASE CloseAnswered \/ DayCallRefused
  BY <1>7, <1>11 DEF CloseAnswered, DayCallRefused, fdmsVars, storageVars
<1>12. CASE OutcomeUnknown \/ StorageFails \/ Crash
  BY <1>7, <1>12 DEF OutcomeUnknown, StorageFails, Crash, AbandonCall, fdmsVars, storageVars, wireVars
<1>13. CASE DaySettles \/ Tick \/ UNCHANGED vars
  BY <1>7, <1>13 DEF DaySettles, SettleClose, Tick, vars, fdmsVars, storageVars, wireVars
<1> QED
  BY <1>1, <1>2, <1>3, <1>4, <1>5, <1>6, <1>8, <1>9, <1>10, <1>11, <1>12, <1>13, <1>14
     DEF Next, Reconcile, Continue

\* In an orderly environment closeDay() refuses a day up front only for a
\* receipt FDMS did colour Red in that day, whatever was interrupted and
\* restored before (commitPrepared(), loadPersistedState(), openDay()).
THEOREM RedTruthful ==
  ASSUME Orderly
  PROVE  Spec => []RedIsTruthful
<1>1. TypeInv /\ OrderInv /\ RedInv /\ [Next]_vars => RedInv'
  BY NextRed
<1>2. RedInv => RedIsTruthful
  BY DEF RedInv, Truthful, RedInBook, RedIsTruthful
<1> QED
  BY <1>1, <1>2, InitRed, TypeInvariance, OrderInvariance, PTL DEF Spec

-----------------------------------------------------------------------------
(* FiscalDevice implements FiscalLedger in an orderly environment, for      *)
(* every value of the other constants.                                      *)

\* What the ledger's variables stand for.
Book == [i \in DOMAIN receipts |-> LedgerEntry(ReceiptAt(i))]

FirstOfDay == DayReceiptCount = 0

Unresolved == IF pending = None THEN {} ELSE {LedgerEntry(pending.receipt)}

\* The entry FDMS expects next.
Following(h) == [number |-> Len(receipts) + 1, previous |-> LastHash, hash |-> h]

\* The hashes given out are in the ledger's range.
HashInv ==
  /\ signed \in 0..MaxSigned
  /\ pending # None => pending.receipt.hash \in 1..MaxSigned

-----------------------------------------------------------------------------

\* A function that continues s by x is s with x appended.
LEMMA AppendedTo ==
  ASSUME NEW S, NEW s \in Seq(S), NEW x, NEW t,
         t = [i \in 1..(Len(s) + 1) |-> t[i]], t[Len(s) + 1] = x,
         \A i \in 1..Len(s) : t[i] = s[i]
  PROVE  t = Append(s, x)
<1> DEFINE U == S \cup {x}
           n == Len(s)
<1>1. s \in Seq(U) /\ x \in U /\ n \in Nat
  <2>1. S \subseteq U /\ x \in U
    OBVIOUS
  <2> HIDE DEF U
  <2> QED
    BY <2>1, SeqMonotonic, LenProperties
<1>2. \A i \in 1..n : s[i] \in U
  BY ElementOfSeq
<1> HIDE DEF U
<1>3. /\ Append(s, x) \in Seq(U) /\ Len(Append(s, x)) = n + 1
      /\ \A i \in 1..n : Append(s, x)[i] = s[i]
      /\ Append(s, x)[n + 1] = x
  BY <1>1
<1>4. t = [i \in 1..(n + 1) |-> t[i]] /\ t[n + 1] = x /\ \A i \in 1..n : t[i] = s[i]
  OBVIOUS
<1> HIDE DEF n
<1>5. \A i \in 1..(n + 1) : i = n + 1 \/ i \in 1..n
  BY <1>1
<1>6. \A i \in 1..(n + 1) : t[i] \in U /\ t[i] = Append(s, x)[i]
  BY <1>1, <1>2, <1>3, <1>4, <1>5
<1>7. n + 1 \in Nat /\ t \in [1..(n + 1) -> U]
  <2>1. \A i \in 1..(n + 1) : t[i] \in U
    BY <1>6
  <2>2. [i \in 1..(n + 1) |-> t[i]] \in [1..(n + 1) -> U]
    BY ONLY <2>1
  <2>3. t = [i \in 1..(n + 1) |-> t[i]]
    BY <1>4
  <2>4. t \in [1..(n + 1) -> U]
    BY ONLY <2>2, <2>3, Zenon
  <2> QED
    BY <1>1, <2>4
<1>8. t \in Seq(U)
  BY <1>7
<1>9. Len(t) = n + 1
  <2>1. Len(t) \in Nat /\ DOMAIN t = 1..Len(t) /\ DOMAIN t = 1..(n + 1)
    BY <1>7, <1>8, LenProperties
  <2> QED
    BY <1>7, <2>1
<1> QED
  BY <1>3, <1>6, <1>8, <1>9, SeqEqual

LEMMA BookLength ==
  ASSUME TypeOK
  PROVE  Book \in Seq({Book[i] : i \in DOMAIN receipts}) /\ Len(Book) = Len(receipts)
<1> DEFINE S == {Book[i] : i \in DOMAIN receipts}
<1>1. Len(receipts) \in Nat /\ DOMAIN receipts = 1..Len(receipts)
  BY BookTypes DEF TypeOK
<1>2. DOMAIN Book = 1..Len(receipts)
  BY <1>1 DEF Book
<1>3. Book \in [1..Len(receipts) -> S]
  BY <1>1 DEF Book
<1> HIDE DEF S
<1>4. Book \in Seq(S)
  BY <1>1, <1>3
<1>5. Len(Book) \in Nat /\ DOMAIN Book = 1..Len(Book)
  BY <1>4
<1>6. Len(Book) = Len(receipts)
  BY <1>1, <1>2, <1>5
<1> QED
  BY <1>4, <1>6 DEF S

LEMMA NextEntryIsFollowing ==
  ASSUME TypeOK, NEW h
  PROVE  Ledger!NextEntry(h) = Following(h)
<1>1. Ledger!NextEntry(h) =
        [number |-> Len(Book) + 1,
         previous |-> IF FirstOfDay THEN 0 ELSE Book[Len(Book)].hash,
         hash |-> h]
  BY DEF Ledger!NextEntry, Book, FirstOfDay
<1>2. ~FirstOfDay => Book[Len(receipts)].hash = LastHash
  <2> SUFFICES ASSUME ~FirstOfDay
               PROVE  Book[Len(receipts)].hash = LastHash
    OBVIOUS
  <2>1. Len(receipts) \in DOMAIN receipts
    <3> DEFINE n == Len(receipts)
    <3>1. n \in Nat /\ DOMAIN receipts = 1..n /\ dayStart \in 0..n /\ n - dayStart # 0
      BY BookTypes DEF TypeOK, FdmsTypeOK, FirstOfDay, DayReceiptCount
    <3> HIDE DEF n
    <3>2. n \in 1..n
      BY <3>1
    <3> QED
      BY <3>1, <3>2 DEF n
  <2>2. Book[Len(receipts)].hash = ReceiptAt(Len(receipts)).hash
    BY <2>1 DEF Book, LedgerEntry
  <2> QED
    BY <2>2 DEF LastHash, FirstOfDay
<1>3. FirstOfDay => LastHash = 0
  BY DEF LastHash, FirstOfDay
<1> QED
  BY <1>1, <1>2, <1>3, BookLength DEF Following

\* A receipt that waits is the entry the ledger expects.
LEMMA WaitingFollows ==
  ASSUME NEW p, Waiting(p)
  PROVE  LedgerEntry(p.receipt) = Following(p.receipt.hash)
BY DEF Waiting, LedgerEntry, Following

-----------------------------------------------------------------------------

LEMMA InitHash == Init => HashInv
BY BoundsAreNumbers DEF Init, HashInv

LEMMA NextHash == TypeInv /\ HashInv /\ [Next]_vars => HashInv'
<1> SUFFICES ASSUME TypeInv, HashInv, [Next]_vars
             PROVE  HashInv'
  OBVIOUS
<1>1. CASE SubmitReceipt
  <2>1. signed' = signed + 1 /\ signed < MaxSigned
    BY <1>1 DEF SubmitReceipt
  <2>2. pending'.receipt.hash = signed + 1
    BY <1>1 DEF SubmitReceipt, Prepare, SignReceipt
  <2> QED
    BY <2>1, <2>2, BoundsAreNumbers DEF HashInv
<1>2. CASE signed' = signed /\ pending' \in {pending, None}
  BY <1>2 DEF HashInv
<1>3. CASE OpenDay \/ CloseDay \/ ClearPersistedState \/ Reconcile
  BY <1>2, <1>3 DEF OpenDay, CloseDay, ClearPersistedState, Reconcile, ReconcileNothing,
                    ReconcileConfirmed, ReconcileResubmit, storageVars, worldVars
<1>4. CASE Continue
  BY <1>2, <1>4 DEF Continue, SubmitAnswered, SubmitRefused, SaveDayState, SaveLastGlobal, ClearPending,
                    OpenAnswered, CloseAnswered, DayCallRefused, storageVars, worldVars
<1>5. CASE FdmsAnswers \/ FdmsRefuses \/ DaySettles \/ LateArrives \/ OutcomeUnknown \/ StorageFails \/ Crash
  BY <1>2, <1>5 DEF FdmsAnswers, FdmsRefuses, DaySettles, LateArrives, OutcomeUnknown, StorageFails, Crash,
                    AbandonCall, storageVars, worldVars
<1>6. CASE Tick \/ UNCHANGED vars
  BY <1>2, <1>6 DEF Tick, vars, storageVars, worldVars
<1> QED
  BY <1>1, <1>3, <1>4, <1>5, <1>6 DEF Next

-----------------------------------------------------------------------------

LEMMA InitLedger == Init => Ledger!Init
<1> SUFFICES ASSUME Init
             PROVE  Ledger!Init
  OBVIOUS
<1>1. receipts = <<>> /\ DayReceiptCount = 0 /\ pending = None /\ lastGlobal = 0
  BY DEF Init, FdmsInit, DayReceiptCount
<1>2. Book = <<>>
  BY <1>1 DEF Book
<1> QED
  BY <1>1, <1>2 DEF Ledger!Init, Book

\* A step that leaves the book, the marker and the stored highest number
\* alone is none of the ledger's.
LEMMA LedgerStutters ==
  ASSUME UNCHANGED <<receipts, dayStart, pending, lastGlobal>>
  PROVE  UNCHANGED Ledger!vars
BY SameBook DEF Ledger!vars, ReceiptAt, LedgerEntry

\* What each request in flight is for.
CallsFit ==
  /\ sent # None => pc \in {"submit", "open", "close"}
  /\ pc = "submit" =>
       pending # None /\ (sent # None => sent = Submit(pending.receipt) /\ Waiting(pending))
  /\ pc = "open" => pending = None /\ (sent # None => sent.endpoint = "OpenDay")
  /\ pc = "close" => (sent # None => sent.endpoint = "CloseDay")

\* Signing a receipt on FDMS's day writes the entry the ledger expects, ...
LEMMA LedgerSigns ==
  ASSUME TypeOK, Punctual, BookInv, HashInv, SubmitReceipt, state # None => Fits(state)
  PROVE  Ledger!Next
<1>1. PICK amount \in Amounts, badTax \in BOOLEAN, date \in ReceiptDates(state) :
        pending' = Prepare(state, SignReceipt(state, date, amount, badTax))
  BY DEF SubmitReceipt
<1>2. state # None /\ pending = None /\ Fits(state) /\ state \in DayState
  BY DEF SubmitReceipt, NoPending, TypeOK
<1>3. Waiting(pending') /\ pending'.receipt.hash = signed + 1 /\ pending' # None
  BY <1>1, <1>2, SignedIsNext, PrepareType, NoneIsNothing DEF Prepare, SignReceipt
<1>4. signed + 1 \in 1..MaxSigned
  BY BoundsAreNumbers DEF SubmitReceipt, HashInv
<1>5. LedgerEntry(pending'.receipt) = Ledger!NextEntry(signed + 1)
  BY <1>3, WaitingFollows, NextEntryIsFollowing
<1>6. Unresolved' = {Ledger!NextEntry(signed + 1)} /\ Unresolved = {}
  BY <1>2, <1>3, <1>5 DEF Unresolved
<1>7. Book' = Book /\ FirstOfDay' = FirstOfDay /\ lastGlobal' = lastGlobal
  BY SameBook DEF SubmitReceipt, Book, FirstOfDay, fdmsVars, ReceiptAt, LedgerEntry
<1> QED
  BY <1>4, <1>6, <1>7 DEF Ledger!Next, Ledger!Sign, Book, FirstOfDay, Unresolved

\* ... FDMS enters the receipt that waits or begins a day between receipts, ...
LEMMA LedgerTakes ==
  ASSUME TypeOK, HashInv, CallsFit, FdmsAnswers
  PROVE  Ledger!Next \/ UNCHANGED Ledger!vars
<1>00. Len(Book) = Len(receipts) /\ Len(receipts) \in Nat
  BY BookLength, BookTypes DEF TypeOK
<1>1. /\ sent # None /\ Handle(sent) /\ pc \in {"submit", "open", "close"}
      /\ pending' = pending /\ lastGlobal' = lastGlobal
  BY DEF FdmsAnswers, CallsFit, storageVars
<1>2. CASE Takes(sent) /\ pc = "submit"
  <2>1. /\ sent = Submit(pending.receipt) /\ pending # None /\ Waiting(pending)
        /\ pending.receipt \in Receipt
    BY <1>1, <1>2 DEF CallsFit, TypeOK, PreparedReceipt
  <2>2. PICK r \in Receipt : r = pending.receipt
    BY <2>1
  <2>3. RecordReceipt(r)
    BY <1>1, <1>2, <2>1, <2>2 DEF Handle, Submit
  <2>4. r.hash \in 1..MaxSigned /\ LedgerEntry(r) = Ledger!NextEntry(r.hash)
    BY <2>1, <2>2, WaitingFollows, NextEntryIsFollowing DEF HashInv
  <2>5. Unresolved = {LedgerEntry(r)} /\ Unresolved' = Unresolved
    BY <1>1, <2>1, <2>2 DEF Unresolved
  <2>6. /\ Len(receipts') = Len(receipts) + 1 /\ DOMAIN receipts' = 1..(Len(receipts) + 1)
        /\ \A i \in 1..Len(receipts) : receipts'[i] = receipts[i]
        /\ receipts'[Len(receipts) + 1].receipt = r
        /\ dayStart' = dayStart
    BY <2>3 DEF RecordReceipt, TypeOK, FdmsTypeOK
  <2>7. Book' = Append(Book, LedgerEntry(r))
    <3>1. Book' = [i \in 1..(Len(receipts) + 1) |-> LedgerEntry(receipts'[i].receipt)]
      BY <2>6 DEF Book, ReceiptAt, LedgerEntry
    <3>2. \A i \in 1..Len(receipts) : Book[i] = LedgerEntry(receipts[i].receipt)
      BY BookTypes DEF Book, ReceiptAt, TypeOK
    <3>3. /\ Book' = [i \in 1..(Len(Book) + 1) |-> Book'[i]]
          /\ Book'[Len(Book) + 1] = LedgerEntry(r)
          /\ \A i \in 1..Len(Book) : Book'[i] = Book[i]
      <4>1. \A i \in 1..Len(receipts) : i \in 1..(Len(receipts) + 1)
        BY <1>00
      <4>2. Len(receipts) + 1 \in 1..(Len(receipts) + 1)
        BY <1>00
      <4> QED
        BY <1>00, <2>6, <3>1, <3>2, <4>1, <4>2
    <3>4. PICK t : t = Book'
      OBVIOUS
    <3>5. PICK s \in Seq({Book[i] : i \in DOMAIN receipts}) : s = Book
      BY BookLength
    <3>6. t = Append(s, LedgerEntry(r))
      BY <3>3, <3>4, <3>5, AppendedTo
    <3> QED
      BY <3>4, <3>5, <3>6
  <2>8. FirstOfDay' = FALSE
    BY <1>00, <2>6 DEF FirstOfDay, DayReceiptCount, TypeOK, FdmsTypeOK
  <2> QED
    BY <1>1, <2>4, <2>5, <2>7, <2>8 DEF Ledger!Next, Ledger!Enter, Book, FirstOfDay, Unresolved
<1>3. CASE Takes(sent) /\ pc = "open"
  <2>1. pending = None /\ OpenDayAtFdms
    BY <1>1, <1>3 DEF CallsFit, Handle
  <2>2. Unresolved = {} /\ Unresolved' = {} /\ Book' = Book /\ FirstOfDay' = TRUE
    BY <1>00, <1>1, <2>1
       DEF OpenDayAtFdms, Unresolved, Book, FirstOfDay, DayReceiptCount, ReceiptAt, LedgerEntry
  <2> QED
    BY <1>1, <2>2 DEF Ledger!Next, Ledger!NewDay, Book, FirstOfDay, Unresolved
<1>4. CASE Takes(sent) /\ pc = "close"
  <2>1. CloseDayAtFdms(sent)
    BY <1>1, <1>4 DEF CallsFit, Handle
  <2> QED
    BY <1>1, <2>1, LedgerStutters DEF CloseDayAtFdms
<1>5. CASE ~Takes(sent)
  BY <1>1, <1>5, LedgerStutters DEF Handle, fdmsVars
<1> QED
  BY <1>1, <1>2, <1>3, <1>4, <1>5

\* ... the stored highest number catches up with an entered receipt, ...
LEMMA LedgerNotes ==
  ASSUME TypeOK, SaveLastGlobal, Fits(state), pending # None => Entered(pending),
         lastGlobal <= Len(receipts), pending = None => lastGlobal = Len(receipts)
  PROVE  Ledger!Next \/ UNCHANGED Ledger!vars
<1>00. Len(Book) = Len(receipts) /\ Len(receipts) \in Nat
  BY BookLength, BookTypes DEF TypeOK
<1>1. /\ UNCHANGED <<receipts, dayStart, pending>>
      /\ state.receiptGlobalNo = Len(receipts) /\ lastGlobal \in Nat
  BY DEF SaveLastGlobal, Fits, TypeOK, fdmsVars
<1>2. lastGlobal' = Len(receipts)
  BY <1>00, <1>1 DEF SaveLastGlobal
<1>3. CASE pending = None
  BY <1>1, <1>2, <1>3, LedgerStutters
<1>4. CASE pending # None
  <2>1. /\ Unresolved = {LedgerEntry(pending.receipt)}
        /\ LedgerEntry(pending.receipt).number = Len(Book)
    BY <1>00, <1>4 DEF Unresolved, LedgerEntry, Entered
  <2>2. Book' = Book /\ FirstOfDay' = FirstOfDay /\ Unresolved' = Unresolved /\ lastGlobal' = Len(Book)
    BY <1>00, <1>1, <1>2, SameBook DEF Book, FirstOfDay, Unresolved, ReceiptAt, LedgerEntry
  <2> QED
    BY <2>1, <2>2 DEF Ledger!Next, Ledger!Note, Book, FirstOfDay, Unresolved
<1> QED
  BY <1>3, <1>4

\* ... and the marker goes when it has.
LEMMA LedgerResolves ==
  ASSUME TypeOK, SubmitRefused \/ ClearPending, lastGlobal = Len(receipts)
  PROVE  Ledger!Next
<1>00. Len(Book) = Len(receipts) /\ Len(receipts) \in Nat
  BY BookLength, BookTypes DEF TypeOK
<1>1. UNCHANGED <<receipts, dayStart, lastGlobal>> /\ pending' = None
  BY DEF SubmitRefused, ClearPending, fdmsVars
<1>2. Book' = Book /\ FirstOfDay' = FirstOfDay /\ Unresolved' = {} /\ lastGlobal = Len(Book)
  BY <1>00, <1>1, SameBook DEF Book, FirstOfDay, Unresolved, ReceiptAt, LedgerEntry
<1> QED
  BY <1>1, <1>2 DEF Ledger!Next, Ledger!Resolve, Book, FirstOfDay, Unresolved

LEMMA NextLedger ==
  TypeInv /\ Orderly /\ OrderInv /\ HashInv /\ [Next]_vars => [Ledger!Next]_Ledger!vars
<1> SUFFICES ASSUME TypeInv, Orderly, OrderInv, HashInv, [Next]_vars
             PROVE  Ledger!Next \/ UNCHANGED Ledger!vars
  OBVIOUS
<1>0. TypeOK /\ QuietInv /\ PendingInv /\ CallInv /\ BookInv
  BY DEF TypeInv, OrderInv
<1>00. Len(receipts) \in Nat
  BY <1>0, BookTypes DEF TypeOK
<1>1. CASE SubmitReceipt
  <2>1. Punctual /\ (state # None => Fits(state))
    BY <1>0, <1>1 DEF Orderly, SubmitReceipt, NoPending, QuietInv
  <2> QED
    BY <1>0, <1>1, <2>1, LedgerSigns
<1>2. CASE FdmsAnswers
  <2>1. CallsFit
    BY <1>0 DEF CallInv, CallsFit, CloseBody, TypeOK, Places
  <2> QED
    BY <1>0, <1>2, <2>1, LedgerTakes
<1>3. CASE SaveLastGlobal
  <2>1. Fits(state) /\ (pending # None => Entered(pending))
    BY <1>0, <1>3 DEF SaveLastGlobal, CallInv
  <2>2. lastGlobal <= Len(receipts) /\ (pending = None => lastGlobal = Len(receipts))
    BY <1>0, <1>00, <2>1 DEF QuietInv, PendingInv
  <2> QED
    BY <1>0, <1>3, <2>1, <2>2, LedgerNotes
<1>4. CASE SubmitRefused \/ ClearPending
  <2>1. lastGlobal = Len(receipts)
    BY <1>0, <1>4, NotBoth DEF SubmitRefused, ClearPending, CallInv, PendingInv
  <2> QED
    BY <1>0, <1>4, <2>1, LedgerResolves
<1>5. CASE LateArrives
  BY <1>0, <1>5 DEF LateArrives, CallInv
<1>6. CASE OpenDay \/ CloseDay \/ ClearPersistedState \/ Reconcile
  BY <1>6, LedgerStutters
     DEF OpenDay, CloseDay, ClearPersistedState, Reconcile, ReconcileNothing, ReconcileConfirmed,
         ReconcileResubmit, fdmsVars, storageVars
<1>7. CASE SubmitAnswered \/ SaveDayState \/ OpenAnswered \/ CloseAnswered \/ DayCallRefused
  BY <1>7, LedgerStutters
     DEF SubmitAnswered, SaveDayState, OpenAnswered, CloseAnswered, DayCallRefused, fdmsVars, storageVars
<1>8. CASE FdmsRefuses \/ DaySettles \/ OutcomeUnknown \/ StorageFails \/ Crash
  BY <1>8, LedgerStutters
     DEF FdmsRefuses, DaySettles, SettleClose, OutcomeUnknown, StorageFails, Crash, fdmsVars, storageVars
<1>9. CASE Tick \/ UNCHANGED vars
  BY <1>9, LedgerStutters DEF Tick, vars, fdmsVars, storageVars
<1> QED
  BY <1>1, <1>2, <1>3, <1>4, <1>5, <1>6, <1>7, <1>8, <1>9 DEF Next, Continue

\* In an orderly environment the device on FDMS is the gapless ledger: every
\* signed receipt enters FDMS's record at most once and in turn, one at a time
\* is unresolved, and a marker goes only when the stored highest number is
\* FDMS's own (submitPrepared(), commitPrepared(), reconcile(), openDay()).
THEOREM LedgerIsImplemented ==
  ASSUME Orderly
  PROVE  Spec => ImplementsLedger
<1>1. TypeInv /\ OrderInv /\ HashInv /\ [Next]_vars => [Ledger!Next]_Ledger!vars
  BY NextLedger
<1>2. TypeInv /\ HashInv /\ [Next]_vars => HashInv'
  BY NextHash
<1> QED
  BY <1>1, <1>2, InitLedger, InitHash, TypeInvariance, OrderInvariance, PTL
     DEF Spec, ImplementsLedger, Ledger!Spec

=============================================================================
