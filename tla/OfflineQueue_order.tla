--------------------------- MODULE OfflineQueue_order ---------------------------
(***************************************************************************)
(* Theorems about OfflineQueue in an orderly environment, short of a       *)
(* mishap: the journal, the marker and the stored day together are always  *)
(* FDMS's day plus what the journal still holds.                           *)
(***************************************************************************)
EXTENDS OfflineQueue_proofs

-----------------------------------------------------------------------------
(* The journal is recorded at FDMS up to RecordedTo and signed up to n;    *)
(* what follows n is left unsigned by an earlier version.                  *)

\* The head of the journal is FDMS's last receipt already.
HeadRecorded ==
  /\ ~NothingWaits
  /\ IsPrepared(journal[committed + 1])
  /\ journal[committed + 1].receipt.globalNo = Len(receipts)

RecordedTo == IF HeadRecorded THEN committed + 1 ELSE committed

\* FDMS's day once the journal has been recorded up to record j.
NumberAt(j)   == Len(receipts) + (j - RecordedTo)
CounterAt(j)  == DayReceiptCount + (j - RecordedTo)
HashAt(j)     == IF j = RecordedTo THEN LastHash ELSE journal[j].receipt.hash
DateAt(j)     == IF j = RecordedTo THEN LastDate ELSE journal[j].receipt.date
CountersAt(j) == IF j = RecordedTo THEN dayTotal ELSE journal[j].stateAfter.counters

\* s describes that day.
FitsAt(s, j) ==
  /\ s.fiscalDayNo = fiscalDayNo
  /\ s.receiptCounter = CounterAt(j)
  /\ s.receiptGlobalNo = NumberAt(j)
  /\ s.previousReceiptHash = HashAt(j)
  /\ s.previousReceiptDate = DateAt(j)
  /\ s.counters = CountersAt(j)

\* The signed receipt of p is the one FDMS expects after record j - 1.
Follows(p, j) ==
  /\ p.receipt.globalNo = NumberAt(j)
  /\ p.receipt.counter = CounterAt(j)
  /\ p.receipt.previousHash = HashAt(j - 1)
  /\ \A i \in DOMAIN receipts : ReceiptAt(i).date < p.receipt.date
  /\ \A i \in (RecordedTo + 1)..(j - 1) : journal[i].receipt.date < p.receipt.date
  /\ p.stateAfter.fiscalDayNo = fiscalDayNo
  /\ p.stateAfter.receiptCounter = p.receipt.counter
  /\ p.stateAfter.receiptGlobalNo = p.receipt.globalNo
  /\ p.stateAfter.previousReceiptHash = p.receipt.hash
  /\ p.stateAfter.previousReceiptDate = p.receipt.date
  /\ p.stateAfter.counters = CountersAt(j - 1) + p.receipt.amount

\* s has still to catch up with the journal or with the marker.
Behind(s, n) == s.receiptGlobalNo < NumberAt(n)

MarkerRecorded == pending # None /\ Entered(pending)

-----------------------------------------------------------------------------
(* The invariant.                                                          *)

JournalInv(n) ==
  /\ RecordedTo <= n
  /\ \A j \in (RecordedTo + 1)..n : IsPrepared(journal[j]) /\ Follows(journal[j], j)
  /\ \A j \in (n + 1)..Len(journal) : ~IsPrepared(journal[j])
  /\ n < Len(journal) => status = "FiscalDayOpened" /\ pending = None
  /\ HeadRecorded =>
       /\ Entered(journal[committed + 1])
       /\ at = "commit" \/ pending = journal[committed + 1]
  /\ ~NothingWaits => dayState # None

MarkerInv == pending # None =>
  \/ HeadMarked
  \/ Entered(pending) /\ ~HeadRecorded
  \/ Waiting(pending) /\ NothingWaits

MemoryInv(n) ==
  /\ state # None =>
       \/ FitsAt(state, n)
       \/ /\ Behind(state, n)
          /\ \/ ~loaded /\ ~NothingWaits /\ n = Len(journal)
             \/ NothingWaits /\ MarkerRecorded
  /\ state # None /\ dayState # None => dayState.receiptGlobalNo <= state.receiptGlobalNo
  /\ pc = "submit" /\ dayState # None => state # None
  /\ loaded /\ state = None => pending = None

StoredInv(n) ==
  /\ dayState # None =>
       \/ FitsAt(dayState, n)
       \/ /\ Behind(dayState, n)
          /\ \/ ~NothingWaits /\ (n = Len(journal) \/ (at = "upgrading" /\ pc = "saveDay"))
             \/ NothingWaits /\ MarkerRecorded
  /\ dayState # None /\ ((loaded /\ state = None) \/ pc = "close") => FitsAt(dayState, n)

NumberInv(n) ==
  /\ lastGlobal <= NumberAt(n)
  /\ NothingWaits /\ ~MarkerRecorded => lastGlobal = Len(receipts)
  /\ pc = "clearPending" /\ (NothingWaits \/ loaded) => lastGlobal = NumberAt(n)
  /\ at = "commit" => lastGlobal = NumberAt(n)

\* A day that is done has nothing left to send.
StatusInv ==
  /\ DayDone => NothingWaits /\ pending = None
  /\ call \in {"enqueue", "sale"} => state = None \/ (status = "FiscalDayOpened" /\ dayState # None)

\* Where a call of the device is, what it waits for and what it knows.
PlaceInv(n) ==
  /\ late = <<>>
  /\ answer # None => sent = None
  /\ pc = "idle" => sent = None /\ answer = None
  /\ pc = "submit" =>
       /\ pending # None
       /\ sent # None => sent = Submit(pending.receipt) /\ Waiting(pending)
       /\ answer # None /\ answer.ok => Entered(pending)
       /\ answer # None /\ ~answer.ok => Waiting(pending)
  /\ pc = "open" =>
       /\ call = "none" /\ pending = None /\ NothingWaits
       /\ OldDayCleared /\ ClockPassed /\ reported <= Len(receipts)
       /\ sent # None => sent.endpoint = "OpenDay"
       /\ answer # None /\ answer.ok => Fits(NewDayState(answer.fiscalDayNo, Len(receipts)))
  /\ pc = "close" =>
       /\ call = "none" /\ pending = None /\ state # None /\ n = Len(journal)
       /\ FitsAt(state, n)
       /\ sent # None => sent = CloseBody(state)
  /\ pc \in {"saveDay", "saveGlobal", "clearPending"} =>
       /\ sent = None /\ answer = None /\ state # None
       /\ FitsAt(state, n) \/ (~loaded /\ ~NothingWaits)
       /\ pending # None /\ at \notin {"take", "upgrading"} => Entered(pending)
  /\ pc \in {"saveGlobal", "clearPending"} => dayState = state
  /\ pc = "clearPending" => pending # None
  /\ call = "none" /\ pc # "idle" => ~HeadMarked

\* What each stage of the queue knows.
StageInv(n) ==
  /\ call = "enqueue" => at \in {"upgrade", "upgrading", "sign", "take"}
  /\ call = "flush" => at \notin {"sign", "take", "journal", "sale"}
  /\ at = "head" => HeadMarked
  /\ at \in {"sale", "journal"} => NothingWaits
  /\ at = "commit" => HeadRecorded /\ pending = None /\ dayState = state
  /\ at = "take" => ~NothingWaits /\ FitsAt(state, n)
  /\ at = "upgrading" => committed < n /\ pending = None /\ FitsAt(state, n)
  /\ at = "upgrade" => n < Len(journal)
  /\ loaded /\ at \notin {"upgrade", "upgrading"} => n = Len(journal)

\* The list is the journal behind its cursor, but for the entry in hand.
ListInv(n) ==
  loaded =>
    /\ Len(queue) = Len(journal) - committed - (IF at = "take" THEN 1 ELSE 0)
    /\ \A i \in DOMAIN queue :
         IF at = "upgrading" /\ committed + i = n
         THEN ~IsPrepared(queue[i].item)
         ELSE queue[i].item = journal[committed + i]

InStepAt(n) ==
  /\ BookInv /\ JournalInv(n) /\ MarkerInv
  /\ MemoryInv(n) /\ StoredInv(n) /\ NumberInv(n)
  /\ StatusInv /\ PlaceInv(n) /\ StageInv(n) /\ ListInv(n)

QueueOrderInv == Undisturbed => \E n \in committed..Len(journal) : InStepAt(n)

-----------------------------------------------------------------------------
(* How far the journal is recorded, and what that makes of FDMS's day.     *)

LEMMA JournalTypes ==
  ASSUME QueueTypes
  PROVE  /\ Len(journal) \in Nat /\ committed \in Nat /\ committed <= Len(journal)
         /\ \A j \in 1..Len(journal) : IsPrepared(journal[j]) => journal[j] \in PreparedReceipt
         /\ RecordedTo \in Nat /\ committed <= RecordedTo /\ RecordedTo <= committed + 1
         /\ NothingWaits => RecordedTo = committed
         /\ ~NothingWaits => committed + 1 <= Len(journal)
         /\ Len(receipts) \in Nat /\ DayReceiptCount \in Nat
<1>1. Len(journal) \in Nat /\ committed \in Nat /\ committed <= Len(journal)
  BY DEF QueueTypes
<1>2. \A j \in 1..Len(journal) : IsPrepared(journal[j]) => journal[j] \in PreparedReceipt
  BY SignedOrNot DEF QueueTypes
<1>3. ~NothingWaits => committed + 1 <= Len(journal)
  BY <1>1 DEF NothingWaits
<1>4. RecordedTo \in {committed, committed + 1} /\ (NothingWaits => RecordedTo = committed)
  BY DEF RecordedTo, HeadRecorded
<1> QED
  BY <1>1, <1>2, <1>3, <1>4, BookTypes DEF QueueTypes, TypeOK

LEMMA NumberTypes ==
  ASSUME QueueTypes
  PROVE  /\ NumberAt(RecordedTo) = Len(receipts) /\ CounterAt(RecordedTo) = DayReceiptCount
         /\ \A j \in Nat : NumberAt(j) \in Int /\ CounterAt(j) \in Int
         /\ \A j \in Nat : NumberAt(j + 1) = NumberAt(j) + 1 /\ CounterAt(j + 1) = CounterAt(j) + 1
         /\ \A j \in Nat : RecordedTo <= j => NumberAt(j) \in Nat /\ Len(receipts) <= NumberAt(j)
         /\ \A i, j \in Nat : i < j => NumberAt(i) < NumberAt(j)
<1>1. RecordedTo \in Nat /\ Len(receipts) \in Nat /\ DayReceiptCount \in Nat
  BY JournalTypes
<1>2. \A j : NumberAt(j) = Len(receipts) + (j - RecordedTo) /\ CounterAt(j) = DayReceiptCount + (j - RecordedTo)
  BY DEF NumberAt, CounterAt
<1> DEFINE L == Len(receipts)
           D == DayReceiptCount
           R == RecordedTo
<1> HIDE DEF L, D, R
<1>3. R \in Nat /\ L \in Nat /\ D \in Nat
  BY <1>1 DEF L, D, R
<1>4. \A j : NumberAt(j) = L + (j - R) /\ CounterAt(j) = D + (j - R)
  BY <1>2 DEF L, D, R
<1>5. NumberAt(R) = L /\ CounterAt(R) = D
  BY <1>3, <1>4
<1>6. \A j \in Nat : NumberAt(j) \in Int /\ CounterAt(j) \in Int
  BY <1>3, <1>4
<1>7. \A j \in Nat : NumberAt(j + 1) = NumberAt(j) + 1 /\ CounterAt(j + 1) = CounterAt(j) + 1
  BY <1>3, <1>4
<1>8. \A j \in Nat : R <= j => NumberAt(j) \in Nat /\ L <= NumberAt(j)
  BY <1>3, <1>4
<1>9. \A i, j \in Nat : i < j => NumberAt(i) < NumberAt(j)
  BY <1>3, <1>4
<1> QED
  BY <1>5, <1>6, <1>7, <1>8, <1>9 DEF L, D, R

\* A state fits up to where the journal is recorded if it fits FDMS's day.
LEMMA FitsRecorded ==
  ASSUME QueueTypes
  PROVE  \A s : FitsAt(s, RecordedTo) <=> Fits(s)
BY NumberTypes DEF FitsAt, Fits, HashAt, DateAt, CountersAt

\* The first record after it is the receipt FDMS waits for.
LEMMA FollowsRecorded ==
  ASSUME QueueTypes
  PROVE  \A p : Follows(p, RecordedTo + 1) <=> Waiting(p)
<1> SUFFICES ASSUME NEW p
             PROVE  Follows(p, RecordedTo + 1) <=> Waiting(p)
  OBVIOUS
<1>1. RecordedTo \in Nat
  BY JournalTypes
<1>2. NumberAt(RecordedTo + 1) = Len(receipts) + 1 /\ CounterAt(RecordedTo + 1) = DayReceiptCount + 1
  <2> DEFINE R == RecordedTo
  <2>1. /\ NumberAt(R) = Len(receipts) /\ CounterAt(R) = DayReceiptCount
        /\ \A j \in Nat : NumberAt(j + 1) = NumberAt(j) + 1 /\ CounterAt(j + 1) = CounterAt(j) + 1
    BY NumberTypes
  <2>2. R \in Nat
    BY <1>1
  <2> HIDE DEF R
  <2>3. NumberAt(R + 1) = Len(receipts) + 1 /\ CounterAt(R + 1) = DayReceiptCount + 1
    BY <2>1, <2>2
  <2> QED
    BY <2>3 DEF R
<1>3. RecordedTo + 1 - 1 = RecordedTo /\ (RecordedTo + 1)..RecordedTo = {}
  BY <1>1
<1>4. HashAt(RecordedTo) = LastHash /\ CountersAt(RecordedTo) = dayTotal
  BY DEF HashAt, CountersAt
<1> DEFINE m == RecordedTo + 1
<1>5. /\ NumberAt(m) = Len(receipts) + 1 /\ CounterAt(m) = DayReceiptCount + 1
      /\ m - 1 = RecordedTo /\ (RecordedTo + 1)..(m - 1) = {}
  BY <1>1, <1>2, <1>3
<1> HIDE DEF m
<1>6. HashAt(m - 1) = LastHash /\ CountersAt(m - 1) = dayTotal
  BY <1>4, <1>5
<1>7. Follows(p, m) <=> Waiting(p)
  BY <1>5, <1>6 DEF Follows, Waiting
<1> QED
  BY <1>7 DEF m

\* The state after a record fits at that record.
LEMMA FitsAfterRecord ==
  ASSUME QueueTypes, NEW n \in Nat, JournalInv(n), committed < n
  PROVE  FitsAt(journal[n].stateAfter, n)
<1>1. CASE n = RecordedTo
  <2>1. HeadRecorded /\ n = committed + 1
    BY <1>1, JournalTypes DEF RecordedTo
  <2>2. Fits(journal[n].stateAfter)
    BY <2>1 DEF JournalInv, Entered
  <2> QED
    BY <1>1, <2>2, FitsRecorded
<1>2. CASE n # RecordedTo
  <2>1. n \in (RecordedTo + 1)..n
    BY <1>2, JournalTypes DEF JournalInv
  <2>2. Follows(journal[n], n)
    BY <2>1 DEF JournalInv
  <2> QED
    BY <1>2, <2>2 DEF Follows, FitsAt, HashAt, DateAt, CountersAt
<1> QED
  BY <1>1, <1>2

\* The last record, when it is signed.
LEMMA LastRecord ==
  ASSUME QueueTypes, NEW n \in Nat, JournalInv(n), n <= Len(journal), committed <= n
  PROVE  /\ Uncommitted # <<>> <=> ~NothingWaits
         /\ ~NothingWaits => Last(Uncommitted) = journal[Len(journal)]
         /\ ~NothingWaits => (IsPrepared(Last(Uncommitted)) <=> n = Len(journal))
         /\ AllSigned(ReadJournal) <=> n = Len(journal)
<1> DEFINE k == Len(journal) - committed
<1>1. /\ Len(journal) \in Nat /\ committed \in Nat /\ k \in Nat
      /\ Len(Uncommitted) = k /\ Len(ReadJournal) = k /\ DOMAIN ReadJournal = 1..k
      /\ \A i \in 1..k : Uncommitted[i] = journal[committed + i] /\ ReadJournal[i].item = journal[committed + i]
  <2>1. k \in Nat /\ Len(journal) \in Nat /\ committed \in Nat
    BY JournalTypes
  <2>2. /\ Uncommitted \in Seq(PreparedReceipt \cup Unsigned) /\ ReadJournal \in Seq(Item)
        /\ Len(Uncommitted) = k /\ Len(ReadJournal) = k
        /\ \A i \in 1..k : Uncommitted[i] = journal[committed + i]
        /\ \A i \in 1..k : ReadJournal[i] = [cursor |-> committed + i - 1, item |-> journal[committed + i]]
    BY UncommittedType DEF QueueTypes
  <2> HIDE DEF k
  <2> QED
    BY <2>1, <2>2
<1>2. Uncommitted # <<>> <=> ~NothingWaits
  BY <1>1, UncommittedType DEF NothingWaits, QueueTypes
<1>3. ~NothingWaits => Last(Uncommitted) = journal[Len(journal)]
  BY <1>1 DEF Last, NothingWaits
<1>4. \A j \in (committed + 1)..n : IsPrepared(journal[j])
  <2> SUFFICES ASSUME NEW j \in (committed + 1)..n
               PROVE  IsPrepared(journal[j])
    OBVIOUS
  <2>1. j \in (RecordedTo + 1)..n \/ (HeadRecorded /\ j = committed + 1)
    BY <1>1, JournalTypes DEF RecordedTo
  <2> QED
    BY <2>1 DEF JournalInv, HeadRecorded
<1>5. \A j \in (n + 1)..Len(journal) : ~IsPrepared(journal[j])
  BY DEF JournalInv
<1>6. ~NothingWaits => (IsPrepared(journal[Len(journal)]) <=> n = Len(journal))
  <2>1. ~NothingWaits /\ n = Len(journal) => Len(journal) \in (committed + 1)..n
    BY <1>1 DEF NothingWaits
  <2>2. n # Len(journal) => Len(journal) \in (n + 1)..Len(journal)
    BY <1>1
  <2> QED
    BY <1>4, <1>5, <2>1, <2>2
<1>7. AllSigned(ReadJournal) <=> n = Len(journal)
  <2>1. ASSUME n = Len(journal), NEW i \in 1..k
        PROVE  IsPrepared(ReadJournal[i].item)
    <3>1. committed + i \in (committed + 1)..n
      BY <1>1, <2>1
    <3> QED
      BY <1>1, <1>4, <3>1
  <2>2. ASSUME n # Len(journal)
        PROVE  ~AllSigned(ReadJournal)
    <3>1. k = Len(journal) - committed
      OBVIOUS
    <3>2. k \in Nat /\ Len(journal) \in Nat /\ committed \in Nat
      BY <1>1
    <3> HIDE DEF k
    <3>3. k \in 1..k /\ committed + k = Len(journal) /\ Len(journal) \in (n + 1)..Len(journal)
      BY <2>2, <3>1, <3>2
    <3> QED
      BY <1>1, <1>5, <3>3 DEF AllSigned
  <2> QED
    BY <1>1, <2>1, <2>2 DEF AllSigned
<1> QED
  BY <1>2, <1>3, <1>6, <1>7

\* Catching up with the journal: a state that fits is left as it is, one that
\* is behind a signed journal fits afterwards.
LEMMA CaughtUpFits ==
  ASSUME QueueTypes, NEW n \in committed..Len(journal), JournalInv(n), NEW s \in DayState
  PROVE  /\ FitsAt(s, n) => CaughtUp(s) = s
         /\ Behind(s, n) /\ ~NothingWaits /\ n = Len(journal) => FitsAt(CaughtUp(s), n)
         /\ CaughtUp(s).receiptGlobalNo >= s.receiptGlobalNo
         /\ NothingWaits => CaughtUp(s) = s
         /\ CaughtUp(s) = s /\ ~NothingWaits /\ n = Len(journal) => ~Behind(s, n)
<1>1. /\ n \in Nat /\ committed <= n /\ n <= Len(journal) /\ s.receiptGlobalNo \in Nat
      /\ RecordedTo <= n /\ NumberAt(n) \in Nat
  <2>1. Len(journal) \in Nat /\ committed \in Nat
    BY JournalTypes
  <2>2. n \in Nat /\ RecordedTo <= n
    BY <2>1 DEF JournalInv
  <2> QED
    BY <2>1, <2>2, NumberTypes DEF DayState
<1>2. CASE NothingWaits \/ n # Len(journal)
  <2>1. CaughtUp(s) = s
    BY <1>1, <1>2, LastRecord DEF CaughtUp
  <2> QED
    BY <1>1, <1>2, <2>1
<1>3. CASE ~NothingWaits /\ n = Len(journal)
  <2>1. CaughtUp(s) = IF journal[n].stateAfter.receiptGlobalNo > s.receiptGlobalNo
                      THEN journal[n].stateAfter ELSE s
    BY <1>1, <1>3, LastRecord DEF CaughtUp
  <2>2. committed < n
    BY <1>1, <1>3, JournalTypes
  <2>3. FitsAt(journal[n].stateAfter, n)
    BY <1>1, <2>2, FitsAfterRecord
  <2>4. journal[n].stateAfter.receiptGlobalNo = NumberAt(n)
    BY <2>3 DEF FitsAt
  <2>5. FitsAt(s, n) => s.receiptGlobalNo = NumberAt(n)
    BY DEF FitsAt
  <2> QED
    BY <1>1, <1>3, <2>1, <2>3, <2>4, <2>5 DEF Behind
<1> QED
  BY <1>2, <1>3

\* The receipt signed from a state that fits follows the last record.
LEMMA SignedFollows ==
  ASSUME QueueTypes, Orderly, BookInv, NEW n \in Nat, JournalInv(n), n <= Len(journal),
         state # None, FitsAt(state, n),
         NEW amount \in Amounts, NEW badTax \in BOOLEAN, NEW date \in ReceiptDates(state)
  PROVE  Follows(Prepare(state, SignReceipt(state, date, amount, badTax)), n + 1)
<1> DEFINE p == Prepare(state, SignReceipt(state, date, amount, badTax))
<1>1. RecordedTo \in Nat /\ RecordedTo <= n /\ TypeOK
  BY JournalTypes DEF JournalInv, QueueTypes
<1>2. CASE n = RecordedTo
  <2>1. Fits(state)
    BY <1>2, FitsRecorded
  <2>2. Waiting(p)
    BY <1>1, <2>1, SignedIsNext DEF Orderly
  <2> HIDE DEF p
  <2>3. Follows(p, RecordedTo + 1)
    BY <2>2, FollowsRecorded
  <2> QED
    BY <1>2, <2>3 DEF p
<1>3. CASE n # RecordedTo
  <2>1. n \in (RecordedTo + 1)..n
    BY <1>1, <1>3
  <2>2. Follows(journal[n], n) /\ IsPrepared(journal[n])
    BY <2>1 DEF JournalInv
  <2>3. journal[n] \in PreparedReceipt
    BY <1>1, <1>3, <2>2, JournalTypes
  <2>4. state.previousReceiptDate = journal[n].receipt.date
    BY <1>3 DEF FitsAt, DateAt
  <2>5. date > state.previousReceiptDate /\ date \in Nat /\ state.previousReceiptDate \in Nat
    <3>1. state \in DayState /\ now \in Nat /\ MaxAhead \in Nat
      BY <1>1, BoundsAreNumbers DEF TypeOK
    <3> QED
      BY <1>1, <3>1, PrepareType DEF ReceiptDates, AutoDate, DayState
  <2>6. \A i \in DOMAIN receipts : ReceiptAt(i).date \in Nat /\ ReceiptAt(i).date < journal[n].receipt.date
    BY <1>1, <2>2, BookTypes DEF Follows, TypeOK
  <2>7. \A i \in (RecordedTo + 1)..n :
          journal[i].receipt.date \in Nat /\ (i # n => journal[i].receipt.date < journal[n].receipt.date)
    <3> SUFFICES ASSUME NEW i \in (RecordedTo + 1)..n
                 PROVE  journal[i].receipt.date \in Nat
                        /\ (i # n => journal[i].receipt.date < journal[n].receipt.date)
      OBVIOUS
    <3>1. IsPrepared(journal[i]) /\ i \in 1..Len(journal)
      BY <1>1, JournalTypes DEF JournalInv
    <3>2. journal[i] \in PreparedReceipt
      BY <3>1, JournalTypes
    <3>3. i # n => i \in (RecordedTo + 1)..(n - 1)
      BY <1>1
    <3> QED
      BY <2>2, <3>2, <3>3 DEF Follows, PreparedReceipt, Receipt
  <2>8. \A i \in DOMAIN receipts : ReceiptAt(i).date < date
    BY <2>4, <2>5, <2>6
  <2>9. \A i \in (RecordedTo + 1)..n : journal[i].receipt.date < date
    BY <2>4, <2>5, <2>7
  <2> DEFINE m == n + 1
  <2>10. m - 1 = n /\ NumberAt(m) = NumberAt(n) + 1 /\ CounterAt(m) = CounterAt(n) + 1
    BY NumberTypes
  <2> HIDE DEF m
  <2>11. Follows(p, m)
    BY <2>8, <2>9, <2>10 DEF Follows, FitsAt, Prepare, SignReceipt, StateAfter
  <2> QED
    BY <2>11 DEF m
<1> QED
  BY <1>2, <1>3

\* What is said of the journal up to record n depends on no later record.
LEMMA SameBelow ==
  ASSUME QueueTypes, NEW n \in Nat, UNCHANGED <<receipts, dayStart, fiscalDayNo, dayTotal>>,
         RecordedTo' = RecordedTo, \A j \in 1..n : journal'[j] = journal[j]
  PROVE  /\ \A j : NumberAt(j)' = NumberAt(j)
         /\ \A s : Behind(s, n)' <=> Behind(s, n)
         /\ \A s : \A j \in RecordedTo..n : FitsAt(s, j)' <=> FitsAt(s, j)
         /\ \A p : \A j \in (RecordedTo + 1)..n : Follows(p, j)' <=> Follows(p, j)
         /\ \A p : RecordedTo <= n => (Follows(p, n + 1)' <=> Follows(p, n + 1))
         /\ \A p : (Waiting(p)' <=> Waiting(p)) /\ (Entered(p)' <=> Entered(p))
<1> DEFINE R == RecordedTo
<1>1. R \in Nat /\ R' = R
  BY JournalTypes
<1>2. DayReceiptCount' = DayReceiptCount /\ LastHash' = LastHash /\ LastDate' = LastDate
  BY SameBook
<1>3. \A j : NumberAt(j)' = NumberAt(j) /\ CounterAt(j)' = CounterAt(j)
  BY <1>1, <1>2 DEF NumberAt, CounterAt
<1>4. \A j \in R..n : HashAt(j)' = HashAt(j) /\ DateAt(j)' = DateAt(j) /\ CountersAt(j)' = CountersAt(j)
  <2> SUFFICES ASSUME NEW j \in R..n
               PROVE  HashAt(j)' = HashAt(j) /\ DateAt(j)' = DateAt(j) /\ CountersAt(j)' = CountersAt(j)
    OBVIOUS
  <2>1. j # R => j \in 1..n
    BY <1>1
  <2> QED
    BY <1>1, <1>2, <2>1 DEF HashAt, DateAt, CountersAt
<1>5. \A s : \A j \in R..n : FitsAt(s, j)' <=> FitsAt(s, j)
  BY <1>3, <1>4 DEF FitsAt
<1>6. ASSUME NEW p, NEW j \in (R + 1)..(n + 1)
      PROVE  Follows(p, j)' <=> Follows(p, j)
  <2> DEFINE k == j - 1
  <2>1. k \in R..n /\ \A i \in (R + 1)..k : i \in 1..n
    BY <1>1
  <2> HIDE DEF k
  <2>2. \A i \in DOMAIN receipts : ReceiptAt(i)' = ReceiptAt(i)
    BY DEF ReceiptAt
  <2>3. HashAt(k)' = HashAt(k) /\ CountersAt(k)' = CountersAt(k)
    BY <1>4, <2>1
  <2>4. \A i \in (R + 1)..k : journal'[i] = journal[i]
    BY <2>1
  <2>5. (RecordedTo + 1)' = RecordedTo + 1
    OBVIOUS
  <2> QED
    BY <1>1, <1>3, <2>2, <2>3, <2>4 DEF Follows, k
<1>7. \A p : (Waiting(p)' <=> Waiting(p)) /\ (Entered(p)' <=> Entered(p))
  BY <1>2 DEF Waiting, Entered, Fits, ReceiptAt
<1>8. \A s : Behind(s, n)' <=> Behind(s, n)
  BY <1>3 DEF Behind
<1>9. /\ \A j \in (R + 1)..n : j \in (R + 1)..(n + 1)
      /\ R <= n => n + 1 \in (R + 1)..(n + 1)
  BY <1>1
<1> QED
  BY <1>3, <1>5, <1>6, <1>7, <1>8, <1>9

\* Nor does anything change while FDMS's book and the journal do not.
LEMMA SameJournal ==
  ASSUME QueueTypes, UNCHANGED <<receipts, dayStart, fiscalDayNo, dayTotal, journal, committed>>
  PROVE  /\ NothingWaits' <=> NothingWaits
         /\ HeadRecorded' <=> HeadRecorded
         /\ RecordedTo' = RecordedTo
         /\ \A j : NumberAt(j)' = NumberAt(j)
         /\ \A s, j : (Behind(s, j)' <=> Behind(s, j)) /\ (FitsAt(s, j)' <=> FitsAt(s, j))
         /\ \A p, j : Follows(p, j)' <=> Follows(p, j)
         /\ \A p : (Waiting(p)' <=> Waiting(p)) /\ (Entered(p)' <=> Entered(p))
         /\ \A s : Fits(s)' <=> Fits(s)
<1>1. /\ NothingWaits' <=> NothingWaits
      /\ HeadRecorded' <=> HeadRecorded
  BY DEF NothingWaits, HeadRecorded
<1>2. RecordedTo' = RecordedTo
  BY <1>1 DEF RecordedTo
<1>3. DayReceiptCount' = DayReceiptCount /\ LastHash' = LastHash /\ LastDate' = LastDate
  BY SameBook
<1>4. \A j : /\ NumberAt(j)' = NumberAt(j) /\ CounterAt(j)' = CounterAt(j)
             /\ HashAt(j)' = HashAt(j) /\ DateAt(j)' = DateAt(j) /\ CountersAt(j)' = CountersAt(j)
  BY <1>2, <1>3 DEF NumberAt, CounterAt, HashAt, DateAt, CountersAt
<1>5. \A s, j : (Behind(s, j)' <=> Behind(s, j)) /\ (FitsAt(s, j)' <=> FitsAt(s, j))
  BY <1>4 DEF Behind, FitsAt
<1>6. ASSUME NEW p, NEW j
      PROVE  Follows(p, j)' <=> Follows(p, j)
  BY <1>2, <1>4 DEF Follows, ReceiptAt
<1>7. \A p : (Waiting(p)' <=> Waiting(p)) /\ (Entered(p)' <=> Entered(p))
  BY <1>3 DEF Waiting, Entered, Fits, ReceiptAt
<1>8. \A s : Fits(s)' <=> Fits(s)
  BY <1>3 DEF Fits
<1> QED
  BY <1>1, <1>2, <1>4, <1>5, <1>6, <1>7, <1>8

-----------------------------------------------------------------------------
(* What holds of the marker and of memory at any step.                     *)

LEMMA StepTypes ==
  ASSUME QueueTypeInv, NEW n \in committed..Len(journal), InStepAt(n)
  PROVE  /\ QueueTypes /\ TypeOK /\ FdmsTypeOK /\ BookInv
         /\ n \in Nat /\ committed <= n /\ n <= Len(journal)
         /\ committed \in Nat /\ Len(journal) \in Nat /\ Len(receipts) \in Nat /\ lastGlobal \in Nat
         /\ RecordedTo \in Nat /\ RecordedTo <= n
         /\ NumberAt(n) \in Nat /\ Len(receipts) <= NumberAt(n)
         /\ n = RecordedTo => NumberAt(n) = Len(receipts)
         /\ LastReceiptGlobalNo = Len(receipts)
         /\ NothingWaits => n = committed /\ n = RecordedTo /\ n = Len(journal)
         /\ pending # None => pending \in PreparedReceipt /\ n = Len(journal)
         /\ \A s \in {state, dayState} \ {None} : s \in DayState /\ s.receiptGlobalNo \in Nat
<1>1. QueueTypes /\ TypeOK /\ FdmsTypeOK /\ BookInv /\ JournalInv(n)
  BY DEF QueueTypeInv, QueueTypes, TypeOK, InStepAt
<1>2. committed \in Nat /\ Len(journal) \in Nat /\ Len(receipts) \in Nat /\ RecordedTo \in Nat
  BY <1>1, JournalTypes
<1>3. n \in Nat /\ committed <= n /\ n <= Len(journal) /\ RecordedTo <= n
  BY <1>1, <1>2 DEF JournalInv
<1>4. NumberAt(n) \in Nat /\ Len(receipts) <= NumberAt(n) /\ (n = RecordedTo => NumberAt(n) = Len(receipts))
  BY <1>1, <1>3, NumberTypes
<1>5. LastReceiptGlobalNo = Len(receipts)
  BY <1>1, LatestIsLast
<1>6. NothingWaits => n = committed /\ n = RecordedTo /\ n = Len(journal)
  BY <1>1, <1>2, <1>3, JournalTypes DEF NothingWaits
<1>7. pending # None => pending \in PreparedReceipt /\ n = Len(journal)
  BY <1>1, <1>2, <1>3 DEF TypeOK, JournalInv
<1>8. \A s \in {state, dayState} \ {None} : s \in DayState /\ s.receiptGlobalNo \in Nat
  BY <1>1 DEF TypeOK, DayState
<1>9. lastGlobal \in Nat
  BY <1>1 DEF TypeOK
<1> QED
  BY <1>1, <1>2, <1>3, <1>4, <1>5, <1>6, <1>7, <1>8, <1>9

\* The marker is the head's, FDMS's last receipt's or the next one's.
LEMMA MarkerKinds ==
  ASSUME QueueTypeInv, NEW n \in committed..Len(journal), InStepAt(n)
  PROVE  /\ pending # None /\ at # "commit" =>
              \/ HeadMarked /\ HeadRecorded /\ Entered(pending)
              \/ HeadMarked /\ ~HeadRecorded /\ Waiting(pending)
              \/ ~HeadMarked /\ ~HeadRecorded /\ Entered(pending)
              \/ ~HeadMarked /\ ~HeadRecorded /\ Waiting(pending) /\ NothingWaits
         /\ pending = None /\ at # "commit" => ~HeadRecorded
         /\ ~(Waiting(pending) /\ Entered(pending))
         /\ pending # None /\ Waiting(pending) => ~MarkerRecorded
<1>1. QueueTypes /\ TypeOK /\ JournalInv(n) /\ MarkerInv /\ n \in Nat /\ n <= Len(journal)
  BY StepTypes DEF InStepAt
<1>2. ~(Waiting(pending) /\ Entered(pending))
  BY <1>1, NotBoth
<1>3. HeadRecorded /\ at # "commit" => HeadMarked /\ Entered(pending)
  BY <1>1 DEF JournalInv, HeadMarked, HeadRecorded
<1>4. pending = None /\ at # "commit" => ~HeadRecorded
  <2> SUFFICES ASSUME pending = None, HeadRecorded, at # "commit"
               PROVE  FALSE
    OBVIOUS
  <2>1. journal[committed + 1] = None /\ IsPrepared(journal[committed + 1]) /\ ~NothingWaits
    BY <1>3 DEF HeadMarked, HeadRecorded
  <2>2. committed + 1 \in 1..Len(journal)
    BY <1>1, <2>1, JournalTypes
  <2> QED
    BY <1>1, <2>1, <2>2, JournalTypes, NoneIsNothing
<1>5. ASSUME pending # None, HeadMarked, ~HeadRecorded
      PROVE  Waiting(pending)
  <2> DEFINE m == committed + 1
  <2>1. ~NothingWaits /\ pending = journal[m] /\ pending \in PreparedReceipt
    BY <1>1, <1>5 DEF HeadMarked, TypeOK
  <2>2. n = Len(journal) /\ RecordedTo = committed /\ m \in (RecordedTo + 1)..n /\ m = RecordedTo + 1
    BY <1>5, <2>1, StepTypes, JournalTypes DEF RecordedTo
  <2> HIDE DEF m
  <2>3. Follows(pending, m)
    BY <1>1, <2>1, <2>2 DEF JournalInv
  <2> QED
    BY <1>1, <2>2, <2>3, FollowsRecorded
<1>6. pending # None /\ Waiting(pending) => ~MarkerRecorded
  BY <1>2 DEF MarkerRecorded
<1> QED
  BY <1>1, <1>2, <1>3, <1>4, <1>5, <1>6 DEF MarkerInv

\* The state after a commit of the marker's receipt, from memory or from
\* storage.
LEMMA CommittedAt ==
  ASSUME QueueTypeInv, NEW n \in committed..Len(journal), InStepAt(n),
         pending # None, Entered(pending),
         NEW s \in DayState \cup {None}, NEW red \in BOOLEAN,
         s # None => \/ FitsAt(s, n)
                     \/ Behind(s, n) /\ (~NothingWaits \/ MarkerRecorded),
         s = None => ~NothingWaits \/ n = RecordedTo
  PROVE  LET t == CommittedState(s, pending, red)
         IN  /\ t \in DayState
             /\ FitsAt(t, n) \/ (Behind(t, n) /\ ~NothingWaits)
             /\ s # None /\ FitsAt(s, n) => FitsAt(t, n)
             /\ n = RecordedTo => FitsAt(t, n)
             /\ s # None => s.receiptGlobalNo <= t.receiptGlobalNo
<1>1. /\ QueueTypes /\ TypeOK /\ n \in Nat /\ pending \in PreparedReceipt /\ n = Len(journal)
      /\ NumberAt(n) \in Nat /\ Len(receipts) \in Nat /\ Len(receipts) <= NumberAt(n)
      /\ RecordedTo \in Nat /\ RecordedTo <= n
      /\ n = RecordedTo => NumberAt(n) = Len(receipts)
      /\ NothingWaits => n = RecordedTo
  BY StepTypes
<1> DEFINE u == IF s = None THEN pending.stateAfter
                ELSE IF s.receiptGlobalNo < pending.receipt.globalNo THEN pending.stateAfter ELSE s
           t == CommittedState(s, pending, red)
<1>2. /\ pending.receipt.globalNo = Len(receipts) /\ Fits(pending.stateAfter)
      /\ pending.stateAfter.receiptGlobalNo = Len(receipts)
  BY DEF Entered, Fits
<1>3. FitsAt(pending.stateAfter, RecordedTo)
  BY <1>1, <1>2, FitsRecorded
<1>4. u \in DayState /\ pending.stateAfter \in DayState /\ (s # None => s.receiptGlobalNo \in Nat)
  BY <1>1 DEF PreparedReceipt, DayState
<1>5. n = RecordedTo => FitsAt(u, n)
  <2>1. n = RecordedTo /\ s # None /\ Behind(s, n) => s.receiptGlobalNo < pending.receipt.globalNo
    BY <1>1, <1>2 DEF Behind
  <2> QED
    BY <1>3, <2>1
<1>6. s # None /\ FitsAt(s, n) => u = s
  BY <1>1, <1>2, <1>4 DEF FitsAt
<1>7. n # RecordedTo => Behind(pending.stateAfter, n)
  <2>1. n # RecordedTo => RecordedTo < n
    BY <1>1
  <2>2. n # RecordedTo => NumberAt(RecordedTo) < NumberAt(n)
    BY <1>1, <2>1, NumberTypes
  <2> QED
    BY <1>1, <1>2, <2>2, NumberTypes DEF Behind
<1>8. FitsAt(u, n) \/ (Behind(u, n) /\ ~NothingWaits)
  <2>1. CASE n = RecordedTo
    BY <1>5, <2>1
  <2>2. CASE n # RecordedTo
    BY <1>1, <1>6, <1>7, <2>2
  <2> QED
    BY <2>1, <2>2
<1>9. s # None => s.receiptGlobalNo <= u.receiptGlobalNo
  BY <1>1, <1>2, <1>4
<1>10. t = IF red THEN [u EXCEPT !.redErrors = @ \cup {pending.receipt.globalNo}] ELSE u
  BY DEF CommittedState
<1>11. t \in DayState
  BY <1>1, CommittedStateType
<1> HIDE DEF u, t
<1>12. /\ t.fiscalDayNo = u.fiscalDayNo /\ t.receiptCounter = u.receiptCounter
       /\ t.receiptGlobalNo = u.receiptGlobalNo /\ t.previousReceiptHash = u.previousReceiptHash
       /\ t.previousReceiptDate = u.previousReceiptDate /\ t.counters = u.counters
  BY <1>4, <1>10 DEF DayState
<1>13. (FitsAt(u, n) => FitsAt(t, n)) /\ (Behind(u, n) => Behind(t, n))
  BY <1>12 DEF FitsAt, Behind
<1>14. /\ FitsAt(t, n) \/ (Behind(t, n) /\ ~NothingWaits)
       /\ s # None /\ FitsAt(s, n) => FitsAt(t, n)
       /\ n = RecordedTo => FitsAt(t, n)
       /\ s # None => s.receiptGlobalNo <= t.receiptGlobalNo
  BY <1>5, <1>6, <1>8, <1>9, <1>12, <1>13
<1> QED
  BY <1>11, <1>14 DEF t

-----------------------------------------------------------------------------
(* The steps, one lemma for each action or for actions that share their    *)
(* argument.                                                               *)

\* A call gives up or ends and leaves FDMS, the journal, memory and storage
\* as they are.
LEMMA GivesUpInStep ==
  ASSUME QueueTypeInv, NEW n \in committed..Len(journal), InStepAt(n),
         UNCHANGED <<fdmsVars, state, storageVars, now, journal, committed, queue, loaded>>,
         at \notin {"commit", "take", "upgrading", "upgrade"},
         pc' = "idle", sent' = None, answer' = None, late' = <<>>,
         \/ call' = "none" /\ at' = "top"
         \/ call' = "sale" /\ call = "sale" /\ at' \in {"sign", "journal"},
         at' = "journal" => NothingWaits
  PROVE  InStepAt(n)'
<1>0. /\ JournalInv(n) /\ MarkerInv /\ MemoryInv(n) /\ StoredInv(n) /\ NumberInv(n)
      /\ StatusInv /\ PlaceInv(n) /\ StageInv(n) /\ ListInv(n)
  BY DEF InStepAt
<1>1. QueueTypes /\ TypeOK /\ BookInv /\ UNCHANGED <<receipts, dayStart, fiscalDayNo, dayTotal>>
  BY StepTypes DEF fdmsVars
<1>2. BookInv'
  BY <1>1, SameBookInv
<1>3. (HeadMarked' <=> HeadMarked) /\ (MarkerRecorded' <=> MarkerRecorded)
  BY <1>1, SameJournal DEF HeadMarked, MarkerRecorded, storageVars
<1>4. JournalInv(n)'
  BY <1>0, <1>1, SameJournal DEF JournalInv, fdmsVars, storageVars
<1>5. MarkerInv'
  BY <1>0, <1>1, <1>3, SameJournal DEF MarkerInv, storageVars
<1>6. MemoryInv(n)'
  BY <1>0, <1>1, <1>3, SameJournal DEF MemoryInv, storageVars
<1>7. StoredInv(n)'
  BY <1>0, <1>1, <1>3, SameJournal DEF StoredInv, storageVars
<1>8. NumberInv(n)'
  BY <1>0, <1>1, <1>3, SameJournal DEF NumberInv, storageVars
<1>9. StatusInv'
  BY <1>0, <1>1, SameJournal DEF StatusInv, DayDone, fdmsVars, storageVars
<1>10. PlaceInv(n)'
  BY <1>0, <1>1, SameJournal DEF PlaceInv
<1>11. StageInv(n)'
  BY <1>0, <1>1, SameJournal DEF StageInv
<1>12. ListInv(n)'
  BY <1>0 DEF ListInv
<1> QED
  BY <1>2, <1>4, <1>5, <1>6, <1>7, <1>8, <1>9, <1>10, <1>11, <1>12 DEF InStepAt

\* SubmitAnswered: the receipt FDMS has is committed in memory.
\* ReconcileConfirmed, in flush() or called by the application, does the same
\* to the state it has loaded.
LEMMA CommitsInStep ==
  ASSUME QueueTypeInv, NEW n \in committed..Len(journal), InStepAt(n),
         UNCHANGED <<fdmsVars, storageVars, now, journal, committed, queue, loaded, call>>,
         pending # None, Entered(pending),
         NEW s \in DayState \cup {None}, NEW red \in BOOLEAN,
         state' = CommittedState(s, pending, red),
         \/ s = state /\ (call # "none" \/ pc = "submit" \/ state # None)
         \/ s = dayState /\ state = None /\ call = "none",
         pc' = "saveDay", sent' = None, answer' = None, late' = <<>>,
         at \notin {"commit", "take", "upgrading", "upgrade", "journal"}, pc # "close",
         \/ at' = at /\ (call = "none" => ~HeadMarked)
         \/ at' = "head" /\ HeadMarked /\ call \in {"flush", "sale"}
  PROVE  InStepAt(n)'
<1>0. /\ JournalInv(n) /\ MarkerInv /\ MemoryInv(n) /\ StoredInv(n) /\ NumberInv(n)
      /\ StatusInv /\ PlaceInv(n) /\ StageInv(n) /\ ListInv(n)
  BY DEF InStepAt
<1>1. QueueTypes /\ TypeOK /\ BookInv /\ UNCHANGED <<receipts, dayStart, fiscalDayNo, dayTotal>>
      /\ ListFits /\ CallFits
  BY StepTypes DEF fdmsVars, QueueTypeInv
<1>2. BookInv'
  BY <1>1, SameBookInv
<1>3. (HeadMarked' <=> HeadMarked) /\ (MarkerRecorded' <=> MarkerRecorded)
  BY <1>1, SameJournal DEF HeadMarked, MarkerRecorded, storageVars
<1>13. /\ s # None => \/ FitsAt(s, n)
                      \/ Behind(s, n) /\ (~NothingWaits \/ MarkerRecorded)
       /\ loaded => s # None /\ s = state /\ (~NothingWaits => FitsAt(s, n))
       /\ s = None => dayState = None
       /\ n = Len(journal)
       /\ NothingWaits => n = RecordedTo
  <2>1. s # None => FitsAt(s, n) \/ (Behind(s, n) /\ (~NothingWaits \/ MarkerRecorded))
    BY <1>0, <1>1 DEF MemoryInv, StoredInv
  <2>2. loaded => s # None /\ s = state /\ (~NothingWaits => FitsAt(s, n))
    BY <1>0, <1>1 DEF MemoryInv, CallFits
  <2>3. s = None => dayState = None
    BY <1>0, <1>1 DEF MemoryInv, CallFits
  <2> QED
    BY <2>1, <2>2, <2>3, StepTypes
<1>14. s = None => ~NothingWaits \/ n = RecordedTo
  BY <1>13
<1>15. /\ state' \in DayState /\ state' # None
       /\ FitsAt(state', n) \/ (Behind(state', n) /\ ~NothingWaits /\ ~loaded)
       /\ s # None => s.receiptGlobalNo <= state'.receiptGlobalNo
  <2>1. /\ state' \in DayState
        /\ FitsAt(state', n) \/ (Behind(state', n) /\ ~NothingWaits)
        /\ s # None /\ FitsAt(s, n) => FitsAt(state', n)
        /\ n = RecordedTo => FitsAt(state', n)
        /\ s # None => s.receiptGlobalNo <= state'.receiptGlobalNo
    BY <1>13, <1>14, CommittedAt
  <2> QED
    BY <1>13, <2>1, NoneIsNothing
<1>16. dayState # None => dayState.receiptGlobalNo <= state'.receiptGlobalNo
  <2>1. CASE s = None
    BY <1>13, <2>1
  <2>2. CASE s # None
    <3> SUFFICES ASSUME dayState # None
                 PROVE  dayState.receiptGlobalNo <= state'.receiptGlobalNo
      OBVIOUS
    <3>1. dayState.receiptGlobalNo <= s.receiptGlobalNo /\ s.receiptGlobalNo <= state'.receiptGlobalNo
      BY <1>0, <1>1, <1>15, <2>2, StepTypes DEF MemoryInv
    <3>2. dayState.receiptGlobalNo \in Nat /\ s.receiptGlobalNo \in Nat /\ state'.receiptGlobalNo \in Nat
      BY <1>1, <1>15, <2>2 DEF TypeOK, DayState
    <3> QED
      BY <3>1, <3>2
  <2> QED
    BY <2>1, <2>2
<1>4. JournalInv(n)'
  BY <1>0, <1>1, SameJournal DEF JournalInv, fdmsVars, storageVars
<1>5. MarkerInv'
  BY <1>0, <1>1, <1>3, SameJournal DEF MarkerInv, storageVars
<1>6. MemoryInv(n)'
  BY <1>0, <1>1, <1>3, <1>13, <1>15, <1>16, SameJournal DEF MemoryInv, storageVars
<1>7. StoredInv(n)'
  BY <1>0, <1>1, <1>3, <1>15, SameJournal DEF StoredInv, storageVars
<1>8. NumberInv(n)'
  BY <1>0, <1>1, <1>3, SameJournal DEF NumberInv, storageVars
<1>9. StatusInv'
  <2>1. call \in {"enqueue", "sale"} => loaded
    BY <1>1 DEF CallFits
  <2>2. call \in {"enqueue", "sale"} => state # None
    BY <1>13, <2>1
  <2> QED
    BY <1>0, <1>1, <2>2, SameJournal DEF StatusInv, DayDone, fdmsVars, storageVars
<1>10. PlaceInv(n)'
  BY <1>0, <1>1, <1>3, <1>15, SameJournal DEF PlaceInv, storageVars
<1>11. StageInv(n)'
  BY <1>0, <1>1, <1>3, <1>13, SameJournal DEF StageInv
<1>12. ListInv(n)'
  BY <1>0, <1>1 DEF ListInv
<1> QED
  BY <1>2, <1>4, <1>5, <1>6, <1>7, <1>8, <1>9, <1>10, <1>11, <1>12 DEF InStepAt

LEMMA SaveDayStateInStep ==
  ASSUME QueueTypeInv, NEW n \in committed..Len(journal), InStepAt(n),
         SaveDayState, UNCHANGED queueVars
  PROVE  InStepAt(n)'
<1>0. /\ JournalInv(n) /\ MarkerInv /\ MemoryInv(n) /\ StoredInv(n) /\ NumberInv(n)
      /\ StatusInv /\ PlaceInv(n) /\ StageInv(n) /\ ListInv(n)
  BY DEF InStepAt
<1>1. /\ QueueTypes /\ TypeOK /\ BookInv /\ UNCHANGED <<receipts, dayStart, fiscalDayNo, dayTotal>>
      /\ CallFits /\ UNCHANGED <<journal, committed, queue, loaded, call, at>>
      /\ pc = "saveDay" /\ dayState' = state /\ pc' = "saveGlobal"
      /\ UNCHANGED <<status, closingErrorCode, state, reported, pending, lastGlobal, sent, answer, late, now>>
  BY StepTypes DEF QueueTypeInv, SaveDayState, queueVars, journalVars, fdmsVars, wireVars, worldVars
<1>2. BookInv'
  BY <1>1, SameBookInv
<1>3. (HeadMarked' <=> HeadMarked) /\ (MarkerRecorded' <=> MarkerRecorded)
  BY <1>1, SameJournal DEF HeadMarked, MarkerRecorded
<1>13. state # None /\ state.receiptGlobalNo \in Nat
       /\ (FitsAt(state, n) \/ (Behind(state, n) /\ ~loaded /\ ~NothingWaits /\ n = Len(journal)))
  <2>1. state # None
    BY <1>0, <1>1 DEF PlaceInv
  <2>2. at = "upgrading" => FitsAt(state, n)
    BY <1>0 DEF StageInv
  <2> QED
    BY <1>0, <1>1, <2>1, <2>2, StepTypes DEF PlaceInv, MemoryInv
<1>4. JournalInv(n)'
  BY <1>0, <1>1, <1>13, SameJournal DEF JournalInv
<1>5. MarkerInv'
  BY <1>0, <1>1, <1>3, SameJournal DEF MarkerInv
<1>6. MemoryInv(n)'
  BY <1>0, <1>1, <1>3, <1>13, SameJournal DEF MemoryInv
<1>7. StoredInv(n)'
  BY <1>0, <1>1, <1>3, <1>13, SameJournal DEF StoredInv
<1>8. NumberInv(n)'
  BY <1>0, <1>1, <1>3, SameJournal DEF NumberInv
<1>9. StatusInv'
  BY <1>0, <1>1, <1>13, SameJournal DEF StatusInv, DayDone
<1>10. PlaceInv(n)'
  BY <1>0, <1>1, <1>3, <1>13, SameJournal DEF PlaceInv
<1>11. StageInv(n)'
  BY <1>0, <1>1, <1>3, <1>13, SameJournal DEF StageInv, CallFits
<1>12. ListInv(n)'
  BY <1>0, <1>1 DEF ListInv
<1> QED
  BY <1>2, <1>4, <1>5, <1>6, <1>7, <1>8, <1>9, <1>10, <1>11, <1>12 DEF InStepAt

\* The stored highest number, raised to the state's.
LEMMA RaisedGlobal ==
  ASSUME QueueTypeInv, NEW n \in committed..Len(journal), InStepAt(n), pc = "saveGlobal",
         lastGlobal' = IF state.receiptGlobalNo > lastGlobal THEN state.receiptGlobalNo ELSE lastGlobal
  PROVE  /\ lastGlobal' <= NumberAt(n)
         /\ FitsAt(state, n) => lastGlobal' = NumberAt(n)
         /\ FitsAt(state, n) \/ (~loaded /\ ~NothingWaits /\ Behind(state, n) /\ n = Len(journal))
         /\ state # None /\ dayState = state
<1>1. /\ MemoryInv(n) /\ NumberInv(n) /\ PlaceInv(n) /\ state # None /\ dayState = state
      /\ FitsAt(state, n) \/ (~loaded /\ ~NothingWaits)
  BY DEF InStepAt, PlaceInv
<1>2. state.receiptGlobalNo \in Nat /\ lastGlobal \in Nat /\ NumberAt(n) \in Nat /\ lastGlobal <= NumberAt(n)
  BY <1>1, StepTypes DEF NumberInv
<1>3. FitsAt(state, n) \/ (~loaded /\ ~NothingWaits /\ Behind(state, n) /\ n = Len(journal))
  BY <1>1 DEF MemoryInv
<1>4. FitsAt(state, n) => state.receiptGlobalNo = NumberAt(n)
  BY DEF FitsAt
<1>5. Behind(state, n) => state.receiptGlobalNo < NumberAt(n)
  BY DEF Behind
<1> QED
  BY <1>1, <1>2, <1>3, <1>4, <1>5

LEMMA SaveLastGlobalInStep ==
  ASSUME QueueTypeInv, NEW n \in committed..Len(journal), InStepAt(n),
         SaveLastGlobal, at \notin {"take", "upgrading"}, UNCHANGED queueVars
  PROVE  InStepAt(n)'
<1>0. /\ JournalInv(n) /\ MarkerInv /\ MemoryInv(n) /\ StoredInv(n) /\ NumberInv(n)
      /\ StatusInv /\ PlaceInv(n) /\ StageInv(n) /\ ListInv(n)
  BY DEF InStepAt
<1>1. /\ QueueTypes /\ TypeOK /\ BookInv /\ UNCHANGED <<receipts, dayStart, fiscalDayNo, dayTotal>>
      /\ CallFits /\ UNCHANGED <<journal, committed, queue, loaded, call, at>>
      /\ pc = "saveGlobal" /\ pc' = IF pending = None THEN "idle" ELSE "clearPending"
      /\ lastGlobal' = IF state.receiptGlobalNo > lastGlobal THEN state.receiptGlobalNo ELSE lastGlobal
      /\ UNCHANGED <<status, closingErrorCode, state, reported, dayState, pending, sent, answer, late, now>>
  BY StepTypes DEF QueueTypeInv, SaveLastGlobal, queueVars, journalVars, fdmsVars, wireVars, worldVars
<1>2. BookInv'
  BY <1>1, SameBookInv
<1>3. (HeadMarked' <=> HeadMarked) /\ (MarkerRecorded' <=> MarkerRecorded)
  BY <1>1, SameJournal DEF HeadMarked, MarkerRecorded
<1>13. /\ lastGlobal' <= NumberAt(n)
       /\ FitsAt(state, n) => lastGlobal' = NumberAt(n)
       /\ FitsAt(state, n) \/ (~loaded /\ ~NothingWaits /\ Behind(state, n) /\ n = Len(journal))
       /\ state # None /\ dayState = state
  BY <1>1, RaisedGlobal
<1>14. at # "commit"
  BY <1>1 DEF CallFits
<1>15. NothingWaits => NumberAt(n) = Len(receipts)
  BY StepTypes
<1>4. JournalInv(n)'
  BY <1>0, <1>1, SameJournal DEF JournalInv
<1>5. MarkerInv'
  BY <1>0, <1>1, <1>3, SameJournal DEF MarkerInv
<1>6. MemoryInv(n)'
  BY <1>0, <1>1, <1>3, SameJournal DEF MemoryInv
<1>7. StoredInv(n)'
  BY <1>0, <1>1, <1>3, SameJournal DEF StoredInv
<1>8. NumberInv(n)'
  <2>1. NumberAt(n)' = NumberAt(n) /\ (NothingWaits' <=> NothingWaits)
    BY <1>1, SameJournal
  <2> QED
    BY <1>1, <1>13, <1>14, <1>15, <2>1 DEF NumberInv
<1>9. StatusInv'
  BY <1>0, <1>1, SameJournal DEF StatusInv, DayDone
<1>10. PlaceInv(n)'
  BY <1>0, <1>1, <1>3, SameJournal DEF PlaceInv
<1>11. StageInv(n)'
  BY <1>0, <1>1, <1>3, SameJournal DEF StageInv
<1>12. ListInv(n)'
  BY <1>0, <1>1 DEF ListInv
<1> QED
  BY <1>2, <1>4, <1>5, <1>6, <1>7, <1>8, <1>9, <1>10, <1>11, <1>12 DEF InStepAt

\* A day that FDMS has just opened, for openDay() to store.
LEMMA OpenAnsweredInStep ==
  ASSUME QueueTypeInv, NEW n \in committed..Len(journal), InStepAt(n),
         OpenAnswered, UNCHANGED queueVars
  PROVE  InStepAt(n)'
<1>0. /\ JournalInv(n) /\ MarkerInv /\ MemoryInv(n) /\ StoredInv(n) /\ NumberInv(n)
      /\ StatusInv /\ PlaceInv(n) /\ StageInv(n) /\ ListInv(n)
  BY DEF InStepAt
<1>1. /\ QueueTypes /\ TypeOK /\ BookInv /\ UNCHANGED <<receipts, dayStart, fiscalDayNo, dayTotal>>
      /\ CallFits /\ UNCHANGED <<journal, committed, queue, loaded, call, at>>
      /\ pc = "open" /\ answer # None /\ answer.ok /\ answer' = None /\ pc' = "saveDay"
      /\ state' = NewDayState(answer.fiscalDayNo, OpeningGlobalNo)
      /\ UNCHANGED <<status, closingErrorCode, dayState, pending, lastGlobal, sent, late, now>>
  BY StepTypes DEF QueueTypeInv, OpenAnswered, queueVars, journalVars, fdmsVars, storageVars, worldVars
<1>2. BookInv'
  BY <1>1, SameBookInv
<1>3. /\ call = "none" /\ pending = None /\ NothingWaits /\ dayState = None /\ sent = None
      /\ reported <= Len(receipts) /\ Fits(NewDayState(answer.fiscalDayNo, Len(receipts)))
  BY <1>0, <1>1 DEF PlaceInv, OldDayCleared
<1>13. lastGlobal = Len(receipts) /\ n = RecordedTo /\ Len(receipts) \in Nat
  BY <1>0, <1>3, StepTypes DEF NumberInv, MarkerRecorded
<1>14. FitsAt(state', n) /\ state' # None
  <2>1. reported \in Nat
    BY <1>1 DEF TypeOK
  <2>2. OpeningGlobalNo = Len(receipts)
    BY <1>3, <1>13, <2>1 DEF OpeningGlobalNo
  <2>3. Fits(state')
    BY <1>1, <1>3, <2>2
  <2>4. answer.fiscalDayNo \in Nat
    BY <1>1 DEF TypeOK, Answer
  <2>5. state' \in DayState
    BY <1>1, <1>13, <2>2, <2>4 DEF NewDayState, DayState
  <2> QED
    BY <1>1, <1>13, <2>3, <2>5, FitsRecorded, NoneIsNothing
<1>4. JournalInv(n)'
  BY <1>0, <1>1, SameJournal DEF JournalInv
<1>5. MarkerInv'
  BY <1>1, <1>3 DEF MarkerInv
<1>6. MemoryInv(n)'
  BY <1>1, <1>3, <1>14, SameJournal DEF MemoryInv
<1>7. StoredInv(n)'
  BY <1>1, <1>3 DEF StoredInv
<1>8. NumberInv(n)'
  BY <1>0, <1>1, <1>3, <1>13, SameJournal DEF NumberInv
<1>9. StatusInv'
  BY <1>0, <1>1, <1>3, SameJournal DEF StatusInv, DayDone
<1>10. PlaceInv(n)'
  BY <1>0, <1>1, <1>3, <1>14, SameJournal DEF PlaceInv, HeadMarked
<1>11. StageInv(n)'
  <2>1. at = "top"
    BY <1>1, <1>3 DEF CallFits
  <2> QED
    BY <1>0, <1>1, <1>3, <2>1 DEF StageInv
<1>12. ListInv(n)'
  BY <1>0, <1>1 DEF ListInv
<1> QED
  BY <1>2, <1>4, <1>5, <1>6, <1>7, <1>8, <1>9, <1>10, <1>11, <1>12 DEF InStepAt

\* closeDay() has FDMS's acceptance, or clearPersistedState() runs: memory
\* forgets the day.
LEMMA ForgetsInStep ==
  ASSUME QueueTypeInv, NEW n \in committed..Len(journal), InStepAt(n),
         UNCHANGED <<fdmsVars, pending, lastGlobal, now, journal, committed, queue, loaded, call, at>>,
         call = "none", pending = None, state' = None, late' = <<>>,
         pc' = "idle", sent' = None, answer' = None,
         \/ dayState' = dayState /\ pc = "close"
         \/ dayState' = None /\ NothingWaits
  PROVE  InStepAt(n)'
<1>0. /\ JournalInv(n) /\ MarkerInv /\ MemoryInv(n) /\ StoredInv(n) /\ NumberInv(n)
      /\ StatusInv /\ PlaceInv(n) /\ StageInv(n) /\ ListInv(n)
  BY DEF InStepAt
<1>1. /\ QueueTypes /\ TypeOK /\ BookInv /\ UNCHANGED <<receipts, dayStart, fiscalDayNo, dayTotal>>
      /\ UNCHANGED <<status, closingErrorCode>> /\ at = "top"
  BY StepTypes DEF QueueTypeInv, CallFits, fdmsVars
<1>2. BookInv'
  BY <1>1, SameBookInv
<1>3. ~MarkerRecorded /\ ~MarkerRecorded'
  BY DEF MarkerRecorded
<1>13. pc = "close" => n = Len(journal) /\ (dayState # None => FitsAt(dayState, n))
  BY <1>0 DEF PlaceInv, StoredInv
<1>4. JournalInv(n)'
  BY <1>0, <1>1, SameJournal DEF JournalInv
<1>5. MarkerInv'
  BY DEF MarkerInv
<1>6. MemoryInv(n)'
  BY DEF MemoryInv
<1>7. StoredInv(n)'
  BY <1>1, <1>13, SameJournal DEF StoredInv
<1>8. NumberInv(n)'
  BY <1>0, <1>1, <1>3, SameJournal DEF NumberInv
<1>9. StatusInv'
  BY <1>0, <1>1, SameJournal DEF StatusInv, DayDone
<1>10. PlaceInv(n)'
  BY <1>1 DEF PlaceInv
<1>11. StageInv(n)'
  BY <1>0, <1>1 DEF StageInv
<1>12. ListInv(n)'
  BY <1>0, <1>1 DEF ListInv
<1> QED
  BY <1>2, <1>4, <1>5, <1>6, <1>7, <1>8, <1>9, <1>10, <1>11, <1>12 DEF InStepAt

\* The marker goes: with the head, which is then to be committed in the
\* journal, or with a receipt the journal does not hold.
LEMMA DeviceDoneInStep ==
  ASSUME QueueTypeInv, NEW n \in committed..Len(journal), InStepAt(n), DeviceDone
  PROVE  InStepAt(n)'
<1>0. /\ JournalInv(n) /\ MarkerInv /\ MemoryInv(n) /\ StoredInv(n) /\ NumberInv(n)
      /\ StatusInv /\ PlaceInv(n) /\ StageInv(n) /\ ListInv(n)
  BY DEF InStepAt
<1>1. /\ QueueTypes /\ TypeOK /\ BookInv /\ UNCHANGED <<receipts, dayStart, fiscalDayNo, dayTotal>>
      /\ CallFits /\ UNCHANGED <<journal, committed, queue, loaded>>
      /\ pc = "clearPending" /\ pc' = "idle" /\ pending' = None
      /\ IF at = "head" THEN at' = "commit" /\ call' = call ELSE call' = "none" /\ at' = "top"
      /\ UNCHANGED <<status, closingErrorCode, state, dayState, lastGlobal, sent, answer, late, now>>
  BY StepTypes
     DEF QueueTypeInv, DeviceDone, ClearPending, Return, journalVars, fdmsVars, wireVars, worldVars
<1>2. BookInv'
  BY <1>1, SameBookInv
<1>3. ~MarkerRecorded'
  BY <1>1 DEF MarkerRecorded
<1>13. /\ at \in {"head", "sale", "top"} /\ at # "commit"
       /\ call # "none" => loaded
  BY <1>1 DEF CallFits, QueueTypes, Stages
<1>14. /\ pending # None /\ Entered(pending) /\ sent = None /\ answer = None
       /\ state # None /\ dayState = state
       /\ FitsAt(state, n) \/ (Behind(state, n) /\ ~loaded /\ ~NothingWaits)
  BY <1>0, <1>1, <1>13 DEF PlaceInv, MemoryInv
<1>15. /\ at = "head" <=> HeadMarked
       /\ HeadRecorded <=> HeadMarked
  <2>1. ~(Waiting(pending) /\ Entered(pending))
    BY MarkerKinds
  <2>2. HeadRecorded <=> HeadMarked
    BY <1>13, <1>14, <2>1, MarkerKinds
  <2>3. at = "head" => HeadMarked
    BY <1>0 DEF StageInv
  <2>4. at # "head" => ~HeadMarked
    <3>1. at = "sale" => ~HeadMarked
      BY <1>0 DEF StageInv, HeadMarked
    <3>2. call = "none" => ~HeadMarked
      BY <1>0, <1>1 DEF PlaceInv
    <3>3. at = "top" => call = "none"
      BY <1>1 DEF CallFits
    <3> QED
      BY <1>13, <3>1, <3>2, <3>3
  <2> QED
    BY <2>2, <2>3, <2>4
<1>16. /\ NothingWaits => n = RecordedTo /\ NumberAt(n) = Len(receipts)
       /\ n = Len(journal)
  BY <1>14, StepTypes
<1>4. JournalInv(n)'
  BY <1>0, <1>1, <1>14, <1>15, <1>16, SameJournal DEF JournalInv, HeadMarked
<1>5. MarkerInv'
  BY <1>1 DEF MarkerInv
<1>6. MemoryInv(n)'
  BY <1>0, <1>1, <1>14, <1>16, SameJournal DEF MemoryInv
<1>7. StoredInv(n)'
  BY <1>0, <1>1, <1>14, <1>16, SameJournal DEF StoredInv
<1>8. NumberInv(n)'
  <2>1. NothingWaits \/ loaded => lastGlobal = NumberAt(n)
    BY <1>0, <1>1 DEF NumberInv
  <2>2. NumberAt(n)' = NumberAt(n) /\ (NothingWaits' <=> NothingWaits)
    BY <1>1, SameJournal
  <2>3. at = "head" => loaded
    BY <1>1, <1>13 DEF CallFits
  <2> QED
    BY <1>0, <1>1, <1>3, <1>16, <2>1, <2>2, <2>3 DEF NumberInv
<1>9. StatusInv'
  BY <1>0, <1>1, SameJournal DEF StatusInv, DayDone
<1>10. PlaceInv(n)'
  BY <1>0, <1>1, <1>14 DEF PlaceInv
<1>11. StageInv(n)'
  BY <1>0, <1>1, <1>14, <1>15, <1>16, SameJournal DEF StageInv
<1>12. ListInv(n)'
  BY <1>0, <1>1, <1>13 DEF ListInv
<1> QED
  BY <1>2, <1>4, <1>5, <1>6, <1>7, <1>8, <1>9, <1>10, <1>11, <1>12 DEF InStepAt

\* A definite refusal: the receipt FDMS still waits for is pending no more.
LEMMA DeviceRefusedInStep ==
  ASSUME QueueTypeInv, NEW n \in committed..Len(journal), InStepAt(n), DeviceRefused
  PROVE  InStepAt(n)'
<1>0. /\ JournalInv(n) /\ MarkerInv /\ MemoryInv(n) /\ StoredInv(n) /\ NumberInv(n)
      /\ StatusInv /\ PlaceInv(n) /\ StageInv(n) /\ ListInv(n)
  BY DEF InStepAt
<1>1. /\ QueueTypes /\ TypeOK /\ BookInv /\ UNCHANGED <<receipts, dayStart, fiscalDayNo, dayTotal>>
      /\ CallFits /\ UNCHANGED <<journal, committed, queue, loaded>>
      /\ pc = "submit" /\ answer # None /\ ~answer.ok /\ pc' = "idle" /\ pending' = None /\ answer' = None
      /\ \/ call = "sale" /\ call' = "sale" /\ at' = "sign"
         \/ call' = "none" /\ at' = "top"
      /\ UNCHANGED <<status, closingErrorCode, state, dayState, lastGlobal, sent, late, now>>
  BY StepTypes
     DEF QueueTypeInv, DeviceRefused, SubmitRefused, Thrown, FlushFails, Return, journalVars, fdmsVars, worldVars
<1>2. BookInv'
  BY <1>1, SameBookInv
<1>3. ~MarkerRecorded'
  BY <1>1 DEF MarkerRecorded
<1>13. at \in {"head", "sale", "top"} /\ at # "commit"
  BY <1>1 DEF CallFits, QueueTypes, Stages
<1>14. pending # None /\ Waiting(pending) /\ sent = None /\ ~HeadRecorded /\ ~MarkerRecorded
  <2>1. pending # None /\ Waiting(pending) /\ sent = None
    BY <1>0, <1>1 DEF PlaceInv
  <2> QED
    BY <1>13, <2>1, MarkerKinds
<1>16. n = Len(journal)
  BY <1>14, StepTypes
<1>4. JournalInv(n)'
  BY <1>0, <1>1, <1>14, <1>16, SameJournal DEF JournalInv
<1>5. MarkerInv'
  BY <1>1 DEF MarkerInv
<1>6. MemoryInv(n)'
  BY <1>0, <1>1, <1>14, SameJournal DEF MemoryInv
<1>7. StoredInv(n)'
  BY <1>0, <1>1, <1>14, <1>16, SameJournal DEF StoredInv
<1>8. NumberInv(n)'
  BY <1>0, <1>1, <1>14, SameJournal DEF NumberInv
<1>9. StatusInv'
  BY <1>0, <1>1, SameJournal DEF StatusInv, DayDone
<1>10. PlaceInv(n)'
  BY <1>0, <1>1, <1>14 DEF PlaceInv
<1>11. StageInv(n)'
  BY <1>0, <1>1, <1>13, <1>16, SameJournal DEF StageInv
<1>12. ListInv(n)'
  BY <1>0, <1>1, <1>13 DEF ListInv
<1> QED
  BY <1>2, <1>4, <1>5, <1>6, <1>7, <1>8, <1>9, <1>10, <1>11, <1>12 DEF InStepAt

\* The process dies, short of a mishap; the marker, the journal and the
\* stored day are all that is left.
LEMMA ProcessDiesInStep ==
  ASSUME QueueTypeInv, Orderly, NEW n \in committed..Len(journal), InStepAt(n), ProcessDies, Undisturbed'
  PROVE  InStepAt(n)'
<1>0. /\ JournalInv(n) /\ MarkerInv /\ MemoryInv(n) /\ StoredInv(n) /\ NumberInv(n)
      /\ StatusInv /\ PlaceInv(n) /\ StageInv(n) /\ ListInv(n)
  BY DEF InStepAt
<1>1. /\ QueueTypes /\ TypeOK /\ BookInv /\ UNCHANGED <<receipts, dayStart, fiscalDayNo, dayTotal>>
      /\ UNCHANGED <<journal, committed>> /\ queue' = <<>> /\ loaded' = FALSE
      /\ call' = "none" /\ at' = "top" /\ state' = None
      /\ pc' = "idle" /\ sent' = None /\ answer' = None
      /\ late' = IF LateDelivery /\ sent # None THEN Append(late, sent) ELSE late
      /\ UNCHANGED <<status, closingErrorCode, dayState, pending, lastGlobal, now>>
  BY StepTypes DEF ProcessDies, Crash, AbandonCall, Return, journalVars, fdmsVars, storageVars
<1>2. BookInv'
  BY <1>1, SameBookInv
<1>3. (HeadMarked' <=> HeadMarked) /\ (MarkerRecorded' <=> MarkerRecorded)
  BY <1>1, SameJournal DEF HeadMarked, MarkerRecorded
<1>13. late' = <<>>
  BY <1>0, <1>1 DEF Orderly, Punctual, PlaceInv
<1>14. at # "commit" /\ ~(at = "upgrading" /\ pc = "saveDay" /\ ~AllSigned(ReadJournal))
  BY DEF ProcessDies, Undisturbed
<1>15. at = "upgrading" /\ pc = "saveDay" => n = Len(journal)
  BY <1>0, <1>1, <1>14, LastRecord, StepTypes
<1>4. JournalInv(n)'
  BY <1>0, <1>1, <1>14, SameJournal DEF JournalInv
<1>5. MarkerInv'
  BY <1>0, <1>1, <1>3, SameJournal DEF MarkerInv
<1>6. MemoryInv(n)'
  BY <1>1 DEF MemoryInv
<1>7. StoredInv(n)'
  BY <1>0, <1>1, <1>3, <1>15, SameJournal DEF StoredInv
<1>8. NumberInv(n)'
  BY <1>0, <1>1, <1>3, SameJournal DEF NumberInv
<1>9. StatusInv'
  BY <1>0, <1>1, SameJournal DEF StatusInv, DayDone
<1>10. PlaceInv(n)'
  BY <1>1, <1>13 DEF PlaceInv
<1>11. StageInv(n)'
  BY <1>1 DEF StageInv
<1>12. ListInv(n)'
  BY <1>1 DEF ListInv
<1> QED
  BY <1>2, <1>4, <1>5, <1>6, <1>7, <1>8, <1>9, <1>10, <1>11, <1>12 DEF InStepAt

\* A list that mirrors the journal is all signed when the journal is.
LEMMA ListSigned ==
  ASSUME QueueTypeInv, NEW n \in committed..Len(journal), JournalInv(n),
         NEW q, Len(q) = Len(journal) - committed, DOMAIN q = 1..Len(q),
         \A i \in DOMAIN q : q[i].item = journal[committed + i]
  PROVE  AllSigned(q) <=> n = Len(journal)
<1>1. QueueTypes /\ committed \in Nat /\ Len(journal) \in Nat /\ n \in Nat /\ committed <= n /\ n <= Len(journal)
  BY JournalTypes DEF QueueTypeInv
<1> DEFINE k == Len(journal) - committed
<1>2. k \in Nat /\ committed + k = Len(journal)
  BY <1>1
<1>3. DOMAIN ReadJournal = 1..k /\ \A i \in 1..k : ReadJournal[i].item = journal[committed + i]
  <2>1. /\ ReadJournal \in Seq(Item) /\ Len(ReadJournal) = k
        /\ \A i \in 1..k : ReadJournal[i] = [cursor |-> committed + i - 1, item |-> journal[committed + i]]
    BY <1>1, UncommittedType DEF QueueTypes
  <2> HIDE DEF k
  <2> QED
    BY <1>2, <2>1
<1>4. AllSigned(ReadJournal) <=> n = Len(journal)
  BY <1>1, LastRecord
<1> HIDE DEF k
<1>5. DOMAIN q = 1..k /\ \A i \in 1..k : q[i].item = ReadJournal[i].item
  BY <1>3 DEF k
<1> QED
  BY <1>3, <1>4, <1>5 DEF AllSigned

\* A call begins without a day, when nothing waits and nothing is stored that
\* was not loaded: anything else is a mishap.
LEMMA BeginInVainInStep ==
  ASSUME QueueTypeInv, NEW n \in committed..Len(journal), InStepAt(n),
         NEW operation \in {"enqueue", "sale", "flush"}, Begin(operation),
         state = None, queue' = <<>>, loaded \/ (dayState = None /\ pending = None)
  PROVE  InStepAt(n)'
<1>0. /\ JournalInv(n) /\ MarkerInv /\ MemoryInv(n) /\ StoredInv(n) /\ NumberInv(n)
      /\ StatusInv /\ PlaceInv(n) /\ StageInv(n) /\ ListInv(n)
  BY DEF InStepAt
<1>1. /\ QueueTypes /\ TypeOK /\ BookInv /\ UNCHANGED <<receipts, dayStart, fiscalDayNo, dayTotal>>
      /\ pc = "idle" /\ call = "none" /\ at = "top" /\ state' = None /\ loaded' = TRUE /\ call' = operation
      /\ queue' = IF loaded THEN queue ELSE ReadJournal
      /\ at' = StageOf(operation)
      /\ UNCHANGED <<journal, committed>>
      /\ UNCHANGED <<status, closingErrorCode, pc, dayState, pending, lastGlobal, sent, answer, late, now>>
  BY StepTypes
     DEF QueueTypeInv, CallFits, Begin, journalVars, fdmsVars, storageVars, wireVars, worldVars
<1>2. BookInv'
  BY <1>1, SameBookInv
<1>3. (HeadMarked' <=> HeadMarked) /\ (MarkerRecorded' <=> MarkerRecorded)
  BY <1>1, SameJournal DEF HeadMarked, MarkerRecorded
<1>4. Len(journal) \in Nat /\ committed \in Nat /\ committed <= Len(journal)
  BY <1>1, JournalTypes
<1>5. Len(journal) - committed = 0
  <2>1. CASE loaded
    <3>1. Len(queue) = Len(journal) - committed - 0 /\ Len(queue) = 0
      BY <1>0, <1>1, <2>1 DEF ListInv
    <3> QED
      BY <1>4, <3>1
  <2>2. CASE ~loaded
    BY <1>1, <2>2, UncommittedType DEF QueueTypes
  <2> QED
    BY <2>1, <2>2
<1>6. committed = Len(journal) /\ n = Len(journal)
  BY <1>4, <1>5
<1>7. /\ at' = IF operation = "enqueue" THEN "sign" ELSE "top"
      /\ pending = None
  BY <1>0, <1>1 DEF StageOf, MemoryInv
<1>8. JournalInv(n)'
  BY <1>0, <1>1, SameJournal DEF JournalInv
<1>9. MarkerInv'
  BY <1>1, <1>7 DEF MarkerInv
<1>10. MemoryInv(n)'
  BY <1>1, <1>7 DEF MemoryInv
<1>11. StoredInv(n)'
  BY <1>0, <1>1, <1>3, SameJournal DEF StoredInv
<1>12. NumberInv(n)'
  BY <1>0, <1>1, <1>3, <1>7, SameJournal DEF NumberInv
<1>13. StatusInv'
  BY <1>0, <1>1, SameJournal DEF StatusInv, DayDone
<1>14. PlaceInv(n)'
  BY <1>0, <1>1 DEF PlaceInv
<1>15. StageInv(n)'
  BY <1>1, <1>6, <1>7 DEF StageInv
<1>16. ListInv(n)'
  <2>1. Len(queue') = 0 /\ DOMAIN queue' = {} /\ Len(journal') - committed' - 0 = 0
    BY <1>1, <1>4, <1>5
  <2>2. at' # "take"
    BY <1>7
  <2> QED
    BY <2>1, <2>2 DEF ListInv
<1> QED
  BY <1>2, <1>8, <1>9, <1>10, <1>11, <1>12, <1>13, <1>14, <1>15, <1>16 DEF InStepAt

\* A call begins with one.  A journal that is loaded brings a state that was
\* behind it up to date.
LEMMA BeginInStep ==
  ASSUME QueueTypeInv, NEW n \in committed..Len(journal), InStepAt(n),
         NEW operation \in {"enqueue", "sale", "flush"}, Begin(operation), state # None,
         operation # "flush" => status = "FiscalDayOpened" /\ dayState # None
  PROVE  InStepAt(n)'
<1>0. /\ JournalInv(n) /\ MarkerInv /\ MemoryInv(n) /\ StoredInv(n) /\ NumberInv(n)
      /\ StatusInv /\ PlaceInv(n) /\ StageInv(n) /\ ListInv(n)
  BY DEF InStepAt
<1>1. /\ QueueTypes /\ TypeOK /\ BookInv /\ UNCHANGED <<receipts, dayStart, fiscalDayNo, dayTotal>>
      /\ pc = "idle" /\ call = "none" /\ at = "top" /\ state # None /\ loaded' = TRUE /\ call' = operation
      /\ queue' = IF loaded THEN queue ELSE ReadJournal
      /\ state' = IF loaded THEN state ELSE CaughtUp(state)
      /\ at' = IF loaded \/ AllSigned(queue') THEN StageOf(operation) ELSE "upgrade"
      /\ UNCHANGED <<journal, committed>>
      /\ UNCHANGED <<status, closingErrorCode, pc, dayState, pending, lastGlobal, sent, answer, late, now>>
  BY StepTypes
     DEF QueueTypeInv, CallFits, Begin, journalVars, fdmsVars, storageVars, wireVars, worldVars
<1>2. BookInv'
  BY <1>1, SameBookInv
<1>3. (HeadMarked' <=> HeadMarked) /\ (MarkerRecorded' <=> MarkerRecorded)
  BY <1>1, SameJournal DEF HeadMarked, MarkerRecorded
<1>13. n \in Nat /\ committed <= n /\ n <= Len(journal) /\ Len(journal) \in Nat /\ committed \in Nat
       /\ state \in DayState
  BY <1>1, StepTypes
<1>14. ~loaded => (AllSigned(queue') <=> n = Len(journal))
  BY <1>0, <1>1, <1>13, LastRecord
<1>15. /\ loaded => n = Len(journal)
       /\ at' = "upgrade" => n < Len(journal)
       /\ at' # "upgrade" => n = Len(journal)
       /\ at' \in {"sign", "top", "upgrade"} /\ (at' = "sign" => operation = "enqueue")
       /\ at' = "top" => operation # "enqueue"
  <2>1. loaded => n = Len(journal)
    BY <1>0, <1>1 DEF StageInv
  <2> QED
    BY <1>1, <1>13, <1>14, <2>1 DEF StageOf
<1>16. /\ state' \in DayState /\ state' # None
       /\ FitsAt(state', n) \/ (Behind(state', n) /\ NothingWaits /\ MarkerRecorded)
       /\ state.receiptGlobalNo <= state'.receiptGlobalNo
  <2>1. CASE loaded
    BY <1>0, <1>1, <1>13, <2>1, StepTypes DEF MemoryInv
  <2>2. CASE ~loaded
    <3>1. /\ FitsAt(state, n) => CaughtUp(state) = state
          /\ Behind(state, n) /\ ~NothingWaits /\ n = Len(journal) => FitsAt(CaughtUp(state), n)
          /\ CaughtUp(state).receiptGlobalNo >= state.receiptGlobalNo
          /\ NothingWaits => CaughtUp(state) = state
      BY <1>0, <1>1, <1>13, CaughtUpFits
    <3>2. CaughtUp(state) \in DayState
      BY <1>1, <1>13, CaughtUpType
    <3>3. CaughtUp(state).receiptGlobalNo \in Nat /\ state.receiptGlobalNo \in Nat
      BY <1>13, <3>2 DEF DayState
    <3> QED
      BY <1>0, <1>1, <2>2, <3>1, <3>2, <3>3, NoneIsNothing DEF MemoryInv
  <2> QED
    BY <2>1, <2>2
<1>17. dayState # None => dayState.receiptGlobalNo <= state'.receiptGlobalNo
  <2>1. dayState # None => dayState.receiptGlobalNo \in Nat /\ dayState.receiptGlobalNo <= state.receiptGlobalNo
    BY <1>0, <1>1 DEF MemoryInv, TypeOK, DayState
  <2>2. state.receiptGlobalNo \in Nat /\ state'.receiptGlobalNo \in Nat
    BY <1>13, <1>16 DEF DayState
  <2> QED
    BY <1>16, <2>1, <2>2
<1>4. JournalInv(n)'
  BY <1>0, <1>1, SameJournal DEF JournalInv
<1>5. MarkerInv'
  BY <1>0, <1>1, <1>3, SameJournal DEF MarkerInv
<1>6. MemoryInv(n)'
  BY <1>0, <1>1, <1>3, <1>16, <1>17, SameJournal DEF MemoryInv
<1>7. StoredInv(n)'
  BY <1>0, <1>1, <1>3, <1>16, SameJournal DEF StoredInv
<1>8. NumberInv(n)'
  BY <1>0, <1>1, <1>3, <1>15, SameJournal DEF NumberInv
<1>9. StatusInv'
  BY <1>0, <1>1, SameJournal DEF StatusInv, DayDone
<1>10. PlaceInv(n)'
  BY <1>0, <1>1 DEF PlaceInv
<1>11. StageInv(n)'
  BY <1>1, <1>15, SameJournal DEF StageInv
<1>12. ListInv(n)'
  <2>1. CASE loaded
    BY <1>0, <1>1, <1>15, <2>1 DEF ListInv
  <2>2. CASE ~loaded
    <3> DEFINE k == Len(journal) - committed
    <3>1. k \in Nat /\ queue' = ReadJournal /\ at' # "take" /\ at' # "upgrading"
      BY <1>1, <1>13, <1>15, <2>2
    <3>2. /\ ReadJournal \in Seq(Item) /\ Len(ReadJournal) = k
          /\ \A i \in 1..k : ReadJournal[i] = [cursor |-> committed + i - 1, item |-> journal[committed + i]]
      BY <1>1, UncommittedType DEF QueueTypes
    <3>3. Len(queue') = k /\ DOMAIN queue' = 1..k /\ \A i \in 1..k : queue'[i].item = journal[committed + i]
      <4> HIDE DEF k
      <4> QED
        BY <3>1, <3>2
    <3>4. k - 0 = k
      BY <3>1
    <3> QED
      BY <1>1, <3>1, <3>3, <3>4 DEF ListInv
  <2> QED
    BY <2>1, <2>2
<1> QED
  BY <1>2, <1>4, <1>5, <1>6, <1>7, <1>8, <1>9, <1>10, <1>11, <1>12 DEF InStepAt

\* The journal of an earlier version holds nothing that is signed.
LEMMA EarlierVersionInStep ==
  ASSUME QueueTypeInv, QueueTypeInv', NEW n \in committed..Len(journal), InStepAt(n),
         EarlierVersionQueues
  PROVE  n = committed' /\ InStepAt(n)'
<1>0. /\ JournalInv(n) /\ MarkerInv /\ MemoryInv(n) /\ StoredInv(n) /\ NumberInv(n)
      /\ StatusInv /\ PlaceInv(n) /\ StageInv(n) /\ ListInv(n)
  BY DEF InStepAt
<1>1. /\ QueueTypes /\ TypeOK /\ BookInv /\ UNCHANGED <<receipts, dayStart, fiscalDayNo, dayTotal>>
      /\ state = None /\ ~loaded /\ pending = None /\ journal = <<>>
      /\ status = "FiscalDayOpened" /\ dayState # None
      /\ UNCHANGED <<status, closingErrorCode, state, pc, dayState, pending, lastGlobal, sent, answer, late, now>>
      /\ UNCHANGED <<committed, queue, loaded, call, at>>
  BY StepTypes DEF EarlierVersionQueues, vars, fdmsVars, storageVars, wireVars, worldVars
<1>2. BookInv'
  BY <1>1, SameBookInv
<1>3. call = "none" /\ at = "top" /\ pc = "idle"
  <2>1. call = "none" /\ at = "top"
    BY <1>1 DEF QueueTypeInv, CallFits
  <2>2. pc \in Places
    BY <1>1 DEF TypeOK
  <2>3. pc \notin {"submit", "open", "close", "saveDay", "saveGlobal", "clearPending"}
    BY <1>0, <1>1 DEF PlaceInv, OldDayCleared
  <2> QED
    BY <2>1, <2>2, <2>3 DEF Places
<1>4. n = 0 /\ committed = 0 /\ NothingWaits /\ n = RecordedTo
  <2>1. NothingWaits /\ n = committed /\ n = Len(journal) /\ n = RecordedTo
    <3>1. Len(journal) = 0
      BY <1>1
    <3>2. committed = 0
      BY <1>1, <3>1, StepTypes
    <3> QED
      BY <3>1, <3>2, StepTypes DEF NothingWaits
  <2>2. Len(journal) = 0
    BY <1>1
  <2> QED
    BY <2>1, <2>2
<1>5. /\ Len(journal') \in Nat /\ Len(journal') > 0
      /\ \A j \in 1..Len(journal') : ~IsPrepared(journal'[j])
  <2>1. PICK m \in 1..(MaxSigned - signed), entry \in Unsigned : journal' = [i \in 1..m |-> entry]
    BY DEF EarlierVersionQueues
  <2>2. m \in Nat /\ m > 0 /\ Len(journal') = m
    BY <1>1, <2>1, BoundsAreNumbers DEF TypeOK
  <2>3. ~IsPrepared(entry)
    BY DEF Unsigned, IsPrepared
  <2> QED
    BY <2>1, <2>2, <2>3
<1>6. ~NothingWaits' /\ ~HeadRecorded' /\ RecordedTo' = RecordedTo /\ RecordedTo' = n
  <2>1. committed' = 0 /\ ~NothingWaits' /\ committed' + 1 \in 1..Len(journal')
    BY <1>1, <1>4, <1>5 DEF NothingWaits
  <2>2. ~HeadRecorded'
    BY <1>5, <2>1 DEF HeadRecorded
  <2> QED
    BY <1>1, <1>4, <2>1, <2>2 DEF RecordedTo, HeadRecorded
<1>7. NumberAt(n) = Len(receipts) /\ lastGlobal = Len(receipts) /\ FitsAt(dayState, n)
  BY <1>0, <1>1, <1>4, StepTypes DEF NumberInv, StoredInv, MarkerRecorded
<1>8. NumberAt(n)' = Len(receipts) /\ FitsAt(dayState, n)' /\ Len(receipts) \in Nat
  <2>1. DayReceiptCount' = DayReceiptCount /\ LastHash' = LastHash /\ LastDate' = LastDate
    BY <1>1, SameBook
  <2>2. Fits(dayState)
    BY <1>1, <1>4, <1>7, FitsRecorded
  <2>3. n \in Nat /\ Len(receipts) \in Nat /\ DayReceiptCount \in Nat
    BY <1>1, <1>4, BookTypes, StepTypes
  <2>4. NumberAt(n)' = Len(receipts) /\ CounterAt(n)' = DayReceiptCount
    BY <1>1, <1>6, <2>1, <2>3 DEF NumberAt, CounterAt
  <2>5. HashAt(n)' = LastHash /\ DateAt(n)' = LastDate /\ CountersAt(n)' = dayTotal
    BY <1>1, <1>6, <2>1 DEF HashAt, DateAt, CountersAt
  <2> QED
    BY <1>1, <2>2, <2>3, <2>4, <2>5 DEF FitsAt, Fits
<1>9. JournalInv(n)'
  <2>1. (RecordedTo + 1)' = n + 1 /\ (n + 1)..n = {} /\ n + 1 = 1
    BY <1>4, <1>6
  <2> QED
    BY <1>1, <1>4, <1>5, <1>6, <2>1 DEF JournalInv
<1>10. MemoryInv(n)' /\ MarkerInv'
  BY <1>1, <1>3 DEF MemoryInv, MarkerInv
<1>11. StoredInv(n)'
  BY <1>8 DEF StoredInv
<1>12. NumberInv(n)'
  BY <1>1, <1>3, <1>6, <1>7, <1>8 DEF NumberInv
<1>13. StatusInv'
  BY <1>1, <1>3 DEF StatusInv, DayDone
<1>14. PlaceInv(n)'
  BY <1>0, <1>1, <1>3 DEF PlaceInv
<1>15. StageInv(n)' /\ ListInv(n)'
  BY <1>1, <1>3 DEF StageInv, ListInv
<1> QED
  BY <1>1, <1>2, <1>4, <1>9, <1>10, <1>11, <1>12, <1>13, <1>14, <1>15 DEF InStepAt

\* A signed record is added after the last one: the journal is in order up to
\* there, and a state that was up to date is one record behind.
LEMMA RecordAdded ==
  ASSUME QueueTypes, NEW n \in Nat, JournalInv(n), committed <= n, n <= Len(journal),
         UNCHANGED <<receipts, dayStart, fiscalDayNo, dayTotal, committed>>,
         NEW m, m = n + 1, Len(journal') \in Nat, m <= Len(journal'),
         \A j \in 1..n : journal'[j] = journal[j],
         NEW p \in PreparedReceipt, journal'[m] = p, Follows(p, m)
  PROVE  /\ RecordedTo' = RecordedTo /\ (HeadRecorded' <=> HeadRecorded) /\ ~NothingWaits'
         /\ HeadRecorded => ~NothingWaits /\ journal'[committed + 1] = journal[committed + 1]
         /\ committed < n => ~NothingWaits /\ journal'[committed + 1] = journal[committed + 1]
         /\ \A j \in (RecordedTo' + 1)..m : IsPrepared(journal[j])' /\ Follows(journal[j], j)'
         /\ FitsAt(p.stateAfter, m)'
         /\ NumberAt(m)' = NumberAt(n) + 1 /\ NumberAt(n) \in Nat
         /\ \A s : (FitsAt(s, n) \/ Behind(s, n)) /\ s.receiptGlobalNo \in Nat => Behind(s, m)'
         /\ \A x : (Waiting(x)' <=> Waiting(x)) /\ (Entered(x)' <=> Entered(x))
<1>1. /\ committed \in Nat /\ Len(journal) \in Nat /\ m \in Nat /\ Len(receipts) \in Nat
      /\ RecordedTo \in Nat /\ committed <= RecordedTo /\ RecordedTo <= n
      /\ NumberAt(m) = NumberAt(n) + 1 /\ CounterAt(m) = CounterAt(n) + 1 /\ NumberAt(n) \in Nat
      /\ Len(receipts) <= NumberAt(n)
  <2>1. /\ committed \in Nat /\ Len(journal) \in Nat /\ m \in Nat /\ Len(receipts) \in Nat
        /\ RecordedTo \in Nat /\ committed <= RecordedTo /\ RecordedTo <= n
    BY JournalTypes DEF JournalInv
  <2>2. NumberAt(m) = NumberAt(n) + 1 /\ CounterAt(m) = CounterAt(n) + 1
    BY NumberTypes
  <2>3. NumberAt(n) \in Nat /\ Len(receipts) <= NumberAt(n)
    BY <2>1, NumberTypes
  <2> QED
    BY <2>1, <2>2, <2>3
<1>2. IsPrepared(p) /\ p.receipt.globalNo = NumberAt(m) /\ p.receipt.globalNo # Len(receipts)
  BY <1>1 DEF Follows, IsPrepared, PreparedReceipt
<1>3. ~NothingWaits'
  BY <1>1 DEF NothingWaits
<1>4. /\ HeadRecorded' <=> HeadRecorded
      /\ HeadRecorded => ~NothingWaits /\ journal'[committed + 1] = journal[committed + 1]
      /\ committed < n => ~NothingWaits /\ journal'[committed + 1] = journal[committed + 1]
  <2>1. CASE committed < n
    <3>1. committed + 1 \in 1..n /\ ~NothingWaits
      BY <1>1, <2>1 DEF NothingWaits
    <3> QED
      BY <1>3, <3>1 DEF HeadRecorded
  <2>2. CASE committed = n
    <3>1. ~HeadRecorded
      BY <1>1, <2>2 DEF RecordedTo
    <3>2. journal'[committed' + 1] = p
      BY <2>2
    <3> QED
      BY <1>1, <1>2, <2>2, <3>1, <3>2 DEF HeadRecorded
  <2> QED
    BY <1>1, <2>1, <2>2
<1>5. RecordedTo' = RecordedTo
  BY <1>4 DEF RecordedTo
<1>6. /\ \A j : NumberAt(j)' = NumberAt(j)
      /\ \A x : \A j \in (RecordedTo + 1)..n : Follows(x, j)' <=> Follows(x, j)
      /\ \A x : Follows(x, m)' <=> Follows(x, m)
      /\ \A x : (Waiting(x)' <=> Waiting(x)) /\ (Entered(x)' <=> Entered(x))
  BY <1>1, <1>5, SameBelow
<1>7. \A j \in (RecordedTo' + 1)..m : IsPrepared(journal[j])' /\ Follows(journal[j], j)'
  <2> SUFFICES ASSUME NEW j \in (RecordedTo + 1)..m
               PROVE  IsPrepared(journal[j])' /\ Follows(journal[j], j)'
    BY <1>5
  <2>1. CASE j = m
    BY <1>2, <1>6, <2>1
  <2>2. CASE j # m
    <3>1. j \in (RecordedTo + 1)..n /\ j \in 1..n
      BY <1>1, <2>2
    <3> QED
      BY <1>6, <3>1 DEF JournalInv
  <2> QED
    BY <2>1, <2>2
<1>8. FitsAt(p.stateAfter, m)'
  <2>1. m # RecordedTo' /\ m - 1 = n
    BY <1>1, <1>5
  <2>2. HashAt(m)' = p.receipt.hash /\ DateAt(m)' = p.receipt.date /\ CountersAt(m)' = p.stateAfter.counters
    BY <2>1 DEF HashAt, DateAt, CountersAt
  <2>3. CounterAt(m)' = p.receipt.counter /\ NumberAt(m)' = p.receipt.globalNo
    <3>1. CounterAt(m)' = CounterAt(m)
      BY <1>5, SameBook DEF CounterAt
    <3> QED
      BY <1>6, <3>1 DEF Follows
  <2> QED
    BY <2>2, <2>3 DEF Follows, FitsAt
<1>9. NumberAt(m)' = NumberAt(n) + 1
  BY <1>1, <1>6
<1>10. \A s : (FitsAt(s, n) \/ Behind(s, n)) /\ s.receiptGlobalNo \in Nat => Behind(s, m)'
  BY <1>1, <1>9 DEF FitsAt, Behind
<1> QED
  BY <1>1, <1>3, <1>4, <1>5, <1>6, <1>7, <1>8, <1>9, <1>10

\* The first unsigned entry of the list is the first unsigned record.
LEMMA FirstUnsignedRecord ==
  ASSUME QueueTypeInv, NEW n \in committed..Len(journal), InStepAt(n), at = "upgrade"
  PROVE  /\ FirstUnsigned \in DOMAIN queue
         /\ committed + FirstUnsigned = n + 1
         /\ queue[FirstUnsigned].cursor + 1 = n + 1
         /\ ~IsPrepared(queue[FirstUnsigned].item)
<1> DEFINE k == FirstUnsigned
<1>1. /\ QueueTypes /\ ListFits /\ CallFits /\ JournalInv(n) /\ StageInv(n) /\ ListInv(n)
      /\ n \in Nat /\ committed \in Nat /\ Len(journal) \in Nat /\ committed <= n /\ n < Len(journal)
  BY StepTypes DEF QueueTypeInv, InStepAt, StageInv
<1>2. /\ Len(queue) = Len(journal) - committed /\ DOMAIN queue = 1..Len(queue) /\ Len(queue) \in Nat
      /\ \A i \in DOMAIN queue : queue[i].item = journal[committed + i]
      /\ \A i \in DOMAIN queue : queue[i].cursor = committed + i - 1
  <2>1. loaded /\ at # "take" /\ at # "upgrading"
    BY <1>1 DEF CallFits
  <2> QED
    BY <1>1, <2>1 DEF ListInv, ListFits, QueueTypes
<1>3. /\ k \in DOMAIN queue /\ ~IsPrepared(queue[k].item)
      /\ \A i \in 1..(k - 1) : IsPrepared(queue[i].item)
  BY <1>1, FirstUnsignedIsFirst DEF ListFits, QueueTypes
<1> HIDE DEF k
<1>4. \A j \in (committed + 1)..n : IsPrepared(journal[j])
  <2> SUFFICES ASSUME NEW j \in (committed + 1)..n
               PROVE  IsPrepared(journal[j])
    OBVIOUS
  <2>1. j \in (RecordedTo + 1)..n \/ (HeadRecorded /\ j = committed + 1)
    BY <1>1, JournalTypes DEF RecordedTo
  <2> QED
    BY <1>1, <2>1 DEF JournalInv, HeadRecorded
<1>5. \A j \in (n + 1)..Len(journal) : ~IsPrepared(journal[j])
  BY <1>1 DEF JournalInv
<1>6. ~(committed + k <= n)
  <2>1. committed + k <= n => committed + k \in (committed + 1)..n
    BY <1>1, <1>2, <1>3
  <2> QED
    BY <1>2, <1>3, <1>4, <2>1
<1>7. ~(committed + k > n + 1)
  <2> SUFFICES ASSUME committed + k > n + 1
               PROVE  FALSE
    OBVIOUS
  <2> DEFINE i == n + 1 - committed
  <2>1. i \in 1..(k - 1) /\ i \in DOMAIN queue /\ committed + i = n + 1 /\ n + 1 \in (n + 1)..Len(journal)
    BY <1>1, <1>2, <1>3
  <2> HIDE DEF i
  <2> QED
    BY <1>2, <1>3, <1>5, <2>1
<1>8. committed + k = n + 1 /\ queue[k].cursor + 1 = n + 1
  BY <1>1, <1>2, <1>3, <1>6, <1>7
<1> QED
  BY <1>3, <1>8 DEF k

\* The next unsigned record is signed from memory.
LEMMA UpgradeEntryInStep ==
  ASSUME QueueTypeInv, QueueTypeInv', Orderly, NEW n \in committed..Len(journal), InStepAt(n),
         UpgradeEntry, NEW m, m = n + 1
  PROVE  m \in Nat /\ m <= Len(journal)' /\ committed' <= m /\ InStepAt(m)'
<1>0. /\ JournalInv(n) /\ MarkerInv /\ MemoryInv(n) /\ StoredInv(n) /\ NumberInv(n)
      /\ StatusInv /\ PlaceInv(n) /\ StageInv(n) /\ ListInv(n)
  BY DEF InStepAt
<1>1. /\ QueueTypes /\ TypeOK /\ BookInv /\ UNCHANGED <<receipts, dayStart, fiscalDayNo, dayTotal>>
      /\ CallFits /\ UNCHANGED <<committed, queue, loaded, call>>
      /\ at = "upgrade" /\ at' = "upgrading" /\ pc = "idle" /\ pc' = "saveDay" /\ call # "none" /\ loaded
      /\ UNCHANGED <<status, closingErrorCode, dayState, pending, lastGlobal, sent, answer, late, now>>
  BY StepTypes
     DEF QueueTypeInv, CallFits, UpgradeEntry, fdmsVars, storageVars, wireVars
<1>2. BookInv'
  BY <1>1, SameBookInv
<1>3. /\ n \in Nat /\ m \in Nat /\ committed \in Nat /\ committed <= n /\ n <= Len(journal)
      /\ Len(journal) \in Nat /\ n < Len(journal) /\ m <= Len(journal) /\ m - 1 = n
      /\ lastGlobal \in Nat /\ RecordedTo <= n
      /\ status = "FiscalDayOpened" /\ pending = None /\ ~NothingWaits /\ state # None /\ state \in DayState
  <2>1. n < Len(journal)
    BY <1>0, <1>1 DEF StageInv
  <2>2. ~NothingWaits
    BY <2>1, StepTypes
  <2>3. state # None
    BY <1>1 DEF CallFits, InVain
  <2> QED
    BY <1>0, <2>1, <2>2, <2>3, StepTypes DEF JournalInv
<1>4. FitsAt(state, n)
  BY <1>0, <1>1, <1>3 DEF MemoryInv
<1>5. PICK p \in PreparedReceipt :
        /\ Follows(p, m) /\ journal' = [journal EXCEPT ![m] = p] /\ state' = p.stateAfter
  <2> DEFINE e == queue[FirstUnsigned]
  <2>1. /\ FirstUnsigned \in DOMAIN queue /\ e.cursor + 1 = m /\ ~IsPrepared(e.item)
    BY <1>1, FirstUnsignedRecord
  <2>2. e.item.amount \in Amounts /\ e.item.badTax \in BOOLEAN
    <3>1. e \in Item
      BY <1>1, <2>1 DEF QueueTypes
    <3> HIDE DEF e
    <3> QED
      BY <2>1, <3>1, ItemType DEF Unsigned
  <2>3. PICK date \in ReceiptDates(state) :
          LET p == Prepare(state, SignReceipt(state, date, e.item.amount, e.item.badTax))
          IN  journal' = [journal EXCEPT ![e.cursor + 1] = p] /\ state' = p.stateAfter
    BY DEF UpgradeEntry, SignedEntry, EntryRecord
  <2> DEFINE q == Prepare(state, SignReceipt(state, date, e.item.amount, e.item.badTax))
  <2>4. journal' = [journal EXCEPT ![m] = q] /\ state' = q.stateAfter
    BY <2>1, <2>3
  <2>5. Follows(q, m)
    BY <1>0, <1>1, <1>3, <1>4, <2>2, SignedFollows
  <2>6. q \in PreparedReceipt
    BY <1>1, <1>3, <2>2, PrepareType
  <2> QED
    BY <2>4, <2>5, <2>6
<1>6. /\ Len(journal') = Len(journal) /\ \A j \in 1..n : journal'[j] = journal[j]
      /\ journal'[m] = p /\ \A j \in (m + 1)..Len(journal) : journal'[j] = journal[j]
  BY <1>1, <1>3, <1>5 DEF QueueTypes
<1>7. /\ RecordedTo' = RecordedTo /\ (HeadRecorded' <=> HeadRecorded) /\ ~NothingWaits'
      /\ \A j \in (RecordedTo' + 1)..m : IsPrepared(journal[j])' /\ Follows(journal[j], j)'
      /\ FitsAt(p.stateAfter, m)'
      /\ NumberAt(m)' = NumberAt(n) + 1 /\ NumberAt(n) \in Nat
      /\ \A s : (FitsAt(s, n) \/ Behind(s, n)) /\ s.receiptGlobalNo \in Nat => Behind(s, m)'
  BY <1>0, <1>1, <1>3, <1>5, <1>6, RecordAdded
<1>8. ~HeadRecorded'
  BY <1>1, <1>3, <1>7, MarkerKinds
<1>9. state' \in DayState /\ state' # None /\ FitsAt(state, m)' /\ state'.receiptGlobalNo = NumberAt(m)'
  BY <1>5, <1>7, NoneIsNothing DEF PreparedReceipt, FitsAt
<1>10. dayState # None => /\ Behind(dayState, m)' /\ dayState.receiptGlobalNo \in Nat
                          /\ dayState.receiptGlobalNo <= state'.receiptGlobalNo
  <2>1. dayState # None => dayState.receiptGlobalNo \in Nat /\ (FitsAt(dayState, n) \/ Behind(dayState, n))
    BY <1>0, <1>1 DEF StoredInv, TypeOK, DayState
  <2>2. dayState # None => Behind(dayState, m)'
    BY <1>1, <1>7, <2>1
  <2>3. Behind(dayState, m)' => dayState.receiptGlobalNo < NumberAt(m)'
    BY <1>1 DEF Behind
  <2> QED
    BY <1>7, <1>9, <2>1, <2>2, <2>3
<1>11. JournalInv(m)'
  <2>1. \A j \in (m + 1)..Len(journal)' : ~IsPrepared(journal'[j])
    <3>1. \A j \in (m + 1)..Len(journal) : j \in (n + 1)..Len(journal)
      BY <1>3
    <3> QED
      BY <1>0, <1>6, <3>1 DEF JournalInv
  <2>2. RecordedTo' <= m
    BY <1>0, <1>1, <1>3, <1>7, JournalTypes DEF JournalInv
  <2> QED
    BY <1>0, <1>1, <1>3, <1>7, <1>8, <2>1, <2>2 DEF JournalInv
<1>12. MarkerInv'
  BY <1>1, <1>3 DEF MarkerInv
<1>13. MemoryInv(m)'
  BY <1>1, <1>3, <1>9, <1>10 DEF MemoryInv
<1>14. StoredInv(m)'
  BY <1>1, <1>7, <1>9, <1>10 DEF StoredInv
<1>15. NumberInv(m)'
  BY <1>0, <1>1, <1>3, <1>7 DEF NumberInv
<1>16. StatusInv'
  BY <1>0, <1>1, <1>3 DEF StatusInv, DayDone
<1>17. PlaceInv(m)'
  BY <1>0, <1>1, <1>3, <1>9 DEF PlaceInv
<1>18. StageInv(m)'
  BY <1>0, <1>1, <1>3, <1>9 DEF StageInv
<1>19. ListInv(m)'
  <2>1. committed + FirstUnsigned = m /\ FirstUnsigned \in DOMAIN queue /\ ~IsPrepared(queue[FirstUnsigned].item)
    BY <1>1, FirstUnsignedRecord
  <2>2. /\ Len(queue) = Len(journal) - committed - 0 /\ DOMAIN queue = 1..Len(queue) /\ Len(queue) \in Nat
        /\ \A i \in DOMAIN queue : queue[i].item = journal[committed + i]
    BY <1>0, <1>1 DEF ListInv, QueueTypes
  <2>3. \A i \in DOMAIN queue : IF committed + i = m
                                THEN ~IsPrepared(queue[i].item)
                                ELSE queue[i].item = journal'[committed + i]
    <3> SUFFICES ASSUME NEW i \in DOMAIN queue
                 PROVE  IF committed + i = m
                        THEN ~IsPrepared(queue[i].item)
                        ELSE queue[i].item = journal'[committed + i]
      OBVIOUS
    <3>1. CASE committed + i = m
      <4>1. i = FirstUnsigned
        <5> DEFINE k == FirstUnsigned
        <5>1. k \in DOMAIN queue /\ committed + k = m
          BY <2>1
        <5> HIDE DEF k
        <5>2. i = k
          BY <1>3, <2>2, <3>1, <5>1
        <5> QED
          BY <5>2 DEF k
      <4> QED
        BY <2>1, <3>1, <4>1
    <3>2. CASE committed + i # m
      <4>1. committed + i \in 1..n \/ committed + i \in (m + 1)..Len(journal)
        BY <1>3, <2>2, <3>2
      <4> QED
        BY <1>6, <2>2, <3>2, <4>1
    <3> QED
      BY <3>1, <3>2
  <2> QED
    BY <1>1, <1>6, <2>2, <2>3 DEF ListInv
<1> QED
  BY <1>1, <1>2, <1>3, <1>6, <1>11, <1>12, <1>13, <1>14, <1>15, <1>16, <1>17, <1>18, <1>19 DEF InStepAt

\* The entry that is being signed is the first unsigned one until it is
\* replaced.
LEMMA UpgradingRecord ==
  ASSUME QueueTypeInv, NEW n \in committed..Len(journal), InStepAt(n), at = "upgrading"
  PROVE  FirstUnsigned \in DOMAIN queue /\ committed + FirstUnsigned = n
<1> DEFINE k == FirstUnsigned
           h == n - committed
<1>1. /\ QueueTypes /\ ListFits /\ CallFits /\ JournalInv(n) /\ StageInv(n) /\ ListInv(n)
      /\ n \in Nat /\ committed \in Nat /\ Len(journal) \in Nat /\ committed < n /\ n <= Len(journal)
  BY StepTypes DEF QueueTypeInv, InStepAt, StageInv
<1>2. /\ Len(queue) = Len(journal) - committed /\ DOMAIN queue = 1..Len(queue) /\ Len(queue) \in Nat
      /\ \A i \in DOMAIN queue : IF committed + i = n
                                 THEN ~IsPrepared(queue[i].item)
                                 ELSE queue[i].item = journal[committed + i]
  BY <1>1 DEF CallFits, ListInv, QueueTypes
<1>3. /\ k \in DOMAIN queue /\ ~IsPrepared(queue[k].item)
      /\ \A i \in 1..(k - 1) : IsPrepared(queue[i].item)
  BY <1>1, FirstUnsignedIsFirst DEF ListFits, QueueTypes
<1>4. h \in DOMAIN queue /\ committed + h = n /\ h \in Nat /\ h > 0
  BY <1>1, <1>2
<1> HIDE DEF k, h
<1>5. \A j \in (committed + 1)..n : IsPrepared(journal[j])
  <2> SUFFICES ASSUME NEW j \in (committed + 1)..n
               PROVE  IsPrepared(journal[j])
    OBVIOUS
  <2>1. j \in (RecordedTo + 1)..n \/ (HeadRecorded /\ j = committed + 1)
    BY <1>1, JournalTypes DEF RecordedTo
  <2> QED
    BY <1>1, <2>1 DEF JournalInv, HeadRecorded
<1>6. ~(k < h)
  <2>1. k < h => committed + k \in (committed + 1)..n /\ committed + k # n
    BY <1>1, <1>2, <1>3, <1>4
  <2> QED
    BY <1>2, <1>3, <1>5, <2>1
<1>7. ~(h < k)
  <2>1. h < k => h \in 1..(k - 1)
    BY <1>2, <1>3, <1>4
  <2> QED
    BY <1>2, <1>3, <1>4, <2>1
<1>8. committed + k = n
  BY <1>1, <1>2, <1>3, <1>4, <1>6, <1>7
<1> QED
  BY <1>3, <1>8 DEF k

\* The entry in the list is replaced by the record.
LEMMA EntryUpgradedInStep ==
  ASSUME QueueTypeInv, NEW n \in committed..Len(journal), InStepAt(n), EntryUpgraded
  PROVE  InStepAt(n)'
<1>0. /\ JournalInv(n) /\ MarkerInv /\ MemoryInv(n) /\ StoredInv(n) /\ NumberInv(n)
      /\ StatusInv /\ PlaceInv(n) /\ StageInv(n) /\ ListInv(n)
  BY DEF InStepAt
<1>1. /\ QueueTypes /\ TypeOK /\ BookInv /\ UNCHANGED <<receipts, dayStart, fiscalDayNo, dayTotal>>
      /\ CallFits /\ ListFits /\ UNCHANGED <<journal, committed, loaded, call>>
      /\ at = "upgrading" /\ pc = "saveGlobal" /\ pc' = "idle" /\ call # "none" /\ loaded
      /\ lastGlobal' = IF state.receiptGlobalNo > lastGlobal THEN state.receiptGlobalNo ELSE lastGlobal
      /\ queue' = [queue EXCEPT ![FirstUnsigned].item = journal[queue[FirstUnsigned].cursor + 1]]
      /\ at' = IF AllSigned(queue') THEN StageOf(call) ELSE "upgrade"
      /\ UNCHANGED <<status, closingErrorCode, state, dayState, pending, sent, answer, late, now>>
  BY StepTypes
     DEF QueueTypeInv, CallFits, EntryUpgraded, EntryRecord, journalVars, fdmsVars, wireVars, worldVars
<1>2. BookInv'
  BY <1>1, SameBookInv
<1>3. /\ n \in Nat /\ committed \in Nat /\ Len(journal) \in Nat /\ committed < n /\ n <= Len(journal)
      /\ pending = None /\ FitsAt(state, n) /\ ~NothingWaits /\ state # None /\ dayState = state
      /\ lastGlobal' <= NumberAt(n) /\ lastGlobal' = NumberAt(n)
  <2>1. committed < n /\ pending = None /\ FitsAt(state, n)
    BY <1>0, <1>1 DEF StageInv
  <2>2. lastGlobal' <= NumberAt(n) /\ lastGlobal' = NumberAt(n) /\ state # None /\ dayState = state
    BY <1>1, <2>1, RaisedGlobal
  <2> QED
    BY <2>1, <2>2, StepTypes DEF NothingWaits
<1>4. /\ Len(queue') = Len(journal) - committed /\ DOMAIN queue' = 1..Len(queue')
      /\ \A i \in DOMAIN queue' : queue'[i].item = journal[committed + i]
  <2> DEFINE k == FirstUnsigned
  <2>1. k \in DOMAIN queue /\ committed + k = n
    BY <1>1, UpgradingRecord
  <2>2. queue[k].cursor + 1 = n
    <3>1. queue[k].cursor = committed + k - 1
      BY <1>1, <2>1 DEF ListFits
    <3> HIDE DEF k
    <3>2. queue \in Seq(Item)
      BY <1>1 DEF QueueTypes
    <3>3. k \in Nat
      BY ONLY <2>1, <3>2
    <3>4. n \in Nat /\ committed \in Nat
      BY <1>3
    <3> QED
      BY ONLY <2>1, <3>1, <3>3, <3>4
  <2>3. /\ Len(queue) = Len(journal) - committed /\ DOMAIN queue = 1..Len(queue) /\ Len(queue) \in Nat
        /\ \A i \in DOMAIN queue : committed + i # n => queue[i].item = journal[committed + i]
    BY <1>0, <1>1 DEF ListInv, QueueTypes
  <2>4. queue' = [queue EXCEPT ![k].item = journal[n]]
    BY <1>1, <2>2
  <2>5. queue[k] \in Item
    BY <1>1, <2>1 DEF QueueTypes
  <2> HIDE DEF k
  <2>6. DOMAIN queue' = DOMAIN queue /\ Len(queue') = Len(queue)
        /\ queue'[k].item = journal[n] /\ \A i \in DOMAIN queue : i # k => queue'[i] = queue[i]
    <3> DEFINE e == [queue[k] EXCEPT !.item = journal[n]]
    <3>1. e.item = journal[n] /\ queue' = [queue EXCEPT ![k] = e]
      BY <2>4, <2>5 DEF Item
    <3>2. queue \in Seq(Item)
      BY <1>1 DEF QueueTypes
    <3> HIDE DEF e
    <3> QED
      BY <2>1, <3>1, <3>2
  <2>7. \A i \in DOMAIN queue : i # k => committed + i # n
    BY <1>3, <2>1, <2>3
  <2> QED
    BY <2>1, <2>3, <2>6, <2>7
<1>5. /\ AllSigned(queue') <=> n = Len(journal)
      /\ at' \in {"top", "sign", "upgrade"} /\ (at' = "sign" => call = "enqueue")
      /\ at' = "top" => call # "enqueue"
      /\ at' = "upgrade" <=> n # Len(journal)
  <2>1. AllSigned(queue') <=> n = Len(journal)
    BY <1>0, <1>4, ListSigned
  <2> QED
    BY <1>1, <2>1 DEF StageOf
<1>6. JournalInv(n)'
  BY <1>0, <1>1, <1>3, SameJournal DEF JournalInv
<1>7. MarkerInv'
  BY <1>1, <1>3 DEF MarkerInv
<1>8. MemoryInv(n)'
  BY <1>0, <1>1, <1>3, SameJournal DEF MemoryInv
<1>9. StoredInv(n)'
  BY <1>1, <1>3, SameJournal DEF StoredInv
<1>10. NumberInv(n)'
  BY <1>1, <1>3, <1>5, SameJournal DEF NumberInv
<1>11. StatusInv'
  BY <1>0, <1>1, SameJournal DEF StatusInv, DayDone
<1>12. PlaceInv(n)'
  BY <1>0, <1>1 DEF PlaceInv
<1>13. StageInv(n)'
  BY <1>0, <1>1, <1>3, <1>5 DEF StageInv
<1>14. ListInv(n)'
  <2>1. at' # "take" /\ at' # "upgrading"
    BY <1>5
  <2>2. (Len(journal) - committed) - 0 = Len(journal) - committed
    BY <1>3
  <2> QED
    BY <1>1, <1>4, <2>1, <2>2 DEF ListInv
<1> QED
  BY <1>2, <1>6, <1>7, <1>8, <1>9, <1>10, <1>11, <1>12, <1>13, <1>14 DEF InStepAt

\* A sale is signed from memory and journaled.
LEMMA TakeSignedInStep ==
  ASSUME QueueTypeInv, Orderly, NEW n \in committed..Len(journal), InStepAt(n),
         TakeSigned, Undisturbed', NEW m, m = n + 1
  PROVE  m \in Nat /\ m <= Len(journal)' /\ committed' <= m /\ InStepAt(m)'
<1>0. /\ JournalInv(n) /\ MarkerInv /\ MemoryInv(n) /\ StoredInv(n) /\ NumberInv(n)
      /\ StatusInv /\ PlaceInv(n) /\ StageInv(n) /\ ListInv(n)
  BY DEF InStepAt
<1>1. PICK amount \in Amounts, badTax \in BOOLEAN, date \in ReceiptDates(state) :
        Take(Prepare(state, SignReceipt(state, date, amount, badTax)))
  BY DEF TakeSigned
<1> DEFINE q == Prepare(state, SignReceipt(state, date, amount, badTax))
<1>2. /\ QueueTypes /\ TypeOK /\ BookInv /\ UNCHANGED <<receipts, dayStart, fiscalDayNo, dayTotal>>
      /\ CallFits /\ UNCHANGED <<committed, queue, loaded, call>>
      /\ at = "sign" /\ at' = "take" /\ pc = "idle" /\ pc' = "saveDay" /\ loaded
      /\ journal' = Append(journal, q) /\ state' = q.stateAfter
      /\ UNCHANGED <<status, closingErrorCode, dayState, pending, lastGlobal, sent, answer, late, now>>
  BY <1>1, StepTypes
     DEF QueueTypeInv, CallFits, TakeSigned, Take, fdmsVars, storageVars, wireVars
<1>3. BookInv'
  BY <1>2, SameBookInv
<1>4. /\ n \in Nat /\ m \in Nat /\ committed \in Nat /\ committed <= n /\ n = Len(journal)
      /\ m - 1 = n /\ lastGlobal \in Nat /\ RecordedTo <= n /\ RecordedTo \in Nat
      /\ state # None /\ state \in DayState /\ state.receiptGlobalNo \in Nat
      /\ call \in {"enqueue", "sale"} /\ status = "FiscalDayOpened" /\ dayState # None
  <2>1. state # None /\ call # "none"
    BY <1>2 DEF CallFits, TakeSigned, MaySign
  <2>2. n = Len(journal) /\ call \in {"enqueue", "sale"}
    BY <1>0, <1>2, <2>1 DEF StageInv, QueueTypes, Calls
  <2> QED
    BY <1>0, <2>1, <2>2, StepTypes DEF StatusInv
\* enqueue() signs over no unresolved marker: that would be a mishap.
<1>5. pending = None \/ pending.receipt.globalNo <= state.receiptGlobalNo
  <2>1. pending # None => pending.receipt.globalNo \in Nat
    BY <1>2 DEF TypeOK, PreparedReceipt, Receipt
  <2>2. ~(pending # None /\ pending.receipt.globalNo > state.receiptGlobalNo)
    BY DEF TakeSigned, Undisturbed
  <2> QED
    BY <1>4, <2>1, <2>2
<1>6. FitsAt(state, n)
  <2>1. ~(Behind(state, n) /\ NothingWaits /\ MarkerRecorded)
    <3> SUFFICES ASSUME Behind(state, n), NothingWaits, MarkerRecorded
                 PROVE  FALSE
      OBVIOUS
    <3>1. pending # None /\ pending.receipt.globalNo = Len(receipts)
      BY DEF MarkerRecorded, Entered
    <3>2. NumberAt(n) = Len(receipts) /\ state.receiptGlobalNo < NumberAt(n) /\ Len(receipts) \in Nat
      BY StepTypes DEF Behind
    <3> QED
      BY <1>4, <1>5, <3>1, <3>2
  <2> QED
    BY <1>0, <1>2, <1>4, <2>1 DEF MemoryInv
<1>7. pending # None => HeadMarked \/ (Entered(pending) /\ ~HeadRecorded)
  <2> SUFFICES ASSUME pending # None, Waiting(pending), NothingWaits
               PROVE  FALSE
    BY <1>0 DEF MarkerInv
  <2>1. pending.receipt.globalNo = Len(receipts) + 1 /\ state.receiptGlobalNo = NumberAt(n)
    BY <1>6 DEF Waiting, FitsAt
  <2>2. NumberAt(n) = Len(receipts) /\ Len(receipts) \in Nat
    BY StepTypes
  <2> QED
    BY <1>4, <1>5, <2>1, <2>2
<1>8. PICK p \in PreparedReceipt : Follows(p, m) /\ journal' = Append(journal, p) /\ state' = p.stateAfter
  <2>1. q \in PreparedReceipt
    BY <1>2, <1>4, PrepareType
  <2>2. Follows(q, m)
    BY <1>0, <1>2, <1>4, <1>6, SignedFollows
  <2> QED
    BY <1>2, <2>1, <2>2
<1> HIDE DEF q
<1>9. /\ Len(journal') = m /\ \A j \in 1..n : journal'[j] = journal[j]
      /\ journal'[m] = p /\ Len(journal') \in Nat /\ m <= Len(journal') /\ n <= Len(journal)
  BY <1>2, <1>4, <1>8 DEF QueueTypes
<1>10. /\ RecordedTo' = RecordedTo /\ (HeadRecorded' <=> HeadRecorded) /\ ~NothingWaits'
       /\ HeadRecorded => ~NothingWaits /\ journal'[committed + 1] = journal[committed + 1]
       /\ committed < n => ~NothingWaits /\ journal'[committed + 1] = journal[committed + 1]
       /\ \A j \in (RecordedTo' + 1)..m : IsPrepared(journal[j])' /\ Follows(journal[j], j)'
       /\ FitsAt(p.stateAfter, m)'
       /\ NumberAt(m)' = NumberAt(n) + 1 /\ NumberAt(n) \in Nat
       /\ \A s : (FitsAt(s, n) \/ Behind(s, n)) /\ s.receiptGlobalNo \in Nat => Behind(s, m)'
       /\ \A x : (Waiting(x)' <=> Waiting(x)) /\ (Entered(x)' <=> Entered(x))
  BY <1>0, <1>2, <1>4, <1>8, <1>9, RecordAdded
<1>11. state' \in DayState /\ state' # None /\ FitsAt(state, m)' /\ state'.receiptGlobalNo = NumberAt(m)'
  BY <1>2, <1>8, <1>10, NoneIsNothing DEF PreparedReceipt, FitsAt
<1>12. /\ Behind(dayState, m)' /\ dayState.receiptGlobalNo \in Nat
       /\ dayState.receiptGlobalNo <= state'.receiptGlobalNo
  <2>1. dayState.receiptGlobalNo \in Nat /\ (FitsAt(dayState, n) \/ Behind(dayState, n))
    BY <1>0, <1>2, <1>4 DEF StoredInv, TypeOK, DayState
  <2>2. Behind(dayState, m)'
    BY <1>2, <1>10, <2>1
  <2>3. dayState.receiptGlobalNo < NumberAt(m)'
    BY <1>2, <2>2 DEF Behind
  <2> QED
    BY <1>10, <1>11, <2>1, <2>2, <2>3
<1>13. HeadMarked => HeadMarked'
  <2>1. HeadMarked => committed < n
    BY <1>4, StepTypes DEF HeadMarked, NothingWaits
  <2> QED
    BY <1>2, <1>10, <2>1 DEF HeadMarked
<1>14. JournalInv(m)'
  <2>1. (m + 1)..Len(journal)' = {} /\ RecordedTo' <= m
    BY <1>4, <1>9, <1>10
  <2>2. HeadRecorded => Entered(journal[committed + 1])' /\ pending' = journal'[committed + 1]
    BY <1>0, <1>2, <1>10 DEF JournalInv
  <2> QED
    BY <1>2, <1>4, <1>9, <1>10, <2>1, <2>2 DEF JournalInv
<1>15. MarkerInv'
  BY <1>2, <1>7, <1>10, <1>13 DEF MarkerInv
<1>16. MemoryInv(m)'
  BY <1>2, <1>11, <1>12 DEF MemoryInv
<1>17. StoredInv(m)'
  BY <1>2, <1>9, <1>10, <1>11, <1>12 DEF StoredInv
<1>18. NumberInv(m)'
  BY <1>0, <1>2, <1>4, <1>10 DEF NumberInv
<1>19. StatusInv'
  BY <1>0, <1>2, <1>4 DEF StatusInv, DayDone
<1>20. PlaceInv(m)'
  BY <1>0, <1>2, <1>4, <1>11 DEF PlaceInv
<1>21. StageInv(m)'
  BY <1>2, <1>4, <1>9, <1>10, <1>11 DEF StageInv
<1>22. ListInv(m)'
  <2>1. /\ Len(queue) = Len(journal) - committed - 0 /\ DOMAIN queue = 1..Len(queue) /\ Len(queue) \in Nat
        /\ \A i \in DOMAIN queue : queue[i].item = journal[committed + i]
    BY <1>0, <1>2 DEF ListInv, QueueTypes
  <2>2. Len(queue) = Len(journal') - committed - 1 /\ \A i \in DOMAIN queue : committed + i \in 1..n
    BY <1>4, <1>9, <2>1
  <2> QED
    BY <1>2, <1>9, <2>1, <2>2 DEF ListInv
<1> QED
  BY <1>2, <1>3, <1>4, <1>9, <1>14, <1>15, <1>16, <1>17, <1>18, <1>19, <1>20, <1>21, <1>22 DEF InStepAt

\* A receipt whose outcome is unknown is journaled with its marker: FDMS may
\* have it, and then it is the recorded head.
LEMMA TakeUnansweredInStep ==
  ASSUME QueueTypeInv, NEW n \in committed..Len(journal), InStepAt(n),
         TakeUnanswered, NEW m, m = n + 1
  PROVE  m \in Nat /\ m <= Len(journal)' /\ committed' <= m /\ InStepAt(m)'
<1>0. /\ JournalInv(n) /\ MarkerInv /\ MemoryInv(n) /\ StoredInv(n) /\ NumberInv(n)
      /\ StatusInv /\ PlaceInv(n) /\ StageInv(n) /\ ListInv(n)
  BY DEF InStepAt
<1>1. /\ QueueTypes /\ TypeOK /\ BookInv /\ UNCHANGED <<receipts, dayStart, fiscalDayNo, dayTotal>>
      /\ CallFits /\ UNCHANGED <<committed, queue, loaded, call>>
      /\ at = "journal" /\ at' = "take" /\ pc = "idle" /\ pc' = "saveDay" /\ loaded /\ pending # None
      /\ journal' = Append(journal, pending) /\ state' = pending.stateAfter
      /\ UNCHANGED <<status, closingErrorCode, dayState, pending, lastGlobal, sent, answer, late, now>>
  BY StepTypes
     DEF QueueTypeInv, CallFits, TakeUnanswered, Take, fdmsVars, storageVars, wireVars
<1>2. BookInv'
  BY <1>1, SameBookInv
<1>3. /\ n \in Nat /\ m \in Nat /\ committed \in Nat /\ n = committed /\ n = Len(journal) /\ n = RecordedTo
      /\ m - 1 = n /\ lastGlobal \in Nat /\ NothingWaits /\ ~HeadMarked /\ ~HeadRecorded
      /\ NumberAt(n) = Len(receipts) /\ Len(receipts) \in Nat /\ lastGlobal <= Len(receipts)
      /\ call = "sale" /\ status = "FiscalDayOpened" /\ dayState # None
      /\ Waiting(pending) \/ Entered(pending)
  <2>1. NothingWaits /\ call = "sale"
    BY <1>0, <1>1 DEF StageInv, CallFits, QueueTypes, Calls
  <2>2. state # None
    BY <1>1, <2>1 DEF CallFits, InVain
  <2> QED
    BY <1>0, <1>1, <2>1, <2>2, StepTypes DEF StatusInv, MarkerInv, NumberInv, HeadMarked, HeadRecorded
<1>4. PICK p \in PreparedReceipt : p = pending
  BY <1>1, StepTypes
<1>5. /\ Len(journal') = m /\ \A j \in 1..n : journal'[j] = journal[j]
      /\ journal'[m] = p /\ Len(journal') \in Nat /\ m <= Len(journal') /\ n <= Len(journal)
      /\ committed' + 1 = m /\ ~NothingWaits' /\ HeadMarked' /\ IsPrepared(p)
  <2>1. Len(journal') = m /\ journal'[m] = p /\ \A j \in 1..n : journal'[j] = journal[j]
    <3> DEFINE R == PreparedReceipt \cup Unsigned
    <3>1. journal \in Seq(R) /\ journal' = Append(journal, p) /\ p \in R
      BY <1>1, <1>4 DEF QueueTypes
    <3>2. Len(journal) = n /\ n \in Nat /\ m = n + 1
      BY <1>3
    <3> HIDE DEF R
    <3> QED
      BY <3>1, <3>2
  <2>2. committed' + 1 = m /\ ~NothingWaits'
    BY <1>1, <1>3, <2>1 DEF NothingWaits
  <2> QED
    BY <1>1, <1>3, <1>4, <2>1, <2>2 DEF HeadMarked, IsPrepared, PreparedReceipt
<1>6. state' = p.stateAfter /\ state' \in DayState /\ state' # None
  BY <1>1, <1>4, NoneIsNothing DEF PreparedReceipt
\* Where the journal is recorded up to, and signed.
<1>7. /\ HeadRecorded' => Entered(p)' /\ (RecordedTo + 1)' = m + 1
      /\ ~HeadRecorded' => RecordedTo' = n
      /\ RecordedTo' <= m
      /\ \A j \in (RecordedTo' + 1)..m : IsPrepared(journal[j])' /\ Follows(journal[j], j)'
      /\ FitsAt(p.stateAfter, m)'
      /\ Waiting(p)' \/ Entered(p)'
      /\ \A s : (FitsAt(s, n) \/ Behind(s, n)) /\ s.receiptGlobalNo \in Nat =>
           (FitsAt(s, m)' \/ Behind(s, m)') /\ s.receiptGlobalNo <= p.stateAfter.receiptGlobalNo
      /\ lastGlobal <= NumberAt(m)'
  <2>1. CASE Waiting(p)
    <3>1. Follows(p, m)
      BY <1>1, <1>3, <2>1, FollowsRecorded
    <3>2. /\ RecordedTo' = RecordedTo /\ (HeadRecorded' <=> HeadRecorded)
          /\ \A j \in (RecordedTo' + 1)..m : IsPrepared(journal[j])' /\ Follows(journal[j], j)'
          /\ FitsAt(p.stateAfter, m)'
          /\ NumberAt(m)' = NumberAt(n) + 1
          /\ \A s : (FitsAt(s, n) \/ Behind(s, n)) /\ s.receiptGlobalNo \in Nat => Behind(s, m)'
          /\ \A x : (Waiting(x)' <=> Waiting(x)) /\ (Entered(x)' <=> Entered(x))
      BY <1>0, <1>1, <1>3, <1>5, <3>1, RecordAdded
    <3>3. \A s : (FitsAt(s, n) \/ Behind(s, n)) /\ s.receiptGlobalNo \in Nat =>
            s.receiptGlobalNo <= p.stateAfter.receiptGlobalNo
      <4>1. p.stateAfter.receiptGlobalNo = NumberAt(n) + 1
        BY <1>3, <2>1 DEF Waiting
      <4> QED
        BY <1>3, <4>1 DEF FitsAt, Behind
    <3> QED
      BY <1>3, <2>1, <3>2, <3>3
  <2>2. CASE Entered(p)
    <3>1. HeadRecorded' /\ RecordedTo' = m
      BY <1>1, <1>3, <1>5, <2>2 DEF HeadRecorded, RecordedTo, Entered
    <3>2. /\ DayReceiptCount' = DayReceiptCount /\ LastHash' = LastHash /\ LastDate' = LastDate
          /\ DayReceiptCount \in Nat
      BY <1>1, SameBook, BookTypes, StepTypes
    <3>3. /\ NumberAt(m)' = Len(receipts) /\ CounterAt(m)' = DayReceiptCount /\ HashAt(m)' = LastHash
          /\ DateAt(m)' = LastDate /\ CountersAt(m)' = dayTotal
      BY <1>1, <1>3, <3>1, <3>2 DEF NumberAt, CounterAt, HashAt, DateAt, CountersAt
    <3>4. \A s : (FitsAt(s, m)' <=> Fits(s)) /\ (Behind(s, m)' <=> Behind(s, n))
      BY <1>1, <1>3, <3>3 DEF FitsAt, Fits, Behind
    <3>5. \A s : FitsAt(s, n) <=> Fits(s)
      BY <1>1, <1>3, FitsRecorded
    <3>6. Fits(p.stateAfter) /\ p.stateAfter.receiptGlobalNo = Len(receipts)
      BY <2>2 DEF Entered, Fits
    <3>7. \A s : (FitsAt(s, n) \/ Behind(s, n)) /\ s.receiptGlobalNo \in Nat =>
            s.receiptGlobalNo <= p.stateAfter.receiptGlobalNo
      BY <1>3, <3>6 DEF FitsAt, Behind
    <3>8. (RecordedTo' + 1)..m = {} /\ RecordedTo' <= m /\ RecordedTo' # n
      BY <1>3, <3>1
    <3>9. Entered(p)'
      BY <1>1, <2>2, <3>2 DEF Entered, Fits
    <3>10. (RecordedTo + 1)' = m + 1
      BY <3>1
    <3>11. FitsAt(p.stateAfter, m)'
      BY <3>4, <3>6
    <3>12. lastGlobal <= NumberAt(m)'
      BY <1>3, <3>3
    <3> QED
      BY <3>1, <3>4, <3>5, <3>7, <3>8, <3>9, <3>10, <3>11, <3>12
  <2> QED
    BY <1>3, <1>4, <2>1, <2>2
<1>8. FitsAt(state, m)' /\ state'.receiptGlobalNo = p.stateAfter.receiptGlobalNo
  BY <1>6, <1>7
<1>9. /\ FitsAt(dayState, m)' \/ Behind(dayState, m)'
      /\ dayState.receiptGlobalNo \in Nat /\ dayState.receiptGlobalNo <= state'.receiptGlobalNo
  <2>1. dayState.receiptGlobalNo \in Nat /\ (FitsAt(dayState, n) \/ Behind(dayState, n))
    BY <1>0, <1>1, <1>3 DEF StoredInv, TypeOK, DayState
  <2> QED
    BY <1>1, <1>7, <1>8, <2>1
<1>10. JournalInv(m)'
  <2>1. (m + 1)..Len(journal)' = {} /\ ~(m < Len(journal)')
    BY <1>3, <1>5
  <2>2. HeadRecorded' => Entered(journal[committed + 1])' /\ pending' = journal'[committed' + 1]
    BY <1>1, <1>4, <1>5, <1>7
  <2> QED
    BY <1>1, <1>3, <1>7, <2>1, <2>2 DEF JournalInv
<1>11. MarkerInv'
  BY <1>5 DEF MarkerInv
<1>12. MemoryInv(m)'
  BY <1>1, <1>6, <1>8, <1>9 DEF MemoryInv
<1>13. StoredInv(m)'
  BY <1>1, <1>5, <1>6, <1>9 DEF StoredInv
<1>14. NumberInv(m)'
  BY <1>1, <1>5, <1>7 DEF NumberInv
<1>15. StatusInv'
  BY <1>0, <1>1, <1>3 DEF StatusInv, DayDone
<1>16. PlaceInv(m)'
  BY <1>0, <1>1, <1>3, <1>6, <1>8 DEF PlaceInv
<1>17. StageInv(m)'
  BY <1>1, <1>3, <1>5, <1>8 DEF StageInv
<1>18. ListInv(m)'
  <2>1. /\ Len(queue) = Len(journal) - committed - 0 /\ DOMAIN queue = 1..Len(queue) /\ Len(queue) \in Nat
    BY <1>0, <1>1 DEF ListInv, QueueTypes
  <2>2. Len(queue) = 0 /\ DOMAIN queue = {}
    <3>1. Len(journal) - committed - 0 = 0
      BY <1>3
    <3> QED
      BY <2>1, <3>1
  <2>3. Len(journal') - committed - 1 = 0
    BY <1>3, <1>5
  <2> QED
    BY <1>1, <2>2, <2>3 DEF ListInv
<1> QED
  BY <1>1, <1>2, <1>3, <1>5, <1>10, <1>11, <1>12, <1>13, <1>14, <1>15, <1>16, <1>17, <1>18 DEF InStepAt

\* The receipt joins the list.
LEMMA TakenInStep ==
  ASSUME QueueTypeInv, NEW n \in committed..Len(journal), InStepAt(n), Taken
  PROVE  InStepAt(n)'
<1>0. /\ JournalInv(n) /\ MarkerInv /\ MemoryInv(n) /\ StoredInv(n) /\ NumberInv(n)
      /\ StatusInv /\ PlaceInv(n) /\ StageInv(n) /\ ListInv(n)
  BY DEF InStepAt
<1>1. /\ QueueTypes /\ TypeOK /\ BookInv /\ UNCHANGED <<receipts, dayStart, fiscalDayNo, dayTotal>>
      /\ CallFits /\ UNCHANGED <<journal, committed, loaded>>
      /\ at = "take" /\ pc = "saveGlobal" /\ pc' = "idle" /\ call # "none" /\ loaded
      /\ call' = "none" /\ at' = "top"
      /\ lastGlobal' = IF state.receiptGlobalNo > lastGlobal THEN state.receiptGlobalNo ELSE lastGlobal
      /\ queue' = Append(queue, [cursor |-> committed + Len(queue), item |-> Last(journal)])
      /\ UNCHANGED <<status, closingErrorCode, state, dayState, pending, sent, answer, late, now>>
  BY StepTypes
     DEF QueueTypeInv, CallFits, Taken, Return, journalVars, fdmsVars, wireVars, worldVars
<1>2. BookInv'
  BY <1>1, SameBookInv
<1>3. /\ n \in Nat /\ committed \in Nat /\ Len(journal) \in Nat /\ n = Len(journal)
      /\ FitsAt(state, n) /\ ~NothingWaits /\ state # None /\ dayState = state
      /\ lastGlobal' <= NumberAt(n) /\ sent = None /\ answer = None
  <2>1. ~NothingWaits /\ FitsAt(state, n) /\ n = Len(journal)
    BY <1>0, <1>1 DEF StageInv
  <2>2. lastGlobal' <= NumberAt(n) /\ state # None /\ dayState = state
    BY <1>1, RaisedGlobal
  <2> QED
    BY <1>0, <1>1, <2>1, <2>2, StepTypes DEF PlaceInv
<1>4. (HeadMarked' <=> HeadMarked) /\ (MarkerRecorded' <=> MarkerRecorded)
  BY <1>1, SameJournal DEF HeadMarked, MarkerRecorded
<1>5. JournalInv(n)'
  BY <1>0, <1>1, <1>3, SameJournal DEF JournalInv
<1>6. MarkerInv'
  BY <1>0, <1>1, <1>4, SameJournal DEF MarkerInv
<1>7. MemoryInv(n)'
  BY <1>0, <1>1, <1>3, SameJournal DEF MemoryInv
<1>8. StoredInv(n)'
  BY <1>1, <1>3, SameJournal DEF StoredInv
<1>9. NumberInv(n)'
  BY <1>1, <1>3, SameJournal DEF NumberInv
<1>10. StatusInv'
  BY <1>0, <1>1, SameJournal DEF StatusInv, DayDone
<1>11. PlaceInv(n)'
  BY <1>0, <1>1, <1>3 DEF PlaceInv
<1>12. StageInv(n)'
  BY <1>0, <1>1, <1>3 DEF StageInv
<1>13. ListInv(n)'
  <2> DEFINE L == Len(queue)
             e == [cursor |-> committed + L, item |-> Last(journal)]
  <2>1. /\ L = Len(journal) - committed - 1 /\ DOMAIN queue = 1..L /\ L \in Nat
        /\ \A i \in 1..L : queue[i].item = journal[committed + i]
    <3>1. /\ Len(queue) = Len(journal) - committed - 1
          /\ \A i \in DOMAIN queue : queue[i].item = journal[committed + i]
      BY <1>0, <1>1 DEF ListInv
    <3>2. DOMAIN queue = 1..Len(queue) /\ Len(queue) \in Nat
      BY <1>1 DEF QueueTypes
    <3> QED
      BY <3>1, <3>2
  <2>2. queue \in Seq(Item) /\ queue' = Append(queue, e)
    BY <1>1 DEF QueueTypes
  <2>3. e.item = journal[Len(journal)]
    BY DEF Last
  <2> HIDE DEF e
  <2>4. Len(queue') = L + 1 /\ DOMAIN queue' = 1..(L + 1) /\ queue'[L + 1] = e
        /\ \A i \in 1..L : queue'[i] = queue[i]
    BY <2>2
  <2> HIDE DEF L
  <2>5. committed + (L + 1) = Len(journal) /\ L + 1 = Len(journal) - committed - 0
    BY <1>3, <2>1
  <2>6. \A i \in 1..(L + 1) : i \in 1..L \/ i = L + 1
    BY <2>1
  <2>7. \A i \in 1..(L + 1) : queue'[i].item = journal[committed + i]
    BY <2>1, <2>3, <2>4, <2>5, <2>6
  <2> QED
    BY <1>1, <2>4, <2>5, <2>7 DEF ListInv
<1> QED
  BY <1>2, <1>5, <1>6, <1>7, <1>8, <1>9, <1>10, <1>11, <1>12, <1>13 DEF InStepAt

\* The list at the head of flush()'s loop: the journal behind its cursor, all
\* of it signed.
LEMMA HeadOfList ==
  ASSUME QueueTypeInv, NEW n \in committed..Len(journal), InStepAt(n),
         call # "none", at \in {"top", "commit"}
  PROVE  /\ loaded /\ n = Len(journal)
         /\ DOMAIN queue = 1..Len(queue) /\ Len(queue) \in Nat
         /\ Len(queue) = Len(journal) - committed
         /\ \A i \in DOMAIN queue : queue[i].item = journal[committed + i]
         /\ queue = <<>> <=> NothingWaits
         /\ queue # <<>> =>
              /\ state # None
              /\ First = journal[committed + 1] /\ First \in PreparedReceipt /\ IsPrepared(First)
              /\ ~HeadRecorded => Waiting(First)
<1>1. /\ QueueTypes /\ CallFits /\ JournalInv(n) /\ loaded /\ n = Len(journal)
      /\ queue # <<>> => state # None
      /\ n \in Nat /\ committed \in Nat /\ committed <= n /\ Len(journal) \in Nat
      /\ RecordedTo \in Nat /\ RecordedTo <= n
  <2>1. QueueTypes /\ CallFits /\ JournalInv(n) /\ loaded /\ (queue # <<>> => state # None)
    BY DEF QueueTypeInv, QueueTypes, CallFits, InVain, InStepAt
  <2>2. n = Len(journal)
    BY <2>1 DEF InStepAt, StageInv
  <2> QED
    BY <2>1, <2>2, StepTypes
<1>2. /\ DOMAIN queue = 1..Len(queue) /\ Len(queue) \in Nat
      /\ Len(queue) = Len(journal) - committed
      /\ \A i \in DOMAIN queue : queue[i].item = journal[committed + i]
  <2>1. /\ Len(queue) = Len(journal) - committed - 0
        /\ \A i \in DOMAIN queue : queue[i].item = journal[committed + i]
    BY <1>1 DEF InStepAt, ListInv
  <2>2. DOMAIN queue = 1..Len(queue) /\ Len(queue) \in Nat
    BY <1>1 DEF QueueTypes
  <2>3. Len(journal) - committed - 0 = Len(journal) - committed
    BY <1>1
  <2> QED
    BY <2>1, <2>2, <2>3
<1>3. queue = <<>> <=> NothingWaits
  <2>1. queue = <<>> <=> Len(queue) = 0
    BY <1>1 DEF QueueTypes
  <2> QED
    BY <1>1, <1>2, <2>1 DEF NothingWaits
<1>4. ASSUME queue # <<>>
      PROVE  /\ First = journal[committed + 1] /\ First \in PreparedReceipt /\ IsPrepared(First)
             /\ ~HeadRecorded => Waiting(First)
  <2> DEFINE m == committed + 1
  <2>1. ~NothingWaits /\ m \in 1..Len(journal) /\ m <= n /\ 1 \in DOMAIN queue
    BY <1>1, <1>2, <1>3, <1>4, JournalTypes
  <2>2. First = journal[m]
    BY <1>2, <2>1 DEF First
  <2>3. ~HeadRecorded => RecordedTo + 1 = m /\ m \in (RecordedTo + 1)..n
    BY <1>1, <2>1 DEF RecordedTo
  <2>4. HeadRecorded => IsPrepared(journal[m])
    BY DEF HeadRecorded
  <2> HIDE DEF m
  <2>5. IsPrepared(journal[m]) /\ (~HeadRecorded => Follows(journal[m], m))
    BY <1>1, <2>3, <2>4 DEF JournalInv
  <2>6. journal[m] \in PreparedReceipt
    BY <1>1, <2>1, <2>5, JournalTypes
  <2>7. ~HeadRecorded => Waiting(journal[m])
    BY <1>1, <2>3, <2>5, FollowsRecorded
  <2> QED
    BY <2>2, <2>5, <2>6, <2>7 DEF m
<1> QED
  BY <1>1, <1>2, <1>3, <1>4

\* The head is marked and sent; FDMS waits for it.
LEMMA SubmitHeadInStep ==
  ASSUME QueueTypeInv, NEW n \in committed..Len(journal), InStepAt(n), SubmitHead
  PROVE  InStepAt(n)'
<1>0. /\ JournalInv(n) /\ MarkerInv /\ MemoryInv(n) /\ StoredInv(n) /\ NumberInv(n)
      /\ StatusInv /\ PlaceInv(n) /\ StageInv(n) /\ ListInv(n)
  BY DEF InStepAt
<1>1. /\ QueueTypes /\ TypeOK /\ BookInv /\ UNCHANGED <<receipts, dayStart, fiscalDayNo, dayTotal>>
      /\ UNCHANGED <<journal, committed, queue, loaded, call>>
      /\ at = "top" /\ pc = "idle" /\ call \in {"flush", "sale"} /\ queue # <<>> /\ pending = None
      /\ pending' = First /\ sent' = Submit(First.receipt) /\ pc' = "submit" /\ at' = "head"
      /\ UNCHANGED <<status, closingErrorCode, state, dayState, lastGlobal, answer, late, now>>
  BY StepTypes DEF SubmitHead, Flushing, NoPending, journalVars, fdmsVars, worldVars
<1>2. BookInv'
  BY <1>1, SameBookInv
<1>3. /\ state # None /\ n = Len(journal) /\ ~NothingWaits /\ ~HeadRecorded
      /\ pending' = journal[committed + 1] /\ pending' \in PreparedReceipt /\ Waiting(pending')
      /\ pending' # None
  <2>1. ~HeadRecorded
    BY <1>1, MarkerKinds
  <2>2. /\ state # None /\ n = Len(journal) /\ ~NothingWaits
        /\ First = journal[committed + 1] /\ First \in PreparedReceipt /\ Waiting(First)
    BY <1>1, <2>1, HeadOfList
  <2> QED
    BY <1>1, <2>1, <2>2, NoneIsNothing
<1>4. HeadMarked' /\ (NothingWaits' <=> NothingWaits) /\ (Waiting(pending))'
  BY <1>1, <1>3, SameJournal DEF HeadMarked
<1>5. JournalInv(n)'
  BY <1>0, <1>1, <1>3, SameJournal DEF JournalInv
<1>6. MarkerInv'
  BY <1>4 DEF MarkerInv
<1>7. MemoryInv(n)'
  BY <1>0, <1>1, <1>3, SameJournal DEF MemoryInv
<1>8. StoredInv(n)'
  BY <1>0, <1>1, <1>3, SameJournal DEF StoredInv
<1>9. NumberInv(n)'
  BY <1>0, <1>1, <1>3, SameJournal DEF NumberInv
<1>10. StatusInv'
  BY <1>0, <1>1, <1>3 DEF StatusInv, DayDone
<1>11. PlaceInv(n)'
  BY <1>0, <1>1, <1>3, <1>4 DEF PlaceInv
<1>12. StageInv(n)'
  BY <1>0, <1>1, <1>3, <1>4 DEF StageInv
<1>13. ListInv(n)'
  BY <1>0, <1>1 DEF ListInv
<1> QED
  BY <1>2, <1>5, <1>6, <1>7, <1>8, <1>9, <1>10, <1>11, <1>12, <1>13 DEF InStepAt

\* With nothing left to flush submitOrEnqueue() signs and sends its own
\* receipt, the one FDMS waits for.
LEMMA SubmitSaleInStep ==
  ASSUME QueueTypeInv, Orderly, NEW n \in committed..Len(journal), InStepAt(n), SubmitSale
  PROVE  InStepAt(n)'
<1>0. /\ JournalInv(n) /\ MarkerInv /\ MemoryInv(n) /\ StoredInv(n) /\ NumberInv(n)
      /\ StatusInv /\ PlaceInv(n) /\ StageInv(n) /\ ListInv(n)
  BY DEF InStepAt
<1>1. /\ QueueTypes /\ TypeOK /\ BookInv /\ UNCHANGED <<receipts, dayStart, fiscalDayNo, dayTotal>>
      /\ UNCHANGED <<journal, committed, queue, loaded, call>>
      /\ at = "top" /\ pc = "idle" /\ call = "sale" /\ queue = <<>> /\ pending = None
      /\ sent' = Submit(pending'.receipt) /\ pc' = "submit" /\ at' = "sale"
      /\ UNCHANGED <<status, closingErrorCode, state, dayState, lastGlobal, answer, late, now>>
  <2>1. sent' = Submit(pending'.receipt)
    BY DEF SubmitSale, SubmitReceipt, Prepare
  <2> QED
    BY <2>1, StepTypes DEF SubmitSale, SubmitReceipt, Flushing, NoPending, journalVars, fdmsVars
<1>2. BookInv'
  BY <1>1, SameBookInv
<1>3. /\ state # None /\ state \in DayState /\ n = Len(journal) /\ NothingWaits /\ n = RecordedTo
      /\ FitsAt(state, n) /\ ~MarkerRecorded
  <2>1. state # None /\ n = Len(journal) /\ NothingWaits
    BY <1>1, HeadOfList DEF SubmitSale, SubmitReceipt
  <2>2. ~MarkerRecorded
    BY <1>1 DEF MarkerRecorded
  <2> QED
    BY <1>0, <2>1, <2>2, StepTypes DEF MemoryInv
<1>4. Waiting(pending') /\ pending' # None
  <2>1. PICK amount \in Amounts, badTax \in BOOLEAN, date \in ReceiptDates(state) :
          pending' = Prepare(state, SignReceipt(state, date, amount, badTax))
    BY DEF SubmitSale, SubmitReceipt
  <2>2. Fits(state)
    BY <1>1, <1>3, FitsRecorded
  <2>3. Waiting(Prepare(state, SignReceipt(state, date, amount, badTax)))
    BY <1>1, <1>3, <2>2, SignedIsNext DEF Orderly
  <2>4. Prepare(state, SignReceipt(state, date, amount, badTax)) \in PreparedReceipt
    BY <1>1, <1>3, PrepareType
  <2> QED
    BY <2>1, <2>3, <2>4, NoneIsNothing
<1>5. Waiting(pending)'
  BY <1>1, <1>4, SameJournal
<1>6. (NothingWaits' <=> NothingWaits) /\ (HeadRecorded' <=> HeadRecorded) /\ ~HeadRecorded
  BY <1>1, <1>3, SameJournal DEF HeadRecorded
<1>7. JournalInv(n)'
  BY <1>0, <1>1, <1>3, <1>6, SameJournal DEF JournalInv
<1>8. MarkerInv'
  BY <1>3, <1>5, <1>6 DEF MarkerInv
<1>9. MemoryInv(n)'
  BY <1>0, <1>1, <1>3, SameJournal DEF MemoryInv
<1>10. StoredInv(n)'
  BY <1>0, <1>1, <1>3, SameJournal DEF StoredInv
<1>11. NumberInv(n)'
  BY <1>0, <1>1, <1>3, SameJournal DEF NumberInv
<1>12. StatusInv'
  BY <1>0, <1>1, <1>3 DEF StatusInv, DayDone
<1>13. PlaceInv(n)'
  BY <1>0, <1>1, <1>4, <1>5 DEF PlaceInv
<1>14. StageInv(n)'
  BY <1>0, <1>1, <1>3, <1>6 DEF StageInv
<1>15. ListInv(n)'
  BY <1>0, <1>1 DEF ListInv
<1> QED
  BY <1>2, <1>7, <1>8, <1>9, <1>10, <1>11, <1>12, <1>13, <1>14, <1>15 DEF InStepAt

\* The identical receipt is sent again, by flush() for the head or by the
\* application's reconcile().
LEMMA ResubmitsInStep ==
  ASSUME QueueTypeInv, NEW n \in committed..Len(journal), InStepAt(n),
         UNCHANGED <<fdmsVars, storageVars, answer, late, now, journal, committed, queue, loaded, call>>,
         pc = "idle", pending # None, Waiting(pending),
         state' = LoadedState, sent' = Submit(pending.receipt), pc' = "submit",
         \/ at' = "head" /\ HeadMarked /\ call \in {"flush", "sale"}
         \/ at' = at /\ call = "none" /\ ~HeadMarked
  PROVE  InStepAt(n)'
<1>0. /\ JournalInv(n) /\ MarkerInv /\ MemoryInv(n) /\ StoredInv(n) /\ NumberInv(n)
      /\ StatusInv /\ PlaceInv(n) /\ StageInv(n) /\ ListInv(n)
  BY DEF InStepAt
<1>1. /\ QueueTypes /\ TypeOK /\ BookInv /\ UNCHANGED <<receipts, dayStart, fiscalDayNo, dayTotal>>
      /\ CallFits /\ UNCHANGED <<status, closingErrorCode, dayState, pending, lastGlobal>>
  BY StepTypes DEF QueueTypeInv, fdmsVars, storageVars
<1>2. BookInv'
  BY <1>1, SameBookInv
<1>3. (HeadMarked' <=> HeadMarked) /\ (MarkerRecorded' <=> MarkerRecorded) /\ ~MarkerRecorded
  BY <1>1, SameJournal, MarkerKinds DEF HeadMarked, MarkerRecorded
<1>4. /\ state' = IF state = None THEN dayState ELSE state
      /\ state = None => call = "none" /\ at = "top" /\ ~loaded
      /\ n = Len(journal)
  BY <1>0, <1>1, StepTypes DEF LoadedState, CallFits, MemoryInv
<1>5. dayState # None => dayState.receiptGlobalNo \in Nat
  BY <1>1, StepTypes
<1>6. JournalInv(n)'
  <2>1. at # "commit"
    BY <1>0 DEF StageInv
  <2> QED
    BY <1>0, <1>1, <1>4, <2>1, SameJournal DEF JournalInv
<1>7. MarkerInv'
  BY <1>0, <1>1, <1>3, SameJournal DEF MarkerInv
<1>8. MemoryInv(n)'
  <2>1. CASE state = None
    <3>1. state' = dayState /\ ~loaded /\ at = "top"
      BY <1>4, <2>1
    <3> QED
      BY <1>0, <1>1, <1>3, <1>4, <1>5, <3>1, SameJournal DEF MemoryInv, StoredInv
  <2>2. CASE state # None
    <3>1. state' = state
      BY <1>4, <2>2
    <3> QED
      BY <1>0, <1>1, <1>3, <2>2, <3>1, SameJournal DEF MemoryInv
  <2> QED
    BY <2>1, <2>2
<1>9. StoredInv(n)'
  <2>1. loaded /\ state' = None => FALSE
    BY <1>0, <1>1, <1>4
  <2> QED
    BY <1>0, <1>1, <1>3, <1>4, <2>1, SameJournal DEF StoredInv
<1>10. NumberInv(n)'
  BY <1>0, <1>1, <1>3, SameJournal DEF NumberInv, CallFits
<1>11. StatusInv'
  <2>1. call \in {"enqueue", "sale"} => state # None
    BY <1>4
  <2> QED
    BY <1>0, <1>1, <2>1, SameJournal DEF StatusInv, DayDone
<1>12. PlaceInv(n)'
  BY <1>0, <1>1, <1>3, SameJournal DEF PlaceInv
<1>13. StageInv(n)'
  BY <1>0, <1>1, <1>3, <1>4, SameJournal DEF StageInv, CallFits
<1>14. ListInv(n)'
  BY <1>0, <1>1 DEF ListInv, CallFits
<1> QED
  BY <1>2, <1>6, <1>7, <1>8, <1>9, <1>10, <1>11, <1>12, <1>13, <1>14 DEF InStepAt

\* GetStatus tells the receipt FDMS has from the one it waits for.
LEMMA ReportedIsEntered ==
  ASSUME QueueTypeInv, NEW n \in committed..Len(journal), InStepAt(n),
         pending # None, at # "commit"
  PROVE  /\ ReportedAsRecorded(pending) <=> Entered(pending)
         /\ Entered(pending) \/ Waiting(pending)
<1>1. /\ Len(receipts) \in Nat /\ LastReceiptGlobalNo = Len(receipts)
      /\ Entered(pending) \/ Waiting(pending)
      /\ ~(Waiting(pending) /\ Entered(pending))
  BY StepTypes, MarkerKinds
<1>2. Entered(pending) => pending.receipt.globalNo = Len(receipts)
  BY DEF Entered
<1>3. Waiting(pending) => pending.receipt.globalNo = Len(receipts) + 1
  BY DEF Waiting
<1> QED
  BY <1>1, <1>2, <1>3, MarkerKinds DEF ReportedAsRecorded

\* A marker with the head's number is the head's; flush() settles it.
LEMMA SettleHeadInStep ==
  ASSUME QueueTypeInv, NEW n \in committed..Len(journal), InStepAt(n), SettleHead
  PROVE  InStepAt(n)'
<1>1. /\ at = "top" /\ pc = "idle" /\ call \in {"flush", "sale"} /\ queue # <<>> /\ pending # None
      /\ pending.receipt.globalNo = First.receipt.globalNo
      /\ UNCHANGED <<journal, committed, queue, loaded, call>> /\ at' = "head"
  BY DEF SettleHead, Flushing, HeadIsMarked, journalVars
<1>2. /\ state # None /\ ~NothingWaits /\ Len(receipts) \in Nat
      /\ ~HeadRecorded => Waiting(First)
      /\ sent = None /\ answer = None /\ late = <<>>
  BY <1>1, HeadOfList, StepTypes DEF InStepAt, PlaceInv
<1>3. HeadMarked
  <2>1. Waiting(First) /\ Entered(pending) => FALSE
    BY <1>1, <1>2 DEF Waiting, Entered
  <2> QED
    BY <1>1, <1>2, <2>1, MarkerKinds
<1>4. ReportedAsRecorded(pending) <=> Entered(pending)
  BY <1>1, ReportedIsEntered
<1>5. CASE ReconcileConfirmed
  <2>1. /\ Entered(pending) /\ state' = CommittedState(state, pending, FALSE) /\ pc' = "saveDay"
        /\ sent' = None /\ answer' = None /\ late' = <<>>
        /\ UNCHANGED <<fdmsVars, storageVars, now>>
    BY <1>2, <1>4, <1>5 DEF ReconcileConfirmed, LoadedState, wireVars, worldVars
  <2>2. PICK s \in DayState \cup {None} : s = state
    BY StepTypes DEF TypeOK
  <2> QED
    BY <1>1, <1>3, <2>1, <2>2, CommitsInStep
<1>6. CASE ReconcileResubmit
  <2>1. /\ Waiting(pending) /\ state' = LoadedState /\ pc' = "submit" /\ sent' = Submit(pending.receipt)
        /\ UNCHANGED <<fdmsVars, storageVars, answer, late, now>>
    BY <1>1, <1>4, <1>6, ReportedIsEntered DEF ReconcileResubmit, worldVars
  <2> QED
    BY <1>1, <1>3, <2>1, ResubmitsInStep
<1> QED
  BY <1>5, <1>6 DEF SettleHead

\* The application's reconcile() loads the stored day and settles a marker
\* the journal does not hold; settling a journaled one would be a mishap.
LEMMA AppReconcileInStep ==
  ASSUME QueueTypeInv, NEW n \in committed..Len(journal), InStepAt(n), AppReconcile, Undisturbed'
  PROVE  InStepAt(n)'
<1>0. /\ JournalInv(n) /\ MarkerInv /\ MemoryInv(n) /\ StoredInv(n) /\ NumberInv(n)
      /\ StatusInv /\ PlaceInv(n) /\ StageInv(n) /\ ListInv(n)
  BY DEF InStepAt
<1>1. /\ QueueTypes /\ TypeOK /\ BookInv /\ call = "none" /\ at = "top" /\ pc = "idle"
      /\ UNCHANGED <<journal, committed, queue, loaded, call, at>>
      /\ UNCHANGED <<fdmsVars, storageVars, answer, late, now>>
      /\ UNCHANGED <<receipts, dayStart, fiscalDayNo, dayTotal>>
      /\ UNCHANGED <<status, closingErrorCode, dayState, pending, lastGlobal>>
      /\ sent = None /\ answer = None /\ late = <<>>
  BY <1>0, StepTypes
     DEF QueueTypeInv, CallFits, AppReconcile, Reconcile, ReconcileNothing, ReconcileConfirmed, ReconcileResubmit,
         PlaceInv, fdmsVars, storageVars, wireVars, worldVars, journalVars
<1>2. pending # None => ~HeadMarked
  <2> SUFFICES ASSUME pending # None, HeadMarked
               PROVE  FALSE
    OBVIOUS
  <2>1. ~ \E i \in DOMAIN Uncommitted : Uncommitted[i] = pending
    BY DEF AppReconcile, Undisturbed
  <2>2. 1 \in DOMAIN Uncommitted /\ Uncommitted[1] = journal[committed + 1]
    <3> DEFINE k == Len(journal) - committed
    <3>1. k \in Nat /\ k > 0
      BY StepTypes DEF HeadMarked, NothingWaits
    <3>2. /\ Uncommitted \in Seq(PreparedReceipt \cup Unsigned) /\ Len(Uncommitted) = k
          /\ \A i \in 1..k : Uncommitted[i] = journal[committed + i]
      BY <1>1, UncommittedType DEF QueueTypes
    <3> HIDE DEF k
    <3> QED
      BY <3>1, <3>2
  <2> QED
    BY <2>1, <2>2 DEF HeadMarked
<1>3. pending # None => (ReportedAsRecorded(pending) <=> Entered(pending)) /\ (Entered(pending) \/ Waiting(pending))
  BY <1>1, ReportedIsEntered
<1>4. CASE ReconcileNothing
  <2>1. pending = None /\ state = None /\ dayState # None /\ state' = dayState /\ UNCHANGED <<pc, sent>>
    BY <1>4 DEF ReconcileNothing, LoadedState, wireVars
  <2>2. BookInv'
    BY <1>1, SameBookInv
  <2>3. ~MarkerRecorded /\ ~MarkerRecorded'
    BY <1>1, <2>1 DEF MarkerRecorded
  <2>4. dayState.receiptGlobalNo \in Nat
    BY <2>1, StepTypes
  <2>5. JournalInv(n)'
    BY <1>0, <1>1, SameJournal DEF JournalInv
  <2>6. MarkerInv'
    BY <1>1, <2>1 DEF MarkerInv
  <2>7. MemoryInv(n)'
    BY <1>0, <1>1, <2>1, <2>3, <2>4, SameJournal DEF MemoryInv, StoredInv
  <2>8. StoredInv(n)'
    BY <1>0, <1>1, <2>1, <2>3, SameJournal DEF StoredInv
  <2>9. NumberInv(n)'
    BY <1>0, <1>1, <2>1, <2>3, SameJournal DEF NumberInv
  <2>10. StatusInv'
    BY <1>0, <1>1, SameJournal DEF StatusInv, DayDone
  <2>11. PlaceInv(n)'
    BY <1>1, <2>1 DEF PlaceInv
  <2>12. StageInv(n)'
    BY <1>0, <1>1 DEF StageInv
  <2>13. ListInv(n)'
    BY <1>0, <1>1 DEF ListInv
  <2> QED
    BY <2>2, <2>5, <2>6, <2>7, <2>8, <2>9, <2>10, <2>11, <2>12, <2>13 DEF InStepAt
<1>5. CASE ReconcileConfirmed
  <2>1. /\ pending # None /\ Entered(pending) /\ state' = CommittedState(LoadedState, pending, FALSE)
        /\ pc' = "saveDay" /\ sent' = None /\ answer' = None /\ late' = <<>>
    BY <1>1, <1>3, <1>5 DEF ReconcileConfirmed, wireVars
  <2>2. PICK s \in DayState \cup {None} : s = LoadedState
    BY <1>1 DEF TypeOK, LoadedState
  <2>3. CASE state = None
    <3>1. s = dayState
      BY <2>2, <2>3 DEF LoadedState
    <3> QED
      BY <1>1, <1>2, <2>1, <2>2, <2>3, <3>1, CommitsInStep
  <2>4. CASE state # None
    <3>1. s = state
      BY <2>2, <2>4 DEF LoadedState
    <3> QED
      BY <1>1, <1>2, <2>1, <2>2, <2>4, <3>1, CommitsInStep
  <2> QED
    BY <2>3, <2>4
<1>6. CASE ReconcileResubmit
  <2>1. /\ pending # None /\ Waiting(pending) /\ state' = LoadedState /\ pc' = "submit"
        /\ sent' = Submit(pending.receipt)
    BY <1>3, <1>6 DEF ReconcileResubmit
  <2> QED
    BY <1>1, <1>2, <2>1, ResubmitsInStep
<1> QED
  BY <1>4, <1>5, <1>6 DEF AppReconcile, Reconcile

\* The journal's cursor passes the recorded head.
LEMMA CommitHeadInStep ==
  ASSUME QueueTypeInv, NEW n \in committed..Len(journal), InStepAt(n), CommitHead
  PROVE  committed' <= n /\ InStepAt(n)'
<1>0. /\ JournalInv(n) /\ MarkerInv /\ MemoryInv(n) /\ StoredInv(n) /\ NumberInv(n)
      /\ StatusInv /\ PlaceInv(n) /\ StageInv(n) /\ ListInv(n)
  BY DEF InStepAt
<1> DEFINE c == committed + 1
<1>1. /\ QueueTypes /\ TypeOK /\ BookInv /\ UNCHANGED <<receipts, dayStart, fiscalDayNo, dayTotal>>
      /\ CallFits /\ ListFits /\ UNCHANGED <<journal, loaded, call>>
      /\ at = "commit" /\ at' = "top" /\ call # "none" /\ pc = "idle" /\ queue' = Tail(queue)
      /\ committed' = Max({committed, queue[1].cursor + 1})
      /\ UNCHANGED <<status, closingErrorCode, state, pc, dayState, pending, lastGlobal, sent, answer, late, now>>
  BY StepTypes
     DEF QueueTypeInv, CallFits, CommitHead, vars, fdmsVars, storageVars, wireVars, worldVars
<1>2. BookInv'
  BY <1>1, SameBookInv
<1>3. /\ n \in Nat /\ committed \in Nat /\ Len(journal) \in Nat /\ n = Len(journal) /\ loaded
      /\ HeadRecorded /\ pending = None /\ dayState = state /\ state # None /\ queue # <<>>
      /\ lastGlobal = NumberAt(n) /\ ~NothingWaits /\ RecordedTo = c /\ c <= n /\ c \in Nat
      /\ FitsAt(state, n) /\ NumberAt(RecordedTo) = Len(receipts) /\ Len(receipts) \in Nat
  <2>1. HeadRecorded /\ pending = None /\ dayState = state /\ queue # <<>>
    BY <1>0, <1>1 DEF StageInv, ListFits
  <2>2. loaded /\ state # None /\ n = Len(journal) /\ lastGlobal = NumberAt(n)
    BY <1>0, <1>1, <2>1, HeadOfList DEF NumberInv
  <2>3. ~NothingWaits /\ RecordedTo = c
    BY <2>1 DEF HeadRecorded, RecordedTo
  <2>4. FitsAt(state, n)
    BY <1>0, <2>2, <2>3 DEF MemoryInv
  <2>5. c \in Nat /\ c <= n
    BY <2>3, StepTypes
  <2>6. NumberAt(RecordedTo) = Len(receipts)
    BY <1>1, NumberTypes
  <2> QED
    BY <2>1, <2>2, <2>3, <2>4, <2>5, <2>6, StepTypes
<1>4. committed' = c
  <2>1. queue[1].cursor = committed
    <3>1. 1 \in DOMAIN queue
      BY <1>1, <1>3 DEF QueueTypes
    <3>2. queue[1].cursor = committed + 1 - 1
      BY <1>1, <3>1 DEF ListFits
    <3> QED
      BY <1>3, <3>2
  <2>2. c \in {committed, c} /\ (\A y \in {committed, c} : c >= y)
        /\ (\A x \in {committed, c} : (\A y \in {committed, c} : x >= y) => x = c)
    BY <1>3
  <2>3. committed' = Max({committed, c})
    BY <1>1, <2>1
  <2> HIDE DEF c
  <2>4. Max({committed, c}) = c
    BY <2>2 DEF Max
  <2> QED
    BY <2>3, <2>4
\* FDMS has no record behind the head.
<1>5. ~HeadRecorded' /\ RecordedTo' = RecordedTo
  <2>1. ~HeadRecorded'
    <3> SUFFICES ASSUME HeadRecorded'
                 PROVE  FALSE
      OBVIOUS
    <3> DEFINE m == c + 1
    <3>1. c # Len(journal) /\ IsPrepared(journal[m]) /\ journal[m].receipt.globalNo = Len(receipts)
      BY <1>1, <1>4 DEF HeadRecorded, NothingWaits
    <3>2. m \in (RecordedTo + 1)..n /\ RecordedTo \in Nat /\ m \in Nat /\ RecordedTo < m
      BY <1>3, <3>1
    <3>3. Follows(journal[m], m)
      BY <1>0, <3>2 DEF JournalInv
    <3>4. NumberAt(RecordedTo) < NumberAt(m)
      BY <1>1, <3>2, NumberTypes
    <3> QED
      BY <1>3, <3>1, <3>3, <3>4 DEF Follows
  <2> QED
    BY <1>3, <1>4, <2>1 DEF RecordedTo
<1>6. /\ NumberAt(n)' = NumberAt(n)
      /\ \A s : FitsAt(s, n)' <=> FitsAt(s, n)
      /\ \A p : \A j \in (RecordedTo + 1)..n : Follows(p, j)' <=> Follows(p, j)
  <2>1. /\ \A j : NumberAt(j)' = NumberAt(j)
        /\ \A s : \A j \in RecordedTo..n : FitsAt(s, j)' <=> FitsAt(s, j)
        /\ \A p : \A j \in (RecordedTo + 1)..n : Follows(p, j)' <=> Follows(p, j)
    BY <1>1, <1>3, <1>5, SameBelow
  <2>2. n \in RecordedTo..n
    BY <1>3
  <2> QED
    BY <2>1, <2>2
<1>7. NothingWaits' => n = RecordedTo
  BY <1>1, <1>3, <1>4 DEF NothingWaits
<1>8. JournalInv(n)'
  BY <1>0, <1>1, <1>3, <1>5, <1>6 DEF JournalInv
<1>9. MarkerInv'
  BY <1>1, <1>3 DEF MarkerInv
<1>10. MemoryInv(n)'
  BY <1>0, <1>1, <1>3, <1>6 DEF MemoryInv
<1>11. StoredInv(n)'
  BY <1>1, <1>3, <1>6 DEF StoredInv
<1>12. NumberInv(n)'
  BY <1>0, <1>1, <1>3, <1>6, <1>7 DEF NumberInv
<1>13. StatusInv'
  BY <1>0, <1>1, <1>3 DEF StatusInv, DayDone
<1>14. PlaceInv(n)'
  BY <1>0, <1>1 DEF PlaceInv
<1>15. StageInv(n)'
  BY <1>0, <1>1, <1>3 DEF StageInv
<1>16. ListInv(n)'
  <2> DEFINE L == Len(queue)
             k == L - 1
  <2>1. /\ L \in Nat /\ L = Len(journal) - committed
        /\ \A i \in 1..L : queue[i].item = journal[committed + i]
    BY <1>1, HeadOfList
  <2>2. queue \in Seq(Item) /\ queue # <<>>
    BY <1>1, <1>3 DEF QueueTypes
  <2>3. L > 0 /\ k \in Nat /\ k = Len(journal) - c - 0
    BY <1>3, <2>1, <2>2
  <2>4. Len(queue') = k /\ DOMAIN queue' = 1..k /\ \A i \in 1..k : queue'[i] = queue[i + 1]
    BY <1>1, <2>2, <2>3
  <2>5. \A i \in 1..k : i + 1 \in 1..L /\ committed + (i + 1) = c + i
    BY <1>3, <2>3
  <2>6. \A i \in 1..k : queue'[i].item = journal[c + i]
    BY <2>1, <2>4, <2>5
  <2> QED
    BY <1>1, <1>4, <2>3, <2>4, <2>6 DEF ListInv
<1> QED
  BY <1>2, <1>3, <1>4, <1>8, <1>9, <1>10, <1>11, <1>12, <1>13, <1>14, <1>15, <1>16 DEF InStepAt

\* The day is closed from a memory that is up to date: a stored day that is
\* behind the journal would be a mishap.
LEMMA AppClosesInStep ==
  ASSUME QueueTypeInv, NEW n \in committed..Len(journal), InStepAt(n), AppCloses, Undisturbed'
  PROVE  InStepAt(n)'
<1>0. /\ JournalInv(n) /\ MarkerInv /\ MemoryInv(n) /\ StoredInv(n) /\ NumberInv(n)
      /\ StatusInv /\ PlaceInv(n) /\ StageInv(n) /\ ListInv(n)
  BY DEF InStepAt
<1>1. /\ QueueTypes /\ TypeOK /\ BookInv /\ UNCHANGED <<receipts, dayStart, fiscalDayNo, dayTotal>>
      /\ UNCHANGED <<journal, committed, queue, loaded, call, at>>
      /\ call = "none" /\ at = "top" /\ pc = "idle" /\ pending = None /\ state # None
      /\ sent' = CloseBody(state) /\ pc' = "close" /\ answer = None
      /\ ~StoredIsBehind
      /\ UNCHANGED <<status, closingErrorCode, state, dayState, pending, lastGlobal, answer, late, now>>
  BY <1>0, StepTypes
     DEF QueueTypeInv, CallFits, AppCloses, CloseDay, NoPending, Undisturbed, PlaceInv,
         journalVars, fdmsVars, storageVars, worldVars
<1>2. BookInv'
  BY <1>1, SameBookInv
<1>3. /\ n \in Nat /\ committed <= n /\ n <= Len(journal) /\ ~MarkerRecorded /\ ~MarkerRecorded'
      /\ NumberAt(n) \in Nat
  BY <1>1, StepTypes DEF MarkerRecorded
<1>4. /\ n = Len(journal)
      /\ ~NothingWaits => dayState # None /\ CaughtUp(dayState) = dayState
  <2>1. AllSigned(ReadJournal) /\ (Uncommitted # <<>> => dayState # None /\ CaughtUp(dayState) = dayState)
    BY <1>1 DEF StoredIsBehind
  <2> QED
    BY <1>0, <1>1, <1>3, <2>1, LastRecord
<1>5. dayState # None => FitsAt(dayState, n) /\ dayState \in DayState /\ dayState.receiptGlobalNo \in Nat
  <2> SUFFICES ASSUME dayState # None
               PROVE  FitsAt(dayState, n) /\ dayState \in DayState /\ dayState.receiptGlobalNo \in Nat
    OBVIOUS
  <2>1. dayState \in DayState /\ dayState.receiptGlobalNo \in Nat
    BY StepTypes
  <2>2. PICK s \in DayState : s = dayState
    BY <2>1
  <2>3. CaughtUp(s) = s /\ ~NothingWaits => ~Behind(s, n)
    BY <1>0, <1>1, <1>4, CaughtUpFits
  <2>4. ~NothingWaits => CaughtUp(s) = s
    BY <1>4, <2>2
  <2> QED
    BY <1>0, <1>3, <2>1, <2>2, <2>3, <2>4 DEF StoredInv
<1>6. FitsAt(state, n) /\ state.receiptGlobalNo \in Nat
  <2>1. state.receiptGlobalNo \in Nat
    BY <1>1, StepTypes
  <2>2. Behind(state, n) /\ ~NothingWaits => FALSE
    <3> SUFFICES ASSUME Behind(state, n), ~NothingWaits
                 PROVE  FALSE
      OBVIOUS
    <3>1. dayState # None /\ dayState.receiptGlobalNo = NumberAt(n) /\ dayState.receiptGlobalNo <= state.receiptGlobalNo
      BY <1>0, <1>1, <1>4, <1>5 DEF MemoryInv, FitsAt
    <3> QED
      BY <1>3, <2>1, <3>1 DEF Behind
  <2> QED
    BY <1>0, <1>1, <1>3, <2>1, <2>2 DEF MemoryInv
<1>7. ~HeadMarked
  <2> SUFFICES ASSUME ~NothingWaits
               PROVE  journal[committed + 1] # None
    BY <1>1 DEF HeadMarked
  <2> DEFINE m == committed + 1
  <2>1. ~HeadRecorded /\ RecordedTo = committed /\ m \in 1..Len(journal)
    BY <1>1, MarkerKinds, JournalTypes DEF RecordedTo
  <2>2. m \in (RecordedTo + 1)..n
    BY <1>4, <2>1
  <2> HIDE DEF m
  <2>3. journal[m] \in PreparedReceipt
    BY <1>0, <1>1, <2>1, <2>2, JournalTypes DEF JournalInv
  <2> QED
    BY <2>3, NoneIsNothing DEF m
<1>8. HeadMarked' <=> HeadMarked
  BY <1>1, SameJournal DEF HeadMarked
<1>9. JournalInv(n)'
  BY <1>0, <1>1, SameJournal DEF JournalInv
<1>10. MarkerInv'
  BY <1>1 DEF MarkerInv
<1>11. MemoryInv(n)'
  BY <1>0, <1>1, <1>6, SameJournal DEF MemoryInv
<1>12. StoredInv(n)'
  BY <1>1, <1>5, SameJournal DEF StoredInv
<1>13. NumberInv(n)'
  BY <1>0, <1>1, <1>3, SameJournal DEF NumberInv
<1>14. StatusInv'
  BY <1>0, <1>1, SameJournal DEF StatusInv, DayDone
<1>15. PlaceInv(n)'
  BY <1>0, <1>1, <1>4, <1>6, <1>7, <1>8, SameJournal DEF PlaceInv
<1>16. StageInv(n)'
  BY <1>0, <1>1 DEF StageInv
<1>17. ListInv(n)'
  BY <1>0, <1>1 DEF ListInv
<1> QED
  BY <1>2, <1>9, <1>10, <1>11, <1>12, <1>13, <1>14, <1>15, <1>16, <1>17 DEF InStepAt

\* FDMS's day is closed: a new one is asked for, or what is stored of the old
\* one goes.
LEMMA AppOpensOrClearsInStep ==
  ASSUME QueueTypeInv, Orderly, NEW n \in committed..Len(journal), InStepAt(n), AppOpensOrClears
  PROVE  InStepAt(n)'
<1>0. /\ JournalInv(n) /\ MarkerInv /\ MemoryInv(n) /\ StoredInv(n) /\ NumberInv(n)
      /\ StatusInv /\ PlaceInv(n) /\ StageInv(n) /\ ListInv(n)
  BY DEF InStepAt
<1>1. /\ QueueTypes /\ TypeOK /\ BookInv /\ UNCHANGED <<receipts, dayStart, fiscalDayNo, dayTotal>>
      /\ UNCHANGED fdmsVars /\ UNCHANGED <<journal, committed, queue, loaded, call, at>>
      /\ call = "none" /\ at = "top" /\ pc = "idle" /\ status = "FiscalDayClosed"
      /\ sent = None /\ answer = None /\ late = <<>> /\ pending = None /\ NothingWaits
      /\ UNCHANGED <<status, closingErrorCode, pending, lastGlobal, answer, late, now>>
  <2>1. status = "FiscalDayClosed" /\ pc = "idle" /\ call = "none"
    BY DEF AppOpensOrClears, OpenDay, ClearPersistedState
  <2>2. UNCHANGED fdmsVars /\ UNCHANGED queueVars /\ UNCHANGED <<pending, lastGlobal, answer, late, now>>
    BY DEF AppOpensOrClears, OpenDay, ClearPersistedState, storageVars, wireVars, worldVars
  <2> QED
    BY <1>0, <2>1, <2>2, StepTypes
       DEF QueueTypeInv, CallFits, StatusInv, DayDone, PlaceInv, fdmsVars, queueVars, journalVars
<1>2. CASE ClearPersistedState
  <2>1. state' = None /\ dayState' = None /\ pc' = "idle" /\ sent' = None /\ answer' = None /\ late' = <<>>
    BY <1>1, <1>2 DEF ClearPersistedState, wireVars
  <2> QED
    BY <1>1, <2>1, ForgetsInStep
<1>3. CASE OpenDay
  <2>1. /\ reported' = LastReceiptGlobalNo /\ sent' = [endpoint |-> "OpenDay"] /\ pc' = "open"
        /\ OldDayCleared /\ ClockPassed /\ state' = state /\ dayState' = dayState
    BY <1>3 DEF OpenDay, Orderly, Punctual, storageVars
  <2>2. BookInv'
    BY <1>1, SameBookInv
  <2>3. ClockPassed' /\ OldDayCleared'
    BY <1>1, <2>1, SameClockPassed DEF OldDayCleared
  <2>4. reported' <= Len(receipts')
    <3>1. LastReceiptGlobalNo = Len(receipts) /\ Len(receipts) \in Nat
      BY StepTypes
    <3> QED
      BY <1>1, <2>1, <3>1
  <2>5. ~HeadMarked' /\ ~MarkerRecorded /\ ~MarkerRecorded'
    BY <1>1, SameJournal DEF HeadMarked, MarkerRecorded
  <2>6. JournalInv(n)'
    BY <1>0, <1>1, <2>1, SameJournal DEF JournalInv
  <2>7. MarkerInv'
    BY <1>1 DEF MarkerInv
  <2>8. MemoryInv(n)'
    BY <1>1, <2>3 DEF MemoryInv, OldDayCleared
  <2>9. StoredInv(n)'
    BY <2>3 DEF StoredInv, OldDayCleared
  <2>10. NumberInv(n)'
    BY <1>0, <1>1, <2>1, <2>5, SameJournal DEF NumberInv
  <2>11. StatusInv'
    BY <1>0, <1>1, <2>1, SameJournal DEF StatusInv, DayDone
  <2>12. PlaceInv(n)'
    BY <1>1, <2>1, <2>3, <2>4, <2>5, SameJournal DEF PlaceInv
  <2>13. StageInv(n)'
    BY <1>0, <1>1 DEF StageInv
  <2>14. ListInv(n)'
    BY <1>0, <1>1 DEF ListInv
  <2> QED
    BY <2>2, <2>6, <2>7, <2>8, <2>9, <2>10, <2>11, <2>12, <2>13, <2>14 DEF InStepAt
<1> QED
  BY <1>2, <1>3 DEF AppOpensOrClears

\* FDMS records the head: the journal's order stays, recorded one further.
LEMMA HeadEntersInStep ==
  ASSUME QueueTypeInv, NEW n \in committed..Len(journal), InStepAt(n),
         pc = "submit", pending # None, Waiting(pending), HeadMarked,
         RecordReceipt(pending.receipt), answer'.ok, sent' = None,
         UNCHANGED <<state, pc, dayState, pending, lastGlobal, late, now>>,
         UNCHANGED <<journal, committed, queue, loaded, call, at>>
  PROVE  InStepAt(n)'
<1>0. /\ JournalInv(n) /\ MarkerInv /\ MemoryInv(n) /\ StoredInv(n) /\ NumberInv(n)
      /\ StatusInv /\ PlaceInv(n) /\ StageInv(n) /\ ListInv(n)
  BY DEF InStepAt
<1> DEFINE c == committed + 1
           p == pending.receipt
<1>1. /\ QueueTypes /\ TypeOK /\ BookInv /\ CallFits
      /\ UNCHANGED <<status, fiscalDayNo, dayStart, closingErrorCode>>
      /\ receipts' = Append(receipts, [receipt |-> p, errors |-> ValidationErrors(p)])
      /\ receipts \in Seq(Recorded)
  BY StepTypes DEF QueueTypeInv, RecordReceipt, TypeOK, FdmsTypeOK
<1>2. /\ BookInv' /\ Entered(pending)' /\ Len(receipts') = Len(receipts) + 1
  BY <1>1, Recording
<1>3. /\ ~NothingWaits /\ ~NothingWaits' /\ ~HeadRecorded /\ RecordedTo = committed /\ n = Len(journal)
      /\ n \in Nat /\ c \in Nat /\ c <= n /\ committed \in Nat /\ Len(receipts) \in Nat
      /\ pending = journal[c] /\ IsPrepared(journal[c]) /\ at \in {"head", "sale", "top"} /\ ~MarkerRecorded
      /\ DayReceiptCount \in Nat
  <2>1. at \in {"head", "sale", "top"}
    BY <1>1 DEF CallFits, QueueTypes, Stages
  <2>2. ~HeadRecorded /\ ~MarkerRecorded
    BY <2>1, MarkerKinds DEF MarkerRecorded
  <2>3. ~NothingWaits /\ pending = journal[c] /\ pending \in PreparedReceipt
    BY StepTypes DEF HeadMarked
  <2> QED
    BY <1>1, <2>1, <2>2, <2>3, StepTypes, JournalTypes, SignedOrNot DEF RecordedTo, NothingWaits
<1>4. /\ LastHash' = p.hash /\ LastDate' = p.date /\ dayTotal' = pending.stateAfter.counters
      /\ DayReceiptCount' = DayReceiptCount + 1 /\ p.globalNo = Len(receipts')
  BY <1>2, <1>3 DEF Entered, Fits, Waiting
<1>5. HeadRecorded' /\ RecordedTo' = c
  BY <1>3, <1>4 DEF HeadRecorded, RecordedTo
<1>6. /\ \A j \in c..n : NumberAt(j)' = NumberAt(j) /\ CounterAt(j)' = CounterAt(j)
      /\ \A j \in c..n : HashAt(j)' = HashAt(j) /\ DateAt(j)' = DateAt(j) /\ CountersAt(j)' = CountersAt(j)
  <2> SUFFICES ASSUME NEW j \in c..n
               PROVE  /\ NumberAt(j)' = NumberAt(j) /\ CounterAt(j)' = CounterAt(j)
                      /\ HashAt(j)' = HashAt(j) /\ DateAt(j)' = DateAt(j) /\ CountersAt(j)' = CountersAt(j)
    OBVIOUS
  <2>1. /\ NumberAt(j) = Len(receipts) + (j - committed) /\ CounterAt(j) = DayReceiptCount + (j - committed)
        /\ NumberAt(j)' = Len(receipts') + (j - c) /\ CounterAt(j)' = DayReceiptCount' + (j - c)
    BY <1>3, <1>5 DEF NumberAt, CounterAt
  <2>2. NumberAt(j)' = NumberAt(j) /\ CounterAt(j)' = CounterAt(j)
    <3> DEFINE N == Len(receipts)
               D == DayReceiptCount
    <3>1. N \in Nat /\ D \in Nat /\ Len(receipts') = N + 1 /\ DayReceiptCount' = D + 1 /\ j \in Nat
      BY <1>2, <1>3, <1>4
    <3>2. NumberAt(j) = N + (j - committed) /\ CounterAt(j) = D + (j - committed)
          /\ NumberAt(j)' = N + 1 + (j - c) /\ CounterAt(j)' = D + 1 + (j - c)
      BY <2>1, <3>1
    <3> HIDE DEF N, D
    <3> QED
      BY <1>3, <3>1, <3>2
  <2>3. j # RecordedTo
    BY <1>3
  <2>4. /\ HashAt(j) = journal[j].receipt.hash /\ DateAt(j) = journal[j].receipt.date
        /\ CountersAt(j) = journal[j].stateAfter.counters
    BY <2>3 DEF HashAt, DateAt, CountersAt
  <2>5. /\ HashAt(j)' = IF j = c THEN LastHash' ELSE journal[j].receipt.hash
        /\ DateAt(j)' = IF j = c THEN LastDate' ELSE journal[j].receipt.date
        /\ CountersAt(j)' = IF j = c THEN dayTotal' ELSE journal[j].stateAfter.counters
    <3> HIDE DEF c
    <3> QED
      BY <1>5 DEF HashAt, DateAt, CountersAt
  <2>6. j = c => LastHash' = journal[j].receipt.hash /\ LastDate' = journal[j].receipt.date
                 /\ dayTotal' = journal[j].stateAfter.counters
    BY <1>3, <1>4
  <2> QED
    BY <2>2, <2>4, <2>5, <2>6
<1>7. /\ NumberAt(n)' = NumberAt(n)
      /\ \A s : (FitsAt(s, n)' <=> FitsAt(s, n)) /\ (Behind(s, n)' <=> Behind(s, n))
  <2>1. n \in c..n
    BY <1>3
  <2>2. NumberAt(n)' = NumberAt(n)
    BY <1>6, <2>1
  <2>3. \A s : FitsAt(s, n)' <=> FitsAt(s, n)
    BY <1>1, <1>6, <2>1 DEF FitsAt
  <2> QED
    BY <2>2, <2>3 DEF Behind
<1>8. ASSUME NEW q, NEW j \in (c + 1)..n, Follows(q, j)
      PROVE  Follows(q, j)'
  <2> DEFINE k == j - 1
  <2>1. k \in c..n /\ j \in c..n /\ c \in (RecordedTo + 1)..k
    BY <1>3
  <2>2. HashAt(k)' = HashAt(k) /\ CountersAt(k)' = CountersAt(k) /\ NumberAt(j)' = NumberAt(j) /\ CounterAt(j)' = CounterAt(j)
    BY <1>6, <2>1
  <2>3. \A i \in DOMAIN receipts' : ReceiptAt(i)'.date < q.receipt.date
    <3>1. p.date < q.receipt.date
      BY <1>3, <1>8, <2>1 DEF Follows
    <3>2. \A i \in DOMAIN receipts' : (i \in DOMAIN receipts /\ receipts'[i] = receipts[i]) \/ receipts'[i].receipt = p
      <4> DEFINE e == [receipt |-> p, errors |-> ValidationErrors(p)]
      <4>1. e.receipt = p /\ receipts' = Append(receipts, e)
        BY <1>1
      <4> HIDE DEF e
      <4>2. \A i \in DOMAIN receipts' : (i \in DOMAIN receipts /\ receipts'[i] = receipts[i]) \/ receipts'[i] = e
        BY <1>1, <1>2, <4>1
      <4> QED
        BY <4>1, <4>2
    <3> QED
      BY <1>8, <3>1, <3>2 DEF Follows, ReceiptAt
  <2>4. \A i \in (c + 1)..k : i \in (RecordedTo + 1)..k
    BY <1>3
  <2>5. \A i \in (c + 1)..k : journal'[i].receipt.date < q.receipt.date
    BY <1>8, <2>4 DEF Follows
  <2> QED
    BY <1>1, <1>5, <1>8, <2>2, <2>3, <2>5 DEF Follows
<1>9. JournalInv(n)'
  <2>1. \A j \in (c + 1)..n : IsPrepared(journal[j])' /\ Follows(journal[j], j)'
    <3> SUFFICES ASSUME NEW j \in (c + 1)..n
                 PROVE  IsPrepared(journal[j])' /\ Follows(journal[j], j)'
      OBVIOUS
    <3>1. j \in (RecordedTo + 1)..n
      BY <1>3
    <3>2. IsPrepared(journal[j]) /\ Follows(journal[j], j)
      BY <1>0, <3>1 DEF JournalInv
    <3> QED
      BY <1>8, <3>2
  <2>2. Entered(journal[committed + 1])' /\ pending' = journal'[committed' + 1]
    BY <1>2, <1>3
  <2> QED
    BY <1>0, <1>3, <1>5, <2>1, <2>2 DEF JournalInv
<1>10. MarkerInv'
  BY <1>3 DEF MarkerInv, HeadMarked
<1>11. MemoryInv(n)'
  BY <1>0, <1>3, <1>7 DEF MemoryInv
<1>12. StoredInv(n)'
  BY <1>0, <1>3, <1>7 DEF StoredInv
<1>13. NumberInv(n)'
  BY <1>0, <1>3, <1>7 DEF NumberInv
<1>14. StatusInv'
  BY <1>0, <1>1, <1>3 DEF StatusInv, DayDone
<1>15. PlaceInv(n)'
  BY <1>0, <1>2, <1>3 DEF PlaceInv, HeadMarked
<1>16. StageInv(n)'
  BY <1>0, <1>3 DEF StageInv, HeadMarked
<1>17. ListInv(n)'
  BY <1>0 DEF ListInv
<1> QED
  BY <1>2, <1>9, <1>10, <1>11, <1>12, <1>13, <1>14, <1>15, <1>16, <1>17 DEF InStepAt

\* FDMS records a receipt the journal does not hold: memory and storage are
\* one receipt behind until the marker is settled.
LEMMA SaleEntersInStep ==
  ASSUME QueueTypeInv, NEW n \in committed..Len(journal), InStepAt(n),
         pc = "submit", pending # None, Waiting(pending), ~HeadMarked,
         RecordReceipt(pending.receipt), answer'.ok, sent' = None,
         UNCHANGED <<state, pc, dayState, pending, lastGlobal, late, now>>,
         UNCHANGED <<journal, committed, queue, loaded, call, at>>
  PROVE  InStepAt(n)'
<1>0. /\ JournalInv(n) /\ MarkerInv /\ MemoryInv(n) /\ StoredInv(n) /\ NumberInv(n)
      /\ StatusInv /\ PlaceInv(n) /\ StageInv(n) /\ ListInv(n)
  BY DEF InStepAt
<1>1. /\ QueueTypes /\ TypeOK /\ BookInv /\ CallFits /\ UNCHANGED <<status, fiscalDayNo, dayStart, closingErrorCode>>
  BY StepTypes DEF QueueTypeInv, RecordReceipt
<1>2. /\ BookInv' /\ Entered(pending)' /\ Len(receipts') = Len(receipts) + 1
  BY <1>1, Recording
<1>3. /\ NothingWaits /\ NothingWaits' /\ n = committed /\ RecordedTo = n /\ n = Len(journal) /\ n \in Nat
      /\ Len(receipts) \in Nat /\ NumberAt(n) = Len(receipts) /\ lastGlobal \in Nat
      /\ at \in {"head", "sale", "top"} /\ at # "head"
  <2>1. at \in {"head", "sale", "top"} /\ at # "head"
    BY <1>0, <1>1 DEF CallFits, QueueTypes, Stages, StageInv
  <2>2. NothingWaits
    BY <2>1, MarkerKinds
  <2> QED
    BY <2>1, <2>2, StepTypes DEF NothingWaits
<1>4. ~HeadRecorded' /\ RecordedTo' = n /\ ~HeadMarked' /\ MarkerRecorded'
  BY <1>2, <1>3 DEF HeadRecorded, RecordedTo, HeadMarked, MarkerRecorded
<1>5. NumberAt(n)' = Len(receipts')
  <2>1. NumberAt(n)' = Len(receipts') + (n - n)
    BY <1>4 DEF NumberAt
  <2> QED
    BY <1>2, <1>3, <2>1
<1>6. \A s : (FitsAt(s, n) \/ Behind(s, n)) /\ s.receiptGlobalNo \in Nat => Behind(s, n)'
  BY <1>2, <1>3, <1>5 DEF FitsAt, Behind
<1>7. \A s \in {state, dayState} \ {None} : s.receiptGlobalNo \in Nat
  BY StepTypes
<1>8. JournalInv(n)'
  <2>1. (n + 1)..n = {} /\ (n + 1)..Len(journal) = {}
    BY <1>3
  <2> QED
    BY <1>3, <1>4, <2>1 DEF JournalInv
<1>9. MarkerInv'
  BY <1>2, <1>4 DEF MarkerInv
<1>10. MemoryInv(n)'
  BY <1>0, <1>3, <1>4, <1>6, <1>7 DEF MemoryInv
<1>11. StoredInv(n)'
  BY <1>0, <1>3, <1>4, <1>6, <1>7 DEF StoredInv, MemoryInv
<1>12. NumberInv(n)'
  BY <1>0, <1>2, <1>3, <1>4, <1>5 DEF NumberInv
<1>13. StatusInv'
  BY <1>0, <1>1 DEF StatusInv, DayDone
<1>14. PlaceInv(n)'
  BY <1>0, <1>2, <1>4 DEF PlaceInv
<1>15. StageInv(n)'
  BY <1>0, <1>3 DEF StageInv
<1>16. ListInv(n)'
  BY <1>0 DEF ListInv
<1> QED
  BY <1>2, <1>8, <1>9, <1>10, <1>11, <1>12, <1>13, <1>14, <1>15, <1>16 DEF InStepAt

\* FDMS refuses a request and changes nothing.
LEMMA FdmsRefusesInStep ==
  ASSUME QueueTypeInv, NEW n \in committed..Len(journal), InStepAt(n),
         sent # None, sent' = None, ~answer'.ok,
         UNCHANGED <<fdmsVars, state, pc, reported, storageVars, late, now>>,
         UNCHANGED <<journal, committed, queue, loaded, call, at>>
  PROVE  InStepAt(n)'
<1>0. /\ JournalInv(n) /\ MarkerInv /\ MemoryInv(n) /\ StoredInv(n) /\ NumberInv(n)
      /\ StatusInv /\ PlaceInv(n) /\ StageInv(n) /\ ListInv(n)
  BY DEF InStepAt
<1>1. /\ QueueTypes /\ TypeOK /\ BookInv /\ UNCHANGED <<receipts, dayStart, fiscalDayNo, dayTotal>>
      /\ UNCHANGED <<status, closingErrorCode, dayState, pending, lastGlobal>>
  BY StepTypes DEF fdmsVars, storageVars
<1>2. BookInv'
  BY <1>1, SameBookInv
<1>3. (HeadMarked' <=> HeadMarked) /\ (MarkerRecorded' <=> MarkerRecorded)
  BY <1>1, SameJournal DEF HeadMarked, MarkerRecorded
<1>4. (ClockPassed' <=> ClockPassed) /\ (OldDayCleared' <=> OldDayCleared)
  BY <1>1 DEF ClockPassed, OldDayCleared, ReceiptAt
<1>5. JournalInv(n)'
  BY <1>0, <1>1, SameJournal DEF JournalInv
<1>6. MarkerInv'
  BY <1>0, <1>1, <1>3, SameJournal DEF MarkerInv
<1>7. MemoryInv(n)'
  BY <1>0, <1>1, <1>3, SameJournal DEF MemoryInv
<1>8. StoredInv(n)'
  BY <1>0, <1>1, <1>3, SameJournal DEF StoredInv
<1>9. NumberInv(n)'
  BY <1>0, <1>1, <1>3, SameJournal DEF NumberInv
<1>10. StatusInv'
  BY <1>0, <1>1, SameJournal DEF StatusInv, DayDone
<1>11. PlaceInv(n)'
  <2>1. pc \in {"submit", "open", "close"}
    BY <1>0, <1>1 DEF PlaceInv, TypeOK, Places
  <2>2. CASE pc = "submit"
    BY <1>0, <1>1, <1>3, <2>2, SameJournal DEF PlaceInv
  <2>3. CASE pc \in {"open", "close"}
    BY <1>0, <1>1, <1>3, <1>4, <2>3, SameJournal DEF PlaceInv
  <2> QED
    BY <2>1, <2>2, <2>3
<1>12. StageInv(n)'
  BY <1>0, <1>1, <1>3, SameJournal DEF StageInv
<1>13. ListInv(n)'
  BY <1>0, <1>1 DEF ListInv
<1> QED
  BY <1>2, <1>5, <1>6, <1>7, <1>8, <1>9, <1>10, <1>11, <1>12, <1>13 DEF InStepAt

\* FDMS opens the day; nothing waits in the journal.
LEMMA DayOpensInStep ==
  ASSUME QueueTypeInv, NEW n \in committed..Len(journal), InStepAt(n),
         pc = "open", OpenDayAtFdms, sent' = None, answer'.fiscalDayNo = fiscalDayNo + 1,
         UNCHANGED <<state, pc, reported, storageVars, late, now>>,
         UNCHANGED <<journal, committed, queue, loaded, call, at>>
  PROVE  InStepAt(n)'
<1>0. /\ JournalInv(n) /\ MarkerInv /\ MemoryInv(n) /\ StoredInv(n) /\ NumberInv(n)
      /\ StatusInv /\ PlaceInv(n) /\ StageInv(n) /\ ListInv(n)
  BY DEF InStepAt
<1>1. /\ QueueTypes /\ TypeOK /\ BookInv /\ CallFits
      /\ status' = "FiscalDayOpened" /\ receipts' = receipts /\ fiscalDayNo' = fiscalDayNo + 1
      /\ dayStart' = Len(receipts) /\ dayTotal' = 0
      /\ UNCHANGED <<dayState, pending, lastGlobal>>
  BY StepTypes DEF QueueTypeInv, OpenDayAtFdms, storageVars
<1>2. /\ call = "none" /\ at = "top" /\ pending = None /\ NothingWaits
      /\ OldDayCleared /\ ClockPassed /\ reported <= Len(receipts) /\ state = None /\ dayState = None
  BY <1>0, <1>1 DEF PlaceInv, CallFits, OldDayCleared
<1>3. /\ n \in Nat /\ n = Len(journal) /\ RecordedTo = n /\ n = committed /\ Len(receipts) \in Nat
      /\ NumberAt(n) = Len(receipts)
  BY <1>2, StepTypes
<1>4. NothingWaits' /\ ~HeadRecorded' /\ RecordedTo' = n /\ ~HeadMarked' /\ ~MarkerRecorded /\ ~MarkerRecorded'
  BY <1>1, <1>2, <1>3 DEF NothingWaits, HeadRecorded, RecordedTo, HeadMarked, MarkerRecorded
<1>5. NumberAt(n)' = Len(receipts)
  <2>1. NumberAt(n)' = Len(receipts) + (n - n)
    BY <1>1, <1>4 DEF NumberAt
  <2> QED
    BY <1>3, <2>1
<1>6. BookInv'
  BY <1>1, <1>2, BookTypes DEF BookInv, ClockPassed, ReceiptAt
<1>7. ClockPassed' /\ OldDayCleared'
  BY <1>1, <1>2 DEF ClockPassed, OldDayCleared, ReceiptAt
<1>8. Fits(NewDayState(answer.fiscalDayNo, Len(receipts)))'
  <2>1. DayReceiptCount' = 0
    BY <1>1, <1>3 DEF DayReceiptCount
  <2> QED
    BY <1>1, <2>1 DEF Fits, NewDayState, LastHash, LastDate
<1>9. JournalInv(n)'
  <2>1. (n + 1)..n = {} /\ (n + 1)..Len(journal) = {} /\ n <= n
    BY <1>3
  <2> QED
    BY <1>3, <1>4, <2>1 DEF JournalInv
<1>10. MarkerInv'
  BY <1>1, <1>2 DEF MarkerInv
<1>11. MemoryInv(n)'
  BY <1>1, <1>2 DEF MemoryInv
<1>12. StoredInv(n)'
  BY <1>1, <1>2 DEF StoredInv
<1>13. NumberInv(n)'
  BY <1>0, <1>1, <1>2, <1>3, <1>4, <1>5 DEF NumberInv
<1>14. StatusInv'
  BY <1>1, <1>2 DEF StatusInv, DayDone
<1>15. PlaceInv(n)'
  BY <1>0, <1>1, <1>2, <1>4, <1>7, <1>8 DEF PlaceInv
<1>16. StageInv(n)'
  BY <1>0, <1>2, <1>3 DEF StageInv
<1>17. ListInv(n)'
  BY <1>0 DEF ListInv
<1> QED
  BY <1>6, <1>9, <1>10, <1>11, <1>12, <1>13, <1>14, <1>15, <1>16, <1>17 DEF InStepAt

\* A close that FDMS accepts and will settle covers the whole journal: the
\* counters it signs include every receipt that waits.
LEMMA CloseCoversJournal ==
  ASSUME QueueTypeInv, NEW n \in committed..Len(journal), InStepAt(n),
         pc = "close", sent # None, CloseVerdict(sent) = "None"
  PROVE  NothingWaits
<1>1. /\ PlaceInv(n) /\ CallFits /\ at = "top" /\ pending = None /\ n = Len(journal)
      /\ FitsAt(state, n) /\ sent = CloseBody(state)
  <2>1. /\ PlaceInv(n) /\ CallFits
    BY DEF InStepAt, QueueTypeInv
  <2> QED
    BY <2>1 DEF PlaceInv, CallFits
<1>2. /\ n \in Nat /\ committed \in Nat /\ RecordedTo \in Nat /\ RecordedTo = committed /\ DayReceiptCount \in Nat
  BY <1>1, StepTypes, MarkerKinds, JournalTypes DEF RecordedTo
<1>3. CounterAt(n) = DayReceiptCount
  BY <1>1 DEF CloseVerdict, CloseBody, FitsAt
<1>4. CounterAt(n) = DayReceiptCount + (n - committed)
  BY <1>2 DEF CounterAt
<1> DEFINE D == DayReceiptCount
<1>5. D \in Nat /\ D = D + (n - committed)
  BY <1>2, <1>3, <1>4
<1> HIDE DEF D
<1>6. n = committed
  BY <1>2, <1>5
<1> QED
  BY <1>1, <1>6 DEF NothingWaits

\* FDMS takes the close, or settles it.
LEMMA StatusChangesInStep ==
  ASSUME QueueTypeInv, NEW n \in committed..Len(journal), InStepAt(n),
         UNCHANGED <<receipts, dayStart, fiscalDayNo, dayTotal>>,
         \/ pc = "close" /\ sent' = None /\ (DayDone' => NothingWaits)
         \/ /\ status = "FiscalDayCloseInitiated" /\ UNCHANGED <<sent, answer>>
            /\ DayDone' => DayDone
            /\ status' \in {"FiscalDayOpened", "FiscalDayClosed"},
         UNCHANGED <<state, pc, reported, storageVars, late, now>>,
         UNCHANGED <<journal, committed, queue, loaded, call, at>>
  PROVE  InStepAt(n)'
<1>0. /\ JournalInv(n) /\ MarkerInv /\ MemoryInv(n) /\ StoredInv(n) /\ NumberInv(n)
      /\ StatusInv /\ PlaceInv(n) /\ StageInv(n) /\ ListInv(n)
  BY DEF InStepAt
<1>1. QueueTypes /\ TypeOK /\ BookInv /\ CallFits /\ UNCHANGED <<dayState, pending, lastGlobal>>
  BY StepTypes DEF QueueTypeInv, storageVars
<1>2. BookInv'
  BY <1>1, SameBookInv
<1>3. (HeadMarked' <=> HeadMarked) /\ (MarkerRecorded' <=> MarkerRecorded)
  BY <1>1, SameJournal DEF HeadMarked, MarkerRecorded
<1>4. (ClockPassed' <=> ClockPassed) /\ (OldDayCleared' <=> OldDayCleared)
  BY <1>1 DEF ClockPassed, OldDayCleared, ReceiptAt
<1>5. n = Len(journal) /\ ~(n < Len(journal))
      /\ (call \in {"enqueue", "sale"} => state = None)
      /\ (pc = "close" => pending = None)
  <2>1. pc = "close" => n = Len(journal) /\ call = "none" /\ pending = None
    BY <1>0 DEF PlaceInv
  <2>2. status = "FiscalDayCloseInitiated" =>
          ~(n < Len(journal)) /\ (call \in {"enqueue", "sale"} => state = None)
    BY <1>0 DEF JournalInv, StatusInv
  <2> QED
    BY <2>1, <2>2, StepTypes
<1>6. JournalInv(n)'
  BY <1>0, <1>1, <1>5, SameJournal DEF JournalInv
<1>7. MarkerInv'
  BY <1>0, <1>1, <1>3, SameJournal DEF MarkerInv
<1>8. MemoryInv(n)'
  BY <1>0, <1>1, <1>3, SameJournal DEF MemoryInv
<1>9. StoredInv(n)'
  BY <1>0, <1>1, <1>3, SameJournal DEF StoredInv
<1>10. NumberInv(n)'
  BY <1>0, <1>1, <1>3, SameJournal DEF NumberInv
<1>11. StatusInv'
  <2>1. DayDone' => NothingWaits /\ pending = None
    BY <1>0, <1>5 DEF StatusInv
  <2> QED
    BY <1>1, <1>5, <2>1, SameJournal DEF StatusInv
<1>12. PlaceInv(n)'
  <2>1. CASE pc = "close"
    BY <1>0, <1>1, <1>3, <2>1, SameJournal DEF PlaceInv
  <2>2. CASE UNCHANGED <<sent, answer>>
    BY <1>0, <1>1, <1>3, <1>4, <2>2, SameJournal DEF PlaceInv
  <2> QED
    BY <2>1, <2>2
<1>13. StageInv(n)'
  BY <1>0, <1>1, <1>3, SameJournal DEF StageInv
<1>14. ListInv(n)'
  BY <1>0, <1>1 DEF ListInv
<1> QED
  BY <1>2, <1>6, <1>7, <1>8, <1>9, <1>10, <1>11, <1>12, <1>13, <1>14 DEF InStepAt

\* Time passes, or nothing happens.
LEMMA ClockInStep ==
  ASSUME QueueTypeInv, NEW n \in committed..Len(journal), InStepAt(n),
         UNCHANGED <<fdmsVars, state, pc, reported, storageVars, wireVars>>, now' = now \/ now' = now + 1,
         UNCHANGED <<journal, committed, queue, loaded, call, at>>
  PROVE  InStepAt(n)'
<1>0. /\ JournalInv(n) /\ MarkerInv /\ MemoryInv(n) /\ StoredInv(n) /\ NumberInv(n)
      /\ StatusInv /\ PlaceInv(n) /\ StageInv(n) /\ ListInv(n)
  BY DEF InStepAt
<1>1. /\ QueueTypes /\ TypeOK /\ BookInv /\ UNCHANGED <<receipts, dayStart, fiscalDayNo, dayTotal>>
      /\ UNCHANGED <<status, closingErrorCode, dayState, pending, lastGlobal, sent, answer, late>>
  BY StepTypes DEF fdmsVars, storageVars, wireVars
<1>2. BookInv'
  BY <1>1, SameBookInv
<1>3. (HeadMarked' <=> HeadMarked) /\ (MarkerRecorded' <=> MarkerRecorded)
  BY <1>1, SameJournal DEF HeadMarked, MarkerRecorded
<1>4. (ClockPassed => ClockPassed') /\ (OldDayCleared' <=> OldDayCleared)
  BY <1>1, SameClockPassed DEF OldDayCleared
<1>5. JournalInv(n)'
  BY <1>0, <1>1, SameJournal DEF JournalInv
<1>6. MarkerInv'
  BY <1>0, <1>1, <1>3, SameJournal DEF MarkerInv
<1>7. MemoryInv(n)'
  BY <1>0, <1>1, <1>3, SameJournal DEF MemoryInv
<1>8. StoredInv(n)'
  BY <1>0, <1>1, <1>3, SameJournal DEF StoredInv
<1>9. NumberInv(n)'
  BY <1>0, <1>1, <1>3, SameJournal DEF NumberInv
<1>10. StatusInv'
  BY <1>0, <1>1, SameJournal DEF StatusInv, DayDone
<1>11. PlaceInv(n)'
  BY <1>0, <1>1, <1>3, <1>4, SameJournal DEF PlaceInv
<1>12. StageInv(n)'
  BY <1>0, <1>1, <1>3, SameJournal DEF StageInv
<1>13. ListInv(n)'
  BY <1>0, <1>1 DEF ListInv
<1> QED
  BY <1>2, <1>5, <1>6, <1>7, <1>8, <1>9, <1>10, <1>11, <1>12, <1>13 DEF InStepAt

LEMMA WorldInStep ==
  ASSUME QueueTypeInv, NEW n \in committed..Len(journal), InStepAt(n), World
  PROVE  InStepAt(n)'
<1>1. /\ UNCHANGED <<journal, committed, queue, loaded, call, at>> /\ PlaceInv(n) /\ TypeOK
      /\ CallFits
  BY StepTypes DEF World, queueVars, journalVars, InStepAt, QueueTypeInv
<1>2. CASE FdmsAnswers
  <2>1. /\ sent # None /\ sent' = None /\ pc \in {"submit", "open", "close"}
        /\ Handle(sent) /\ answer' = AnswerTo(sent) /\ answer'.ok = Takes(sent)
        /\ UNCHANGED <<state, pc, reported, storageVars, late, now>>
        /\ UNCHANGED <<dayState, pending, lastGlobal>>
    BY <1>1, <1>2 DEF FdmsAnswers, PlaceInv, TypeOK, Places, AnswerTo, worldVars, storageVars
  <2>2. CASE ~Takes(sent)
    <3>1. UNCHANGED fdmsVars /\ ~answer'.ok
      BY <2>1, <2>2 DEF Handle
    <3> QED
      BY <1>1, <2>1, <3>1, FdmsRefusesInStep
  <2>3. CASE Takes(sent) /\ pc = "submit"
    <3>1. pending # None /\ Waiting(pending) /\ sent = Submit(pending.receipt)
      BY <1>1, <2>1, <2>3 DEF PlaceInv
    <3>2. RecordReceipt(pending.receipt) /\ answer'.ok
      BY <2>1, <2>3, <3>1 DEF Handle, Submit
    <3> QED
      BY <1>1, <2>1, <2>3, <3>1, <3>2, HeadEntersInStep, SaleEntersInStep
  <2>4. CASE Takes(sent) /\ pc = "open"
    <3>1. sent.endpoint = "OpenDay"
      BY <1>1, <2>1, <2>4 DEF PlaceInv
    <3>2. OpenDayAtFdms /\ answer'.fiscalDayNo = fiscalDayNo + 1
      BY <2>1, <2>4, <3>1 DEF Handle, AnswerTo
    <3> QED
      BY <1>1, <2>1, <2>4, <3>2, DayOpensInStep
  <2>5. CASE Takes(sent) /\ pc = "close"
    <3>1. sent = CloseBody(state)
      BY <1>1, <2>1, <2>5 DEF PlaceInv
    <3>2. CloseDayAtFdms(sent)
      BY <2>1, <2>5, <3>1 DEF Handle, CloseBody
    <3>3. DayDone' => CloseVerdict(sent) = "None"
      BY <3>2 DEF DayDone, CloseDayAtFdms
    <3>4. UNCHANGED <<receipts, dayStart, fiscalDayNo, dayTotal>>
      BY <3>2 DEF CloseDayAtFdms
    <3> QED
      BY <1>1, <2>1, <2>5, <3>3, <3>4, CloseCoversJournal, StatusChangesInStep
  <2> QED
    BY <2>1, <2>2, <2>3, <2>4, <2>5
<1>3. CASE DaySettles
  <2>1. /\ UNCHANGED <<receipts, dayStart, fiscalDayNo, dayTotal>>
        /\ status = "FiscalDayCloseInitiated" /\ status' \in {"FiscalDayOpened", "FiscalDayClosed"}
        /\ DayDone' => DayDone
        /\ UNCHANGED <<state, pc, reported, storageVars, sent, answer, late, now>>
    BY <1>3 DEF DaySettles, SettleClose, DayDone, wireVars, worldVars
  <2> QED
    BY <1>1, <2>1, StatusChangesInStep
<1>4. CASE Tick
  BY <1>1, <1>4, ClockInStep DEF Tick
<1>5. CASE FdmsRefuses
  BY <1>1, <1>5, FdmsRefusesInStep DEF FdmsRefuses, worldVars
<1> QED
  BY <1>2, <1>3, <1>4, <1>5 DEF World

\* The calls of the queue that stop, or stop flushing.
LEMMA QueueGivesUpInStep ==
  ASSUME QueueTypeInv, NEW n \in committed..Len(journal), InStepAt(n),
         HeadBlocked \/ EnqueueRefused \/ FlushReturns
  PROVE  InStepAt(n)'
<1>1. PlaceInv(n) /\ CallFits
  BY DEF InStepAt, QueueTypeInv
<1>2. /\ UNCHANGED <<fdmsVars, state, pc, storageVars, sent, answer, late, now>>
      /\ UNCHANGED <<journal, committed, queue, loaded>>
  BY DEF HeadBlocked, EnqueueRefused, FlushReturns, vars, journalVars, wireVars, worldVars
<1>3. at \in {"top", "sign"} /\ pc = "idle"
  BY <1>1 DEF HeadBlocked, EnqueueRefused, FlushReturns, Flushing, CallFits
<1>4. \/ call' = "none" /\ at' = "top"
      \/ call' = "sale" /\ call = "sale" /\ at' = "sign"
  BY DEF HeadBlocked, EnqueueRefused, FlushReturns, FlushFails, Return
<1>5. pc' = "idle" /\ sent' = None /\ answer' = None /\ late' = <<>>
  BY <1>1, <1>2, <1>3 DEF PlaceInv
<1> QED
  BY <1>2, <1>3, <1>4, <1>5, GivesUpInStep

\* A call of the device whose outcome is unknown, or whose write fails short
\* of a mishap.
LEMMA DeviceGivesUpInStep ==
  ASSUME QueueTypeInv, Orderly, NEW n \in committed..Len(journal), InStepAt(n),
         NoOutcome \/ DeviceStorageFails, Undisturbed'
  PROVE  InStepAt(n)'
<1>1. PlaceInv(n) /\ StageInv(n) /\ CallFits /\ QueueTypes
  BY DEF InStepAt, QueueTypeInv
<1>2. /\ UNCHANGED <<fdmsVars, state, storageVars, now>>
      /\ UNCHANGED <<journal, committed, queue, loaded>> /\ pc' = "idle" /\ pc # "idle"
  BY DEF NoOutcome, OutcomeUnknown, AbandonCall, DeviceStorageFails, StorageFails, journalVars
<1>3. at \notin {"take", "upgrading"}
  <2>1. NoOutcome => at \notin {"take", "upgrading"}
    BY <1>1 DEF NoOutcome, OutcomeUnknown, CallFits
  <2>2. DeviceStorageFails => at \notin {"take", "upgrading"}
    BY DEF DeviceStorageFails, Undisturbed
  <2> QED
    BY <2>1, <2>2
<1>4. at \in {"top", "head", "sale"} /\ (at = "sale" => call = "sale" /\ NothingWaits)
  BY <1>1, <1>2, <1>3 DEF CallFits, QueueTypes, Stages, Calls, StageInv
<1>5. sent' = None /\ answer' = None /\ late' = <<>>
  <2>1. CASE NoOutcome
    BY <1>1, <2>1 DEF NoOutcome, OutcomeUnknown, AbandonCall, PlaceInv, Orderly, Punctual
  <2>2. CASE DeviceStorageFails
    BY <1>1, <2>2 DEF DeviceStorageFails, StorageFails, PlaceInv, wireVars
  <2> QED
    BY <2>1, <2>2
<1>6. /\ \/ call' = "none" /\ at' = "top"
         \/ call' = "sale" /\ call = "sale" /\ at' \in {"sign", "journal"}
      /\ at' = "journal" => NothingWaits
  BY <1>4 DEF NoOutcome, DeviceStorageFails, Thrown, FlushFails, Return
<1> QED
  BY <1>2, <1>4, <1>5, <1>6, GivesUpInStep

LEMMA DeviceGoesOnInStep ==
  ASSUME QueueTypeInv, NEW n \in committed..Len(journal), InStepAt(n), DeviceGoesOn
  PROVE  InStepAt(n)'
<1>1. /\ PlaceInv(n) /\ StageInv(n) /\ CallFits /\ QueueTypes /\ TypeOK /\ UNCHANGED queueVars
      /\ UNCHANGED <<journal, committed, queue, loaded, call, at>>
  BY StepTypes DEF DeviceGoesOn, InStepAt, QueueTypeInv, queueVars, journalVars
<1>2. CASE SubmitAnswered
  <2>1. /\ pc = "submit" /\ answer # None /\ answer.ok /\ pc' = "saveDay" /\ answer' = None /\ sent' = sent
        /\ state' = CommittedState(state, pending, answer.red)
        /\ UNCHANGED <<fdmsVars, storageVars, late, now>>
    BY <1>2 DEF SubmitAnswered, worldVars
  <2>2. /\ pending # None /\ Entered(pending) /\ sent' = None /\ late' = <<>>
        /\ (call = "none" => ~HeadMarked)
        /\ at \notin {"commit", "take", "upgrading", "upgrade", "journal"}
    BY <1>1, <2>1 DEF PlaceInv, CallFits
  <2>3. PICK red \in BOOLEAN : red = answer.red
    BY <1>1, <2>1 DEF TypeOK, Answer
  <2>4. PICK s \in DayState \cup {None} : s = state
    BY <1>1 DEF TypeOK
  <2>5. state' = CommittedState(s, pending, red) /\ s = state /\ (call # "none" \/ pc = "submit" \/ state # None)
    BY <2>1, <2>3, <2>4
  <2> QED
    BY <1>1, <2>1, <2>2, <2>5, CommitsInStep
<1>3. CASE SaveDayState
  BY <1>1, <1>3, SaveDayStateInStep
<1>4. CASE SaveLastGlobal /\ at \notin {"take", "upgrading"}
  BY <1>1, <1>4, SaveLastGlobalInStep
<1>5. CASE OpenAnswered
  BY <1>1, <1>5, OpenAnsweredInStep
<1>6. CASE CloseAnswered
  <2>1. /\ UNCHANGED <<fdmsVars, pending, lastGlobal, now>> /\ dayState' = dayState /\ pc = "close"
        /\ state' = None /\ pc' = "idle" /\ answer' = None /\ answer # None /\ sent' = sent /\ late' = late
    BY <1>6 DEF CloseAnswered, storageVars, worldVars
  <2>2. call = "none" /\ pending = None /\ sent' = None /\ late' = <<>>
    BY <1>1, <2>1 DEF PlaceInv
  <2> QED
    BY <1>1, <2>1, <2>2, ForgetsInStep
<1>7. CASE DayCallRefused
  <2>1. /\ UNCHANGED <<fdmsVars, state, storageVars, now>> /\ pc \in {"open", "close"}
        /\ pc' = "idle" /\ answer' = None /\ answer # None /\ sent' = sent /\ late' = late
    BY <1>7 DEF DayCallRefused, worldVars
  <2>2. call = "none" /\ at = "top" /\ sent' = None /\ late' = <<>>
    BY <1>1, <2>1 DEF PlaceInv, CallFits
  <2> QED
    BY <1>1, <2>1, <2>2, GivesUpInStep
<1> QED
  BY <1>2, <1>3, <1>4, <1>5, <1>6, <1>7 DEF DeviceGoesOn

\* A sale into a day that is not open would be a mishap, and so would one
\* from a day that was never stored, or a call that misses one.
LEMMA CallBeginsInStep ==
  ASSUME QueueTypeInv, NEW n \in committed..Len(journal), InStepAt(n),
         Enqueue \/ SubmitOrEnqueue \/ Flush, Undisturbed'
  PROVE  InStepAt(n)'
<1>1. PICK operation \in {"enqueue", "sale", "flush"} : Begin(operation)
  BY DEF Enqueue, SubmitOrEnqueue, Flush
<1>2. state = None => queue' = <<>> /\ (loaded \/ (dayState = None /\ pending = None))
  <2>1. "calledDayless" \notin mishaps' /\ "calledDayless" \in Mishaps
    BY DEF Undisturbed, Mishaps
  <2> QED
    BY <1>1, <2>1 DEF Begin, ReconcileDue
<1>3. operation # "flush" /\ state # None => status = "FiscalDayOpened" /\ dayState # None
  <2>1. "soldClosed" \notin mishaps' /\ "soldClosed" \in Mishaps
    BY DEF Undisturbed, Mishaps
  <2>2. "soldUnstored" \notin mishaps' /\ "soldUnstored" \in Mishaps
    BY DEF Undisturbed, Mishaps
  <2> QED
    BY <1>1, <2>1, <2>2 DEF Begin
<1>4. CASE state = None
  BY <1>1, <1>2, <1>4, BeginInVainInStep
<1>5. CASE state # None
  BY <1>1, <1>3, <1>5, BeginInStep
<1> QED
  BY <1>4, <1>5

\* A record that cannot be appended is not sold; every other failure of the
\* journal is a mishap.
LEMMA JournalFailsInStep ==
  ASSUME QueueTypeInv, NEW n \in committed..Len(journal), InStepAt(n), JournalFails, Undisturbed'
  PROVE  InStepAt(n)' /\ UNCHANGED <<journal, committed>>
<1>1. PlaceInv(n) /\ CallFits
  BY DEF InStepAt, QueueTypeInv
<1>2. at = "sign" /\ UNCHANGED <<journal, committed, signed>>
  BY DEF JournalFails, Undisturbed, Mishaps, journalVars
<1>3. /\ UNCHANGED <<fdmsVars, state, pc, storageVars, sent, answer, late, now>>
      /\ UNCHANGED <<queue, loaded>> /\ call' = "none" /\ at' = "top"
  BY <1>2 DEF JournalFails, Return, wireVars
<1>4. pc = "idle"
  BY <1>1, <1>2 DEF CallFits
<1>5. pc' = "idle" /\ sent' = None /\ answer' = None /\ late' = <<>>
  BY <1>1, <1>3, <1>4 DEF PlaceInv
<1> QED
  BY <1>2, <1>3, <1>4, <1>5, GivesUpInStep

\* The list holds no unsigned entry once it is loaded.
LEMMA HeadIsSigned ==
  ASSUME QueueTypeInv, NEW n \in committed..Len(journal), InStepAt(n)
  PROVE  ~SubmitUnsignedHead
BY HeadOfList DEF SubmitUnsignedHead, Flushing

-----------------------------------------------------------------------------
(* QueueOrderInv is inductive.                                             *)

\* Nothing undoes a mishap.
LEMMA InitQueueOrder == QueueInit => QueueOrderInv
<1> SUFFICES ASSUME QueueInit
             PROVE  QueueOrderInv
  OBVIOUS
<1>1. /\ Init /\ journal = <<>> /\ committed = 0 /\ queue = <<>> /\ loaded = FALSE
      /\ call = "none" /\ at = "top" /\ Len(journal) = 0
  BY DEF QueueInit
<1>2. /\ state = None /\ pc = "idle" /\ dayState = None /\ pending = None /\ lastGlobal = 0
      /\ sent = None /\ answer = None /\ late = <<>> /\ receipts = <<>> /\ dayStart = 0
      /\ status = "FiscalDayClosed" /\ Len(receipts) = 0
  BY <1>1 DEF Init, FdmsInit
<1>3. BookInv
  BY <1>1, InitOrder DEF OrderInv
<1>4. NothingWaits /\ ~HeadRecorded /\ RecordedTo = 0 /\ ~HeadMarked /\ ~MarkerRecorded /\ NumberAt(0) = 0
  BY <1>1, <1>2 DEF NothingWaits, HeadRecorded, RecordedTo, HeadMarked, MarkerRecorded, NumberAt
<1>5. JournalInv(0) /\ MarkerInv /\ MemoryInv(0) /\ StoredInv(0) /\ NumberInv(0)
  BY <1>1, <1>2, <1>4 DEF JournalInv, MarkerInv, MemoryInv, StoredInv, NumberInv
<1>6. StatusInv /\ PlaceInv(0) /\ StageInv(0) /\ ListInv(0)
  BY <1>1, <1>2, <1>4 DEF StatusInv, PlaceInv, StageInv, ListInv
<1>7. 0 \in committed..Len(journal)
  BY <1>1
<1> QED
  BY <1>3, <1>5, <1>6, <1>7 DEF InStepAt, QueueOrderInv

LEMMA NextQueueOrder ==
  QueueTypeInv /\ QueueTypeInv' /\ Orderly /\ QueueOrderInv /\ [QueueNext]_allVars => QueueOrderInv'
<1> SUFFICES ASSUME QueueTypeInv, QueueTypeInv', Orderly, QueueOrderInv, [QueueNext]_allVars, Undisturbed'
             PROVE  \E m \in (committed..Len(journal))' : InStepAt(m)'
  BY DEF QueueOrderInv
<1>1. Undisturbed
  BY MishapsStay DEF Undisturbed
<1>2. PICK n \in committed..Len(journal) : InStepAt(n)
  BY <1>1 DEF QueueOrderInv
<1>3. n \in Nat /\ committed \in Nat /\ Len(journal) \in Nat /\ committed' \in Nat /\ Len(journal') \in Nat
  BY <1>2, StepTypes, JournalTypes DEF QueueTypeInv, QueueTypes
\* Most steps leave the journal alone and keep n.
<1>4. ASSUME UNCHANGED <<journal, committed>>, InStepAt(n)'
      PROVE  \E m \in (committed..Len(journal))' : InStepAt(m)'
  BY <1>4
<1>5. CASE EarlierVersionQueues
  <2>1. n = committed' /\ InStepAt(n)'
    BY <1>2, <1>5, EarlierVersionInStep
  <2>2. n \in (committed..Len(journal))'
    BY <1>3, <2>1 DEF QueueTypeInv, QueueTypes
  <2> QED
    BY <2>1, <2>2
<1>6. CASE UpgradeEntry \/ TakeSigned \/ TakeUnanswered
  <2>1. PICK m : m = n + 1
    OBVIOUS
  <2>2. m \in Nat /\ m <= Len(journal)' /\ committed' <= m /\ InStepAt(m)'
    BY <1>2, <1>6, <2>1, UpgradeEntryInStep, TakeSignedInStep, TakeUnansweredInStep
  <2>3. m \in (committed..Len(journal))'
    BY <1>3, <2>2
  <2> QED
    BY <2>2, <2>3
<1>7. CASE CommitHead
  <2>1. committed' <= n /\ InStepAt(n)' /\ journal' = journal
    BY <1>2, <1>7, CommitHeadInStep DEF CommitHead
  <2>2. n \in (committed..Len(journal))'
    BY <1>2, <1>3, <2>1
  <2> QED
    BY <2>1, <2>2
<1>8. CASE Enqueue \/ SubmitOrEnqueue \/ Flush
  BY <1>2, <1>4, <1>8, CallBeginsInStep DEF Enqueue, SubmitOrEnqueue, Flush, Begin, journalVars
<1>9. CASE EntryUpgraded \/ Taken
  BY <1>2, <1>4, <1>9, EntryUpgradedInStep, TakenInStep DEF EntryUpgraded, Taken, journalVars
<1>10. CASE EnqueueRefused \/ HeadBlocked \/ FlushReturns
  BY <1>2, <1>4, <1>10, QueueGivesUpInStep DEF EnqueueRefused, HeadBlocked, FlushReturns, journalVars
<1>11. CASE SubmitHead \/ SubmitUnsignedHead \/ SettleHead \/ SubmitSale
  BY <1>2, <1>4, <1>11, SubmitHeadInStep, HeadIsSigned, SettleHeadInStep, SubmitSaleInStep
     DEF SubmitHead, SettleHead, SubmitSale, journalVars
<1>12. CASE DeviceGoesOn \/ DeviceDone \/ DeviceRefused
  BY <1>2, <1>4, <1>12, DeviceGoesOnInStep, DeviceDoneInStep, DeviceRefusedInStep
     DEF DeviceGoesOn, DeviceDone, DeviceRefused, queueVars, journalVars
<1>13. CASE NoOutcome \/ DeviceStorageFails
  BY <1>2, <1>4, <1>13, DeviceGivesUpInStep DEF NoOutcome, DeviceStorageFails, journalVars
<1>14. CASE JournalFails
  BY <1>2, <1>4, <1>14, JournalFailsInStep
<1>15. CASE ProcessDies
  BY <1>2, <1>4, <1>15, ProcessDiesInStep DEF ProcessDies, journalVars
<1>16. CASE AppReconcile \/ AppCloses \/ AppOpensOrClears
  BY <1>2, <1>4, <1>16, AppReconcileInStep, AppClosesInStep, AppOpensOrClearsInStep
     DEF AppReconcile, AppCloses, AppOpensOrClears, queueVars, journalVars
<1>17. CASE World
  BY <1>2, <1>4, <1>17, WorldInStep DEF World, queueVars, journalVars
<1>18. CASE UNCHANGED allVars
  BY <1>2, <1>4, <1>18, ClockInStep DEF allVars, vars, queueVars, journalVars, worldVars
<1> QED
  BY <1>5, <1>6, <1>7, <1>8, <1>9, <1>10, <1>11, <1>12, <1>13, <1>14, <1>15, <1>16, <1>17, <1>18
     DEF QueueNext, QueueGoesOn

LEMMA QueueOrderInvariance ==
  ASSUME Orderly
  PROVE  QueueSpec => [](QueueShape /\ QueueOrderInv)
<1>1. QueueInit => QueueShape /\ QueueOrderInv
  BY InitQueueShape, InitQueueOrder
<1>2. QueueShape /\ QueueOrderInv /\ [QueueNext]_allVars => (QueueShape /\ QueueOrderInv)'
  <2> SUFFICES ASSUME QueueShape, QueueOrderInv, [QueueNext]_allVars
               PROVE  QueueShape' /\ QueueOrderInv'
    OBVIOUS
  <2>1. QueueShape'
    BY NextQueueShape
  <2>2. Intact' => Intact /\ QueueTypeInv /\ QueueTypeInv'
    <3>1. Intact' => Intact
      BY MishapsStay DEF Intact
    <3> QED
      BY <3>1, TypeOfShape, NextQueueType
  <2>3. Undisturbed' => Intact'
    BY DEF Undisturbed, Intact
  <2>4. Intact' => QueueOrderInv'
    BY <2>2, NextQueueOrder
  <2>5. ~Undisturbed' => QueueOrderInv'
    BY DEF QueueOrderInv
  <2> QED
    BY <2>1, <2>3, <2>4, <2>5
<1> QED
  BY <1>1, <1>2, PTL DEF QueueSpec

\* What an undisturbed state owes to both.
LEMMA UndisturbedFits ==
  QueueShape /\ QueueOrderInv /\ Undisturbed =>
    QueueTypeInv /\ \E n \in committed..Len(journal) : InStepAt(n)
<1>1. Undisturbed => Intact
  BY DEF Undisturbed, Intact
<1> QED
  BY <1>1, TypeOfShape DEF QueueOrderInv

-----------------------------------------------------------------------------
(* What follows from the invariant.                                        *)

\* Only FDMS itself moves its status.
LEMMA OnlyFdmsActs ==
  ASSUME [QueueNext]_allVars, status' # status
  PROVE  FdmsAnswers \/ DaySettles
<1>1. CASE EarlierVersionQueues
  BY <1>1 DEF EarlierVersionQueues, vars, fdmsVars
<1>2. CASE Enqueue \/ SubmitOrEnqueue \/ Flush
  BY <1>2 DEF Enqueue, SubmitOrEnqueue, Flush, Begin, fdmsVars
<1>3. CASE UpgradeEntry \/ EntryUpgraded \/ TakeSigned \/ EnqueueRefused \/ TakeUnanswered \/ Taken
  BY <1>3 DEF UpgradeEntry, EntryUpgraded, TakeSigned, EnqueueRefused, TakeUnanswered, Take, Taken,
              vars, fdmsVars
<1>4. CASE SubmitHead \/ SubmitUnsignedHead \/ SettleHead \/ HeadBlocked \/ CommitHead
  BY <1>4 DEF SubmitHead, SubmitUnsignedHead, SubmitReceipt, SettleHead, ReconcileConfirmed,
              ReconcileResubmit, HeadBlocked, CommitHead, vars, fdmsVars
<1>5. CASE SubmitSale \/ FlushReturns
  BY <1>5 DEF SubmitSale, SubmitReceipt, FlushReturns, vars, fdmsVars
<1>6. CASE DeviceGoesOn \/ DeviceDone \/ DeviceRefused
  BY <1>6 DEF DeviceGoesOn, SubmitAnswered, SaveDayState, SaveLastGlobal, OpenAnswered, CloseAnswered,
              DayCallRefused, DeviceDone, ClearPending, DeviceRefused, SubmitRefused, fdmsVars
<1>7. CASE NoOutcome \/ DeviceStorageFails \/ JournalFails \/ ProcessDies
  BY <1>7 DEF NoOutcome, OutcomeUnknown, DeviceStorageFails, StorageFails, JournalFails, ProcessDies,
              Crash, fdmsVars
<1>8. CASE AppReconcile \/ AppCloses \/ AppOpensOrClears
  BY <1>8 DEF AppReconcile, Reconcile, ReconcileNothing, ReconcileConfirmed, ReconcileResubmit,
              AppCloses, CloseDay, AppOpensOrClears, OpenDay, ClearPersistedState, fdmsVars
<1>9. CASE World
  BY <1>9 DEF World, FdmsRefuses, Tick, fdmsVars
<1>10. CASE UNCHANGED allVars
  BY <1>10 DEF allVars, vars, fdmsVars
<1> QED
  BY <1>1, <1>2, <1>3, <1>4, <1>5, <1>6, <1>7, <1>8, <1>9, <1>10 DEF QueueNext, QueueGoesOn

\* The greatest number up to which the records that wait are signed.
LEMMA ToSendIs ==
  ASSUME QueueTypes, NEW n \in committed..Len(journal), JournalInv(n)
  PROVE  /\ Len(ToSend) = n - committed
         /\ \A i \in 1..(n - committed) : ToSend[i] = journal[committed + i] /\ IsPrepared(ToSend[i])
         /\ ToSend \in Seq(PreparedReceipt \cup Unsigned)
<1> DEFINE U == Uncommitted
           k == n - committed
           S == {i \in DOMAIN U : IsPrepared(U[i])} \cup {0}
<1>1. /\ Len(journal) \in Nat /\ committed \in Nat /\ n \in Nat /\ committed <= n /\ n <= Len(journal)
      /\ k \in Nat /\ k <= Len(journal) - committed
  BY JournalTypes
<1>2. /\ U \in Seq(PreparedReceipt \cup Unsigned) /\ Len(U) = Len(journal) - committed
      /\ \A i \in 1..(Len(journal) - committed) : U[i] = journal[committed + i]
  BY UncommittedType DEF QueueTypes
<1>3. \A j \in (committed + 1)..n : IsPrepared(journal[j])
  <2> SUFFICES ASSUME NEW j \in (committed + 1)..n
               PROVE  IsPrepared(journal[j])
    OBVIOUS
  <2>1. j \in (RecordedTo + 1)..n \/ (HeadRecorded /\ j = committed + 1)
    BY <1>1, JournalTypes DEF RecordedTo
  <2> QED
    BY <2>1 DEF JournalInv, HeadRecorded
<1>4. \A j \in (n + 1)..Len(journal) : ~IsPrepared(journal[j])
  BY DEF JournalInv
<1>5. \A i \in DOMAIN U : IsPrepared(U[i]) <=> i <= k
  <2> SUFFICES ASSUME NEW i \in DOMAIN U
               PROVE  IsPrepared(U[i]) <=> i <= k
    OBVIOUS
  <2>1. i \in 1..(Len(journal) - committed) /\ U[i] = journal[committed + i]
    BY <1>2
  <2>2. i <= k => committed + i \in (committed + 1)..n
    BY <1>1, <2>1
  <2>3. ~(i <= k) => committed + i \in (n + 1)..Len(journal)
    BY <1>1, <2>1
  <2> QED
    BY <1>3, <1>4, <2>1, <2>2, <2>3
<1>6. S = 0..k
  <2>1. DOMAIN U = 1..(Len(journal) - committed)
    BY <1>2
  <2>2. \A i : i \in 0..k <=> (i \in 1..(Len(journal) - committed) /\ i <= k) \/ i = 0
    BY <1>1
  <2> QED
    BY <1>5, <2>1, <2>2
<1>7. Max(S) = k
  <2> HIDE DEF S, k
  <2>1. k \in 0..k /\ \A y \in 0..k : k >= y
    BY <1>1
  <2>2. \A x \in 0..k : (\A y \in 0..k : x >= y) => x = k
    BY <1>1
  <2>3. Max(S) \in 0..k /\ \A y \in 0..k : Max(S) >= y
    BY <1>6, <2>1 DEF Max
  <2> QED
    BY <2>2, <2>3
<1>8. ToSend = SubSeq(U, 1, k)
  BY <1>7 DEF ToSend
<1> HIDE DEF S, U
<1>9. /\ ToSend \in Seq(PreparedReceipt \cup Unsigned) /\ Len(ToSend) = k
      /\ \A i \in 1..k : ToSend[i] = U[i]
  <2>1. k <= Len(U) /\ Len(U) \in Nat
    BY <1>1, <1>2
  <2> HIDE DEF k
  <2> QED
    BY <1>1, <1>2, <1>8, <2>1
<1>10. \A i \in 1..k : i \in DOMAIN U /\ U[i] = journal[committed + i] /\ IsPrepared(U[i])
  <2> SUFFICES ASSUME NEW i \in 1..k
               PROVE  i \in DOMAIN U /\ U[i] = journal[committed + i] /\ IsPrepared(U[i])
    OBVIOUS
  <2>1. i \in 1..(Len(journal) - committed) /\ i <= k
    BY <1>1
  <2>2. i \in DOMAIN U
    BY <1>1, <1>2, <2>1
  <2> QED
    BY <1>2, <1>5, <2>1, <2>2
<1> QED
  BY <1>9, <1>10

\* What FDMS's counters will be is what the states after the records say.
LEMMA TotalAfterIs ==
  ASSUME QueueTypes, NEW n \in committed..Len(journal), JournalInv(n), RecordedTo = committed
  PROVE  TotalAfter[Len(ToSend)] = CountersAt(n)
<1> DEFINE k == Len(ToSend)
           F(f) == [i \in 0..k |-> IF i = 0 THEN dayTotal ELSE f[i - 1] + ToSend[i].receipt.amount]
           g == [i \in 0..k |-> CountersAt(committed + i)]
<1>1. /\ committed \in Nat /\ n \in Nat /\ k \in Nat /\ committed + k = n
      /\ \A i \in 1..k : ToSend[i] = journal[committed + i]
  BY ToSendIs, JournalTypes
<1>2. TotalAfter = CHOOSE f : f = F(f)
  BY DEF TotalAfter
<1> HIDE DEF k
<1>3. ASSUME NEW i \in 1..k
      PROVE  CountersAt(committed + i) = CountersAt(committed + (i - 1)) + ToSend[i].receipt.amount
  <2>1. PICK j : j = committed + i
    OBVIOUS
  <2>2. j \in (RecordedTo + 1)..n /\ j # RecordedTo /\ j - 1 = committed + (i - 1)
    BY <1>1, <2>1
  <2>3. Follows(journal[j], j)
    BY <2>2 DEF JournalInv
  <2>4. CountersAt(j) = CountersAt(j - 1) + journal[j].receipt.amount
    BY <2>2, <2>3 DEF Follows, CountersAt
  <2> QED
    BY <1>1, <2>1, <2>2, <2>4
<1>4. CountersAt(committed + 0) = dayTotal
  BY <1>1 DEF CountersAt
<1>5. g = F(g)
  <2>1. \A i \in 0..k : g[i] = IF i = 0 THEN dayTotal ELSE g[i - 1] + ToSend[i].receipt.amount
    <3> SUFFICES ASSUME NEW i \in 0..k
                 PROVE  g[i] = IF i = 0 THEN dayTotal ELSE g[i - 1] + ToSend[i].receipt.amount
      OBVIOUS
    <3>1. CASE i = 0
      BY <1>1, <1>4, <3>1
    <3>2. CASE i # 0
      <4>1. i \in 1..k /\ i - 1 \in 0..k
        BY <1>1, <3>2
      <4> QED
        BY <1>3, <3>2, <4>1
    <3> QED
      BY <3>1, <3>2
  <2> QED
    BY <2>1
<1>6. TotalAfter = F(TotalAfter)
  BY <1>2, <1>5
<1>7. \A i \in 0..k : TotalAfter[i] = CountersAt(committed + i)
  <2> DEFINE T == {i \in 0..k : TotalAfter[i] # CountersAt(committed + i)}
  <2>1. SUFFICES ASSUME T # {}
                 PROVE  FALSE
    OBVIOUS
  <2>2. T \in SUBSET Nat
    BY <1>1
  <2>3. PICK m \in T : \A i \in T : m <= i
    BY <2>1, <2>2, LeastNatural
  <2>4. m \in 0..k /\ TotalAfter[m] # CountersAt(committed + m)
    BY <2>3
  <2>5. TotalAfter[m] = IF m = 0 THEN dayTotal ELSE TotalAfter[m - 1] + ToSend[m].receipt.amount
    BY <1>6, <2>4
  <2>6. m # 0
    BY <1>1, <1>4, <2>4, <2>5
  <2>7. m \in 1..k /\ m - 1 \in 0..k /\ m - 1 \notin T
    BY <1>1, <2>3, <2>4, <2>6
  <2>8. TotalAfter[m - 1] = CountersAt(committed + (m - 1))
    BY <2>7
  <2> QED
    BY <1>3, <2>4, <2>5, <2>6, <2>7, <2>8
<1> QED
  BY <1>1, <1>7 DEF k

\* FitsAt(s, n) is what AgreesWithQueue(s) asks for.
LEMMA FitsAgrees ==
  ASSUME QueueTypeInv, BookInv, NEW n \in committed..Len(journal), JournalInv(n),
         RecordedTo = committed, NEW s, FitsAt(s, n)
  PROVE  AgreesWithQueue(s)
<1> DEFINE k == n - committed
<1>1. /\ QueueTypes /\ TypeOK /\ committed \in Nat /\ n \in Nat /\ k \in Nat /\ n = committed + k
  BY JournalTypes DEF QueueTypeInv, QueueTypes
<1>2. /\ Len(ToSend) = k /\ ToSend \in Seq(PreparedReceipt \cup Unsigned)
      /\ \A i \in 1..k : ToSend[i] = journal[committed + i] /\ IsPrepared(ToSend[i])
  BY <1>1, ToSendIs
<1>3. HighestGlobalNo = Len(receipts)
  BY <1>1, HighestIsLen DEF TypeOK
<1>4. s.receiptCounter = DayReceiptCount + k /\ s.receiptGlobalNo = Len(receipts) + k
  BY DEF FitsAt, CounterAt, NumberAt
<1>5. s.counters = TotalAfter[Len(ToSend)] /\ s.fiscalDayNo = fiscalDayNo
  BY <1>1, TotalAfterIs DEF FitsAt
<1>6. s.previousReceiptHash = IF ToSend = <<>> THEN LastHash ELSE Last(ToSend).receipt.hash
  <2> HIDE DEF k
  <2>1. CASE k = 0
    <3>1. ToSend = <<>> /\ n = RecordedTo
      BY <1>1, <1>2, <2>1
    <3> QED
      BY <3>1 DEF FitsAt, HashAt
  <2>2. CASE k # 0
    <3>1. ToSend # <<>> /\ n # RecordedTo /\ k \in 1..k
      BY <1>1, <1>2, <2>2
    <3>2. Last(ToSend) = journal[n]
      BY <1>1, <1>2, <3>1 DEF Last
    <3> QED
      BY <3>1, <3>2 DEF FitsAt, HashAt
  <2> QED
    BY <2>1, <2>2
<1>7. \A i \in DOMAIN ToSend : IsPrepared(ToSend[i])
  <2> HIDE DEF k
  <2> QED
    BY <1>2
<1> QED
  BY <1>2, <1>3, <1>4, <1>5, <1>6, <1>7 DEF AgreesWithQueue

\* Short of a mishap FDMS colours no receipt Red for its number, its hash
\* chain or its date, however enqueue(), flush(), submitOrEnqueue(), closes and
\* restarts interleave.
THEOREM JournalKeepsSequence ==
  ASSUME Orderly
  PROVE  QueueSpec => []QueueKeepsSequence
<1>1. QueueOrderInv => QueueKeepsSequence
  BY DEF QueueOrderInv, InStepAt, BookInv, NoSequencingRed, QueueKeepsSequence
<1> QED
  BY <1>1, QueueOrderInvariance, PTL

\* Between calls, with nothing unresolved, the day the next receipt is signed
\* from - in memory, or stored and caught up by ensureLoaded() - is FDMS's plus
\* exactly what the journal still holds signed.
THEOREM JournalInStep ==
  ASSUME Orderly
  PROVE  QueueSpec => []QueueInStep
<1>1. QueueShape /\ QueueOrderInv => QueueInStep
  <2> SUFFICES ASSUME QueueShape, QueueOrderInv, Undisturbed,
                      pc = "idle", call = "none", pending = None
               PROVE  /\ state # None => AgreesWithQueue(IF loaded THEN state ELSE CaughtUp(state))
                      /\ dayState # None =>
                           AgreesWithQueue(IF loaded /\ state = None THEN dayState ELSE CaughtUp(dayState))
    BY DEF QueueInStep
  <2>0. QueueTypeInv
    BY UndisturbedFits
  <2>1. PICK n \in committed..Len(journal) : InStepAt(n)
    BY UndisturbedFits
  <2>2. BookInv /\ JournalInv(n) /\ MemoryInv(n) /\ StoredInv(n)
    BY <2>1 DEF InStepAt
  <2>3. QueueTypes /\ TypeOK /\ CallFits /\ \A s \in {state, dayState} \ {None} : s \in DayState
    <3>1. QueueTypes /\ TypeOK /\ CallFits
      BY <2>0 DEF QueueTypeInv, QueueTypes
    <3> QED
      BY <3>1 DEF TypeOK
  <2>4. at = "top" /\ None \notin PreparedReceipt
    BY <2>3, NoneIsNothing DEF CallFits
  <2>5. ~HeadRecorded /\ RecordedTo = committed
    <3>1. ASSUME HeadRecorded
          PROVE  FALSE
      <4>1. pending = journal[committed + 1] /\ IsPrepared(journal[committed + 1]) /\ ~NothingWaits
        BY <2>2, <2>4, <3>1 DEF JournalInv, HeadRecorded
      <4>2. committed + 1 \in 1..Len(journal)
        BY <2>3, <4>1, JournalTypes
      <4>3. journal[committed + 1] \in PreparedReceipt
        BY <2>3, <4>1, <4>2, JournalTypes
      <4> QED
        BY <2>4, <4>1, <4>3
    <3> QED
      BY <3>1 DEF RecordedTo
  <2>6. \A s \in {state, dayState} \ {None} :
          FitsAt(s, n) \/ (Behind(s, n) /\ ~NothingWaits /\ n = Len(journal))
    BY <2>2, <2>4 DEF MemoryInv, StoredInv, MarkerRecorded
  <2>7. \A s \in {state, dayState} \ {None} : FitsAt(CaughtUp(s), n)
    BY <2>2, <2>3, <2>6, CaughtUpFits
  <2>8. state # None /\ loaded => FitsAt(state, n)
    BY <2>2 DEF MemoryInv, MarkerRecorded
  <2>9. dayState # None /\ loaded /\ state = None => FitsAt(dayState, n)
    BY <2>2 DEF StoredInv
  <2>10. \A s : FitsAt(s, n) => AgreesWithQueue(s)
    BY <2>0, <2>2, <2>5, FitsAgrees
  <2> QED
    BY <2>7, <2>8, <2>9, <2>10
<1> QED
  BY <1>1, QueueOrderInvariance, PTL

\* Short of a mishap FDMS accepts no close that will settle while receipts
\* still wait in the journal: the counters closeDay() signs include them.
THEOREM CloseWaitsForQueue ==
  ASSUME Orderly
  PROVE  QueueSpec => DayWaitsForQueue
<1>1. QueueShape /\ QueueOrderInv /\ [QueueNext]_allVars =>
        (Undisturbed /\ status = "FiscalDayOpened" /\ status' = "FiscalDayCloseInitiated"
           /\ closingErrorCode' = "None" => Uncommitted = <<>>)
  <2> SUFFICES ASSUME QueueShape, QueueOrderInv, [QueueNext]_allVars, Undisturbed,
                      status = "FiscalDayOpened", status' = "FiscalDayCloseInitiated",
                      closingErrorCode' = "None"
               PROVE  Uncommitted = <<>>
    OBVIOUS
  <2>0. QueueTypeInv
    BY UndisturbedFits
  <2>1. PICK n \in committed..Len(journal) : InStepAt(n)
    BY UndisturbedFits
  <2>2. FdmsAnswers
    BY OnlyFdmsActs DEF DaySettles, SettleClose
  <2>3. sent # None /\ sent.endpoint = "CloseDay" /\ CloseVerdict(sent) = "None"
    BY <2>2 DEF FdmsAnswers, Handle, RecordReceipt, OpenDayAtFdms, CloseDayAtFdms, fdmsVars
  <2>4. PlaceInv(n) /\ pc \in Places /\ QueueTypes
    BY <2>0, <2>1, StepTypes DEF InStepAt, QueueTypeInv, TypeOK
  <2>5. pc = "close"
    BY <2>3, <2>4 DEF PlaceInv, Submit, Places
  <2>6. NothingWaits
    BY <2>0, <2>1, <2>3, <2>5, CloseCoversJournal
  <2> QED
    BY <2>4, <2>6, UncommittedType DEF NothingWaits, QueueTypes
<1> QED
  BY <1>1, QueueOrderInvariance, PTL DEF QueueSpec, DayWaitsForQueue

=============================================================================
