--------------------------- MODULE OfflineQueue_kept ---------------------------
(***************************************************************************)
(* The theorem about OfflineQueue that survives a receipt settled outside  *)
(* the journal: what the journal counts as submitted is in FDMS's record.  *)
(* FDMS may then hold the head twice, so nothing is known of its sequence  *)
(* any more; the invariant speaks of numbers only, and of no date, chain   *)
(* or counter but the one that makes a close bounce.                       *)
(***************************************************************************)
EXTENDS OfflineQueue_proofs

-----------------------------------------------------------------------------
(* What the invariant is about.                                            *)

\* FDMS holds the receipt of p.
Held(p) == \E j \in DOMAIN receipts : ReceiptAt(j) = p.receipt

WaitingRecords == (committed + 1)..Len(journal)

SignedRecords == {k \in WaitingRecords : IsPrepared(journal[k])}

SomeUnsigned == \E k \in WaitingRecords : ~IsPrepared(journal[k])

NumberOf(k) == journal[k].receipt.globalNo

\* While today's receipts are all sound, s counts no fewer of them than its
\* numbers have gone up since the day was opened.
CountsToday(s) ==
  /\ s.fiscalDayNo <= fiscalDayNo
  /\ s.fiscalDayNo = fiscalDayNo /\ ~DayHasRed =>
       s.receiptGlobalNo - s.receiptCounter <= HighestGlobalNo - DayReceiptCount

Sound(p) == p.stateAfter.receiptGlobalNo = p.receipt.globalNo /\ CountsToday(p.stateAfter)

\* x is not below FDMS's highest number, but for a receipt the marker still
\* has to settle.
Reaches(x) ==
  \/ HighestGlobalNo <= x
  \/ /\ pending # None /\ Held(pending)
     /\ pending.receipt.globalNo = HighestGlobalNo
     /\ status = "FiscalDayOpened"

\* x was given to a receipt that is recorded or waits in the journal.
Given(x) == x <= HighestGlobalNo \/ \E k \in SignedRecords : x <= NumberOf(k)

\* No receipt that waits has a number above x.
Covers(x) == \A k \in SignedRecords : NumberOf(k) <= x

CopyKept(s) == Reaches(s.receiptGlobalNo) /\ Given(s.receiptGlobalNo) /\ CountsToday(s)

\* Nothing waits but, at most, a head that FDMS holds.
AllSettled ==
  /\ \A k \in WaitingRecords : k = committed + 1 /\ IsPrepared(journal[k]) /\ Held(journal[k])
  /\ pending # None => HeadMarked

-----------------------------------------------------------------------------
(* The invariant.                                                          *)

\* The receipts that wait have rising numbers above FDMS's, but for a head
\* that is settled outside the journal.
JournalKept ==
  /\ \A i \in 1..committed : Held(journal[i])
  /\ \A i, k \in WaitingRecords :
       i < k /\ IsPrepared(journal[k]) => IsPrepared(journal[i]) /\ NumberOf(i) < NumberOf(k)
  /\ \A k \in SignedRecords :
       /\ Sound(journal[k])
       /\ \/ HighestGlobalNo < NumberOf(k)
          \/ k = committed + 1 /\ Held(journal[k]) /\ NumberOf(k) = HighestGlobalNo
  /\ SomeUnsigned => pending = None /\ status = "FiscalDayOpened"

\* A marked receipt that FDMS does not hold has a number of its own, and no
\* receipt that waits behind it has its number.
MarkerKept == pending # None =>
  /\ Sound(pending)
  /\ HeadMarked \/ \A k \in SignedRecords : pending.receipt.globalNo < NumberOf(k)
  /\ \/ Held(pending)
     \/ /\ HighestGlobalNo < pending.receipt.globalNo
        /\ \/ HeadMarked
           \/ /\ NothingWaits
              /\ state # None => state.receiptGlobalNo < pending.receipt.globalNo
              /\ dayState # None => dayState.receiptGlobalNo < pending.receipt.globalNo

CopiesKept ==
  /\ state # None => CopyKept(state)
  /\ dayState # None => CopyKept(dayState)
  /\ Reaches(lastGlobal) /\ Given(lastGlobal)
  /\ state # None /\ dayState # None => dayState.receiptGlobalNo <= state.receiptGlobalNo
  /\ loaded /\ state # None => Covers(state.receiptGlobalNo)
  /\ loaded /\ state = None /\ dayState # None => Covers(dayState.receiptGlobalNo)
  /\ SomeUnsigned =>
       /\ dayState # None
       /\ Covers(dayState.receiptGlobalNo) \/ (at = "upgrading" /\ pc = "saveDay")
       /\ state # None => Covers(state.receiptGlobalNo)

DaysKept ==
  /\ DayDone \/ dayState = None \/ pc = "open" => AllSettled
  /\ call \in {"enqueue", "sale"} => state = None \/ (status = "FiscalDayOpened" /\ dayState # None)

PlaceKept ==
  /\ answer # None => sent = None
  /\ pc \in {"idle", "saveDay", "saveGlobal", "clearPending"} => sent = None /\ answer = None
  /\ pc = "submit" =>
       /\ pending # None
       /\ dayState # None => state # None
       /\ sent # None => sent = Submit(pending.receipt)
       /\ answer # None /\ answer.ok => Held(pending)
       /\ answer # None /\ ~answer.ok =>
            /\ HighestGlobalNo <= lastGlobal
            /\ state # None => HighestGlobalNo <= state.receiptGlobalNo
            /\ dayState # None => HighestGlobalNo <= dayState.receiptGlobalNo
  /\ pc = "open" =>
       /\ call = "none" /\ pending = None /\ OldDayCleared /\ reported <= HighestGlobalNo
       /\ sent # None => sent.endpoint = "OpenDay"
       /\ answer # None /\ answer.ok => answer.fiscalDayNo = fiscalDayNo /\ DayReceiptCount = 0
  /\ pc = "close" =>
       /\ call = "none" /\ pending = None /\ state # None /\ ~SomeUnsigned
       /\ Covers(state.receiptGlobalNo)
       /\ dayState # None => Covers(dayState.receiptGlobalNo)
       /\ sent # None => sent = CloseBody(state)
  /\ pc \in {"saveDay", "saveGlobal", "clearPending"} =>
       /\ state # None
       /\ pending # None => pending.receipt.globalNo <= state.receiptGlobalNo
       /\ pending # None /\ at # "take" => Held(pending)
  /\ pc \in {"saveGlobal", "clearPending"} => dayState = state
  /\ pc = "clearPending" => pending # None /\ state.receiptGlobalNo <= lastGlobal

StageKept ==
  /\ call = "enqueue" => at \in {"upgrade", "upgrading", "sign", "take"}
  /\ call = "flush" => at \notin {"sign", "take", "journal", "sale"}
  /\ at = "head" => HeadMarked
  /\ at \in {"sale", "journal"} => NothingWaits
  /\ at = "journal" \/ (at = "sale" /\ pc = "submit") => state.receiptGlobalNo < pending.receipt.globalNo
  /\ at = "commit" => ~NothingWaits /\ Held(journal[committed + 1]) /\ pending = None
  /\ at = "take" => ~NothingWaits
  /\ at \in {"upgrade", "upgrading"} => pending = None
  /\ loaded /\ at \notin {"upgrade", "upgrading"} => ~SomeUnsigned

\* The list is the journal behind its cursor, but for the entry in hand.
ListKept ==
  loaded =>
    /\ Len(queue) = Len(journal) - committed - (IF at = "take" THEN 1 ELSE 0)
    /\ \A i \in DOMAIN queue :
         \/ queue[i].item = journal[committed + i]
         \/ at = "upgrading" /\ i = FirstUnsigned /\ IsPrepared(journal[committed + i])

KeptInv ==
  JournalKept /\ MarkerKept /\ CopiesKept /\ DaysKept /\ PlaceKept /\ StageKept /\ ListKept

\* The mishap it survives.
OnlySettledOutside == mishaps \subseteq {"settledOutside"}

QueueKeptInv == OnlySettledOutside => KeptInv

-----------------------------------------------------------------------------
(* Numbers.                                                                *)

\* Finitely many numbers have a highest, which is one of them or 0.
LEMMA HasHighest ==
  ASSUME NEW n \in Nat, NEW f \in [1..n -> Nat]
  PROVE  \E m \in Nat : (m = 0 \/ \E j \in 1..n : f[j] = m) /\ \A j \in 1..n : f[j] <= m
<1> DEFINE Is(m, k) == (m = 0 \/ \E j \in 1..k : f[j] = m) /\ \A j \in 1..k : f[j] <= m
           T == {k \in 0..n : ~ \E m \in Nat : Is(m, k)}
<1>0. n \in T \/ \E m \in Nat : Is(m, n)
  OBVIOUS
<1>1. SUFFICES ASSUME n \in T
               PROVE  FALSE
  BY <1>0
<1>2. PICK k \in T : \A i \in T : k <= i
  <2>1. T \in SUBSET Nat
    OBVIOUS
  <2> QED
    BY <1>1, <2>1, LeastNatural
<1>3. k \in 0..n /\ k # 0
  <2>1. Is(0, 0)
    OBVIOUS
  <2> QED
    BY <1>2, <2>1
<1>4. k - 1 \in 0..n /\ ~(k <= k - 1) /\ k \in 1..n
  BY <1>3
<1>5. PICK b \in Nat : Is(b, k - 1)
  BY <1>2, <1>4
<1>6. \A j \in 1..k : j = k \/ j \in 1..(k - 1)
  BY <1>4
<1>7. \A j \in 1..k : f[j] \in Nat
  BY <1>4
<1>8. CASE f[k] <= b
  <2>1. Is(b, k)
    BY <1>4, <1>5, <1>6, <1>8
  <2> QED
    BY <1>2, <2>1
<1>9. CASE ~(f[k] <= b)
  <2>1. f[k] \in Nat /\ b <= f[k]
    BY <1>4, <1>9
  <2>2. \A j \in 1..k : f[j] <= f[k]
    BY <1>5, <1>6, <1>7, <2>1
  <2>3. Is(f[k], k)
    BY <1>4, <2>2
  <2> QED
    BY <1>2, <2>1, <2>3
<1> QED
  BY <1>8, <1>9

\* What Max chooses in the definition of HighestGlobalNo.
LEMMA HighestIs ==
  ASSUME FdmsTypeOK
  PROVE  /\ HighestGlobalNo \in Nat /\ HighestGlobalNo \in GlobalNos \cup {0}
         /\ \A j \in DOMAIN receipts : ReceiptAt(j).globalNo \in Nat /\ ReceiptAt(j).globalNo <= HighestGlobalNo
<1> DEFINE L == Len(receipts)
           f == [j \in 1..L |-> ReceiptAt(j).globalNo]
<1>1. L \in Nat /\ DOMAIN receipts = 1..L
  BY DEF FdmsTypeOK
<1>2. \A j \in 1..L : ReceiptAt(j).globalNo \in Nat
  BY <1>1, ReceiptType DEF Receipt
<1>3. f \in [1..L -> Nat]
  BY <1>2
<1>4. \A j \in 1..L : ReceiptAt(j).globalNo = f[j]
  OBVIOUS
<1>5. GlobalNos = {f[j] : j \in 1..L}
  BY <1>1, <1>4 DEF GlobalNos
<1> HIDE DEF L, f
<1>6. PICK m \in Nat : (m = 0 \/ \E j \in 1..L : f[j] = m) /\ \A j \in 1..L : f[j] <= m
  BY <1>1, <1>3, HasHighest
<1>7. m \in GlobalNos \cup {0} /\ \A y \in GlobalNos \cup {0} : y \in Nat /\ m >= y
  BY <1>3, <1>5, <1>6
<1>8. HighestGlobalNo \in GlobalNos \cup {0} /\ \A y \in GlobalNos \cup {0} : HighestGlobalNo >= y
  BY <1>7 DEF HighestGlobalNo, Max
<1>9. \A j \in 1..L : ReceiptAt(j).globalNo \in GlobalNos
  BY <1>4, <1>5
<1> QED
  BY <1>1, <1>2, <1>7, <1>8, <1>9

\* The types of what the invariant speaks of.
LEMMA KeptTypes ==
  ASSUME QueueTypeInv
  PROVE  /\ QueueTypes /\ TypeOK /\ TypeInv /\ FdmsTypeOK /\ ListFits /\ CallFits
         /\ committed \in Nat /\ Len(journal) \in Nat /\ committed <= Len(journal)
         /\ HighestGlobalNo \in Nat /\ DayReceiptCount \in Nat /\ lastGlobal \in Nat /\ fiscalDayNo \in Nat
         /\ LastReceiptGlobalNo \in Nat /\ LastReceiptGlobalNo <= HighestGlobalNo
         /\ \A k \in WaitingRecords : k \in Nat /\ committed + 1 <= k /\ k <= Len(journal)
         /\ \A k \in SignedRecords : journal[k] \in PreparedReceipt /\ NumberOf(k) \in Nat
         /\ \A s \in {state, dayState} \ {None} : s \in DayState /\ s.receiptGlobalNo \in Nat
         /\ pending # None => /\ pending \in PreparedReceipt /\ pending.receipt.globalNo \in Nat
                              /\ pending.stateAfter \in DayState /\ IsPrepared(pending)
         /\ \A p : Held(p) => p.receipt.globalNo \in Nat /\ p.receipt.globalNo <= HighestGlobalNo
<1>1. /\ QueueTypes /\ TypeOK /\ TypeInv /\ FdmsTypeOK /\ ListFits /\ CallFits
      /\ lastGlobal \in Nat /\ fiscalDayNo \in Nat
  BY DEF QueueTypeInv, QueueTypes, TypeOK, FdmsTypeOK
<1>2. committed \in Nat /\ Len(journal) \in Nat /\ committed <= Len(journal)
  BY <1>1 DEF QueueTypes
<1>3. DayReceiptCount \in Nat
  BY <1>1 DEF DayReceiptCount, FdmsTypeOK
<1>4. \A k \in WaitingRecords : k \in Nat /\ committed + 1 <= k /\ k <= Len(journal)
  BY <1>2 DEF WaitingRecords
<1>5. \A k \in 1..Len(journal) : journal[k] \in PreparedReceipt \cup Unsigned
  BY <1>1 DEF QueueTypes
<1>6. \A k \in SignedRecords : journal[k] \in PreparedReceipt
  BY <1>2, <1>4, <1>5, SignedOrNot DEF SignedRecords
<1>7. \A p \in PreparedReceipt : p.receipt.globalNo \in Nat /\ p.stateAfter \in DayState /\ IsPrepared(p)
  BY SignedOrNot DEF PreparedReceipt, Receipt
<1>8. \A k \in SignedRecords : NumberOf(k) \in Nat
  BY <1>6, <1>7 DEF NumberOf
<1>9. \A s \in {state, dayState} \ {None} : s \in DayState /\ s.receiptGlobalNo \in Nat
  BY <1>1 DEF TypeOK, DayState
<1>10. pending # None => pending \in PreparedReceipt
  BY <1>1 DEF TypeOK
<1>11. HighestGlobalNo \in Nat
  BY <1>1, HighestIs
<1>12. \A j \in DOMAIN receipts : ReceiptAt(j).globalNo \in Nat /\ ReceiptAt(j).globalNo <= HighestGlobalNo
  BY <1>1, HighestIs
<1>13. \A p : Held(p) => p.receipt.globalNo \in Nat /\ p.receipt.globalNo <= HighestGlobalNo
  BY <1>12 DEF Held
<1>14. LastReceiptGlobalNo \in Nat /\ LastReceiptGlobalNo <= HighestGlobalNo
  BY <1>1, <1>11, <1>12, LastReceiptRecorded DEF GlobalNos
<1> QED
  BY <1>1, <1>2, <1>3, <1>4, <1>6, <1>7, <1>8, <1>9, <1>10, <1>11, <1>13, <1>14

-----------------------------------------------------------------------------
(* What the actions leave as it was.                                       *)

\* FDMS's record is the same.
LEMMA SameRecord ==
  ASSUME UNCHANGED <<receipts, dayStart>>
  PROVE  /\ HighestGlobalNo' = HighestGlobalNo /\ DayReceiptCount' = DayReceiptCount
         /\ (DayHasRed' <=> DayHasRed)
         /\ LastReceiptGlobalNo' = LastReceiptGlobalNo
         /\ (\A p : Held(p)' <=> Held(p))
<1>1. \A i : ReceiptAt(i)' = ReceiptAt(i)
  BY DEF ReceiptAt
<1>2. GlobalNos' = GlobalNos
  BY <1>1 DEF GlobalNos
<1>3. HighestGlobalNo' = HighestGlobalNo
  BY <1>2 DEF HighestGlobalNo
<1>4. DayReceiptCount' = DayReceiptCount
  BY DEF DayReceiptCount
<1>5. DayHasRed' <=> DayHasRed
  BY DEF DayHasRed
<1>6. \A p : Held(p)' <=> Held(p)
  BY <1>1 DEF Held
<1>7. LastReceiptGlobalNo' = LastReceiptGlobalNo
  <2>1. \A i : IsLatest(i)' <=> IsLatest(i)
    BY <1>1 DEF IsLatest
  <2> QED
    BY <1>1, <2>1 DEF LastReceiptGlobalNo
<1> QED
  BY <1>3, <1>4, <1>5, <1>6, <1>7

\* And so is the day.
LEMMA SameDay ==
  ASSUME UNCHANGED <<receipts, dayStart, fiscalDayNo>>
  PROVE  /\ HighestGlobalNo' = HighestGlobalNo /\ DayReceiptCount' = DayReceiptCount
         /\ (DayHasRed' <=> DayHasRed)
         /\ LastReceiptGlobalNo' = LastReceiptGlobalNo
         /\ (\A p : Held(p)' <=> Held(p))
         /\ (\A s : CountsToday(s)' <=> CountsToday(s))
         /\ (\A p : Sound(p)' <=> Sound(p))
<1>1. /\ HighestGlobalNo' = HighestGlobalNo /\ DayReceiptCount' = DayReceiptCount
      /\ (DayHasRed' <=> DayHasRed)
      /\ LastReceiptGlobalNo' = LastReceiptGlobalNo
      /\ (\A p : Held(p)' <=> Held(p))
  BY SameRecord
<1>2. \A s : CountsToday(s)' <=> CountsToday(s)
  BY <1>1 DEF CountsToday
<1>3. \A p : Sound(p)' <=> Sound(p)
  BY <1>2 DEF Sound
<1> QED
  BY <1>1, <1>2, <1>3

\* The journal and its cursor are the same.
LEMMA SameWaiting ==
  ASSUME UNCHANGED <<journal, committed>>
  PROVE  /\ WaitingRecords' = WaitingRecords /\ SignedRecords' = SignedRecords
         /\ (SomeUnsigned' <=> SomeUnsigned) /\ (NothingWaits' <=> NothingWaits)
         /\ \A k : NumberOf(k)' = NumberOf(k)
         /\ (\A x : Covers(x)' <=> Covers(x))
<1>1. WaitingRecords' = WaitingRecords
  BY DEF WaitingRecords
<1>2. SignedRecords' = SignedRecords /\ (SomeUnsigned' <=> SomeUnsigned)
  BY <1>1 DEF SignedRecords, SomeUnsigned
<1>3. \A k : NumberOf(k)' = NumberOf(k)
  BY DEF NumberOf
<1>4. \A x : Covers(x)' <=> Covers(x)
  BY <1>2, <1>3 DEF Covers
<1>5. NothingWaits' <=> NothingWaits
  BY DEF NothingWaits
<1> QED
  BY <1>1, <1>2, <1>3, <1>4, <1>5

\* All that waits, or is in doubt, is the same.
LEMMA SameDoubt ==
  ASSUME UNCHANGED <<receipts, dayStart, fiscalDayNo, status, journal, committed, pending>>
  PROVE  /\ (\A x : Reaches(x)' <=> Reaches(x))
         /\ (\A x : Given(x)' <=> Given(x))
         /\ (\A s : CopyKept(s)' <=> CopyKept(s))
         /\ (HeadMarked' <=> HeadMarked)
         /\ (AllSettled' <=> AllSettled)
         /\ (JournalKept' <=> JournalKept)
<1>1. /\ HighestGlobalNo' = HighestGlobalNo
      /\ (\A p : Held(p)' <=> Held(p))
      /\ (\A s : CountsToday(s)' <=> CountsToday(s))
      /\ (\A p : Sound(p)' <=> Sound(p))
  BY SameDay
<1>2. /\ WaitingRecords' = WaitingRecords /\ SignedRecords' = SignedRecords
      /\ (SomeUnsigned' <=> SomeUnsigned) /\ (NothingWaits' <=> NothingWaits)
      /\ \A k : NumberOf(k)' = NumberOf(k)
  BY SameWaiting
<1>3. Held(pending)' <=> Held(pending)
  BY <1>1
<1>4. \A x : Reaches(x)' <=> Reaches(x)
  BY <1>1, <1>3 DEF Reaches
<1>5. \A x : Given(x)' <=> Given(x)
  BY <1>1, <1>2 DEF Given
<1>6. \A s : CopyKept(s)' <=> CopyKept(s)
  BY <1>1, <1>4, <1>5 DEF CopyKept
<1>7. HeadMarked' <=> HeadMarked
  BY <1>2 DEF HeadMarked
<1>8. \A k : (Held(journal[k])' <=> Held(journal[k])) /\ (Sound(journal[k])' <=> Sound(journal[k]))
  BY <1>1
<1>9. AllSettled' <=> AllSettled
  BY <1>2, <1>7, <1>8 DEF AllSettled
<1>10. JournalKept' <=> JournalKept
  BY <1>1, <1>2, <1>8 DEF JournalKept
<1> QED
  BY <1>4, <1>5, <1>6, <1>7, <1>9, <1>10

\* Nothing of what Reaches() says depends on more than how far x reaches.
LEMMA ReachesUp ==
  ASSUME QueueTypeInv, NEW x \in Nat, NEW y \in Nat, x <= y, Reaches(x)
  PROVE  Reaches(y)
<1>1. HighestGlobalNo \in Nat
  BY KeptTypes
<1> QED
  BY <1>1 DEF Reaches

-----------------------------------------------------------------------------
(* A call of the device goes on, is refused or gives up.                   *)

LEMMA KeptParts ==
  KeptInv <=> /\ JournalKept /\ MarkerKept /\ CopiesKept /\ DaysKept
              /\ PlaceKept /\ StageKept /\ ListKept
BY DEF KeptInv

\* A call gives up and leaves storage as it is.  submitOrEnqueue() goes on to
\* journal its own receipt.
LEMMA GivesUpKept ==
  ASSUME QueueTypeInv, KeptInv,
         UNCHANGED <<fdmsVars, state, storageVars, journal, committed, queue, loaded>>,
         at \notin {"take", "upgrading", "upgrade"},
         pc' = "idle", sent' = None, answer' = None,
         \/ call' = "none" /\ at' = "top"
         \/ call' = "sale" /\ call = "sale" /\ at' \in {"sign", "journal"},
         at' = "journal" => at = "sale" /\ pc = "submit"
  PROVE  KeptInv'
<1>0. JournalKept /\ MarkerKept /\ CopiesKept /\ DaysKept /\ PlaceKept /\ StageKept /\ ListKept
  BY KeptParts
<1>1. UNCHANGED <<receipts, dayStart, fiscalDayNo, status, closingErrorCode, journal, committed,
                  dayState, pending, lastGlobal, state, queue, loaded>>
  BY DEF fdmsVars, storageVars
<1>2. /\ HighestGlobalNo' = HighestGlobalNo
      /\ (\A p : Held(p)' <=> Held(p)) /\ (\A p : Sound(p)' <=> Sound(p))
  BY <1>1, SameDay
<1>3. /\ SignedRecords' = SignedRecords
      /\ (SomeUnsigned' <=> SomeUnsigned) /\ (NothingWaits' <=> NothingWaits)
      /\ (\A k : NumberOf(k)' = NumberOf(k)) /\ (\A x : Covers(x)' <=> Covers(x))
  BY <1>1, SameWaiting
<1>4. /\ (\A x : Reaches(x)' <=> Reaches(x)) /\ (\A x : Given(x)' <=> Given(x))
      /\ (\A s : CopyKept(s)' <=> CopyKept(s))
      /\ (HeadMarked' <=> HeadMarked) /\ (AllSettled' <=> AllSettled)
      /\ (JournalKept' <=> JournalKept)
  BY <1>1, SameDoubt
<1>5. JournalKept'
  BY <1>0, <1>4
<1>6. MarkerKept'
  BY <1>0, <1>1, <1>2, <1>3, <1>4 DEF MarkerKept
<1>7. CopiesKept'
  BY <1>0, <1>1, <1>3, <1>4 DEF CopiesKept
<1>8. DaysKept'
  BY <1>0, <1>1, <1>4 DEF DaysKept, DayDone
<1>9. PlaceKept'
  BY DEF PlaceKept
<1>10. StageKept'
  BY <1>0, <1>1, <1>3 DEF StageKept
<1>11. ListKept'
  BY <1>0, <1>1 DEF ListKept
<1> QED
  BY <1>5, <1>6, <1>7, <1>8, <1>9, <1>10, <1>11 DEF KeptInv

\* The marker is cleared: every copy reaches FDMS's highest number without it.
LEMMA ForgetsKept ==
  ASSUME QueueTypeInv, KeptInv,
         UNCHANGED <<fdmsVars, state, dayState, lastGlobal, journal, committed, queue, loaded>>,
         pending' = None, pc' = "idle", sent' = None, answer' = None,
         HighestGlobalNo <= lastGlobal,
         state # None => HighestGlobalNo <= state.receiptGlobalNo,
         dayState # None => HighestGlobalNo <= dayState.receiptGlobalNo,
         at \notin {"take", "upgrading", "upgrade"},
         \/ call' = "none" /\ at' = "top"
         \/ call' = "sale" /\ call = "sale" /\ at' = "sign"
         \/ call' = call /\ call \in {"flush", "sale"} /\ at' = "commit" /\ HeadMarked /\ Held(pending)
  PROVE  KeptInv'
<1>0. JournalKept /\ MarkerKept /\ CopiesKept /\ DaysKept /\ PlaceKept /\ StageKept /\ ListKept
  BY KeptParts
<1>1. UNCHANGED <<receipts, dayStart, fiscalDayNo, status, closingErrorCode, journal, committed,
                  dayState, lastGlobal, state, queue, loaded>>
  BY DEF fdmsVars
<1>2. /\ HighestGlobalNo' = HighestGlobalNo
      /\ (\A p : Held(p)' <=> Held(p)) /\ (\A p : Sound(p)' <=> Sound(p))
      /\ (\A s : CountsToday(s)' <=> CountsToday(s))
  BY <1>1, SameDay
<1>3. /\ SignedRecords' = SignedRecords /\ WaitingRecords' = WaitingRecords
      /\ (SomeUnsigned' <=> SomeUnsigned) /\ (NothingWaits' <=> NothingWaits)
      /\ (\A k : NumberOf(k)' = NumberOf(k)) /\ (\A x : Covers(x)' <=> Covers(x))
  BY <1>1, SameWaiting
<1>4. \A k : (Held(journal[k])' <=> Held(journal[k])) /\ (Sound(journal[k])' <=> Sound(journal[k]))
  BY <1>1, <1>2
<1>5. JournalKept'
  BY <1>0, <1>1, <1>2, <1>3, <1>4 DEF JournalKept
<1>6. MarkerKept'
  BY DEF MarkerKept
<1>7. CopiesKept'
  <2>1. \A x : HighestGlobalNo <= x => Reaches(x)'
    BY <1>2 DEF Reaches
  <2>2. \A x : Given(x)' <=> Given(x)
    BY <1>2, <1>3 DEF Given
  <2>3. /\ state # None => CopyKept(state)'
        /\ dayState # None => CopyKept(dayState)'
    BY <1>0, <1>1, <1>2, <2>1, <2>2 DEF CopiesKept, CopyKept
  <2> QED
    BY <1>0, <1>1, <1>3, <2>1, <2>2, <2>3 DEF CopiesKept
<1>8. DaysKept'
  <2>1. AllSettled => AllSettled'
    BY <1>3, <1>4 DEF AllSettled
  <2> QED
    BY <1>0, <1>1, <2>1 DEF DaysKept, DayDone
<1>9. PlaceKept'
  BY DEF PlaceKept
<1>10. StageKept'
  BY <1>0, <1>1, <1>2, <1>3 DEF StageKept, HeadMarked
<1>11. ListKept'
  BY <1>0, <1>1 DEF ListKept
<1> QED
  BY <1>5, <1>6, <1>7, <1>8, <1>9, <1>10, <1>11 DEF KeptInv

\* Where a call of the queue can be while it submits or clears the marker.
LEMMA DeviceStages ==
  ASSUME QueueTypeInv, pc \in {"submit", "open", "close", "clearPending"}
  PROVE  /\ at \notin {"take", "upgrading", "upgrade", "journal", "commit", "sign"}
         /\ call = "none" \/ (at \in {"head", "sale"} /\ call # "none")
         /\ call \in Calls
<1>1. CallFits /\ at \in Stages /\ call \in Calls
  BY DEF QueueTypeInv, QueueTypes
<1> QED
  BY <1>1 DEF CallFits, Stages

LEMMA DeviceDoneKept ==
  ASSUME QueueTypeInv, KeptInv, DeviceDone
  PROVE  KeptInv'
<1>1. /\ pc = "clearPending" /\ pending' = None /\ pc' = "idle"
      /\ UNCHANGED <<fdmsVars, state, reported, dayState, lastGlobal, wireVars, worldVars>>
      /\ UNCHANGED <<journal, committed, queue, loaded>>
      /\ IF at = "head" THEN at' = "commit" /\ UNCHANGED call ELSE Return
  BY DEF DeviceDone, ClearPending, journalVars
<1>2. CopiesKept /\ PlaceKept /\ StageKept
  BY KeptParts
<1>3. /\ state # None /\ dayState = state /\ pending # None /\ Held(pending)
      /\ pending.receipt.globalNo <= state.receiptGlobalNo
      /\ state.receiptGlobalNo <= lastGlobal /\ sent = None /\ answer = None
      /\ Reaches(state.receiptGlobalNo)
  BY <1>1, <1>2, DeviceStages DEF PlaceKept, CopiesKept, CopyKept
<1>4. /\ HighestGlobalNo \in Nat /\ lastGlobal \in Nat
      /\ state.receiptGlobalNo \in Nat /\ pending.receipt.globalNo \in Nat
  BY <1>3, KeptTypes
<1>5. HighestGlobalNo <= state.receiptGlobalNo /\ HighestGlobalNo <= lastGlobal
  BY <1>3, <1>4 DEF Reaches
<1>6. sent' = None /\ answer' = None
  BY <1>1, <1>3 DEF wireVars
<1>7. CASE at = "head"
  <2>1. HeadMarked /\ call' = call /\ call \in {"flush", "sale"} /\ at' = "commit"
    BY <1>1, <1>2, <1>7, DeviceStages DEF StageKept, CallFits, Calls, QueueTypeInv
  <2> QED
    BY <1>1, <1>3, <1>5, <1>6, <2>1, DeviceStages, ForgetsKept
<1>8. CASE at # "head"
  BY <1>1, <1>3, <1>5, <1>6, <1>8, DeviceStages, ForgetsKept DEF Return
<1> QED
  BY <1>7, <1>8

\* An error thrown out of the device ends the call, or submitOrEnqueue() goes
\* on to queue its own receipt.
LEMMA ThrownTo ==
  ASSUME Thrown
  PROVE  \/ call' = "none" /\ at' = "top"
         \/ call' = "sale" /\ call = "sale" /\ at' = "sign"
BY DEF Thrown, FlushFails, Return

LEMMA DeviceRefusedKept ==
  ASSUME QueueTypeInv, KeptInv, DeviceRefused
  PROVE  KeptInv'
<1>1. /\ pc = "submit" /\ answer # None /\ ~answer.ok /\ pending' = None /\ answer' = None /\ pc' = "idle"
      /\ UNCHANGED <<fdmsVars, state, reported, dayState, lastGlobal, sent, late, worldVars>>
      /\ UNCHANGED <<journal, committed, queue, loaded>> /\ Thrown
  BY DEF DeviceRefused, SubmitRefused, journalVars
<1>2. PlaceKept
  BY KeptParts
<1>3. /\ HighestGlobalNo <= lastGlobal /\ sent = None
      /\ state # None => HighestGlobalNo <= state.receiptGlobalNo
      /\ dayState # None => HighestGlobalNo <= dayState.receiptGlobalNo
  BY <1>1, <1>2 DEF PlaceKept
<1> QED
  BY <1>1, <1>3, DeviceStages, ThrownTo, ForgetsKept

LEMMA NoOutcomeKept ==
  ASSUME QueueTypeInv, KeptInv, NoOutcome
  PROVE  KeptInv'
<1>1. /\ pc \in {"submit", "open", "close"} /\ pc' = "idle" /\ sent' = None /\ answer' = None
      /\ UNCHANGED <<fdmsVars, state, storageVars, journal, committed, queue, loaded>>
      /\ IF at = "sale" THEN at' = "journal" /\ UNCHANGED call ELSE Thrown
  BY DEF NoOutcome, OutcomeUnknown, AbandonCall, journalVars
<1>2. StageKept /\ at \notin {"take", "upgrading", "upgrade"}
  BY <1>1, KeptParts, DeviceStages
<1>3. CASE at = "sale"
  <2>1. call = "sale" /\ pc = "submit"
    BY <1>1, <1>2, <1>3, DeviceStages DEF StageKept, Calls, QueueTypeInv, CallFits
  <2> QED
    BY <1>1, <1>2, <1>3, <2>1, GivesUpKept
<1>4. CASE at # "sale"
  BY <1>1, <1>2, <1>4, ThrownTo, GivesUpKept
<1> QED
  BY <1>3, <1>4

\* A failing write of the device, short of one in take() or in the upgrade.
LEMMA StorageFailsKept ==
  ASSUME QueueTypeInv, KeptInv, DeviceStorageFails, OnlySettledOutside'
  PROVE  KeptInv'
<1>1. /\ pc \in {"saveDay", "saveGlobal", "clearPending"} /\ pc' = "idle"
      /\ UNCHANGED <<fdmsVars, state, storageVars, wireVars, journal, committed, queue, loaded>>
      /\ Thrown /\ at \notin {"take", "upgrading"}
  BY DEF DeviceStorageFails, StorageFails, journalVars, OnlySettledOutside
<1>2. sent' = None /\ answer' = None
  BY <1>1, KeptParts DEF PlaceKept, wireVars
<1>3. at # "upgrade"
  BY <1>1 DEF QueueTypeInv, CallFits
<1> QED
  BY <1>1, <1>2, <1>3, ThrownTo, GivesUpKept

\* commit() fails: the head stays in the journal though it is settled.  What
\* enqueue() cannot append it has not sold.
LEMMA JournalFailsKept ==
  ASSUME QueueTypeInv, KeptInv, JournalFails, OnlySettledOutside'
  PROVE  KeptInv'
<1>1. /\ \/ at = "commit" /\ FlushFails
         \/ at = "sign" /\ Return
      /\ UNCHANGED <<fdmsVars, state, pc, storageVars, wireVars, journal, committed, queue, loaded>>
  BY DEF JournalFails, journalVars, OnlySettledOutside, Mishaps
<1>2. pc = "idle"
  BY <1>1 DEF QueueTypeInv, CallFits
<1>3. sent' = None /\ answer' = None
  BY <1>1, <1>2, KeptParts DEF PlaceKept, wireVars
<1>4. \/ call' = "none" /\ at' = "top"
      \/ call' = "sale" /\ call = "sale" /\ at' = "sign"
  BY <1>1 DEF FlushFails, Return
<1> QED
  BY <1>1, <1>2, <1>3, <1>4, GivesUpKept

\* A call of the queue that returns, or stops flushing, of its own accord.
LEMMA QueueGivesUpKept ==
  ASSUME QueueTypeInv, KeptInv, EnqueueRefused \/ HeadBlocked \/ FlushReturns
  PROVE  KeptInv'
<1>1. /\ UNCHANGED <<vars, journal, committed, queue, loaded>> /\ at \in {"sign", "top"}
      /\ \/ call' = "none" /\ at' = "top"
         \/ call' = "sale" /\ call = "sale" /\ at' = "sign"
  BY DEF EnqueueRefused, HeadBlocked, FlushReturns, Flushing, FlushFails, Return, journalVars
<1>2. pc = "idle"
  BY DEF QueueTypeInv, CallFits, EnqueueRefused, HeadBlocked, FlushReturns, Flushing
<1>3. sent' = None /\ answer' = None /\ pc' = "idle" /\ UNCHANGED <<fdmsVars, state, storageVars>>
  BY <1>1, <1>2, KeptParts DEF PlaceKept, vars, wireVars
<1> QED
  BY <1>1, <1>3, GivesUpKept

-----------------------------------------------------------------------------
(* Storage follows memory.                                                 *)

LEMMA SameFirst ==
  ASSUME queue' = queue
  PROVE  FirstUnsigned' = FirstUnsigned
BY DEF FirstUnsigned, SelectInSeq

LEMMA SaveDayStateKept ==
  ASSUME QueueTypeInv, KeptInv, SaveDayState, UNCHANGED queueVars
  PROVE  KeptInv'
<1>0. JournalKept /\ MarkerKept /\ CopiesKept /\ DaysKept /\ PlaceKept /\ StageKept /\ ListKept
  BY KeptParts
<1>1. /\ UNCHANGED <<receipts, dayStart, fiscalDayNo, status, closingErrorCode, journal, committed,
                     pending, lastGlobal, state, queue, loaded, call, at, sent, answer>>
      /\ pc = "saveDay" /\ dayState' = state /\ pc' = "saveGlobal"
  BY DEF SaveDayState, fdmsVars, wireVars, queueVars, journalVars
<1>2. /\ HighestGlobalNo' = HighestGlobalNo
      /\ (\A p : Held(p)' <=> Held(p)) /\ (\A p : Sound(p)' <=> Sound(p))
  BY <1>1, SameDay
<1>3. /\ SignedRecords' = SignedRecords
      /\ (SomeUnsigned' <=> SomeUnsigned) /\ (NothingWaits' <=> NothingWaits)
      /\ (\A k : NumberOf(k)' = NumberOf(k)) /\ (\A x : Covers(x)' <=> Covers(x))
  BY <1>1, SameWaiting
<1>4. /\ (\A x : Reaches(x)' <=> Reaches(x)) /\ (\A x : Given(x)' <=> Given(x))
      /\ (\A s : CopyKept(s)' <=> CopyKept(s))
      /\ (HeadMarked' <=> HeadMarked) /\ (AllSettled' <=> AllSettled)
      /\ (JournalKept' <=> JournalKept)
  BY <1>1, SameDoubt
<1>5. /\ state # None /\ sent = None /\ answer = None
      /\ pending # None => pending.receipt.globalNo <= state.receiptGlobalNo
      /\ pending # None /\ at # "take" => Held(pending)
  BY <1>0, <1>1 DEF PlaceKept
<1>6. state.receiptGlobalNo \in Nat
  BY <1>5, KeptTypes
<1>7. MarkerKept'
  BY <1>0, <1>1, <1>2, <1>3, <1>4, <1>5 DEF MarkerKept
<1>8. CopiesKept'
  BY <1>0, <1>1, <1>3, <1>4, <1>5, <1>6 DEF CopiesKept
<1>9. DaysKept'
  BY <1>0, <1>1, <1>4, <1>5 DEF DaysKept, DayDone
<1>10. PlaceKept'
  BY <1>1, <1>2, <1>5 DEF PlaceKept
<1>11. StageKept'
  BY <1>0, <1>1, <1>2, <1>3, <1>4 DEF StageKept
<1>12. ListKept'
  BY <1>0, <1>1, SameFirst DEF ListKept
<1> QED
  BY <1>0, <1>4, <1>7, <1>8, <1>9, <1>10, <1>11, <1>12 DEF KeptInv

\* What all three places that store the highest number have in common.
LEMMA RaisedKept ==
  ASSUME QueueTypeInv, KeptInv, pc = "saveGlobal",
         UNCHANGED <<fdmsVars, state, dayState, pending, journal, committed, loaded>>,
         lastGlobal' = IF state.receiptGlobalNo > lastGlobal THEN state.receiptGlobalNo ELSE lastGlobal
  PROVE  /\ JournalKept' /\ MarkerKept' /\ CopiesKept'
         /\ state # None /\ state.receiptGlobalNo <= lastGlobal'
<1>0. JournalKept /\ MarkerKept /\ CopiesKept /\ PlaceKept
  BY KeptParts
<1>1. UNCHANGED <<receipts, dayStart, fiscalDayNo, status, journal, committed, dayState, pending, state>>
  BY DEF fdmsVars
<1>2. /\ HighestGlobalNo' = HighestGlobalNo
      /\ (\A p : Held(p)' <=> Held(p)) /\ (\A p : Sound(p)' <=> Sound(p))
  BY <1>1, SameDay
<1>3. /\ SignedRecords' = SignedRecords
      /\ (SomeUnsigned' <=> SomeUnsigned) /\ (NothingWaits' <=> NothingWaits)
      /\ (\A k : NumberOf(k)' = NumberOf(k)) /\ (\A x : Covers(x)' <=> Covers(x))
  BY <1>1, SameWaiting
<1>4. /\ (\A x : Reaches(x)' <=> Reaches(x)) /\ (\A x : Given(x)' <=> Given(x))
      /\ (\A s : CopyKept(s)' <=> CopyKept(s))
      /\ (HeadMarked' <=> HeadMarked) /\ (JournalKept' <=> JournalKept)
  BY <1>1, SameDoubt
<1>5. state # None /\ dayState = state
  BY <1>0 DEF PlaceKept
<1>6. /\ state.receiptGlobalNo \in Nat /\ lastGlobal \in Nat
      /\ Reaches(state.receiptGlobalNo) /\ Given(state.receiptGlobalNo)
      /\ Reaches(lastGlobal) /\ Given(lastGlobal)
  BY <1>0, <1>5, KeptTypes DEF CopiesKept, CopyKept
<1>7. MarkerKept'
  BY <1>0, <1>1, <1>2, <1>3, <1>4 DEF MarkerKept
<1>8. /\ Reaches(lastGlobal') /\ Given(lastGlobal') /\ state.receiptGlobalNo <= lastGlobal'
  BY <1>6
<1>9. Reaches(lastGlobal)' /\ Given(lastGlobal)'
  BY <1>4, <1>8
<1>10. loaded => Covers(state.receiptGlobalNo)
  BY <1>0, <1>5 DEF CopiesKept
<1>11. CopiesKept'
  <2>1. SomeUnsigned => /\ dayState # None /\ Covers(dayState.receiptGlobalNo)
                        /\ Covers(state.receiptGlobalNo)
    BY <1>0, <1>5 DEF CopiesKept
  <2>2. CopyKept(state)' /\ CopyKept(dayState)'
    BY <1>0, <1>1, <1>4, <1>5 DEF CopiesKept
  <2>3. /\ Covers(state.receiptGlobalNo)' <=> Covers(state.receiptGlobalNo)
        /\ Covers(dayState.receiptGlobalNo)' <=> Covers(dayState.receiptGlobalNo)
    BY <1>1, <1>3
  <2> QED
    BY <1>0, <1>1, <1>3, <1>5, <1>6, <1>9, <1>10, <2>1, <2>2, <2>3 DEF CopiesKept
<1> QED
  BY <1>0, <1>4, <1>5, <1>7, <1>8, <1>11

LEMMA SaveLastGlobalKept ==
  ASSUME QueueTypeInv, KeptInv, SaveLastGlobal, at \notin {"take", "upgrading"}, UNCHANGED queueVars
  PROVE  KeptInv'
<1>0. JournalKept /\ MarkerKept /\ CopiesKept /\ DaysKept /\ PlaceKept /\ StageKept /\ ListKept
  BY KeptParts
<1>1. /\ pc = "saveGlobal" /\ pc' = IF pending = None THEN "idle" ELSE "clearPending"
      /\ lastGlobal' = IF state.receiptGlobalNo > lastGlobal THEN state.receiptGlobalNo ELSE lastGlobal
      /\ UNCHANGED <<fdmsVars, receipts, dayStart, fiscalDayNo, status, closingErrorCode, journal,
                     committed, dayState, pending, state, queue, loaded, call, at, sent, answer>>
  BY DEF SaveLastGlobal, fdmsVars, wireVars, queueVars, journalVars
<1>2. /\ JournalKept' /\ MarkerKept' /\ CopiesKept'
      /\ state # None /\ state.receiptGlobalNo <= lastGlobal'
  BY <1>1, RaisedKept
<1>3. (\A p : Held(p)' <=> Held(p)) /\ (\A p : Sound(p)' <=> Sound(p))
  BY <1>1, SameDay
<1>4. (SomeUnsigned' <=> SomeUnsigned) /\ (NothingWaits' <=> NothingWaits)
  BY <1>1, SameWaiting
<1>5. (HeadMarked' <=> HeadMarked) /\ (AllSettled' <=> AllSettled)
  BY <1>1, SameDoubt
<1>6. /\ sent = None /\ answer = None /\ dayState = state
      /\ pending # None => pending.receipt.globalNo <= state.receiptGlobalNo /\ Held(pending)
  BY <1>0, <1>1 DEF PlaceKept
<1>7. DaysKept'
  BY <1>0, <1>1, <1>2, <1>5 DEF DaysKept, DayDone
<1>8. PlaceKept'
  BY <1>1, <1>2, <1>3, <1>6 DEF PlaceKept
<1>9. StageKept'
  BY <1>0, <1>1, <1>3, <1>4, <1>5 DEF StageKept
<1>10. ListKept'
  BY <1>0, <1>1, SameFirst DEF ListKept
<1> QED
  BY <1>2, <1>7, <1>8, <1>9, <1>10 DEF KeptInv

-----------------------------------------------------------------------------
(* Memory follows FDMS.                                                    *)

\* What a receipt that FDMS has leaves of the state it is committed to.
LEMMA CommittedIs ==
  ASSUME NEW s \in DayState \cup {None}, NEW p \in PreparedReceipt, NEW red \in BOOLEAN
  PROVE  LET c == CommittedState(s, p, red)
         IN  /\ c \in DayState
             /\ \/ /\ s # None /\ p.receipt.globalNo <= s.receiptGlobalNo
                   /\ c.fiscalDayNo = s.fiscalDayNo /\ c.receiptGlobalNo = s.receiptGlobalNo
                   /\ c.receiptCounter = s.receiptCounter
                \/ /\ s = None \/ s.receiptGlobalNo < p.receipt.globalNo
                   /\ c.fiscalDayNo = p.stateAfter.fiscalDayNo
                   /\ c.receiptGlobalNo = p.stateAfter.receiptGlobalNo
                   /\ c.receiptCounter = p.stateAfter.receiptCounter
<1> DEFINE t == IF s = None THEN p.stateAfter
                ELSE IF s.receiptGlobalNo < p.receipt.globalNo THEN p.stateAfter ELSE s
           c == CommittedState(s, p, red)
<1>1. t \in DayState
  BY DEF PreparedReceipt
<1>2. c \in DayState
  BY CommittedStateType
<1>3. c = IF red THEN [t EXCEPT !.redErrors = @ \cup {p.receipt.globalNo}] ELSE t
  BY DEF CommittedState
<1>4. \/ /\ s # None /\ p.receipt.globalNo <= s.receiptGlobalNo /\ t = s
      \/ /\ s = None \/ s.receiptGlobalNo < p.receipt.globalNo
         /\ t = p.stateAfter
  <2>1. p.receipt.globalNo \in Nat /\ (s # None => s.receiptGlobalNo \in Nat)
    BY DEF PreparedReceipt, Receipt, DayState
  <2> QED
    BY <2>1
<1> HIDE DEF t
<1>5. /\ c.fiscalDayNo = t.fiscalDayNo /\ c.receiptGlobalNo = t.receiptGlobalNo
      /\ c.receiptCounter = t.receiptCounter
  BY <1>1, <1>3 DEF DayState
<1> HIDE DEF c
<1> QED
  BY <1>2, <1>4, <1>5 DEF c

\* Once all is settled, nothing unsigned waits and what waits has FDMS's
\* highest number.
LEMMA SettledIs ==
  ASSUME QueueTypeInv, JournalKept, AllSettled
  PROVE  /\ ~SomeUnsigned
         /\ \A k \in SignedRecords : k = committed + 1 /\ Held(journal[k]) /\ NumberOf(k) = HighestGlobalNo
         /\ Covers(HighestGlobalNo)
<1>1. \A k \in SignedRecords : k = committed + 1 /\ Held(journal[k])
  BY DEF AllSettled, SignedRecords
<1>2. \A k \in SignedRecords : NumberOf(k) <= HighestGlobalNo /\ NumberOf(k) \in Nat
  BY <1>1, KeptTypes DEF NumberOf
<1>3. HighestGlobalNo \in Nat
  BY KeptTypes
<1>4. \A k \in SignedRecords : NumberOf(k) = HighestGlobalNo
  BY <1>2, <1>3 DEF JournalKept
<1> QED
  BY <1>1, <1>2, <1>4 DEF AllSettled, SomeUnsigned, Covers

\* A receipt that waits unmarked, or is marked, is not above Covers()'s x.
LEMMA CoversUp ==
  ASSUME QueueTypeInv, NEW x \in Int, NEW y \in Int, x <= y, Covers(x)
  PROVE  Covers(y)
BY KeptTypes DEF Covers

\* SubmitAnswered: the receipt FDMS has is committed in memory.
\* ReconcileConfirmed, in flush() or called by the application, does the same
\* to the state it has loaded.
LEMMA CommitsKept ==
  ASSUME QueueTypeInv, KeptInv,
         UNCHANGED <<fdmsVars, storageVars, journal, committed, queue, loaded, call>>,
         pending # None, Held(pending),
         NEW s \in DayState \cup {None}, NEW red \in BOOLEAN,
         state' = CommittedState(s, pending, red),
         s = state \/ (state = None /\ s = dayState),
         s = None => dayState = None,
         pc' = "saveDay", sent' = None, answer' = None,
         at \notin {"commit", "take", "upgrading", "upgrade", "journal"},
         call # "none" => state # None,
         at' = at \/ (at' = "head" /\ HeadMarked /\ call \in {"flush", "sale"})
  PROVE  KeptInv'
<1>0. JournalKept /\ MarkerKept /\ CopiesKept /\ DaysKept /\ PlaceKept /\ StageKept /\ ListKept
  BY KeptParts
<1>1. UNCHANGED <<receipts, dayStart, fiscalDayNo, status, closingErrorCode, journal, committed,
                  dayState, pending, lastGlobal, queue, loaded, call>>
  BY DEF fdmsVars, storageVars
<1>2. /\ HighestGlobalNo' = HighestGlobalNo
      /\ (\A p : Held(p)' <=> Held(p)) /\ (\A p : Sound(p)' <=> Sound(p))
      /\ (\A x : CountsToday(x)' <=> CountsToday(x))
  BY <1>1, SameDay
<1>3. /\ SignedRecords' = SignedRecords
      /\ (SomeUnsigned' <=> SomeUnsigned) /\ (NothingWaits' <=> NothingWaits)
      /\ (\A k : NumberOf(k)' = NumberOf(k)) /\ (\A x : Covers(x)' <=> Covers(x))
  BY <1>1, SameWaiting
<1>4. /\ (\A x : Reaches(x)' <=> Reaches(x)) /\ (\A x : Given(x)' <=> Given(x))
      /\ (\A x : CopyKept(x)' <=> CopyKept(x))
      /\ (HeadMarked' <=> HeadMarked) /\ (AllSettled' <=> AllSettled)
      /\ (JournalKept' <=> JournalKept)
  BY <1>1, SameDoubt
<1> DEFINE c == CommittedState(s, pending, red)
<1>5. pending \in PreparedReceipt /\ Sound(pending) /\ ~SomeUnsigned
  BY <1>0, KeptTypes DEF MarkerKept, JournalKept
<1>6. /\ c \in DayState
      /\ \/ /\ s # None /\ pending.receipt.globalNo <= s.receiptGlobalNo
            /\ c.fiscalDayNo = s.fiscalDayNo /\ c.receiptGlobalNo = s.receiptGlobalNo
            /\ c.receiptCounter = s.receiptCounter
         \/ /\ s = None \/ s.receiptGlobalNo < pending.receipt.globalNo
            /\ c.fiscalDayNo = pending.stateAfter.fiscalDayNo
            /\ c.receiptGlobalNo = pending.stateAfter.receiptGlobalNo
            /\ c.receiptCounter = pending.stateAfter.receiptCounter
  BY <1>5, CommittedIs
<1> HIDE DEF c
<1>7. state' = c /\ c # None
  BY <1>6, NoneIsNothing DEF c
<1>8. /\ pending.stateAfter.receiptGlobalNo = pending.receipt.globalNo
      /\ CountsToday(pending.stateAfter)
      /\ pending.receipt.globalNo \in Nat /\ HighestGlobalNo \in Nat
      /\ pending.receipt.globalNo <= HighestGlobalNo
      /\ c.receiptGlobalNo \in Nat
      /\ s # None => s.receiptGlobalNo \in Nat
  BY <1>5, <1>6, KeptTypes DEF Sound, DayState
\* The state it starts from, when there is one.
<1>9. s # None =>
        /\ CopyKept(s)
        /\ dayState # None => dayState.receiptGlobalNo <= s.receiptGlobalNo
        /\ loaded => Covers(s.receiptGlobalNo)
  BY <1>0, <1>8 DEF CopiesKept
\* Without one only the head can wait, and the marker is its.
<1>10. s = None =>
         /\ HighestGlobalNo <= pending.receipt.globalNo
         /\ Covers(pending.receipt.globalNo)
  <2> SUFFICES ASSUME s = None
               PROVE  HighestGlobalNo <= pending.receipt.globalNo /\ Covers(pending.receipt.globalNo)
    OBVIOUS
  <2>1. AllSettled /\ HeadMarked
    BY <1>0 DEF DaysKept, AllSettled
  <2>2. committed + 1 \in SignedRecords
    <3>1. IsPrepared(journal[committed + 1]) /\ ~NothingWaits
      BY <1>5, <2>1, SignedOrNot DEF HeadMarked
    <3>2. committed + 1 \in WaitingRecords
      BY <3>1, KeptTypes DEF WaitingRecords, NothingWaits
    <3> QED
      BY <3>1, <3>2 DEF SignedRecords
  <2>3. NumberOf(committed + 1) = pending.receipt.globalNo
    BY <2>1 DEF NumberOf, HeadMarked
  <2>4. pending.receipt.globalNo = HighestGlobalNo /\ Covers(HighestGlobalNo)
    BY <1>0, <2>1, <2>2, <2>3, SettledIs
  <2> QED
    BY <1>8, <2>4
<1>11. /\ s # None => s.receiptGlobalNo <= c.receiptGlobalNo
       /\ pending.receipt.globalNo <= c.receiptGlobalNo
       /\ c.receiptGlobalNo = pending.receipt.globalNo \/ (s # None /\ c.receiptGlobalNo = s.receiptGlobalNo)
  BY <1>6, <1>8
<1>12. CopyKept(c)
  <2>1. Reaches(c.receiptGlobalNo)
    <3>1. CASE s # None
      BY <1>8, <1>9, <1>11, <3>1, ReachesUp DEF CopyKept
    <3>2. CASE s = None
      BY <1>8, <1>10, <1>11, <3>2 DEF Reaches
    <3> QED
      BY <3>1, <3>2
  <2>2. Given(c.receiptGlobalNo)
    <3>1. Given(pending.receipt.globalNo)
      BY <1>8 DEF Given
    <3> QED
      BY <1>9, <1>11, <3>1 DEF CopyKept
  <2>3. CountsToday(c)
    <3>1. s # None => CountsToday(s)
      BY <1>9 DEF CopyKept
    <3> QED
      BY <1>6, <1>8, <3>1 DEF CountsToday
  <2> QED
    BY <2>1, <2>2, <2>3 DEF CopyKept
<1>13. loaded => Covers(c.receiptGlobalNo)
  <2>1. CASE s # None
    BY <1>8, <1>9, <1>11, <2>1, CoversUp
  <2>2. CASE s = None
    BY <1>8, <1>10, <1>11, <2>2, CoversUp
  <2> QED
    BY <2>1, <2>2
<1>14. dayState # None => dayState.receiptGlobalNo <= c.receiptGlobalNo
  <2> SUFFICES ASSUME dayState # None
               PROVE  dayState.receiptGlobalNo <= c.receiptGlobalNo
    OBVIOUS
  <2>1. s # None /\ dayState.receiptGlobalNo <= s.receiptGlobalNo
    BY <1>9
  <2>2. dayState.receiptGlobalNo \in Nat
    BY KeptTypes
  <2> QED
    BY <1>8, <1>11, <2>1, <2>2
<1>15. MarkerKept'
  BY <1>0, <1>1, <1>2, <1>3, <1>4 DEF MarkerKept
<1>16. CopiesKept'
  <2>1. CopyKept(state)' /\ (loaded => Covers(state.receiptGlobalNo)')
    BY <1>3, <1>4, <1>7, <1>12, <1>13
  <2>2. dayState # None => CopyKept(dayState)'
    BY <1>0, <1>1, <1>4 DEF CopiesKept
  <2>3. Reaches(lastGlobal)' /\ Given(lastGlobal)'
    BY <1>0, <1>1, <1>4 DEF CopiesKept
  <2> QED
    BY <1>1, <1>3, <1>5, <1>7, <1>14, <2>1, <2>2, <2>3 DEF CopiesKept
<1>17. DaysKept'
  BY <1>0, <1>1, <1>4 DEF DaysKept, DayDone
<1>18. PlaceKept'
  BY <1>1, <1>2, <1>7, <1>11 DEF PlaceKept
<1>19. StageKept'
  BY <1>0, <1>1, <1>3, <1>4, <1>5 DEF StageKept
<1>20. ListKept'
  BY <1>0, <1>1 DEF ListKept
<1> QED
  BY <1>0, <1>4, <1>15, <1>16, <1>17, <1>18, <1>19, <1>20 DEF KeptInv

LEMMA SubmitAnsweredKept ==
  ASSUME QueueTypeInv, KeptInv, SubmitAnswered, UNCHANGED queueVars
  PROVE  KeptInv'
<1>1. /\ pc = "submit" /\ answer # None /\ answer.ok /\ pc' = "saveDay" /\ answer' = None
      /\ state' = CommittedState(state, pending, answer.red)
      /\ UNCHANGED <<fdmsVars, storageVars, sent, journal, committed, queue, loaded, call, at>>
  BY DEF SubmitAnswered, queueVars, journalVars
<1>2. answer.red \in BOOLEAN /\ state \in DayState \cup {None}
  BY <1>1, KeptTypes DEF TypeOK, Answer
<1>3. /\ pending # None /\ Held(pending) /\ sent = None
      /\ state = None => dayState = None
  BY <1>1, KeptParts DEF PlaceKept
<1>4. /\ at \notin {"commit", "take", "upgrading", "upgrade", "journal"}
      /\ call # "none" => state # None
  BY <1>1, DeviceStages, KeptTypes DEF CallFits, InVain
<1> QED
  BY <1>1, <1>2, <1>3, <1>4, CommitsKept

-----------------------------------------------------------------------------
(* The day opens and closes.                                               *)

LEMMA OpenAnsweredKept ==
  ASSUME QueueTypeInv, KeptInv, OpenAnswered, UNCHANGED queueVars
  PROVE  KeptInv'
<1>0. JournalKept /\ MarkerKept /\ CopiesKept /\ DaysKept /\ PlaceKept /\ StageKept /\ ListKept
  BY KeptParts
<1>1. /\ pc = "open" /\ answer # None /\ answer.ok /\ pc' = "saveDay" /\ answer' = None
      /\ state' = NewDayState(answer.fiscalDayNo, OpeningGlobalNo)
      /\ UNCHANGED <<receipts, dayStart, fiscalDayNo, status, closingErrorCode, journal, committed,
                     dayState, pending, lastGlobal, queue, loaded, call, at, sent>>
  BY DEF OpenAnswered, fdmsVars, storageVars, queueVars, journalVars
<1>2. /\ HighestGlobalNo' = HighestGlobalNo
      /\ (\A p : Held(p)' <=> Held(p)) /\ (\A p : Sound(p)' <=> Sound(p))
  BY <1>1, SameDay
<1>3. /\ SignedRecords' = SignedRecords
      /\ (SomeUnsigned' <=> SomeUnsigned) /\ (NothingWaits' <=> NothingWaits)
      /\ (\A k : NumberOf(k)' = NumberOf(k)) /\ (\A x : Covers(x)' <=> Covers(x))
  BY <1>1, SameWaiting
<1>4. /\ (\A x : Reaches(x)' <=> Reaches(x)) /\ (\A x : Given(x)' <=> Given(x))
      /\ (\A x : CopyKept(x)' <=> CopyKept(x))
      /\ (HeadMarked' <=> HeadMarked) /\ (AllSettled' <=> AllSettled)
      /\ (JournalKept' <=> JournalKept)
  BY <1>1, SameDoubt
<1>5. /\ call = "none" /\ pending = None /\ state = None /\ dayState = None /\ reported <= HighestGlobalNo
      /\ answer.fiscalDayNo = fiscalDayNo /\ DayReceiptCount = 0 /\ sent = None
  BY <1>0, <1>1 DEF PlaceKept, OldDayCleared
<1>6. AllSettled /\ ~SomeUnsigned /\ Covers(HighestGlobalNo)
  BY <1>0, <1>1, SettledIs DEF DaysKept
<1>7. /\ HighestGlobalNo \in Nat /\ lastGlobal \in Nat /\ reported \in Nat /\ fiscalDayNo \in Nat
      /\ at = "top"
  BY <1>5, KeptTypes DEF TypeOK, CallFits
<1>8. lastGlobal = HighestGlobalNo
  <2>1. HighestGlobalNo <= lastGlobal
    BY <1>0, <1>5 DEF CopiesKept, Reaches
  <2>2. \A k \in SignedRecords : NumberOf(k) = HighestGlobalNo
    BY <1>0, <1>6, SettledIs
  <2>3. lastGlobal <= HighestGlobalNo
    BY <1>0, <2>2 DEF CopiesKept, Given
  <2> QED
    BY <1>7, <2>1, <2>3
<1>9. OpeningGlobalNo = HighestGlobalNo
  BY <1>5, <1>7, <1>8 DEF OpeningGlobalNo
<1>10. /\ state' = NewDayState(fiscalDayNo, HighestGlobalNo) /\ state' \in DayState
       /\ state'.receiptGlobalNo = HighestGlobalNo /\ state'.receiptCounter = 0
       /\ state'.fiscalDayNo = fiscalDayNo
  BY <1>1, <1>5, <1>7, <1>9 DEF NewDayState, DayState
<1>11. state' # None
  BY <1>10, NoneIsNothing
<1>12. CopyKept(state')
  BY <1>5, <1>7, <1>10 DEF CopyKept, Reaches, Given, CountsToday
<1>13. MarkerKept'
  BY <1>1, <1>5 DEF MarkerKept
<1>14. CopiesKept'
  <2>1. CopyKept(state)' /\ Covers(state.receiptGlobalNo)'
    BY <1>3, <1>4, <1>6, <1>10, <1>12
  <2>2. Reaches(lastGlobal)' /\ Given(lastGlobal)'
    BY <1>0, <1>1, <1>4 DEF CopiesKept
  <2> QED
    BY <1>1, <1>3, <1>5, <1>6, <1>11, <2>1, <2>2 DEF CopiesKept
<1>15. DaysKept'
  BY <1>1, <1>4, <1>5, <1>6 DEF DaysKept
<1>16. PlaceKept'
  BY <1>1, <1>5, <1>11 DEF PlaceKept
<1>17. StageKept'
  BY <1>1, <1>3, <1>5, <1>6, <1>7 DEF StageKept
<1>18. ListKept'
  BY <1>0, <1>1, <1>7 DEF ListKept
<1> QED
  BY <1>0, <1>4, <1>13, <1>14, <1>15, <1>16, <1>17, <1>18 DEF KeptInv

\* The day in memory is forgotten: when a close is answered, and by a restart,
\* which forgets what it has read of the journal too.
LEMMA MemoryForgottenKept ==
  ASSUME QueueTypeInv, KeptInv,
         UNCHANGED <<fdmsVars, storageVars, journal, committed>>,
         state' = None, pc' = "idle", sent' = None, answer' = None, call' = "none", at' = "top",
         \/ loaded' = FALSE /\ queue' = <<>>
         \/ pc = "close" /\ UNCHANGED <<loaded, queue>>,
         SomeUnsigned => ~(at = "upgrading" /\ pc = "saveDay")
  PROVE  KeptInv'
<1>0. JournalKept /\ MarkerKept /\ CopiesKept /\ DaysKept /\ PlaceKept /\ StageKept /\ ListKept
  BY KeptParts
<1>1. UNCHANGED <<receipts, dayStart, fiscalDayNo, status, closingErrorCode, journal, committed,
                  dayState, pending, lastGlobal>>
  BY DEF fdmsVars, storageVars
<1>2. /\ HighestGlobalNo' = HighestGlobalNo
      /\ (\A p : Held(p)' <=> Held(p)) /\ (\A p : Sound(p)' <=> Sound(p))
  BY <1>1, SameDay
<1>3. /\ SignedRecords' = SignedRecords
      /\ (SomeUnsigned' <=> SomeUnsigned) /\ (NothingWaits' <=> NothingWaits)
      /\ (\A k : NumberOf(k)' = NumberOf(k)) /\ (\A x : Covers(x)' <=> Covers(x))
  BY <1>1, SameWaiting
<1>4. /\ (\A x : Reaches(x)' <=> Reaches(x)) /\ (\A x : Given(x)' <=> Given(x))
      /\ (\A x : CopyKept(x)' <=> CopyKept(x))
      /\ (HeadMarked' <=> HeadMarked) /\ (AllSettled' <=> AllSettled)
      /\ (JournalKept' <=> JournalKept)
  BY <1>1, SameDoubt
<1>5. loaded' =>
        /\ pc = "close" /\ loaded /\ queue' = queue /\ ~SomeUnsigned
        /\ dayState # None => Covers(dayState.receiptGlobalNo)
  BY <1>0 DEF PlaceKept
<1>6. pc = "close" => at \notin {"take", "upgrading"}
  BY DeviceStages
<1>7. MarkerKept'
  BY <1>0, <1>1, <1>2, <1>3, <1>4 DEF MarkerKept
<1>8. CopiesKept'
  <2>1. dayState # None => CopyKept(dayState)'
    BY <1>0, <1>1, <1>4 DEF CopiesKept
  <2>2. Reaches(lastGlobal)' /\ Given(lastGlobal)'
    BY <1>0, <1>1, <1>4 DEF CopiesKept
  <2>3. SomeUnsigned => dayState # None /\ Covers(dayState.receiptGlobalNo)
    BY <1>0 DEF CopiesKept
  <2> QED
    BY <1>1, <1>3, <1>5, <2>1, <2>2, <2>3 DEF CopiesKept
<1>9. DaysKept'
  BY <1>0, <1>1, <1>4 DEF DaysKept, DayDone
<1>10. PlaceKept'
  BY DEF PlaceKept
<1>11. StageKept'
  BY <1>3, <1>5 DEF StageKept
<1>12. ListKept'
  BY <1>0, <1>1, <1>5, <1>6 DEF ListKept
<1> QED
  BY <1>0, <1>4, <1>7, <1>8, <1>9, <1>10, <1>11, <1>12 DEF KeptInv

LEMMA CloseAnsweredKept ==
  ASSUME QueueTypeInv, KeptInv, CloseAnswered, UNCHANGED queueVars
  PROVE  KeptInv'
<1>1. /\ pc = "close" /\ answer # None /\ state' = None /\ pc' = "idle" /\ answer' = None
      /\ UNCHANGED <<fdmsVars, storageVars, sent, journal, committed, queue, loaded, call, at>>
  BY DEF CloseAnswered, queueVars, journalVars
<1>2. call = "none" /\ sent = None
  BY <1>1, KeptParts DEF PlaceKept
<1>3. at = "top"
  BY <1>2 DEF QueueTypeInv, CallFits
<1> QED
  BY <1>1, <1>2, <1>3, MemoryForgottenKept

LEMMA DayCallRefusedKept ==
  ASSUME QueueTypeInv, KeptInv, DayCallRefused, UNCHANGED queueVars
  PROVE  KeptInv'
<1>1. /\ pc \in {"open", "close"} /\ answer # None /\ pc' = "idle" /\ answer' = None
      /\ UNCHANGED <<fdmsVars, state, storageVars, sent, journal, committed, queue, loaded, call, at>>
  BY DEF DayCallRefused, queueVars, journalVars
<1>2. call = "none" /\ sent = None
  BY <1>1, KeptParts DEF PlaceKept
<1>3. at = "top"
  BY <1>2 DEF QueueTypeInv, CallFits
<1> QED
  BY <1>1, <1>2, <1>3, GivesUpKept

LEMMA DeviceGoesOnKept ==
  ASSUME QueueTypeInv, KeptInv, DeviceGoesOn
  PROVE  KeptInv'
BY SubmitAnsweredKept, SaveDayStateKept, SaveLastGlobalKept, OpenAnsweredKept, CloseAnsweredKept,
   DayCallRefusedKept DEF DeviceGoesOn

-----------------------------------------------------------------------------
(* The list, read from the journal.                                        *)

\* What ensureLoaded() reads.
LEMMA ReadIs ==
  ASSUME QueueTypeInv
  PROVE  /\ ReadJournal \in Seq(Item) /\ Len(ReadJournal) = Len(journal) - committed
         /\ \A i \in DOMAIN ReadJournal : ReadJournal[i].item = journal[committed + i]
         /\ Uncommitted # <<>> <=> ~NothingWaits
         /\ ~NothingWaits => /\ Len(journal) \in WaitingRecords
                             /\ Last(Uncommitted) = journal[Len(journal)]
<1>1. /\ committed \in Nat /\ Len(journal) \in Nat /\ committed <= Len(journal)
      /\ journal \in Seq(PreparedReceipt \cup Unsigned) /\ committed \in 0..Len(journal)
  BY KeptTypes DEF QueueTypes
<1>2. PICK n \in Nat : n = Len(journal) - committed
  BY <1>1
<1>3. /\ ReadJournal \in Seq(Item) /\ Len(ReadJournal) = n
      /\ \A i \in 1..n : ReadJournal[i] = [cursor |-> committed + i - 1, item |-> journal[committed + i]]
      /\ Uncommitted \in Seq(PreparedReceipt \cup Unsigned) /\ Len(Uncommitted) = n
      /\ \A i \in 1..n : Uncommitted[i] = journal[committed + i]
  BY <1>1, <1>2, UncommittedType
<1>4. \A i \in DOMAIN ReadJournal : ReadJournal[i].item = journal[committed + i]
  BY <1>3
<1>5. Uncommitted # <<>> <=> ~NothingWaits
  BY <1>1, <1>2, <1>3 DEF NothingWaits
<1>6. ASSUME ~NothingWaits
      PROVE  /\ Len(journal) \in WaitingRecords
             /\ Last(Uncommitted) = journal[Len(journal)]
  <2>1. n \in 1..n /\ committed + n = Len(journal) /\ committed + 1 <= Len(journal)
    BY <1>1, <1>2, <1>6 DEF NothingWaits
  <2>2. Last(Uncommitted) = journal[Len(journal)]
    BY <1>3, <2>1 DEF Last
  <2> QED
    BY <1>1, <2>1, <2>2 DEF WaitingRecords
<1> QED
  BY <1>2, <1>3, <1>4, <1>5, <1>6

\* A list that is the journal behind its cursor is signed if the journal is.
LEMMA ListIsSigned ==
  ASSUME QueueTypeInv, NEW items \in Seq(Item), Len(items) = Len(journal) - committed,
         \A i \in DOMAIN items : items[i].item = journal[committed + i]
  PROVE  AllSigned(items) <=> ~SomeUnsigned
<1>1. committed \in Nat /\ Len(journal) \in Nat /\ committed <= Len(journal)
  BY KeptTypes
<1>2. DOMAIN items = 1..(Len(journal) - committed)
  OBVIOUS
<1>3. ASSUME NEW i \in DOMAIN items
      PROVE  committed + i \in WaitingRecords
  BY <1>1, <1>2 DEF WaitingRecords
<1>4. ASSUME NEW k \in WaitingRecords
      PROVE  k - committed \in DOMAIN items /\ committed + (k - committed) = k
  BY <1>1, <1>2 DEF WaitingRecords
<1>5. \A k \in WaitingRecords : items[k - committed].item = journal[k]
  BY <1>4
<1> QED
  BY <1>3, <1>4, <1>5 DEF AllSigned, SomeUnsigned

\* The process dies, short of the middle of an upgrade.
LEMMA ProcessDiesKept ==
  ASSUME QueueTypeInv, KeptInv, ProcessDies, OnlySettledOutside'
  PROVE  KeptInv'
<1>1. /\ state' = None /\ pc' = "idle" /\ sent' = None /\ answer' = None
      /\ queue' = <<>> /\ loaded' = FALSE /\ call' = "none" /\ at' = "top"
      /\ UNCHANGED <<fdmsVars, storageVars, journal, committed>>
      /\ ~(at = "upgrading" /\ pc = "saveDay" /\ ~AllSigned(ReadJournal))
  BY DEF ProcessDies, Crash, AbandonCall, Return, journalVars, OnlySettledOutside
<1>2. AllSigned(ReadJournal) <=> ~SomeUnsigned
  BY ReadIs, ListIsSigned
<1> QED
  BY <1>1, <1>2, MemoryForgottenKept

\* applyPrepared() is done: the receipt joins the list (take()).
LEMMA TakenKept ==
  ASSUME QueueTypeInv, KeptInv, Taken
  PROVE  KeptInv'
<1>0. JournalKept /\ MarkerKept /\ CopiesKept /\ DaysKept /\ PlaceKept /\ StageKept /\ ListKept
  BY KeptParts
<1>1. /\ at = "take" /\ pc = "saveGlobal" /\ pc' = "idle" /\ call' = "none" /\ at' = "top"
      /\ lastGlobal' = IF state.receiptGlobalNo > lastGlobal THEN state.receiptGlobalNo ELSE lastGlobal
      /\ queue' = Append(queue, [cursor |-> committed + Len(queue), item |-> Last(journal)])
      /\ UNCHANGED <<fdmsVars, receipts, dayStart, fiscalDayNo, status, closingErrorCode, journal,
                     committed, dayState, pending, state, loaded, sent, answer>>
  BY DEF Taken, Return, fdmsVars, wireVars, journalVars
<1>2. JournalKept' /\ MarkerKept' /\ CopiesKept'
  BY <1>1, RaisedKept
<1>3. (SomeUnsigned' <=> SomeUnsigned) /\ (AllSettled' <=> AllSettled)
  BY <1>1, SameWaiting, SameDoubt
<1>4. sent = None /\ answer = None
  BY <1>0, <1>1 DEF PlaceKept
<1>5. DaysKept'
  BY <1>0, <1>1, <1>3 DEF DaysKept, DayDone
<1>6. PlaceKept'
  BY <1>1, <1>4 DEF PlaceKept
<1>7. StageKept'
  BY <1>0, <1>1, <1>3 DEF StageKept
<1>8. ListKept'
  <2>1. /\ committed \in Nat /\ Len(journal) \in Nat /\ queue \in Seq(Item) /\ Len(queue) \in Nat /\ loaded
        /\ committed + Len(queue) < Len(journal)
    BY <1>1, KeptTypes DEF QueueTypes, ListFits, CallFits
  <2>2. /\ Len(queue) = Len(journal) - committed - 1
        /\ \A i \in 1..Len(queue) : queue[i].item = journal[committed + i]
    BY <1>0, <1>1, <2>1 DEF ListKept
  <2>3. Last(journal) = journal[Len(journal)] /\ Len(journal) = committed + (Len(queue) + 1)
    BY <2>1, <2>2 DEF Last
  <2>4. /\ Len(queue') = Len(queue) + 1 /\ DOMAIN queue' = 1..(Len(queue) + 1)
        /\ \A i \in 1..Len(queue) : queue'[i] = queue[i]
        /\ queue'[Len(queue) + 1].item = Last(journal)
    <3>1. Last(journal) \in PreparedReceipt \cup Unsigned
      BY <2>1 DEF Last, QueueTypeInv, QueueTypes
    <3> QED
      BY <1>1, <2>1, <3>1 DEF Item
  <2>5. \A i \in DOMAIN queue' : queue'[i].item = journal[committed + i]
    <3>1. \A i \in 1..(Len(queue) + 1) : i \in 1..Len(queue) \/ i = Len(queue) + 1
      BY <2>1
    <3> QED
      BY <2>2, <2>3, <2>4, <3>1
  <2>6. Len(queue') = Len(journal) - committed
    BY <2>1, <2>2, <2>4
  <2> QED
    BY <1>1, <2>1, <2>5, <2>6 DEF ListKept
<1> QED
  BY <1>2, <1>5, <1>6, <1>7, <1>8 DEF KeptInv

\* An entry of the snapshot is signed: the list shows it now.
LEMMA EntryUpgradedKept ==
  ASSUME QueueTypeInv, KeptInv, EntryUpgraded
  PROVE  KeptInv'
<1>0. JournalKept /\ MarkerKept /\ CopiesKept /\ DaysKept /\ PlaceKept /\ StageKept /\ ListKept
  BY KeptParts
<1>1. /\ at = "upgrading" /\ pc = "saveGlobal" /\ pc' = "idle"
      /\ lastGlobal' = IF state.receiptGlobalNo > lastGlobal THEN state.receiptGlobalNo ELSE lastGlobal
      /\ queue' = [queue EXCEPT ![FirstUnsigned].item = journal[queue[FirstUnsigned].cursor + 1]]
      /\ at' = IF AllSigned(queue') THEN StageOf(call) ELSE "upgrade"
      /\ UNCHANGED <<fdmsVars, receipts, dayStart, fiscalDayNo, status, closingErrorCode, journal,
                     committed, dayState, pending, state, loaded, call, sent, answer>>
  BY DEF EntryUpgraded, EntryRecord, fdmsVars, wireVars, journalVars
<1>2. JournalKept' /\ MarkerKept' /\ CopiesKept'
  BY <1>1, RaisedKept
<1>3. (SomeUnsigned' <=> SomeUnsigned) /\ (AllSettled' <=> AllSettled)
  BY <1>1, SameWaiting, SameDoubt
<1>4. sent = None /\ answer = None /\ pending = None /\ call # "none" /\ call \in Calls
  BY <1>0, <1>1, KeptTypes DEF PlaceKept, StageKept, CallFits, QueueTypes
<1>5. /\ queue' \in Seq(Item) /\ Len(queue') = Len(journal) - committed
      /\ \A i \in DOMAIN queue' : queue'[i].item = journal[committed + i]
  <2> DEFINE k == FirstUnsigned
  <2>1. /\ committed \in Nat /\ Len(journal) \in Nat /\ queue \in Seq(Item) /\ loaded
        /\ \A i \in DOMAIN queue : queue[i].cursor = committed + i - 1
    BY <1>1, KeptTypes DEF QueueTypes, ListFits, CallFits
  <2>2. k \in DOMAIN queue
    BY <1>1, FirstUnsignedIsFirst DEF QueueTypeInv, QueueTypes, ListFits
  <2>3. /\ Len(queue) = Len(journal) - committed
        /\ \A i \in DOMAIN queue : i # k => queue[i].item = journal[committed + i]
    BY <1>0, <1>1, <2>1 DEF ListKept
  <2>4. queue[k].cursor = committed + k - 1
    BY <2>1, <2>2
  <2> HIDE DEF k
  <2>5. k \in Nat /\ k \in 1..Len(queue) /\ queue[k] \in Item
    BY <2>1, <2>2
  <2>6. queue[k].cursor + 1 = committed + k
    BY <2>1, <2>4, <2>5
  <2>7. PICK e : e = journal[committed + k]
    OBVIOUS
  <2>8. queue' = [queue EXCEPT ![k].item = e]
    BY <1>1, <2>6, <2>7 DEF k
  <2>9. e \in PreparedReceipt \cup Unsigned
    <3>1. committed + k \in 1..Len(journal)
      BY <2>1, <2>3, <2>5
    <3> QED
      BY <2>7, <3>1 DEF QueueTypeInv, QueueTypes
  <2>10. PICK f \in Item : f.item = e /\ queue' = [queue EXCEPT ![k] = f]
    <3> DEFINE f == [queue[k] EXCEPT !.item = e]
    <3>1. f \in Item /\ f.item = e /\ queue' = [queue EXCEPT ![k] = f]
      BY <2>5, <2>8, <2>9 DEF Item
    <3> HIDE DEF f
    <3> QED
      BY <3>1
  <2>11. /\ queue' \in Seq(Item) /\ Len(queue') = Len(queue) /\ queue'[k] = f
         /\ \A i \in 1..Len(queue) : i # k => queue'[i] = queue[i]
    BY <2>1, <2>5, <2>10, ReplacedInSequence
  <2> QED
    BY <2>1, <2>3, <2>7, <2>10, <2>11
<1>6. AllSigned(queue') <=> ~SomeUnsigned
  BY <1>5, ListIsSigned
<1>7. /\ (at' \in {"top", "sign"} /\ ~SomeUnsigned) \/ at' = "upgrade"
      /\ at' = "sign" <=> (call = "enqueue" /\ at' # "upgrade")
  BY <1>1, <1>6 DEF StageOf
<1>8. DaysKept'
  BY <1>0, <1>1, <1>3 DEF DaysKept, DayDone
<1>9. PlaceKept'
  BY <1>1, <1>4 DEF PlaceKept
<1>10. StageKept'
  BY <1>1, <1>3, <1>4, <1>7 DEF StageKept
<1>11. ListKept'
  <2>1. Len(journal) - committed - 0 = Len(journal) - committed
    BY KeptTypes
  <2> QED
    BY <1>1, <1>5, <1>7, <2>1 DEF ListKept
<1> QED
  BY <1>2, <1>8, <1>9, <1>10, <1>11 DEF KeptInv

\* The state after the last record that waits, when it is signed.
LEMMA CaughtUpCovers ==
  ASSUME QueueTypeInv, JournalKept, NEW s \in DayState,
         SomeUnsigned => Covers(s.receiptGlobalNo)
  PROVE  LET c == CaughtUp(s)
         IN  /\ c \in DayState /\ s.receiptGlobalNo <= c.receiptGlobalNo
             /\ Covers(c.receiptGlobalNo)
             /\ c = s \/ \E k \in SignedRecords : c = journal[k].stateAfter
             /\ NothingWaits => c = s
<1> DEFINE n == Len(journal)
           c == CaughtUp(s)
<1>1. c \in DayState /\ s.receiptGlobalNo \in Nat
  BY CaughtUpType DEF QueueTypeInv, DayState
<1>2. /\ Uncommitted # <<>> <=> ~NothingWaits
      /\ ~NothingWaits => n \in WaitingRecords /\ Last(Uncommitted) = journal[n]
  BY ReadIs
<1>3. c = IF ~NothingWaits /\ IsPrepared(journal[n]) /\ journal[n].stateAfter.receiptGlobalNo > s.receiptGlobalNo
          THEN journal[n].stateAfter ELSE s
  BY <1>2 DEF CaughtUp
<1>4. \A k \in WaitingRecords : k = n \/ k < n
  BY KeptTypes
<1> HIDE DEF c
<1>5. CASE NothingWaits
  <2>1. c = s /\ SignedRecords = {}
    <3>1. WaitingRecords = {}
      BY <1>5, KeptTypes DEF NothingWaits, WaitingRecords
    <3> QED
      BY <1>3, <1>5, <3>1 DEF SignedRecords
  <2> QED
    BY <1>1, <2>1 DEF Covers, c
<1>6. CASE ~NothingWaits /\ ~IsPrepared(journal[n])
  <2>1. c = s /\ SomeUnsigned
    BY <1>2, <1>3, <1>6 DEF SomeUnsigned
  <2> QED
    BY <1>1, <1>6, <2>1 DEF c
<1>7. CASE ~NothingWaits /\ IsPrepared(journal[n])
  <2>1. n \in SignedRecords /\ n \in WaitingRecords
    BY <1>2, <1>7 DEF SignedRecords
  <2>2. journal[n].stateAfter.receiptGlobalNo = NumberOf(n) /\ NumberOf(n) \in Nat
    BY <2>1, KeptTypes DEF JournalKept, Sound, NumberOf
  <2>3. \A k \in SignedRecords : NumberOf(k) \in Nat /\ NumberOf(k) <= NumberOf(n)
    <3> SUFFICES ASSUME NEW k \in SignedRecords
                 PROVE  NumberOf(k) \in Nat /\ NumberOf(k) <= NumberOf(n)
      OBVIOUS
    <3>1. k \in WaitingRecords /\ NumberOf(k) \in Nat
      BY KeptTypes DEF SignedRecords
    <3>2. k = n \/ NumberOf(k) < NumberOf(n)
      BY <1>4, <1>7, <2>1, <3>1 DEF JournalKept
    <3> QED
      BY <2>2, <3>1, <3>2
  <2>4. NumberOf(n) <= c.receiptGlobalNo /\ s.receiptGlobalNo <= c.receiptGlobalNo
    BY <1>1, <1>3, <1>7, <2>2
  <2>5. Covers(c.receiptGlobalNo)
    <3>1. c.receiptGlobalNo \in Nat
      BY <1>1 DEF DayState
    <3> QED
      BY <2>2, <2>3, <2>4, <3>1 DEF Covers
  <2> QED
    BY <1>1, <1>3, <1>7, <2>1, <2>4, <2>5 DEF c
<1> QED
  BY <1>5, <1>6, <1>7

\* The state the next receipt is signed from, once the journal is read.
LEMMA StartsFrom ==
  ASSUME QueueTypeInv, KeptInv, state # None, ~loaded, at = "top"
  PROVE  LET c == CaughtUp(state)
         IN  /\ c # None /\ CopyKept(c) /\ Covers(c.receiptGlobalNo)
             /\ dayState # None => dayState.receiptGlobalNo <= c.receiptGlobalNo
             /\ NothingWaits => c = state
<1> DEFINE c == CaughtUp(state)
<1>1. JournalKept /\ CopiesKept /\ state \in DayState /\ CopyKept(state)
  BY KeptParts, KeptTypes DEF CopiesKept
<1>2. SomeUnsigned => Covers(state.receiptGlobalNo)
  BY <1>1 DEF CopiesKept
<1>3. /\ c \in DayState /\ state.receiptGlobalNo <= c.receiptGlobalNo
      /\ Covers(c.receiptGlobalNo)
      /\ c = state \/ \E k \in SignedRecords : c = journal[k].stateAfter
      /\ NothingWaits => c = state
  BY <1>1, <1>2, CaughtUpCovers
<1> HIDE DEF c
<1>4. c.receiptGlobalNo \in Nat /\ state.receiptGlobalNo \in Nat /\ c # None
  BY <1>1, <1>3, NoneIsNothing DEF DayState
<1>5. CASE c = state
  BY <1>1, <1>3, <1>4, <1>5 DEF c, CopiesKept
<1>6. CASE \E k \in SignedRecords : c = journal[k].stateAfter
  <2>1. PICK k \in SignedRecords : c = journal[k].stateAfter
    BY <1>6
  <2>2. c.receiptGlobalNo = NumberOf(k) /\ CountsToday(c)
    BY <1>1, <2>1 DEF JournalKept, Sound, NumberOf
  <2>3. Given(c.receiptGlobalNo)
    BY <1>4, <2>2 DEF Given
  <2>4. CopyKept(c)
    BY <1>1, <1>3, <1>4, <2>2, <2>3, ReachesUp DEF CopyKept
  <2>5. dayState # None => dayState.receiptGlobalNo <= c.receiptGlobalNo
    <3>1. dayState # None => dayState.receiptGlobalNo \in Nat /\ dayState.receiptGlobalNo <= state.receiptGlobalNo
      BY <1>1, KeptTypes, NoneIsNothing DEF CopiesKept
    <3> QED
      BY <1>3, <1>4, <3>1
  <2> QED
    BY <1>3, <1>4, <2>4, <2>5 DEF c
<1> QED
  BY <1>3, <1>5, <1>6

\* Without a day, when nothing waits and nothing is stored that was not loaded.
LEMMA BeginInVainKept ==
  ASSUME QueueTypeInv, KeptInv, NEW operation \in {"enqueue", "sale", "flush"}, Begin(operation),
         state = None, queue' = <<>>, loaded \/ (dayState = None /\ pending = None)
  PROVE  KeptInv'
<1>0. JournalKept /\ MarkerKept /\ CopiesKept /\ DaysKept /\ PlaceKept /\ StageKept /\ ListKept
  BY KeptParts
<1>1. /\ pc = "idle" /\ call = "none" /\ state' = None /\ loaded' = TRUE /\ call' = operation
      /\ queue' = IF loaded THEN queue ELSE ReadJournal
      /\ at' = IF operation = "enqueue" THEN "sign" ELSE "top"
      /\ UNCHANGED <<receipts, dayStart, fiscalDayNo, status, closingErrorCode, journal, committed,
                     dayState, pending, lastGlobal, pc, sent, answer>>
  BY DEF Begin, StageOf, fdmsVars, storageVars, wireVars, journalVars
<1>2. /\ HighestGlobalNo' = HighestGlobalNo
      /\ (\A p : Held(p)' <=> Held(p)) /\ (\A p : Sound(p)' <=> Sound(p))
  BY <1>1, SameDay
<1>3. /\ SignedRecords' = SignedRecords
      /\ (SomeUnsigned' <=> SomeUnsigned) /\ (NothingWaits' <=> NothingWaits)
      /\ (\A k : NumberOf(k)' = NumberOf(k)) /\ (\A x : Covers(x)' <=> Covers(x))
  BY <1>1, SameWaiting
<1>4. /\ (\A x : Reaches(x)' <=> Reaches(x)) /\ (\A x : Given(x)' <=> Given(x))
      /\ (\A x : CopyKept(x)' <=> CopyKept(x))
      /\ (HeadMarked' <=> HeadMarked) /\ (AllSettled' <=> AllSettled)
      /\ (JournalKept' <=> JournalKept)
  BY <1>1, SameDoubt
<1>5. sent = None /\ answer = None /\ at = "top"
  BY <1>0, <1>1 DEF PlaceKept, QueueTypeInv, CallFits
<1>6. committed \in Nat /\ Len(journal) \in Nat /\ committed <= Len(journal) /\ Len(queue') = 0
      /\ DOMAIN queue' = {}
  BY KeptTypes
<1>7. Len(journal) - committed = 0
  <2>1. CASE loaded
    <3>1. Len(queue) = Len(journal) - committed - 0
      BY <1>0, <1>5, <2>1 DEF ListKept
    <3> QED
      BY <1>1, <1>6, <2>1, <3>1
  <2>2. CASE ~loaded
    BY <1>1, <1>6, <2>2, ReadIs
  <2> QED
    BY <2>1, <2>2
<1>8. ~SomeUnsigned /\ SignedRecords = {}
  <2>1. WaitingRecords = {}
    BY <1>6, <1>7 DEF WaitingRecords
  <2> QED
    BY <2>1 DEF SomeUnsigned, SignedRecords
<1>9. MarkerKept'
  BY <1>0, <1>1, <1>2, <1>3, <1>4 DEF MarkerKept
<1>10. CopiesKept'
  BY <1>0, <1>1, <1>3, <1>4, <1>8 DEF CopiesKept, Covers
<1>11. DaysKept'
  BY <1>0, <1>1, <1>4 DEF DaysKept, DayDone
<1>12. PlaceKept'
  BY <1>1, <1>5 DEF PlaceKept
<1>13. StageKept'
  BY <1>1, <1>3, <1>8 DEF StageKept
<1>14. ListKept'
  <2>1. at' # "take" /\ Len(journal) - committed - 0 = 0
    BY <1>1, <1>6, <1>7
  <2> QED
    BY <1>1, <1>6, <2>1 DEF ListKept
<1> QED
  BY <1>0, <1>4, <1>9, <1>10, <1>11, <1>12, <1>13, <1>14 DEF KeptInv

LEMMA BeginKept ==
  ASSUME QueueTypeInv, KeptInv, NEW operation \in {"enqueue", "sale", "flush"}, Begin(operation), state # None,
         operation # "flush" => status = "FiscalDayOpened" /\ dayState # None
  PROVE  KeptInv'
<1>0. JournalKept /\ MarkerKept /\ CopiesKept /\ DaysKept /\ PlaceKept /\ StageKept /\ ListKept
  BY KeptParts
<1>1. /\ pc = "idle" /\ call = "none" /\ state # None /\ loaded' = TRUE /\ call' = operation
      /\ queue' = IF loaded THEN queue ELSE ReadJournal
      /\ state' = IF loaded THEN state ELSE CaughtUp(state)
      /\ at' = IF loaded \/ AllSigned(queue') THEN StageOf(operation) ELSE "upgrade"
      /\ UNCHANGED <<receipts, dayStart, fiscalDayNo, status, closingErrorCode, journal, committed,
                     dayState, pending, lastGlobal, pc, sent, answer>>
  BY DEF Begin, fdmsVars, storageVars, wireVars, journalVars
<1>2. /\ HighestGlobalNo' = HighestGlobalNo
      /\ (\A p : Held(p)' <=> Held(p)) /\ (\A p : Sound(p)' <=> Sound(p))
  BY <1>1, SameDay
<1>3. /\ SignedRecords' = SignedRecords
      /\ (SomeUnsigned' <=> SomeUnsigned) /\ (NothingWaits' <=> NothingWaits)
      /\ (\A k : NumberOf(k)' = NumberOf(k)) /\ (\A x : Covers(x)' <=> Covers(x))
  BY <1>1, SameWaiting
<1>4. /\ (\A x : Reaches(x)' <=> Reaches(x)) /\ (\A x : Given(x)' <=> Given(x))
      /\ (\A x : CopyKept(x)' <=> CopyKept(x))
      /\ (HeadMarked' <=> HeadMarked) /\ (AllSettled' <=> AllSettled)
      /\ (JournalKept' <=> JournalKept)
  BY <1>1, SameDoubt
<1>5. sent = None /\ answer = None /\ at = "top"
  BY <1>0, <1>1 DEF PlaceKept, QueueTypeInv, CallFits
<1>6. /\ state' # None /\ CopyKept(state') /\ Covers(state'.receiptGlobalNo)
      /\ dayState # None => dayState.receiptGlobalNo <= state'.receiptGlobalNo
      /\ NothingWaits => state' = state
  <2>1. CASE loaded
    BY <1>0, <1>1, <2>1 DEF CopiesKept
  <2>2. CASE ~loaded
    BY <1>1, <1>5, <2>2, StartsFrom
  <2> QED
    BY <2>1, <2>2
<1>7. /\ Len(queue') = Len(journal) - committed
      /\ \A i \in DOMAIN queue' : queue'[i].item = journal[committed + i]
  <2>1. CASE loaded
    <3>1. Len(journal) - committed - 0 = Len(journal) - committed
      BY KeptTypes
    <3> QED
      BY <1>0, <1>1, <1>5, <2>1, <3>1 DEF ListKept
  <2>2. CASE ~loaded
    BY <1>1, <2>2, ReadIs
  <2> QED
    BY <2>1, <2>2
<1>8. (at' = StageOf(operation) /\ ~SomeUnsigned) \/ (at' = "upgrade" /\ SomeUnsigned)
  <2>1. CASE loaded
    BY <1>0, <1>1, <1>5, <2>1 DEF StageKept
  <2>2. CASE ~loaded
    <3>1. AllSigned(queue') <=> ~SomeUnsigned
      BY <1>1, <2>2, ReadIs, ListIsSigned
    <3> QED
      BY <1>1, <2>2, <3>1
  <2> QED
    BY <2>1, <2>2
<1>9. MarkerKept'
  BY <1>0, <1>1, <1>2, <1>3, <1>4, <1>6 DEF MarkerKept
<1>10. CopiesKept'
  <2>1. CopyKept(state)' /\ Covers(state.receiptGlobalNo)'
    BY <1>3, <1>4, <1>6
  <2>2. dayState # None => CopyKept(dayState)'
    BY <1>0, <1>1, <1>4 DEF CopiesKept
  <2>3. Reaches(lastGlobal)' /\ Given(lastGlobal)'
    BY <1>0, <1>1, <1>4 DEF CopiesKept
  <2>4. SomeUnsigned => dayState # None /\ Covers(dayState.receiptGlobalNo)
    BY <1>0, <1>5 DEF CopiesKept
  <2> QED
    BY <1>1, <1>3, <1>6, <2>1, <2>2, <2>3, <2>4 DEF CopiesKept
<1>11. DaysKept'
  BY <1>0, <1>1, <1>4 DEF DaysKept, DayDone
<1>12. PlaceKept'
  BY <1>1, <1>5 DEF PlaceKept
<1>13. StageKept'
  BY <1>0, <1>1, <1>3, <1>8 DEF StageKept, StageOf, JournalKept
<1>14. ListKept'
  <2>1. Len(journal) - committed - 0 = Len(journal) - committed
    BY KeptTypes
  <2> QED
    BY <1>1, <1>7, <1>8, <2>1 DEF ListKept, StageOf
<1> QED
  BY <1>0, <1>4, <1>9, <1>10, <1>11, <1>12, <1>13, <1>14 DEF KeptInv

\* A snapshot of SDK 0.3.x: nothing of it is signed.
LEMMA EarlierVersionKept ==
  ASSUME QueueTypeInv, KeptInv, EarlierVersionQueues
  PROVE  KeptInv'
<1>0. JournalKept /\ MarkerKept /\ CopiesKept /\ DaysKept /\ PlaceKept /\ StageKept /\ ListKept
  BY KeptParts
<1>1. /\ state = None /\ ~loaded /\ pending = None /\ journal = <<>>
      /\ status = "FiscalDayOpened" /\ dayState # None
      /\ \E n \in 1..(MaxSigned - signed), entry \in Unsigned : journal' = [i \in 1..n |-> entry]
      /\ UNCHANGED <<receipts, dayStart, fiscalDayNo, status, closingErrorCode, committed, state,
                     dayState, pending, lastGlobal, pc, sent, answer, queue, loaded, call, at>>
  BY DEF EarlierVersionQueues, vars, fdmsVars, storageVars, wireVars
<1>2. /\ HighestGlobalNo' = HighestGlobalNo
      /\ (\A p : Held(p)' <=> Held(p)) /\ (\A p : Sound(p)' <=> Sound(p))
      /\ (\A s : CountsToday(s)' <=> CountsToday(s))
  BY <1>1, SameDay
<1>3. committed = 0 /\ SignedRecords = {} /\ call = "none" /\ at = "top"
  <2>1. committed = 0 /\ WaitingRecords = {}
    BY <1>1, KeptTypes DEF WaitingRecords
  <2>2. call = "none" /\ at = "top"
    BY <1>1 DEF QueueTypeInv, CallFits
  <2> QED
    BY <2>1, <2>2 DEF SignedRecords
<1>4. SignedRecords' = {} /\ committed' = 0
  <2>1. PICK n \in 1..(MaxSigned - signed), entry \in Unsigned : journal' = [i \in 1..n |-> entry]
    BY <1>1
  <2>2. n \in Nat
    BY KeptTypes, BoundsAreNumbers DEF TypeOK
  <2>3. Len(journal') = n /\ \A i \in 1..n : ~IsPrepared(journal'[i])
    BY <2>1, <2>2, SignedOrNot
  <2> QED
    BY <1>1, <1>3, <2>2, <2>3 DEF SignedRecords, WaitingRecords
<1>5. pc \in {"idle"} /\ sent = None /\ answer = None
  BY <1>0, <1>1, KeptTypes DEF PlaceKept, TypeOK, Places, OldDayCleared
<1>6. JournalKept'
  <2>1. \A i, k \in WaitingRecords' : ~IsPrepared(journal'[k])
    BY <1>4 DEF SignedRecords
  <2>2. 1..committed' = {}
    BY <1>4
  <2> QED
    BY <1>1, <1>4, <2>1, <2>2 DEF JournalKept
<1>7. MarkerKept'
  BY <1>1 DEF MarkerKept
<1>8. CopiesKept'
  <2>1. \A x : Reaches(x) => Reaches(x)'
    BY <1>1, <1>2 DEF Reaches
  <2>2. \A x : Given(x) => Given(x)'
    BY <1>2, <1>3 DEF Given
  <2>3. \A x : Covers(x)'
    BY <1>4 DEF Covers
  <2>4. CopyKept(dayState)' /\ Reaches(lastGlobal)' /\ Given(lastGlobal)'
    BY <1>0, <1>1, <1>2, <2>1, <2>2 DEF CopiesKept, CopyKept
  <2> QED
    BY <1>1, <2>3, <2>4 DEF CopiesKept
<1>9. DaysKept'
  BY <1>1, <1>3, <1>5 DEF DaysKept, DayDone
<1>10. PlaceKept'
  BY <1>1, <1>5 DEF PlaceKept
<1>11. StageKept'
  BY <1>1, <1>3 DEF StageKept
<1>12. ListKept'
  BY <1>1 DEF ListKept
<1> QED
  BY <1>6, <1>7, <1>8, <1>9, <1>10, <1>11, <1>12 DEF KeptInv

-----------------------------------------------------------------------------
(* A receipt is signed and journaled.                                      *)

LEMMA SignedIsSound ==
  ASSUME QueueTypeInv, NEW s \in DayState, CountsToday(s), NEW r,
         r.globalNo = s.receiptGlobalNo + 1
  PROVE  /\ Prepare(s, r).receipt.globalNo = s.receiptGlobalNo + 1
         /\ Sound(Prepare(s, r))
<1> DEFINE p == Prepare(s, r)
<1>1. /\ p.receipt = r /\ p.stateAfter.receiptGlobalNo = s.receiptGlobalNo + 1
      /\ p.stateAfter.fiscalDayNo = s.fiscalDayNo
      /\ p.stateAfter.receiptCounter = s.receiptCounter + 1
  BY DEF Prepare, StateAfter
<1>2. /\ s.receiptGlobalNo \in Nat /\ s.receiptCounter \in Nat
      /\ HighestGlobalNo \in Nat /\ DayReceiptCount \in Nat
  BY KeptTypes DEF DayState
<1> HIDE DEF p
<1>3. CountsToday(p.stateAfter)
  BY <1>1, <1>2 DEF CountsToday
<1> QED
  BY <1>1, <1>3 DEF Sound, p

\* One record more is signed, and it has the highest number of those that wait.
LEMMA RecordGained ==
  ASSUME QueueTypeInv, UNCHANGED <<receipts, dayStart, fiscalDayNo, committed>>,
         NEW m \in Nat, NEW p \in PreparedReceipt, journal'[m] = p,
         SignedRecords' = SignedRecords \cup {m},
         \A k \in SignedRecords : k # m /\ journal'[k] = journal[k],
         NEW x \in Nat, Covers(x), x < p.receipt.globalNo
  PROVE  /\ NumberOf(m)' = p.receipt.globalNo
         /\ \A k \in SignedRecords : NumberOf(k)' = NumberOf(k) /\ NumberOf(k) < p.receipt.globalNo
         /\ \A y : Given(y) => Given(y)'
         /\ Given(p.receipt.globalNo)'
         /\ Covers(p.receipt.globalNo)'
<1>1. NumberOf(m)' = p.receipt.globalNo /\ p.receipt.globalNo \in Nat
  BY DEF NumberOf, PreparedReceipt, Receipt
<1>2. \A k \in SignedRecords : NumberOf(k)' = NumberOf(k) /\ NumberOf(k) <= x /\ NumberOf(k) \in Nat
  BY KeptTypes DEF NumberOf, Covers
<1>3. \A k \in SignedRecords : NumberOf(k) < p.receipt.globalNo
  BY <1>1, <1>2
<1>4. HighestGlobalNo' = HighestGlobalNo
  BY SameDay
<1>5. \A y : Given(y) => Given(y)'
  BY <1>2, <1>4 DEF Given
<1>6. Given(p.receipt.globalNo)'
  <2>1. \E k \in SignedRecords' : p.receipt.globalNo <= NumberOf(k)'
    BY <1>1
  <2> QED
    BY <2>1 DEF Given
<1>7. Covers(p.receipt.globalNo)'
  <2>1. \A k \in SignedRecords' : NumberOf(k)' <= p.receipt.globalNo
    BY <1>1, <1>2, <1>3
  <2> QED
    BY <2>1 DEF Covers
<1> QED
  BY <1>1, <1>2, <1>3, <1>5, <1>6, <1>7

\* Where the first unsigned entry of the list is in the journal: behind all
\* that is signed.
LEMMA FirstUnsignedRecord ==
  ASSUME QueueTypeInv, KeptInv, at = "upgrade"
  PROVE  /\ FirstUnsigned \in DOMAIN queue /\ ~IsPrepared(queue[FirstUnsigned].item)
         /\ queue[FirstUnsigned].item \in Unsigned
         /\ queue[FirstUnsigned].cursor + 1 = committed + FirstUnsigned
         /\ committed + FirstUnsigned \in WaitingRecords
         /\ ~IsPrepared(journal[committed + FirstUnsigned])
         /\ \A k \in WaitingRecords : IsPrepared(journal[k]) <=> k < committed + FirstUnsigned
<1>1. /\ JournalKept /\ committed \in Nat /\ Len(journal) \in Nat /\ committed <= Len(journal)
      /\ queue \in Seq(Item) /\ ~AllSigned(queue) /\ loaded
      /\ \A i \in DOMAIN queue : queue[i].cursor = committed + i - 1
  BY KeptParts, KeptTypes DEF QueueTypes, ListFits, CallFits
<1>2. /\ Len(queue) = Len(journal) - committed
      /\ \A i \in DOMAIN queue : queue[i].item = journal[committed + i]
  <2>1. Len(journal) - committed - 0 = Len(journal) - committed
    BY <1>1
  <2> QED
    BY <1>1, <2>1, KeptParts DEF ListKept
<1>3. PICK f \in DOMAIN queue :
         /\ f = FirstUnsigned /\ ~IsPrepared(queue[f].item)
         /\ \A i \in 1..(f - 1) : IsPrepared(queue[i].item)
  BY <1>1, FirstUnsignedIsFirst
<1>4. DOMAIN queue = 1..(Len(journal) - committed) /\ f \in Nat
  BY <1>1, <1>2
<1>5. queue[f].item \in Unsigned
  <2>1. queue[f] \in Item
    BY <1>1
  <2> QED
    BY <1>3, <2>1, ItemType
<1>6. queue[f].cursor = committed + f - 1 /\ queue[f].item = journal[committed + f]
  BY <1>1, <1>2
<1>7. queue[f].cursor + 1 = committed + f /\ committed + f \in WaitingRecords
  BY <1>1, <1>4, <1>6 DEF WaitingRecords
<1>8. ASSUME NEW k \in WaitingRecords
      PROVE  IsPrepared(journal[k]) <=> k < committed + f
  <2>1. k \in Nat /\ committed + 1 <= k /\ k <= Len(journal)
    BY <1>1 DEF WaitingRecords
  <2>2. CASE k < committed + f
    <3>1. k - committed \in 1..(f - 1) /\ k - committed \in DOMAIN queue /\ committed + (k - committed) = k
      BY <1>1, <1>4, <2>1, <2>2
    <3>2. IsPrepared(queue[k - committed].item) /\ queue[k - committed].item = journal[committed + (k - committed)]
      BY <1>2, <1>3, <3>1
    <3> QED
      BY <2>2, <3>1, <3>2
  <2>3. CASE ~(k < committed + f)
    <3>0. committed \in Nat /\ f \in Nat /\ k \in Nat
      BY <1>1, <1>4, <2>1
    <3>1. k = committed + f \/ committed + f < k
      BY ONLY <2>3, <3>0
    <3>2. ~IsPrepared(journal[committed + f])
      BY <1>3, <1>6
    <3>3. committed + f < k => (IsPrepared(journal[k]) => IsPrepared(journal[committed + f]))
      BY <1>1, <1>7 DEF JournalKept
    <3> QED
      BY <2>3, <3>1, <3>2, <3>3
  <2> QED
    BY <2>2, <2>3
<1> QED
  BY <1>3, <1>5, <1>6, <1>7, <1>8

LEMMA UpgradeEntryKept ==
  ASSUME QueueTypeInv, KeptInv, UpgradeEntry
  PROVE  KeptInv'
<1>0. JournalKept /\ MarkerKept /\ CopiesKept /\ DaysKept /\ PlaceKept /\ StageKept /\ ListKept
  BY KeptParts
<1> DEFINE e == queue[FirstUnsigned]
<1>1. PICK date \in ReceiptDates(state), m \in Nat :
         LET p == Prepare(state, SignReceipt(state, date, e.item.amount, e.item.badTax))
         IN  /\ m = committed + FirstUnsigned
             /\ journal' = [journal EXCEPT ![m] = p] /\ state' = p.stateAfter
  <2>1. at = "upgrade"
    BY DEF UpgradeEntry
  <2>2. e.cursor + 1 = committed + FirstUnsigned /\ committed + FirstUnsigned \in Nat
    BY <2>1, FirstUnsignedRecord, KeptTypes
  <2> QED
    BY <2>2 DEF UpgradeEntry, SignedEntry, EntryRecord
<1>2. /\ at = "upgrade" /\ pc' = "saveDay" /\ at' = "upgrading"
      /\ UNCHANGED <<receipts, dayStart, fiscalDayNo, status, closingErrorCode, committed,
                     dayState, pending, lastGlobal, queue, loaded, call, sent, answer>>
  BY DEF UpgradeEntry, fdmsVars, storageVars, wireVars
<1>3. /\ e.item \in Unsigned /\ m \in WaitingRecords /\ m = committed + FirstUnsigned
      /\ FirstUnsigned \in DOMAIN queue
      /\ ~IsPrepared(journal[m]) /\ (\A k \in WaitingRecords : IsPrepared(journal[k]) <=> k < m)
  BY <1>1, <1>2, FirstUnsignedRecord
<1>4. /\ state \in DayState /\ state # None /\ pc = "idle" /\ call # "none" /\ loaded /\ TypeOK
      /\ state.receiptGlobalNo \in Nat /\ HighestGlobalNo \in Nat
  BY <1>2, KeptTypes DEF CallFits, InVain
<1>5. /\ pending = None /\ status = "FiscalDayOpened" /\ dayState # None /\ SomeUnsigned
      /\ Covers(state.receiptGlobalNo) /\ CopyKept(state) /\ CopyKept(dayState)
      /\ dayState.receiptGlobalNo <= state.receiptGlobalNo
      /\ Reaches(lastGlobal) /\ Given(lastGlobal) /\ HighestGlobalNo <= state.receiptGlobalNo
      /\ sent = None /\ answer = None
  <2>1. SomeUnsigned
    BY <1>3 DEF SomeUnsigned
  <2> QED
    BY <1>0, <1>2, <1>4, <2>1 DEF JournalKept, CopiesKept, CopyKept, Reaches, PlaceKept
<1>6. PICK p \in PreparedReceipt :
         /\ journal' = [journal EXCEPT ![m] = p] /\ state' = p.stateAfter
         /\ p.receipt.globalNo = state.receiptGlobalNo + 1 /\ Sound(p)
  <2> DEFINE r == SignReceipt(state, date, e.item.amount, e.item.badTax)
  <2>1. Prepare(state, r) \in PreparedReceipt
    BY <1>3, <1>4, PrepareType DEF Unsigned
  <2>2. r.globalNo = state.receiptGlobalNo + 1
    BY DEF SignReceipt
  <2>3. journal' = [journal EXCEPT ![m] = Prepare(state, r)] /\ state' = Prepare(state, r).stateAfter
    BY <1>1
  <2> HIDE DEF r, e
  <2>4. Prepare(state, r).receipt.globalNo = state.receiptGlobalNo + 1 /\ Sound(Prepare(state, r))
    BY <1>4, <1>5, <2>2, SignedIsSound DEF CopyKept
  <2> QED
    BY <2>1, <2>3, <2>4
<1> HIDE DEF e
<1>10. /\ journal'[m] = p /\ Len(journal') = Len(journal) /\ m \in 1..Len(journal)
       /\ \A k \in 1..Len(journal) : k # m => journal'[k] = journal[k]
  <2>1. m \in 1..Len(journal) /\ journal \in Seq(PreparedReceipt \cup Unsigned)
    BY <1>3, KeptTypes DEF QueueTypes
  <2>2. p \in PreparedReceipt \cup Unsigned
    BY <1>6
  <2> QED
    BY <1>6, <2>1, <2>2, ReplacedInSequence
<1>11. /\ WaitingRecords' = WaitingRecords /\ m \notin SignedRecords
       /\ SignedRecords' = SignedRecords \cup {m}
       /\ \A k \in SignedRecords : k # m /\ journal'[k] = journal[k] /\ k < m
       /\ \A k \in WaitingRecords : k < m => IsPrepared(journal'[k])
       /\ \A k \in WaitingRecords : k \in 1..Len(journal)
  <2>1. WaitingRecords' = WaitingRecords
    BY <1>2, <1>10 DEF WaitingRecords
  <2>2. \A k \in WaitingRecords : k \in 1..Len(journal)
    BY KeptTypes
  <2>3. IsPrepared(p)
    BY <1>6, SignedOrNot
  <2>4. \A k \in WaitingRecords : k # m => IsPrepared(journal'[k]) = IsPrepared(journal[k])
    BY <1>10, <2>2
  <2>5. SignedRecords' = SignedRecords \cup {m}
    BY <1>3, <1>10, <2>1, <2>3, <2>4 DEF SignedRecords
  <2>6. \A k \in SignedRecords : k # m /\ journal'[k] = journal[k] /\ k < m
    BY <1>3, <1>10, <2>2 DEF SignedRecords
  <2>7. \A k \in WaitingRecords : k < m => IsPrepared(journal'[k])
    BY <1>3, <2>4, KeptTypes
  <2> QED
    BY <1>3, <2>1, <2>2, <2>5, <2>6, <2>7 DEF SignedRecords
<1>12. /\ NumberOf(m)' = p.receipt.globalNo
       /\ \A k \in SignedRecords : NumberOf(k)' = NumberOf(k) /\ NumberOf(k) < p.receipt.globalNo
       /\ \A y : Given(y) => Given(y)'
       /\ Given(p.receipt.globalNo)'
       /\ Covers(p.receipt.globalNo)'
  <2>1. state.receiptGlobalNo < p.receipt.globalNo
    BY <1>4, <1>6
  <2> QED
    BY <1>2, <1>4, <1>5, <1>6, <1>10, <1>11, <2>1, RecordGained
<1>13. /\ HighestGlobalNo' = HighestGlobalNo
       /\ (\A q : Held(q)' <=> Held(q)) /\ (\A q : Sound(q)' <=> Sound(q))
       /\ (\A s : CountsToday(s)' <=> CountsToday(s))
  BY <1>2, SameDay
<1>14. \A x : Reaches(x)' <=> Reaches(x)
  BY <1>2, <1>5, <1>13 DEF Reaches
<1>15. JournalKept'
  <2>1. \A i \in 1..committed : Held(journal[i])'
    <3>1. \A i \in 1..committed : i \in 1..Len(journal) /\ i # m
      BY <1>3, <1>10, KeptTypes DEF WaitingRecords
    <3> QED
      BY <1>0, <1>10, <1>13, <3>1 DEF JournalKept
  <2>2. ASSUME NEW i \in WaitingRecords, NEW k \in WaitingRecords, i < k, IsPrepared(journal'[k])
        PROVE  IsPrepared(journal'[i]) /\ NumberOf(i)' < NumberOf(k)'
    <3>1. k \in SignedRecords \cup {m} /\ i \in Nat /\ k \in Nat /\ m \in Nat
      BY <1>11, <2>2, KeptTypes DEF SignedRecords
    <3>2. i < m
      BY <1>11, <2>2, <3>1
    <3>3. IsPrepared(journal'[i]) /\ i \in SignedRecords
      BY <1>3, <1>11, <3>2 DEF SignedRecords
    <3>4. CASE k = m
      BY <1>12, <3>3, <3>4
    <3>5. CASE k \in SignedRecords
      <4>1. NumberOf(i) < NumberOf(k)
        BY <1>0, <2>2, <3>5 DEF JournalKept, SignedRecords
      <4> QED
        BY <1>12, <3>3, <3>5, <4>1
    <3> QED
      BY <3>1, <3>4, <3>5
  <2>3. ASSUME NEW k \in SignedRecords'
        PROVE  /\ Sound(journal[k])'
               /\ \/ HighestGlobalNo < NumberOf(k)'
                  \/ k = committed + 1 /\ Held(journal[k])' /\ NumberOf(k)' = HighestGlobalNo
    <3>1. CASE k = m
      <4>1. HighestGlobalNo < p.receipt.globalNo
        BY <1>4, <1>5, <1>6
      <4> QED
        BY <1>6, <1>10, <1>12, <1>13, <3>1, <4>1
    <3>2. CASE k \in SignedRecords
      <4>1. /\ Sound(journal[k])
            /\ \/ HighestGlobalNo < NumberOf(k)
               \/ k = committed + 1 /\ Held(journal[k]) /\ NumberOf(k) = HighestGlobalNo
        BY <1>0, <3>2 DEF JournalKept
      <4> QED
        BY <1>11, <1>12, <1>13, <3>2, <4>1
    <3> QED
      BY <1>11, <3>1, <3>2
  <2> QED
    BY <1>2, <1>5, <1>11, <1>13, <2>1, <2>2, <2>3 DEF JournalKept
<1>16. MarkerKept'
  BY <1>2, <1>5 DEF MarkerKept
<1>17. state' # None /\ state'.receiptGlobalNo = p.receipt.globalNo /\ CountsToday(state')
  BY <1>6, NoneIsNothing DEF Sound, PreparedReceipt
<1>18. CopiesKept'
  <2>1. Reaches(p.receipt.globalNo)
    BY <1>4, <1>5, <1>6 DEF Reaches
  <2>2. CopyKept(state)' /\ Covers(state.receiptGlobalNo)'
    BY <1>12, <1>13, <1>14, <1>17, <2>1 DEF CopyKept
  <2>3. CopyKept(dayState)' /\ Reaches(lastGlobal)' /\ Given(lastGlobal)'
    BY <1>2, <1>5, <1>12, <1>13, <1>14 DEF CopyKept
  <2>4. dayState.receiptGlobalNo <= p.receipt.globalNo
    BY <1>4, <1>5, <1>6, KeptTypes
  <2> QED
    BY <1>2, <1>5, <1>17, <2>2, <2>3, <2>4 DEF CopiesKept
<1>19. DaysKept'
  BY <1>0, <1>2, <1>5 DEF DaysKept, DayDone
<1>20. PlaceKept'
  BY <1>2, <1>5, <1>17 DEF PlaceKept
<1>21. StageKept'
  BY <1>0, <1>2, <1>5 DEF StageKept
<1>22. ListKept'
  <2>1. /\ Len(queue) = Len(journal) - committed
        /\ \A i \in DOMAIN queue : queue[i].item = journal[committed + i]
    <3>1. Len(journal) - committed - 0 = Len(journal) - committed
      BY KeptTypes
    <3> QED
      BY <1>0, <1>2, <1>4, <3>1 DEF ListKept
  <2>2. \A i \in DOMAIN queue : committed + i \in 1..Len(journal)
    BY <2>1, KeptTypes DEF QueueTypes
  <2>3. \A i \in DOMAIN queue : i # FirstUnsigned => committed + i # m
    BY <1>3, KeptTypes DEF QueueTypes
  <2>4. ASSUME NEW i \in DOMAIN queue
        PROVE  \/ queue[i].item = journal'[committed + i]
               \/ i = FirstUnsigned /\ IsPrepared(journal'[committed + i])
    BY <1>3, <1>6, <1>10, <2>1, <2>2, <2>3, SignedOrNot
  <2>5. Len(queue) = Len(journal') - committed - 0
    BY <1>10, <2>1, KeptTypes
  <2> QED
    BY <1>2, <2>4, <2>5, SameFirst DEF ListKept
<1> QED
  BY <1>15, <1>16, <1>18, <1>19, <1>20, <1>21, <1>22 DEF KeptInv

LEMMA TakesKept ==
  ASSUME QueueTypeInv, KeptInv, NEW p \in PreparedReceipt, Take(p),
         at \in {"sign", "journal"}, state # None, Sound(p), state.receiptGlobalNo < p.receipt.globalNo,
         \/ /\ HighestGlobalNo < p.receipt.globalNo
            /\ pending # None => pending.receipt.globalNo <= state.receiptGlobalNo
         \/ p = pending /\ NothingWaits
  PROVE  KeptInv'
<1>0. JournalKept /\ MarkerKept /\ CopiesKept /\ DaysKept /\ PlaceKept /\ StageKept /\ ListKept
  BY KeptParts
<1>1. /\ journal' = Append(journal, p) /\ state' = p.stateAfter /\ pc' = "saveDay" /\ at' = "take"
      /\ UNCHANGED <<receipts, dayStart, fiscalDayNo, status, closingErrorCode, committed,
                     dayState, pending, lastGlobal, queue, loaded, call, sent, answer>>
  BY DEF Take, fdmsVars, storageVars, wireVars
<1>2. /\ pc = "idle" /\ call \in {"enqueue", "sale"} /\ loaded /\ state # None
      /\ status = "FiscalDayOpened" /\ dayState # None /\ sent = None /\ answer = None
      /\ ~SomeUnsigned
  <2>1. /\ pc = "idle" /\ call # "none" /\ loaded /\ state # None /\ call \in Calls
    BY KeptTypes DEF CallFits, QueueTypes
  <2>2. call \in {"enqueue", "sale"}
    BY <1>0, <2>1 DEF StageKept, Calls
  <2> QED
    BY <1>0, <2>1, <2>2 DEF DaysKept, PlaceKept, StageKept
<1>3. /\ CopyKept(state) /\ Covers(state.receiptGlobalNo) /\ CopyKept(dayState)
      /\ dayState.receiptGlobalNo <= state.receiptGlobalNo
      /\ Reaches(lastGlobal) /\ Given(lastGlobal)
  BY <1>0, <1>2 DEF CopiesKept
<1>4. /\ state.receiptGlobalNo \in Nat /\ dayState.receiptGlobalNo \in Nat /\ HighestGlobalNo \in Nat
      /\ p.receipt.globalNo \in Nat /\ p.stateAfter \in DayState /\ p.stateAfter # None /\ IsPrepared(p)
      /\ committed \in Nat /\ Len(journal) \in Nat /\ committed <= Len(journal)
      /\ pending # None => pending.receipt.globalNo \in Nat
  BY <1>2, KeptTypes, NoneIsNothing, SignedOrNot DEF PreparedReceipt, Receipt
<1>5. PICK m \in Nat : m = Len(journal) + 1
  BY <1>4
<1>6. /\ Len(journal') = m /\ journal'[m] = p
      /\ \A k \in 1..Len(journal) : journal'[k] = journal[k] /\ k # m /\ k < m
  BY <1>1, <1>4, <1>5, KeptTypes DEF QueueTypes
<1>7. /\ WaitingRecords' = WaitingRecords \cup {m} /\ m \notin WaitingRecords
      /\ SignedRecords' = SignedRecords \cup {m}
      /\ \A k \in WaitingRecords : /\ k # m /\ k < m /\ k \in Nat /\ journal'[k] = journal[k]
                                   /\ IsPrepared(journal[k]) /\ k \in SignedRecords
      /\ ~SomeUnsigned' /\ ~NothingWaits'
  <2>1. WaitingRecords' = WaitingRecords \cup {m} /\ m \notin WaitingRecords
    BY <1>1, <1>4, <1>5, <1>6 DEF WaitingRecords
  <2>2. \A k \in WaitingRecords : k \in 1..Len(journal)
    BY <1>4 DEF WaitingRecords
  <2>3. \A k \in WaitingRecords : k # m /\ k < m /\ k \in Nat /\ journal'[k] = journal[k] /\ IsPrepared(journal[k])
    BY <1>2, <1>6, <2>2 DEF SomeUnsigned
  <2>4. SignedRecords = WaitingRecords /\ SignedRecords' = WaitingRecords'
    BY <1>4, <1>6, <2>1, <2>3 DEF SignedRecords
  <2>5. ~SomeUnsigned'
    BY <1>4, <1>6, <2>1, <2>3 DEF SomeUnsigned
  <2>6. ~NothingWaits'
    BY <1>1, <1>4, <1>5, <1>6 DEF NothingWaits
  <2> QED
    BY <2>1, <2>3, <2>4, <2>5, <2>6
<1>8. /\ NumberOf(m)' = p.receipt.globalNo
      /\ \A k \in SignedRecords : NumberOf(k)' = NumberOf(k) /\ NumberOf(k) < p.receipt.globalNo
      /\ \A y : Given(y) => Given(y)'
      /\ Given(p.receipt.globalNo)'
      /\ Covers(p.receipt.globalNo)'
  <2>1. \A k \in SignedRecords : k # m /\ journal'[k] = journal[k]
    BY <1>7 DEF SignedRecords
  <2> QED
    BY <1>1, <1>3, <1>4, <1>6, <1>7, <2>1, RecordGained
<1>9. /\ HighestGlobalNo' = HighestGlobalNo
      /\ (\A q : Held(q)' <=> Held(q)) /\ (\A q : Sound(q)' <=> Sound(q))
      /\ (\A s : CountsToday(s)' <=> CountsToday(s))
  BY <1>1, SameDay
<1>10. \A x : Reaches(x)' <=> Reaches(x)
  <2>1. Held(pending)' <=> Held(pending)
    BY <1>1, <1>9
  <2> QED
    BY <1>1, <1>9, <2>1 DEF Reaches
<1>11. HeadMarked => HeadMarked'
  <2>1. HeadMarked => committed + 1 \in 1..Len(journal)
    BY <1>4 DEF HeadMarked, NothingWaits
  <2> QED
    BY <1>1, <1>6, <1>7, <2>1 DEF HeadMarked
\* The receipt has a number of its own, or is the one that is in doubt.
<1>12. \/ HighestGlobalNo < p.receipt.globalNo
       \/ m = committed + 1 /\ Held(p) /\ p.receipt.globalNo = HighestGlobalNo
  <2>1. CASE HighestGlobalNo < p.receipt.globalNo
    BY <2>1
  <2>2. CASE p = pending /\ NothingWaits /\ ~(HighestGlobalNo < p.receipt.globalNo)
    <3>1. pending # None
      BY <2>2, NoneIsNothing
    <3>2. Held(p)
      BY <1>0, <2>2, <3>1 DEF MarkerKept
    <3>3. ~(HighestGlobalNo <= state.receiptGlobalNo)
      BY <1>4, <2>2
    <3>4. p.receipt.globalNo = HighestGlobalNo
      BY <1>3, <2>2, <3>3 DEF CopyKept, Reaches
    <3> QED
      BY <1>5, <2>2, <3>2, <3>4 DEF NothingWaits
  <2> QED
    BY <2>1, <2>2
<1>13. pending # None =>
         \/ p = pending /\ HeadMarked'
         \/ /\ pending.receipt.globalNo <= state.receiptGlobalNo
            /\ pending.receipt.globalNo < p.receipt.globalNo
  <2>1. CASE p = pending /\ NothingWaits
    BY <1>1, <1>5, <1>6, <1>7, <2>1 DEF HeadMarked, NothingWaits
  <2>2. CASE pending # None => pending.receipt.globalNo <= state.receiptGlobalNo
    BY <1>4, <2>2
  <2> QED
    BY <2>1, <2>2
<1>14. JournalKept'
  <2>1. \A i \in 1..committed : Held(journal[i])'
    <3>1. \A i \in 1..committed : journal'[i] = journal[i]
      BY <1>4, <1>6
    <3> QED
      BY <1>0, <1>9, <3>1 DEF JournalKept
  <2>2. ASSUME NEW i \in WaitingRecords', NEW k \in WaitingRecords', i < k, IsPrepared(journal'[k])
        PROVE  IsPrepared(journal'[i]) /\ NumberOf(i)' < NumberOf(k)'
    <3>1. i \in WaitingRecords
      <4>1. i \in WaitingRecords \/ i = m
        BY <1>7
      <4>2. k = m \/ (k < m /\ k \in Nat)
        BY <1>7
      <4>3. i # m
        BY ONLY <1>5, <2>2, <4>2
      <4> QED
        BY <4>1, <4>3
    <3>2. IsPrepared(journal'[i]) /\ i \in SignedRecords
      BY <1>7, <3>1
    <3>3. CASE k = m
      BY <1>8, <3>2, <3>3
    <3>4. CASE k \in WaitingRecords
      <4>1. k \in SignedRecords /\ IsPrepared(journal[k])
        BY <1>7, <3>4
      <4>2. NumberOf(i) < NumberOf(k)
        BY <1>0, <2>2, <3>1, <3>4, <4>1 DEF JournalKept
      <4> QED
        BY <1>8, <3>2, <4>1, <4>2
    <3> QED
      BY <1>7, <3>3, <3>4
  <2>3. ASSUME NEW k \in SignedRecords'
        PROVE  /\ Sound(journal[k])'
               /\ \/ HighestGlobalNo < NumberOf(k)'
                  \/ k = committed + 1 /\ Held(journal[k])' /\ NumberOf(k)' = HighestGlobalNo
    <3>1. CASE k = m
      BY <1>6, <1>8, <1>9, <1>12, <3>1
    <3>2. CASE k \in SignedRecords
      <4>1. /\ Sound(journal[k])
            /\ \/ HighestGlobalNo < NumberOf(k)
               \/ k = committed + 1 /\ Held(journal[k]) /\ NumberOf(k) = HighestGlobalNo
        BY <1>0, <3>2 DEF JournalKept
      <4>2. journal'[k] = journal[k]
        BY <1>7, <3>2 DEF SignedRecords
      <4> QED
        BY <1>8, <1>9, <3>2, <4>1, <4>2
    <3> QED
      BY <1>7, <3>1, <3>2
  <2> QED
    BY <1>1, <1>7, <1>9, <2>1, <2>2, <2>3 DEF JournalKept
<1>15. MarkerKept'
  <2> SUFFICES ASSUME pending # None
               PROVE  /\ Sound(pending)'
                      /\ HeadMarked' \/ \A k \in SignedRecords' : pending.receipt.globalNo < NumberOf(k)'
                      /\ Held(pending)' \/ (HighestGlobalNo < pending.receipt.globalNo /\ HeadMarked')
    BY <1>1, <1>9 DEF MarkerKept
  <2>1. Sound(pending)' /\ (Held(pending)' <=> Held(pending))
    BY <1>0, <1>1, <1>9 DEF MarkerKept
  <2>2. HeadMarked' \/ \A k \in SignedRecords' : pending.receipt.globalNo < NumberOf(k)'
    BY <1>0, <1>7, <1>8, <1>11, <1>13 DEF MarkerKept
  <2>3. Held(pending) \/ (HighestGlobalNo < pending.receipt.globalNo /\ HeadMarked')
    <3>1. CASE p = pending /\ HeadMarked'
      BY <1>12, <3>1
    <3>2. CASE pending.receipt.globalNo <= state.receiptGlobalNo
      <4>1. ~(state.receiptGlobalNo < pending.receipt.globalNo)
        BY <1>4, <3>2
      <4> QED
        BY <1>0, <1>2, <1>11, <4>1 DEF MarkerKept
    <3> QED
      BY <1>13, <3>1, <3>2
  <2> QED
    BY <2>1, <2>2, <2>3
<1>16. state' # None /\ state'.receiptGlobalNo = p.receipt.globalNo /\ CountsToday(state')
  BY <1>1, <1>4 DEF Sound
<1>17. CopiesKept'
  <2>1. Reaches(p.receipt.globalNo)
    BY <1>3, <1>4, ReachesUp DEF CopyKept
  <2>2. CopyKept(state)' /\ Covers(state.receiptGlobalNo)'
    BY <1>8, <1>9, <1>10, <1>16, <2>1 DEF CopyKept
  <2>3. CopyKept(dayState)' /\ Reaches(lastGlobal)' /\ Given(lastGlobal)'
    BY <1>1, <1>3, <1>8, <1>9, <1>10 DEF CopyKept
  <2>4. dayState.receiptGlobalNo <= p.receipt.globalNo
    BY <1>3, <1>4
  <2> QED
    BY <1>1, <1>2, <1>7, <1>16, <2>2, <2>3, <2>4 DEF CopiesKept
<1>18. DaysKept'
  BY <1>1, <1>2 DEF DaysKept, DayDone
<1>19. PlaceKept'
  <2>1. pending # None => pending.receipt.globalNo <= p.receipt.globalNo
    BY <1>4, <1>13
  <2> QED
    BY <1>1, <1>2, <1>16, <2>1 DEF PlaceKept
<1>20. StageKept'
  BY <1>1, <1>2, <1>7 DEF StageKept
<1>21. ListKept'
  <2>1. /\ Len(queue) = Len(journal) - committed
        /\ \A i \in DOMAIN queue : queue[i].item = journal[committed + i]
    <3>1. Len(journal) - committed - 0 = Len(journal) - committed
      BY <1>4
    <3> QED
      BY <1>0, <1>2, <3>1 DEF ListKept
  <2>2. Len(queue) = Len(journal') - committed - 1
    BY <1>4, <1>5, <1>6, <2>1
  <2>3. \A i \in DOMAIN queue : committed + i \in 1..Len(journal)
    <3>1. DOMAIN queue = 1..Len(queue)
      BY KeptTypes DEF QueueTypes
    <3> QED
      BY <1>4, <2>1, <3>1
  <2> QED
    BY <1>1, <1>6, <2>1, <2>2, <2>3 DEF ListKept
<1> QED
  BY <1>14, <1>15, <1>17, <1>18, <1>19, <1>20, <1>21 DEF KeptInv

\* enqueue() signs and journals, unless over an unresolved number.
LEMMA TakeSignedKept ==
  ASSUME QueueTypeInv, KeptInv, TakeSigned, OnlySettledOutside'
  PROVE  KeptInv'
<1>1. /\ at = "sign"
      /\ pending # None => ~(pending.receipt.globalNo > state.receiptGlobalNo)
  BY DEF TakeSigned, OnlySettledOutside
<1>2. PICK amount \in Amounts, badTax \in BOOLEAN, date \in ReceiptDates(state) :
         Take(Prepare(state, SignReceipt(state, date, amount, badTax)))
  BY DEF TakeSigned
<1>3. /\ state \in DayState /\ state # None /\ TypeOK
      /\ state.receiptGlobalNo \in Nat /\ HighestGlobalNo \in Nat
      /\ pending # None => pending.receipt.globalNo \in Nat
  BY <1>1, KeptTypes DEF TakeSigned, MaySign
<1>4. CopyKept(state)
  BY <1>3, KeptParts DEF CopiesKept
<1>5. PICK p \in PreparedReceipt :
         Take(p) /\ p.receipt.globalNo = state.receiptGlobalNo + 1 /\ Sound(p)
  <2> DEFINE r == SignReceipt(state, date, amount, badTax)
  <2>1. Prepare(state, r) \in PreparedReceipt /\ Take(Prepare(state, r))
    BY <1>2, <1>3, PrepareType
  <2>2. r.globalNo = state.receiptGlobalNo + 1
    BY DEF SignReceipt
  <2> HIDE DEF r
  <2>3. Prepare(state, r).receipt.globalNo = state.receiptGlobalNo + 1 /\ Sound(Prepare(state, r))
    BY <1>3, <1>4, <2>2, SignedIsSound DEF CopyKept
  <2> QED
    BY <2>1, <2>3
<1>6. pending # None => pending.receipt.globalNo <= state.receiptGlobalNo
  BY <1>1, <1>3
<1>7. HighestGlobalNo <= state.receiptGlobalNo
  BY <1>4, <1>6 DEF CopyKept, Reaches
<1>8. /\ state.receiptGlobalNo < p.receipt.globalNo
      /\ HighestGlobalNo < p.receipt.globalNo
  BY <1>3, <1>5, <1>7
<1> QED
  BY <1>1, <1>3, <1>5, <1>6, <1>8, TakesKept

\* submitOrEnqueue() journals the receipt whose outcome it does not know.
LEMMA TakeUnansweredKept ==
  ASSUME QueueTypeInv, KeptInv, TakeUnanswered
  PROVE  KeptInv'
<1>1. at = "journal" /\ Take(pending)
  BY DEF TakeUnanswered
<1>2. pending # None /\ pending \in PreparedReceipt /\ state # None
  BY <1>1, KeptTypes DEF CallFits, InVain
<1>3. /\ NothingWaits /\ state.receiptGlobalNo < pending.receipt.globalNo
      /\ Sound(pending)
  BY <1>1, <1>2, KeptParts DEF StageKept, MarkerKept
<1> QED
  BY <1>1, <1>2, <1>3, TakesKept

-----------------------------------------------------------------------------
(* flush() submits, settles and commits the head.                          *)

\* The first entry of the list is the first record that waits, and signed.
LEMMA HeadIs ==
  ASSUME QueueTypeInv, KeptInv, at \in {"top", "commit"}, call # "none", queue # <<>>
  PROVE  /\ ~SomeUnsigned /\ ~NothingWaits /\ committed + 1 \in SignedRecords
         /\ First = journal[committed + 1] /\ IsPrepared(First) /\ First \in PreparedReceipt
         /\ queue[1].cursor = committed
         /\ Len(queue) = Len(journal) - committed
         /\ \A i \in DOMAIN queue : queue[i].item = journal[committed + i]
<1>1. /\ committed \in Nat /\ Len(journal) \in Nat /\ queue \in Seq(Item) /\ loaded
      /\ \A i \in DOMAIN queue : queue[i].cursor = committed + i - 1
  BY KeptTypes DEF QueueTypes, ListFits, CallFits
<1>2. /\ Len(queue) = Len(journal) - committed
      /\ \A i \in DOMAIN queue : queue[i].item = journal[committed + i]
      /\ ~SomeUnsigned
  <2>1. Len(journal) - committed - 0 = Len(journal) - committed
    BY <1>1
  <2> QED
    BY <1>1, <2>1, KeptParts DEF ListKept, StageKept
<1>3. 1 \in DOMAIN queue /\ Len(queue) >= 1
  BY <1>1
<1>4. ~NothingWaits /\ committed + 1 \in WaitingRecords
  BY <1>1, <1>2, <1>3 DEF NothingWaits, WaitingRecords
<1>5. First = journal[committed + 1]
  BY <1>2, <1>3 DEF First
<1>6. IsPrepared(journal[committed + 1])
  BY <1>2, <1>4 DEF SomeUnsigned
<1>7. committed + 1 \in SignedRecords
  BY <1>4, <1>6 DEF SignedRecords
<1>8. journal[committed + 1] \in PreparedReceipt
  BY <1>7, KeptTypes
<1>9. queue[1].cursor = committed
  BY <1>1, <1>3
<1> QED
  BY <1>2, <1>4, <1>5, <1>6, <1>7, <1>8, <1>9

LEMMA SubmitHeadKept ==
  ASSUME QueueTypeInv, KeptInv, SubmitHead
  PROVE  KeptInv'
<1>0. JournalKept /\ MarkerKept /\ CopiesKept /\ DaysKept /\ PlaceKept /\ StageKept /\ ListKept
  BY KeptParts
<1>1. /\ at = "top" /\ pc = "idle" /\ call \in {"flush", "sale"} /\ queue # <<>> /\ pending = None
      /\ pending' = First /\ sent' = Submit(First.receipt) /\ pc' = "submit" /\ at' = "head"
      /\ UNCHANGED <<receipts, dayStart, fiscalDayNo, status, closingErrorCode, journal, committed,
                     dayState, lastGlobal, state, queue, loaded, call, answer>>
  BY DEF SubmitHead, Flushing, NoPending, fdmsVars, journalVars
<1>2. /\ HighestGlobalNo' = HighestGlobalNo
      /\ (\A p : Held(p)' <=> Held(p)) /\ (\A p : Sound(p)' <=> Sound(p))
      /\ (\A s : CountsToday(s)' <=> CountsToday(s))
  BY <1>1, SameDay
<1>3. /\ SignedRecords' = SignedRecords /\ WaitingRecords' = WaitingRecords
      /\ (SomeUnsigned' <=> SomeUnsigned) /\ (NothingWaits' <=> NothingWaits)
      /\ (\A k : NumberOf(k)' = NumberOf(k)) /\ (\A x : Covers(x)' <=> Covers(x))
  BY <1>1, SameWaiting
<1>4. PICK p \in PreparedReceipt : p = journal[committed + 1] /\ p = First
  BY <1>1, HeadIs
<1>5. /\ ~SomeUnsigned /\ ~NothingWaits /\ committed + 1 \in SignedRecords
      /\ NumberOf(committed + 1) = p.receipt.globalNo
  BY <1>1, <1>4, HeadIs DEF NumberOf
<1>6. /\ Sound(p) /\ (Held(p) \/ HighestGlobalNo < p.receipt.globalNo)
  BY <1>0, <1>4, <1>5 DEF JournalKept
<1>7. pending' = p /\ p # None /\ HeadMarked'
  BY <1>1, <1>3, <1>4, <1>5, NoneIsNothing DEF HeadMarked
<1>8. state # None /\ sent = None /\ answer = None
  BY <1>0, <1>1 DEF PlaceKept, QueueTypeInv, CallFits, InVain
<1>9. \A k : (Held(journal[k])' <=> Held(journal[k])) /\ (Sound(journal[k])' <=> Sound(journal[k]))
  BY <1>1, <1>2
<1>10. JournalKept'
  BY <1>0, <1>1, <1>2, <1>3, <1>5, <1>9 DEF JournalKept
<1>11. MarkerKept'
  <2>1. Sound(pending)' /\ (Held(pending)' \/ HighestGlobalNo' < pending'.receipt.globalNo)
    <3>1. (Held(pending)' <=> Held(p)) /\ (Sound(pending)' <=> Sound(p))
      BY <1>2, <1>7
    <3> QED
      BY <1>2, <1>6, <1>7, <3>1
  <2> QED
    BY <1>7, <2>1 DEF MarkerKept
<1>12. CopiesKept'
  <2>1. \A x : Reaches(x) => Reaches(x)'
    BY <1>1, <1>2 DEF Reaches
  <2>2. \A x : Given(x)' <=> Given(x)
    BY <1>2, <1>3 DEF Given
  <2>3. \A s : CopyKept(s) => CopyKept(s)'
    BY <1>2, <2>1, <2>2 DEF CopyKept
  <2>4. CopyKept(state)' /\ (dayState # None => CopyKept(dayState)')
    BY <1>0, <1>1, <1>8, <2>3 DEF CopiesKept
  <2> QED
    BY <1>0, <1>1, <1>3, <1>5, <2>1, <2>2, <2>4 DEF CopiesKept
<1>13. DaysKept'
  <2>1. AllSettled => AllSettled'
    BY <1>1, <1>3, <1>7, <1>9 DEF AllSettled
  <2> QED
    BY <1>0, <1>1, <2>1 DEF DaysKept, DayDone
<1>14. PlaceKept'
  BY <1>1, <1>4, <1>7, <1>8 DEF PlaceKept
<1>15. StageKept'
  BY <1>1, <1>3, <1>5, <1>7 DEF StageKept
<1>16. ListKept'
  BY <1>0, <1>1 DEF ListKept
<1> QED
  BY <1>10, <1>11, <1>12, <1>13, <1>14, <1>15, <1>16 DEF KeptInv

\* Every entry is signed before flush() comes to it.
LEMMA UnsignedHeadKept ==
  ASSUME QueueTypeInv, KeptInv, SubmitUnsignedHead
  PROVE  KeptInv'
BY HeadIs DEF SubmitUnsignedHead, Flushing

\* The pending receipt is sent again, by flush() or by the application.
LEMMA ResubmitKept ==
  ASSUME QueueTypeInv, KeptInv, ReconcileResubmit, at = "top",
         UNCHANGED <<journal, committed, queue, loaded, call>>, call # "none" => state # None,
         at' = at \/ (at' = "head" /\ HeadMarked /\ call \in {"flush", "sale"})
  PROVE  KeptInv'
<1>0. JournalKept /\ MarkerKept /\ CopiesKept /\ DaysKept /\ PlaceKept /\ StageKept /\ ListKept
  BY KeptParts
<1>1. /\ pc = "idle" /\ pending # None /\ pc' = "submit" /\ sent' = Submit(pending.receipt)
      /\ state' = LoadedState
      /\ UNCHANGED <<receipts, dayStart, fiscalDayNo, status, closingErrorCode, journal, committed,
                     dayState, pending, lastGlobal, queue, loaded, call, answer>>
  BY DEF ReconcileResubmit, fdmsVars, storageVars
<1>2. /\ HighestGlobalNo' = HighestGlobalNo
      /\ (\A p : Held(p)' <=> Held(p)) /\ (\A p : Sound(p)' <=> Sound(p))
  BY <1>1, SameDay
<1>3. /\ SignedRecords' = SignedRecords
      /\ (SomeUnsigned' <=> SomeUnsigned) /\ (NothingWaits' <=> NothingWaits)
      /\ (\A k : NumberOf(k)' = NumberOf(k)) /\ (\A x : Covers(x)' <=> Covers(x))
  BY <1>1, SameWaiting
<1>4. /\ (\A x : Reaches(x)' <=> Reaches(x)) /\ (\A x : Given(x)' <=> Given(x))
      /\ (\A s : CopyKept(s)' <=> CopyKept(s))
      /\ (HeadMarked' <=> HeadMarked) /\ (AllSettled' <=> AllSettled)
      /\ (JournalKept' <=> JournalKept)
  BY <1>1, SameDoubt
<1>5. ~SomeUnsigned /\ answer = None
  BY <1>0, <1>1 DEF JournalKept, PlaceKept
<1>6. /\ state' = None \/ state' = state \/ state' = dayState
      /\ dayState # None => state' # None
      /\ loaded /\ state' # None => Covers(state'.receiptGlobalNo)
      /\ state' # None /\ dayState # None => dayState.receiptGlobalNo <= state'.receiptGlobalNo
  <2>1. CASE state = None
    <3>1. state' = dayState
      BY <1>1, <2>1 DEF LoadedState
    <3>2. dayState # None => dayState.receiptGlobalNo \in Nat
      BY KeptTypes
    <3> QED
      BY <1>0, <2>1, <3>1, <3>2 DEF CopiesKept
  <2>2. CASE state # None
    BY <1>0, <1>1, <2>2 DEF LoadedState, CopiesKept
  <2> QED
    BY <2>1, <2>2
<1>7. MarkerKept'
  BY <1>0, <1>1, <1>2, <1>3, <1>4, <1>6 DEF MarkerKept
<1>8. CopiesKept'
  <2>1. state' # None => CopyKept(state)'
    BY <1>0, <1>4, <1>6 DEF CopiesKept
  <2>2. dayState # None => CopyKept(dayState)'
    BY <1>0, <1>1, <1>4 DEF CopiesKept
  <2>3. Reaches(lastGlobal)' /\ Given(lastGlobal)'
    BY <1>0, <1>1, <1>4 DEF CopiesKept
  <2> QED
    BY <1>0, <1>1, <1>3, <1>5, <1>6, <2>1, <2>2, <2>3 DEF CopiesKept
<1>9. DaysKept'
  BY <1>0, <1>1, <1>4 DEF DaysKept, DayDone
<1>10. PlaceKept'
  BY <1>1, <1>5, <1>6 DEF PlaceKept
<1>11. StageKept'
  BY <1>0, <1>1, <1>3, <1>4, <1>5 DEF StageKept
<1>12. ListKept'
  BY <1>0, <1>1 DEF ListKept
<1> QED
  BY <1>0, <1>4, <1>7, <1>8, <1>9, <1>10, <1>11, <1>12 DEF KeptInv

\* GetStatus reports no number above FDMS's highest, so a receipt it reports
\* as recorded is one that FDMS holds.
LEMMA ReportedIsHeld ==
  ASSUME QueueTypeInv, KeptInv, pending # None, ReportedAsRecorded(pending)
  PROVE  Held(pending)
<1>1. /\ HighestGlobalNo \in Nat /\ pending.receipt.globalNo \in Nat
      /\ LastReceiptGlobalNo \in Nat /\ LastReceiptGlobalNo <= HighestGlobalNo
  BY KeptTypes
<1>2. ~(HighestGlobalNo < pending.receipt.globalNo)
  BY <1>1 DEF ReportedAsRecorded
<1> QED
  BY <1>2, KeptParts DEF MarkerKept

LEMMA SettleHeadKept ==
  ASSUME QueueTypeInv, KeptInv, SettleHead
  PROVE  KeptInv'
<1>1. /\ at = "top" /\ pc = "idle" /\ call \in {"flush", "sale"} /\ queue # <<>> /\ at' = "head"
      /\ pending # None /\ pending.receipt.globalNo = First.receipt.globalNo
      /\ UNCHANGED <<journal, committed, queue, loaded, call>>
      /\ ReconcileConfirmed \/ ReconcileResubmit
  BY DEF SettleHead, Flushing, HeadIsMarked, journalVars
<1>2. HeadMarked
  <2>1. committed + 1 \in SignedRecords /\ NumberOf(committed + 1) = pending.receipt.globalNo
    BY <1>1, HeadIs DEF NumberOf
  <2>2. ~(pending.receipt.globalNo < NumberOf(committed + 1))
    BY <1>1, <2>1, KeptTypes
  <2> QED
    BY <1>1, <2>1, <2>2, KeptParts DEF MarkerKept
<1>3. state # None /\ sent = None /\ answer = None /\ LoadedState = state
  BY <1>1, KeptParts, KeptTypes DEF PlaceKept, CallFits, InVain, LoadedState
<1>4. CASE ReconcileConfirmed
  <2>1. /\ state' = CommittedState(state, pending, FALSE) /\ pc' = "saveDay" /\ sent' = None /\ answer' = None
        /\ ReportedAsRecorded(pending)
        /\ UNCHANGED <<fdmsVars, storageVars>>
    BY <1>3, <1>4 DEF ReconcileConfirmed, wireVars
  <2>2. Held(pending) /\ state \in DayState \cup {None} /\ FALSE \in BOOLEAN
    BY <1>1, <1>3, <2>1, ReportedIsHeld, KeptTypes
  <2> QED
    BY <1>1, <1>2, <1>3, <2>1, <2>2, CommitsKept
<1>5. CASE ReconcileResubmit
  BY <1>1, <1>2, <1>3, <1>5, ResubmitKept
<1> QED
  BY <1>1, <1>4, <1>5

\* The cursor passes the head, which FDMS holds.
LEMMA CommitHeadKept ==
  ASSUME QueueTypeInv, KeptInv, CommitHead
  PROVE  KeptInv'
<1>0. JournalKept /\ MarkerKept /\ CopiesKept /\ DaysKept /\ PlaceKept /\ StageKept /\ ListKept
  BY KeptParts
<1>1. /\ at = "commit" /\ at' = "top"
      /\ committed' = Max({committed, queue[1].cursor + 1}) /\ queue' = Tail(queue)
      /\ UNCHANGED <<receipts, dayStart, fiscalDayNo, status, closingErrorCode, journal, pc,
                     dayState, pending, lastGlobal, state, loaded, call, sent, answer>>
  BY DEF CommitHead, vars, fdmsVars, storageVars, wireVars
<1>2. /\ call \in Calls /\ call # "none" /\ loaded /\ pc = "idle" /\ queue # <<>> /\ queue \in Seq(Item)
      /\ committed \in Nat /\ Len(journal) \in Nat /\ HighestGlobalNo \in Nat /\ lastGlobal \in Nat
      /\ \A s \in {state, dayState} \ {None} : s.receiptGlobalNo \in Nat
  BY <1>1, KeptTypes DEF CallFits, ListFits, QueueTypes
<1>3. /\ Held(journal[committed + 1]) /\ pending = None /\ sent = None /\ answer = None
      /\ call # "enqueue"
  BY <1>0, <1>1, <1>2 DEF StageKept, PlaceKept
<1>4. /\ ~SomeUnsigned /\ ~NothingWaits /\ committed + 1 \in SignedRecords
      /\ queue[1].cursor = committed /\ Len(queue) = Len(journal) - committed
      /\ \A i \in DOMAIN queue : queue[i].item = journal[committed + i]
  BY <1>1, <1>2, HeadIs
<1>5. committed' = committed + 1
  <2> DEFINE c == committed + 1
  <2>1. c \in Nat /\ committed <= c
    BY <1>2
  <2>2. committed' = Max({committed, c})
    BY <1>1, <1>4
  <2> HIDE DEF c
  <2>3. Max({committed, c}) = c
    BY <1>2, <2>1 DEF Max
  <2> QED
    BY <2>2, <2>3 DEF c
<1>6. /\ WaitingRecords' = WaitingRecords \ {committed + 1}
      /\ SignedRecords' = SignedRecords \ {committed + 1}
      /\ ~SomeUnsigned'
      /\ (\A k : NumberOf(k)' = NumberOf(k))
  <2>1. WaitingRecords' = WaitingRecords \ {committed + 1}
    BY <1>1, <1>2, <1>5 DEF WaitingRecords
  <2> QED
    BY <1>1, <1>4, <2>1 DEF SignedRecords, SomeUnsigned, NumberOf
<1>7. /\ HighestGlobalNo' = HighestGlobalNo
      /\ (\A p : Held(p)' <=> Held(p)) /\ (\A p : Sound(p)' <=> Sound(p))
      /\ (\A s : CountsToday(s)' <=> CountsToday(s))
  BY <1>1, SameDay
<1>8. \A k : (Held(journal[k])' <=> Held(journal[k])) /\ (Sound(journal[k])' <=> Sound(journal[k]))
  BY <1>1, <1>7
<1>9. NumberOf(committed + 1) \in Nat /\ NumberOf(committed + 1) <= HighestGlobalNo
  BY <1>3, KeptTypes DEF NumberOf
<1>10. JournalKept'
  <2>1. \A i \in 1..committed' : i \in 1..committed \/ i = committed + 1
    BY <1>2, <1>5
  <2>2. \A i \in 1..committed' : Held(journal[i])'
    BY <1>0, <1>3, <1>8, <2>1 DEF JournalKept
  <2>3. \A k \in SignedRecords' : Sound(journal[k])' /\ HighestGlobalNo' < NumberOf(k)'
    BY <1>0, <1>6, <1>7, <1>8 DEF JournalKept
  <2>4. \A i, k \in WaitingRecords' : i < k /\ IsPrepared(journal'[k]) =>
          IsPrepared(journal'[i]) /\ NumberOf(i)' < NumberOf(k)'
    BY <1>0, <1>1, <1>6 DEF JournalKept
  <2> QED
    BY <1>6, <2>2, <2>3, <2>4 DEF JournalKept
<1>11. MarkerKept'
  BY <1>1, <1>3 DEF MarkerKept
<1>12. CopiesKept'
  <2>1. \A x : Reaches(x) => Reaches(x)'
    BY <1>1, <1>3, <1>7 DEF Reaches
  <2>2. ASSUME NEW x \in Nat, Given(x)
        PROVE  Given(x)'
    <3>1. CASE x <= HighestGlobalNo
      BY <1>7, <3>1 DEF Given
    <3>2. CASE \E k \in SignedRecords : x <= NumberOf(k)
      <4>1. PICK k \in SignedRecords : x <= NumberOf(k)
        BY <3>2
      <4>2. CASE k = committed + 1
        BY <1>2, <1>7, <1>9, <4>1, <4>2 DEF Given
      <4>3. CASE k # committed + 1
        BY <1>6, <4>1, <4>3 DEF Given
      <4> QED
        BY <4>2, <4>3
    <3> QED
      BY <2>2, <3>1, <3>2 DEF Given
  <2>3. \A x : Covers(x) => Covers(x)'
    BY <1>6 DEF Covers
  <2>4. \A s \in {state, dayState} \ {None} : CopyKept(s) => CopyKept(s)'
    BY <1>2, <1>7, <2>1, <2>2 DEF CopyKept
  <2>5. /\ state # None => CopyKept(state)'
        /\ dayState # None => CopyKept(dayState)'
        /\ Reaches(lastGlobal)' /\ Given(lastGlobal)'
    BY <1>0, <1>1, <1>2, <2>1, <2>2, <2>4 DEF CopiesKept
  <2> QED
    BY <1>0, <1>1, <1>6, <2>3, <2>5 DEF CopiesKept
<1>13. DaysKept'
  <2>1. AllSettled => AllSettled'
    BY <1>1, <1>3, <1>6 DEF AllSettled
  <2> QED
    BY <1>0, <1>1, <2>1 DEF DaysKept, DayDone
<1>14. PlaceKept'
  BY <1>1, <1>2, <1>3 DEF PlaceKept
<1>15. StageKept'
  BY <1>0, <1>1, <1>3, <1>6 DEF StageKept
<1>16. ListKept'
  <2>1. PICK n \in Nat : n = Len(queue) /\ n >= 1
    BY <1>2
  <2>2. Len(queue') = n - 1 /\ \A i \in 1..(n - 1) : queue'[i] = queue[i + 1] /\ i + 1 \in DOMAIN queue
    BY <1>1, <1>2, <2>1
  <2>3. n - 1 = Len(journal) - committed' - 0
    BY <1>2, <1>4, <1>5, <2>1
  <2>4. ASSUME NEW i \in DOMAIN queue'
        PROVE  queue'[i].item = journal'[committed' + i]
    <3>1. i \in 1..(n - 1) /\ i \in Int
      <4>1. queue' \in Seq(Item)
        BY <1>1, <1>2
      <4>2. DOMAIN queue' = 1..(n - 1)
        BY <2>2, <4>1
      <4> QED
        BY <4>2
    <3>2. queue'[i].item = journal[committed + (i + 1)]
      BY <1>4, <2>2, <3>1
    <3>3. committed + (i + 1) = committed' + i
      BY <1>2, <1>5, <3>1
    <3> QED
      BY <1>1, <3>2, <3>3
  <2> QED
    BY <1>1, <2>2, <2>3, <2>4 DEF ListKept
<1> QED
  BY <1>10, <1>11, <1>12, <1>13, <1>14, <1>15, <1>16 DEF KeptInv

\* submitOrEnqueue() signs its own receipt once nothing waits.
LEMMA SubmitSaleKept ==
  ASSUME QueueTypeInv, KeptInv, SubmitSale
  PROVE  KeptInv'
<1>0. JournalKept /\ MarkerKept /\ CopiesKept /\ DaysKept /\ PlaceKept /\ StageKept /\ ListKept
  BY KeptParts
<1>1. /\ at = "top" /\ pc = "idle" /\ call = "sale" /\ queue = <<>> /\ pending = None /\ state # None
      /\ pc' = "submit" /\ at' = "sale"
      /\ UNCHANGED <<receipts, dayStart, fiscalDayNo, status, closingErrorCode, journal, committed,
                     dayState, lastGlobal, state, queue, loaded, call, answer>>
  BY DEF SubmitSale, SubmitReceipt, Flushing, NoPending, fdmsVars, journalVars
<1>2. /\ HighestGlobalNo' = HighestGlobalNo
      /\ (\A p : Held(p)' <=> Held(p)) /\ (\A p : Sound(p)' <=> Sound(p))
      /\ (\A s : CountsToday(s)' <=> CountsToday(s))
  BY <1>1, SameDay
<1>3. /\ SignedRecords' = SignedRecords /\ WaitingRecords' = WaitingRecords
      /\ (SomeUnsigned' <=> SomeUnsigned) /\ (NothingWaits' <=> NothingWaits)
      /\ (\A k : NumberOf(k)' = NumberOf(k)) /\ (\A x : Covers(x)' <=> Covers(x))
  BY <1>1, SameWaiting
<1>4. /\ TypeOK /\ state \in DayState /\ state.receiptGlobalNo \in Nat /\ HighestGlobalNo \in Nat
      /\ dayState # None => dayState.receiptGlobalNo \in Nat
      /\ loaded /\ sent = None /\ answer = None
  BY <1>0, <1>1, KeptTypes DEF CallFits, PlaceKept
<1>5. /\ ~SomeUnsigned /\ NothingWaits /\ SignedRecords = {} /\ WaitingRecords = {}
  <2>1. ~SomeUnsigned
    BY <1>0, <1>1, <1>4 DEF StageKept
  <2>2. Len(journal) - committed - 0 = 0
    BY <1>0, <1>1, <1>4 DEF ListKept
  <2>3. NothingWaits
    BY <2>2, KeptTypes DEF NothingWaits
  <2>4. WaitingRecords = {}
    BY <2>3, KeptTypes DEF NothingWaits, WaitingRecords
  <2> QED
    BY <2>1, <2>3, <2>4 DEF SignedRecords
<1>6. /\ CopyKept(state) /\ status = "FiscalDayOpened" /\ dayState # None
      /\ HighestGlobalNo <= state.receiptGlobalNo
      /\ dayState.receiptGlobalNo <= state.receiptGlobalNo
  BY <1>0, <1>1 DEF CopiesKept, DaysKept, CopyKept, Reaches
<1>7. PICK p \in PreparedReceipt :
         /\ pending' = p /\ sent' = Submit(p.receipt)
         /\ p.receipt.globalNo = state.receiptGlobalNo + 1 /\ Sound(p)
  <2>1. PICK amount \in Amounts, badTax \in BOOLEAN, date \in ReceiptDates(state) :
           LET r == SignReceipt(state, date, amount, badTax)
           IN  pending' = Prepare(state, r) /\ sent' = Submit(r)
    BY DEF SubmitSale, SubmitReceipt
  <2> DEFINE r == SignReceipt(state, date, amount, badTax)
  <2>2. Prepare(state, r) \in PreparedReceipt
    BY <1>4, PrepareType
  <2>3. r.globalNo = state.receiptGlobalNo + 1
    BY DEF SignReceipt
  <2>4. pending' = Prepare(state, r) /\ sent' = Submit(r)
    BY <2>1
  <2> HIDE DEF r
  <2>5. Prepare(state, r).receipt.globalNo = state.receiptGlobalNo + 1 /\ Sound(Prepare(state, r))
    BY <1>4, <1>6, <2>3, SignedIsSound DEF CopyKept
  <2>6. Prepare(state, r).receipt = r
    BY DEF Prepare
  <2> QED
    BY <2>2, <2>4, <2>5, <2>6
<1>8. /\ p # None /\ state.receiptGlobalNo < p.receipt.globalNo /\ HighestGlobalNo < p.receipt.globalNo
      /\ dayState.receiptGlobalNo < p.receipt.globalNo
  BY <1>4, <1>6, <1>7, NoneIsNothing
<1>9. JournalKept'
  <2>1. \A k : Held(journal[k])' <=> Held(journal[k])
    BY <1>1, <1>2
  <2> QED
    BY <1>0, <1>1, <1>3, <1>5, <2>1 DEF JournalKept
<1>10. MarkerKept'
  <2>1. Sound(pending)'
    BY <1>2, <1>7
  <2> QED
    BY <1>1, <1>2, <1>3, <1>5, <1>7, <1>8, <2>1 DEF MarkerKept
<1>11. CopiesKept'
  <2>1. \A x : Reaches(x) => Reaches(x)'
    BY <1>1, <1>2 DEF Reaches
  <2>2. \A x : Given(x)' <=> Given(x)
    BY <1>2, <1>3 DEF Given
  <2>3. \A s : CopyKept(s) => CopyKept(s)'
    BY <1>2, <2>1, <2>2 DEF CopyKept
  <2>4. CopyKept(state)' /\ CopyKept(dayState)'
    BY <1>0, <1>1, <1>6, <2>3 DEF CopiesKept
  <2> QED
    BY <1>0, <1>1, <1>3, <1>5, <2>1, <2>2, <2>4 DEF CopiesKept
<1>12. DaysKept'
  BY <1>1, <1>6 DEF DaysKept, DayDone
<1>13. PlaceKept'
  BY <1>1, <1>4, <1>7, <1>8 DEF PlaceKept
<1>14. StageKept'
  BY <1>1, <1>3, <1>5, <1>7, <1>8 DEF StageKept
<1>15. ListKept'
  BY <1>0, <1>1 DEF ListKept
<1> QED
  BY <1>9, <1>10, <1>11, <1>12, <1>13, <1>14, <1>15 DEF KeptInv

-----------------------------------------------------------------------------
(* The application's own calls of the device.                              *)

\* reconcile() with nothing to settle loads the stored day.
LEMMA ReconcileNothingKept ==
  ASSUME QueueTypeInv, KeptInv, ReconcileNothing, call = "none",
         UNCHANGED <<journal, committed, queue, loaded, call, at>>
  PROVE  KeptInv'
<1>0. JournalKept /\ MarkerKept /\ CopiesKept /\ DaysKept /\ PlaceKept /\ StageKept /\ ListKept
  BY KeptParts
<1>1. /\ pc = "idle" /\ pending = None /\ state = None /\ dayState # None /\ state' = dayState
      /\ UNCHANGED <<receipts, dayStart, fiscalDayNo, status, closingErrorCode, journal, committed, pc,
                     dayState, pending, lastGlobal, queue, loaded, call, at, sent, answer>>
  BY DEF ReconcileNothing, LoadedState, fdmsVars, storageVars, wireVars
<1>2. /\ HighestGlobalNo' = HighestGlobalNo
      /\ (\A p : Held(p)' <=> Held(p)) /\ (\A p : Sound(p)' <=> Sound(p))
  BY <1>1, SameDay
<1>3. /\ SignedRecords' = SignedRecords
      /\ (SomeUnsigned' <=> SomeUnsigned) /\ (NothingWaits' <=> NothingWaits)
      /\ (\A k : NumberOf(k)' = NumberOf(k)) /\ (\A x : Covers(x)' <=> Covers(x))
  BY <1>1, SameWaiting
<1>4. /\ (\A x : Reaches(x)' <=> Reaches(x)) /\ (\A x : Given(x)' <=> Given(x))
      /\ (\A s : CopyKept(s)' <=> CopyKept(s))
      /\ (HeadMarked' <=> HeadMarked) /\ (AllSettled' <=> AllSettled)
      /\ (JournalKept' <=> JournalKept)
  BY <1>1, SameDoubt
<1>5. /\ dayState.receiptGlobalNo \in Nat /\ sent = None /\ answer = None /\ at = "top"
  BY <1>0, <1>1, KeptTypes DEF PlaceKept, CallFits
<1>6. MarkerKept'
  BY <1>1 DEF MarkerKept
<1>7. CopiesKept'
  <2>1. CopyKept(state)' /\ CopyKept(dayState)' /\ Reaches(lastGlobal)' /\ Given(lastGlobal)'
    BY <1>0, <1>1, <1>4 DEF CopiesKept
  <2> QED
    BY <1>0, <1>1, <1>3, <1>5, <2>1 DEF CopiesKept
<1>8. DaysKept'
  BY <1>0, <1>1, <1>4 DEF DaysKept, DayDone
<1>9. PlaceKept'
  BY <1>1, <1>5 DEF PlaceKept
<1>10. StageKept'
  BY <1>0, <1>1, <1>3, <1>5 DEF StageKept
<1>11. ListKept'
  BY <1>0, <1>1, <1>5 DEF ListKept
<1> QED
  BY <1>0, <1>4, <1>6, <1>7, <1>8, <1>9, <1>10, <1>11 DEF KeptInv

LEMMA AppReconcileKept ==
  ASSUME QueueTypeInv, KeptInv, AppReconcile
  PROVE  KeptInv'
<1>1. /\ call = "none" /\ at = "top"
      /\ UNCHANGED <<journal, committed, queue, loaded, call, at>>
      /\ ReconcileNothing \/ ReconcileConfirmed \/ ReconcileResubmit
  BY KeptTypes DEF AppReconcile, Reconcile, journalVars, CallFits
<1>2. CASE ReconcileNothing
  BY <1>1, <1>2, ReconcileNothingKept
<1>3. CASE ReconcileResubmit
  BY <1>1, <1>3, ResubmitKept
<1>4. CASE ReconcileConfirmed
  <2>1. /\ state' = CommittedState(LoadedState, pending, FALSE) /\ pc = "idle" /\ pc' = "saveDay"
        /\ pending # None /\ ReportedAsRecorded(pending)
        /\ UNCHANGED <<fdmsVars, storageVars, sent, answer>>
    BY <1>4 DEF ReconcileConfirmed, wireVars
  <2>2. sent' = None /\ answer' = None
    BY <2>1, KeptParts DEF PlaceKept
  <2>3. Held(pending) /\ FALSE \in BOOLEAN
    BY <2>1, ReportedIsHeld
  <2>4. /\ LoadedState \in DayState \cup {None}
        /\ LoadedState = state \/ (state = None /\ LoadedState = dayState)
        /\ LoadedState = None => dayState = None
    BY KeptTypes DEF LoadedState
  <2>5. PICK s \in DayState \cup {None} : s = LoadedState
    BY <2>4
  <2> QED
    BY <1>1, <2>1, <2>2, <2>3, <2>4, <2>5, CommitsKept
<1> QED
  BY <1>1, <1>2, <1>3, <1>4

\* closeDay() behind a stored day that is up with the journal signs counters
\* that take in every receipt that waits.
LEMMA AppClosesKept ==
  ASSUME QueueTypeInv, KeptInv, AppCloses, OnlySettledOutside'
  PROVE  KeptInv'
<1>0. JournalKept /\ MarkerKept /\ CopiesKept /\ DaysKept /\ PlaceKept /\ StageKept /\ ListKept
  BY KeptParts
<1>1. /\ pc = "idle" /\ call = "none" /\ pending = None /\ state # None
      /\ pc' = "close" /\ sent' = CloseBody(state) /\ ~StoredIsBehind
      /\ UNCHANGED <<receipts, dayStart, fiscalDayNo, status, closingErrorCode, journal, committed,
                     dayState, pending, lastGlobal, state, queue, loaded, call, at, answer>>
  BY DEF AppCloses, CloseDay, NoPending, OnlySettledOutside, fdmsVars, storageVars, journalVars
<1>2. /\ HighestGlobalNo' = HighestGlobalNo
      /\ (\A p : Held(p)' <=> Held(p)) /\ (\A p : Sound(p)' <=> Sound(p))
  BY <1>1, SameDay
<1>3. /\ SignedRecords' = SignedRecords
      /\ (SomeUnsigned' <=> SomeUnsigned) /\ (NothingWaits' <=> NothingWaits)
      /\ (\A k : NumberOf(k)' = NumberOf(k)) /\ (\A x : Covers(x)' <=> Covers(x))
  BY <1>1, SameWaiting
<1>4. /\ (\A x : Reaches(x)' <=> Reaches(x)) /\ (\A x : Given(x)' <=> Given(x))
      /\ (\A s : CopyKept(s)' <=> CopyKept(s))
      /\ (HeadMarked' <=> HeadMarked) /\ (AllSettled' <=> AllSettled)
      /\ (JournalKept' <=> JournalKept)
  BY <1>1, SameDoubt
<1>5. sent = None /\ answer = None /\ at = "top" /\ state.receiptGlobalNo \in Nat
  BY <1>0, <1>1, KeptTypes DEF PlaceKept, CallFits
<1>6. ~SomeUnsigned
  BY <1>1, ReadIs, ListIsSigned DEF StoredIsBehind
<1>8. /\ Covers(state.receiptGlobalNo)
      /\ dayState # None => Covers(dayState.receiptGlobalNo)
  <2>1. CASE NothingWaits
    <3>1. SignedRecords = {}
      BY <2>1, KeptTypes DEF SignedRecords, WaitingRecords, NothingWaits
    <3> QED
      BY <3>1 DEF Covers
  <2>2. CASE ~NothingWaits
    <3>1. dayState # None /\ CaughtUp(dayState) = dayState
      BY <1>1, <2>2, ReadIs DEF StoredIsBehind
    <3>2. dayState \in DayState /\ dayState.receiptGlobalNo \in Nat
      BY <3>1, KeptTypes
    <3>3. Covers(dayState.receiptGlobalNo)
      BY <1>0, <1>6, <3>1, <3>2, CaughtUpCovers
    <3>4. dayState.receiptGlobalNo <= state.receiptGlobalNo
      BY <1>0, <1>1, <3>1 DEF CopiesKept
    <3> QED
      BY <1>5, <3>2, <3>3, <3>4, CoversUp
  <2> QED
    BY <2>1, <2>2
<1>9. MarkerKept'
  BY <1>1 DEF MarkerKept
<1>10. CopiesKept'
  BY <1>0, <1>1, <1>3, <1>4 DEF CopiesKept
<1>11. DaysKept'
  BY <1>0, <1>1, <1>4 DEF DaysKept, DayDone
<1>12. PlaceKept'
  BY <1>1, <1>3, <1>5, <1>6, <1>8 DEF PlaceKept
<1>13. StageKept'
  BY <1>0, <1>1, <1>3, <1>5 DEF StageKept
<1>14. ListKept'
  BY <1>0, <1>1, <1>5 DEF ListKept
<1> QED
  BY <1>0, <1>4, <1>9, <1>10, <1>11, <1>12, <1>13, <1>14 DEF KeptInv

LEMMA OpenDayKept ==
  ASSUME QueueTypeInv, KeptInv, OpenDay, ~KeepsOldDay, call = "none", UNCHANGED queueVars
  PROVE  KeptInv'
<1>0. JournalKept /\ MarkerKept /\ CopiesKept /\ DaysKept /\ PlaceKept /\ StageKept /\ ListKept
  BY KeptParts
<1>1. /\ pc = "idle" /\ call = "none" /\ pending = None /\ status = "FiscalDayClosed" /\ OldDayCleared
      /\ pc' = "open" /\ sent' = [endpoint |-> "OpenDay"] /\ reported' = LastReceiptGlobalNo
      /\ UNCHANGED <<receipts, dayStart, fiscalDayNo, status, closingErrorCode, journal, committed,
                     dayState, pending, lastGlobal, state, queue, loaded, call, at, answer>>
  BY DEF OpenDay, NoPending, fdmsVars, storageVars, queueVars, journalVars
<1>2. /\ HighestGlobalNo' = HighestGlobalNo
      /\ (\A p : Held(p)' <=> Held(p)) /\ (\A p : Sound(p)' <=> Sound(p))
  BY <1>1, SameDay
<1>3. /\ SignedRecords' = SignedRecords
      /\ (SomeUnsigned' <=> SomeUnsigned) /\ (NothingWaits' <=> NothingWaits)
      /\ (\A k : NumberOf(k)' = NumberOf(k)) /\ (\A x : Covers(x)' <=> Covers(x))
  BY <1>1, SameWaiting
<1>4. /\ (\A x : Reaches(x)' <=> Reaches(x)) /\ (\A x : Given(x)' <=> Given(x))
      /\ (AllSettled' <=> AllSettled) /\ (JournalKept' <=> JournalKept)
  BY <1>1, SameDoubt
<1>5. /\ sent = None /\ answer = None /\ at = "top" /\ LastReceiptGlobalNo <= HighestGlobalNo
      /\ state = None /\ dayState = None /\ AllSettled
  BY <1>0, <1>1, KeptTypes DEF PlaceKept, CallFits, OldDayCleared, DaysKept, DayDone
<1>6. MarkerKept'
  BY <1>1 DEF MarkerKept
<1>7. CopiesKept'
  BY <1>0, <1>1, <1>3, <1>4, <1>5 DEF CopiesKept
<1>8. DaysKept'
  BY <1>1, <1>4, <1>5 DEF DaysKept
<1>9. PlaceKept'
  BY <1>1, <1>2, <1>5 DEF PlaceKept, OldDayCleared
<1>10. StageKept'
  BY <1>0, <1>1, <1>3, <1>5 DEF StageKept
<1>11. ListKept'
  BY <1>0, <1>1, <1>5 DEF ListKept
<1> QED
  BY <1>0, <1>4, <1>6, <1>7, <1>8, <1>9, <1>10, <1>11 DEF KeptInv

\* clearPersistedState(), with the day closed.
LEMMA ClearPersistedStateKept ==
  ASSUME QueueTypeInv, KeptInv, ClearPersistedState, call = "none", UNCHANGED queueVars
  PROVE  KeptInv'
<1>0. JournalKept /\ MarkerKept /\ CopiesKept /\ DaysKept /\ PlaceKept /\ StageKept /\ ListKept
  BY KeptParts
<1>1. /\ pc = "idle" /\ call = "none" /\ status = "FiscalDayClosed" /\ state' = None /\ dayState' = None
      /\ UNCHANGED <<receipts, dayStart, fiscalDayNo, status, closingErrorCode, journal, committed, pc,
                     pending, lastGlobal, queue, loaded, call, at, sent, answer>>
  BY DEF ClearPersistedState, fdmsVars, wireVars, queueVars, journalVars
<1>2. /\ HighestGlobalNo' = HighestGlobalNo
      /\ (\A p : Held(p)' <=> Held(p)) /\ (\A p : Sound(p)' <=> Sound(p))
  BY <1>1, SameDay
<1>3. /\ SignedRecords' = SignedRecords
      /\ (SomeUnsigned' <=> SomeUnsigned) /\ (NothingWaits' <=> NothingWaits)
      /\ (\A k : NumberOf(k)' = NumberOf(k)) /\ (\A x : Covers(x)' <=> Covers(x))
  BY <1>1, SameWaiting
<1>4. /\ (\A x : Reaches(x)' <=> Reaches(x)) /\ (\A x : Given(x)' <=> Given(x))
      /\ (HeadMarked' <=> HeadMarked) /\ (AllSettled' <=> AllSettled)
      /\ (JournalKept' <=> JournalKept)
  BY <1>1, SameDoubt
<1>5. sent = None /\ answer = None /\ at = "top" /\ AllSettled /\ ~SomeUnsigned
  BY <1>0, <1>1, SettledIs, KeptTypes DEF PlaceKept, CallFits, DaysKept, DayDone
<1>6. MarkerKept'
  BY <1>0, <1>1, <1>2, <1>3, <1>4 DEF MarkerKept
<1>7. CopiesKept'
  BY <1>0, <1>1, <1>3, <1>4, <1>5 DEF CopiesKept
<1>8. DaysKept'
  BY <1>1, <1>4, <1>5 DEF DaysKept
<1>9. PlaceKept'
  BY <1>1, <1>5 DEF PlaceKept
<1>10. StageKept'
  BY <1>0, <1>1, <1>3, <1>5 DEF StageKept
<1>11. ListKept'
  BY <1>0, <1>1, <1>5 DEF ListKept
<1> QED
  BY <1>0, <1>4, <1>6, <1>7, <1>8, <1>9, <1>10, <1>11 DEF KeptInv

LEMMA AppOpensOrClearsKept ==
  ASSUME QueueTypeInv, KeptInv, AppOpensOrClears, ~KeepsOldDay
  PROVE  KeptInv'
BY OpenDayKept, ClearPersistedStateKept DEF AppOpensOrClears

-----------------------------------------------------------------------------
(* FDMS, the day and the clock.                                            *)

\* What FDMS's record shows of one receipt more.
LEMMA RecordedIs ==
  ASSUME QueueTypeInv, NEW r \in Receipt, RecordReceipt(r)
  PROVE  /\ HighestGlobalNo' = IF HighestGlobalNo < r.globalNo THEN r.globalNo ELSE HighestGlobalNo
         /\ DayReceiptCount' = DayReceiptCount + 1
         /\ DayHasRed => DayHasRed'
         /\ r.globalNo # HighestGlobalNo + 1 => DayHasRed'
         /\ \A p : Held(p) => Held(p)'
         /\ \A p : p.receipt = r => Held(p)'
<1> DEFINE e == [receipt |-> r, errors |-> ValidationErrors(r)]
<1>0. PICK n \in Nat : n = Len(receipts)
  BY KeptTypes DEF FdmsTypeOK
<1>1. /\ n \in Nat /\ receipts \in Seq(Recorded) /\ dayStart \in 0..n /\ e \in Recorded
      /\ FdmsTypeOK
  <2>1. ValidationErrors(r) \in SUBSET RedCodes
    BY DEF ValidationErrors
  <2>2. e \in Recorded
    BY <2>1 DEF Recorded
  <2> QED
    BY <1>0, <2>2, KeptTypes DEF FdmsTypeOK
<1>2. receipts' = Append(receipts, e) /\ UNCHANGED <<status, fiscalDayNo, dayStart, closingErrorCode>>
  BY DEF RecordReceipt
<1>3. e.receipt = r /\ e.errors = ValidationErrors(r)
  OBVIOUS
<1> HIDE DEF e
<1>4. /\ Len(receipts') = n + 1 /\ DOMAIN receipts' = 1..(n + 1) /\ DOMAIN receipts = 1..n
      /\ receipts'[n + 1] = e /\ \A i \in 1..n : receipts'[i] = receipts[i]
      /\ receipts' \in Seq(Recorded)
  BY <1>0, <1>1, <1>2
<1>5. /\ ReceiptAt(n + 1)' = r /\ \A i \in 1..n : ReceiptAt(i)' = ReceiptAt(i)
  BY <1>3, <1>4 DEF ReceiptAt
<1>6. /\ \A p : Held(p) => Held(p)'
      /\ \A p : p.receipt = r => Held(p)'
  <2>1. \A i \in 1..n : i \in 1..(n + 1)
    BY <1>1
  <2>2. n + 1 \in 1..(n + 1)
    BY <1>1
  <2> QED
    BY <1>4, <1>5, <2>1, <2>2 DEF Held
<1>7. DayReceiptCount' = DayReceiptCount + 1
  <2>1. DayReceiptCount = n - dayStart
    BY <1>0 DEF DayReceiptCount
  <2>2. DayReceiptCount' = (n + 1) - dayStart
    <3>1. Len(receipts') = n + 1 /\ dayStart' = dayStart
      BY <1>2, <1>4
    <3> QED
      BY ONLY <3>1 DEF DayReceiptCount
  <2> QED
    BY <1>1, <2>1, <2>2
<1>8. DayHasRed => DayHasRed'
  <2>1. \A i \in (dayStart + 1)..n : i \in 1..n /\ i \in (dayStart + 1)..(n + 1)
    BY <1>1
  <2>2. DayHasRed <=> \E i \in (dayStart + 1)..n : receipts[i].errors # {}
    BY <1>0 DEF DayHasRed
  <2>3. DayHasRed' <=> \E i \in (dayStart + 1)..(n + 1) : receipts'[i].errors # {}
    BY <1>2, <1>4 DEF DayHasRed
  <2> QED
    BY <1>4, <2>1, <2>2, <2>3
<1>9. r.globalNo # HighestGlobalNo + 1 => DayHasRed'
  <2>1. ASSUME r.globalNo # HighestGlobalNo + 1
        PROVE  "RCPT012" \in ValidationErrors(r)
    BY <2>1 DEF ValidationErrors, Fails, RedCodes, SequencingCodes
  <2>2. n + 1 \in (dayStart + 1)..(n + 1)
    BY <1>1
  <2>3. DayHasRed' <=> \E i \in (dayStart + 1)..(n + 1) : receipts'[i].errors # {}
    BY <1>2, <1>4 DEF DayHasRed
  <2> QED
    BY <1>3, <1>4, <2>1, <2>2, <2>3
<1>10. HighestGlobalNo' = IF HighestGlobalNo < r.globalNo THEN r.globalNo ELSE HighestGlobalNo
  <2>1. /\ HighestGlobalNo \in Nat /\ HighestGlobalNo \in GlobalNos \cup {0}
        /\ \A j \in 1..n : ReceiptAt(j).globalNo \in Nat /\ ReceiptAt(j).globalNo <= HighestGlobalNo
    BY <1>1, <1>4, HighestIs
  <2>2. GlobalNos' = GlobalNos \cup {r.globalNo}
    <3>1. GlobalNos = {ReceiptAt(i).globalNo : i \in 1..n}
      BY <1>4 DEF GlobalNos
    <3>2. GlobalNos' = {receipts'[i].receipt.globalNo : i \in 1..(n + 1)}
      BY <1>4 DEF GlobalNos, ReceiptAt
    <3>3. \A i : i \in 1..(n + 1) <=> (i \in 1..n \/ i = n + 1)
      BY <1>1
    <3>4. /\ receipts'[n + 1].receipt = r
          /\ \A i \in 1..n : receipts'[i].receipt = ReceiptAt(i)
      BY <1>3, <1>4 DEF ReceiptAt
    <3> QED
      BY <3>1, <3>2, <3>3, <3>4
  <2>3. \A y \in GlobalNos : y \in Nat /\ y <= HighestGlobalNo
    BY <1>4, <2>1 DEF GlobalNos
  <2>4. PICK h \in Nat, g \in Nat : h = HighestGlobalNo /\ g = r.globalNo
    BY <2>1 DEF Receipt
  <2>5. PICK m \in Nat : m = IF h < g THEN g ELSE h
    OBVIOUS
  <2>6. m \in GlobalNos' \cup {0}
    BY <2>1, <2>2, <2>4, <2>5
  <2>7. \A y \in GlobalNos' \cup {0} : y \in Nat /\ m >= y
    BY <2>2, <2>3, <2>4, <2>5
  <2>8. HighestGlobalNo' \in GlobalNos' \cup {0} /\ \A y \in GlobalNos' \cup {0} : HighestGlobalNo' >= y
    BY <2>6, <2>7 DEF HighestGlobalNo, Max
  <2>9. HighestGlobalNo' = m
    BY <2>6, <2>7, <2>8
  <2> QED
    BY <2>4, <2>5, <2>9
<1> QED
  BY <1>6, <1>7, <1>8, <1>9, <1>10

\* FDMS records the receipt that is marked: a new one, or one it holds twice
\* from now on, which a Red error tells.
LEMMA ReceiptRecordedKept ==
  ASSUME QueueTypeInv, KeptInv, pc = "submit", status = "FiscalDayOpened",
         RecordReceipt(pending.receipt), sent' = None, answer' # None, answer'.ok,
         UNCHANGED <<state, pc, reported, storageVars, queueVars>>
  PROVE  KeptInv'
<1>0. JournalKept /\ MarkerKept /\ CopiesKept /\ DaysKept /\ PlaceKept /\ StageKept /\ ListKept
  BY KeptParts
<1>1. UNCHANGED <<fiscalDayNo, status, closingErrorCode, journal, committed, pc,
                  dayState, pending, lastGlobal, state, queue, loaded, call, at>>
  BY DEF RecordReceipt, storageVars, queueVars, journalVars
<1>2. /\ pending # None /\ pending \in PreparedReceipt /\ Sound(pending)
      /\ ~SomeUnsigned
  BY <1>0, KeptTypes DEF PlaceKept, MarkerKept, JournalKept
<1>3. /\ SignedRecords' = SignedRecords /\ WaitingRecords' = WaitingRecords
      /\ (SomeUnsigned' <=> SomeUnsigned) /\ (NothingWaits' <=> NothingWaits)
      /\ (\A k : NumberOf(k)' = NumberOf(k)) /\ (\A x : Covers(x)' <=> Covers(x))
  BY <1>1, SameWaiting
<1>4. PICK h \in Nat, g \in Nat : h = HighestGlobalNo /\ g = pending.receipt.globalNo
  BY <1>2, KeptTypes
<1>5. /\ HighestGlobalNo' = IF h < g THEN g ELSE h
      /\ DayReceiptCount' = DayReceiptCount + 1
      /\ DayHasRed => DayHasRed'
      /\ g # h + 1 => DayHasRed'
      /\ \A p : Held(p) => Held(p)'
      /\ \A p : p.receipt = pending.receipt => Held(p)'
  <2>1. pending.receipt \in Receipt
    BY <1>2 DEF PreparedReceipt
  <2> QED
    BY <1>4, <2>1, RecordedIs
<1>6. Held(pending)'
  <2>1. \A p : p = pending => Held(p)'
    BY <1>5
  <2> QED
    BY <1>1, <2>1
<1>7. ASSUME NEW s \in DayState, CountsToday(s)
      PROVE  CountsToday(s)'
  <2>1. s.receiptGlobalNo \in Nat /\ s.receiptCounter \in Nat /\ DayReceiptCount \in Nat
    BY KeptTypes DEF DayState
  <2>2. CASE DayHasRed'
    BY <1>1, <1>7, <2>2 DEF CountsToday
  <2>3. CASE ~DayHasRed'
    <3>1. /\ HighestGlobalNo' = h + 1 /\ DayReceiptCount' = DayReceiptCount + 1
          /\ ~DayHasRed
      BY <1>4, <1>5, <2>3
    <3>2. h - DayReceiptCount = (h + 1) - (DayReceiptCount + 1)
      BY <1>4, <2>1
    <3> QED
      BY <1>1, <1>4, <1>7, <3>1, <3>2 DEF CountsToday
  <2> QED
    BY <2>2, <2>3
<1>8. \A p \in PreparedReceipt : Sound(p) => Sound(p)'
  BY <1>7 DEF Sound, PreparedReceipt
<1>9. /\ h <= HighestGlobalNo' /\ HighestGlobalNo' \in Nat
      /\ (h < g /\ HighestGlobalNo' = g) \/ (g <= h /\ HighestGlobalNo' = h /\ Held(pending))
  <2>1. g <= h => Held(pending)
    <3>1. g <= h => ~(h < g)
      BY <1>4
    <3> QED
      BY <1>0, <1>2, <1>4, <3>1 DEF MarkerKept
  <2> QED
    BY <1>4, <1>5, <2>1
<1>10. \A x : Reaches(x) => Reaches(x)'
  <2>1. CASE h < g /\ HighestGlobalNo' = g
    BY <1>1, <1>2, <1>4, <1>6, <2>1 DEF Reaches
  <2>2. CASE HighestGlobalNo' = h
    BY <1>1, <1>2, <1>4, <1>6, <2>2 DEF Reaches
  <2> QED
    BY <1>9, <2>1, <2>2
<1>11. \A x \in Nat : Given(x) => Given(x)'
  <2>1. \A x \in Nat : x <= h => x <= HighestGlobalNo'
    BY <1>4, <1>9
  <2> QED
    BY <1>3, <1>4, <2>1 DEF Given
<1>12. HeadMarked' <=> HeadMarked
  BY <1>1, <1>3 DEF HeadMarked
<1>13. \A k \in SignedRecords : journal[k] \in PreparedReceipt /\ NumberOf(k) \in Nat /\ k \in WaitingRecords
  BY KeptTypes DEF SignedRecords
<1>14. ASSUME NEW k \in SignedRecords
       PROVE  \/ HighestGlobalNo' < NumberOf(k)
              \/ k = committed + 1 /\ Held(journal[k])' /\ NumberOf(k) = HighestGlobalNo'
  <2>1. \/ h < NumberOf(k)
        \/ k = committed + 1 /\ Held(journal[k]) /\ NumberOf(k) = h
    BY <1>0, <1>4 DEF JournalKept
  <2>2. CASE HighestGlobalNo' = h
    <3>1. Held(journal[k]) => Held(journal[k])'
      BY <1>1, <1>5
    <3> QED
      BY <2>1, <2>2, <3>1
  <2>3. CASE h < g /\ HighestGlobalNo' = g
    <3>1. CASE HeadMarked
      <4>1. /\ committed + 1 \in WaitingRecords /\ journal[committed + 1] = pending
            /\ NumberOf(committed + 1) = g
        BY <1>4, <3>1, KeptTypes DEF HeadMarked, NothingWaits, WaitingRecords, NumberOf
      <4>2. CASE k = committed + 1
        BY <1>1, <1>6, <2>3, <4>1, <4>2
      <4>3. CASE k # committed + 1
        <5>1. committed + 1 < k
          BY <1>13, <4>3, KeptTypes
        <5>2. NumberOf(committed + 1) < NumberOf(k)
          BY <1>0, <1>13, <4>1, <5>1 DEF JournalKept, SignedRecords
        <5> QED
          BY <2>3, <4>1, <5>2
      <4> QED
        BY <4>2, <4>3
    <3>2. CASE \A i \in SignedRecords : pending.receipt.globalNo < NumberOf(i)
      BY <1>4, <2>3, <3>2
    <3> QED
      BY <1>0, <1>2, <3>1, <3>2 DEF MarkerKept
  <2> QED
    BY <1>9, <2>2, <2>3
<1>15. JournalKept'
  <2>1. \A i \in 1..committed : Held(journal[i])'
    BY <1>0, <1>1, <1>5 DEF JournalKept
  <2>2. \A i, k \in WaitingRecords : i < k /\ IsPrepared(journal'[k]) =>
          IsPrepared(journal'[i]) /\ NumberOf(i)' < NumberOf(k)'
    BY <1>0, <1>1, <1>3 DEF JournalKept
  <2>3. \A k \in SignedRecords : Sound(journal[k])'
    <3>1. \A k \in SignedRecords : Sound(journal[k])
      BY <1>0 DEF JournalKept
    <3> QED
      BY <1>1, <1>8, <1>13, <3>1
  <2> QED
    BY <1>1, <1>2, <1>3, <1>14, <2>1, <2>2, <2>3 DEF JournalKept
<1>16. MarkerKept'
  <2>1. Sound(pending)'
    BY <1>1, <1>2, <1>8
  <2> QED
    BY <1>0, <1>1, <1>2, <1>3, <1>6, <1>12, <2>1 DEF MarkerKept
<1>17. CopiesKept'
  <2>1. \A s \in {state, dayState} \ {None} : CopyKept(s) => CopyKept(s)'
    BY <1>7, <1>10, <1>11, KeptTypes DEF CopyKept
  <2>2. /\ state # None => CopyKept(state)'
        /\ dayState # None => CopyKept(dayState)'
    BY <1>0, <1>1, <2>1 DEF CopiesKept
  <2>3. Reaches(lastGlobal)' /\ Given(lastGlobal)'
    BY <1>0, <1>1, <1>10, <1>11, KeptTypes DEF CopiesKept
  <2> QED
    BY <1>0, <1>1, <1>2, <1>3, <2>2, <2>3 DEF CopiesKept
<1>18. DaysKept'
  <2>1. AllSettled => AllSettled'
    BY <1>1, <1>3, <1>5, <1>12 DEF AllSettled
  <2> QED
    BY <1>0, <1>1, <2>1 DEF DaysKept, DayDone
<1>19. PlaceKept'
  BY <1>0, <1>1, <1>2, <1>6 DEF PlaceKept
<1>20. StageKept'
  <2>1. at # "commit"
    BY DeviceStages
  <2> QED
    BY <1>0, <1>1, <1>3, <1>12, <2>1 DEF StageKept
<1>21. ListKept'
  BY <1>0, <1>1, SameFirst DEF ListKept
<1> QED
  BY <1>15, <1>16, <1>17, <1>18, <1>19, <1>20, <1>21 DEF KeptInv

\* FDMS refuses: a submit only while no day is open or when it does not hold
\* the receipt, and then no marker stands in for a number the copies lack.
LEMMA RefusesKept ==
  ASSUME QueueTypeInv, KeptInv, sent # None,
         ~Takes(sent) \/ \A i \in DOMAIN receipts : ReceiptAt(i) # sent.receipt,
         sent' = None, answer' # None, ~answer'.ok,
         UNCHANGED <<fdmsVars, state, pc, reported, storageVars, queueVars>>
  PROVE  KeptInv'
<1>0. JournalKept /\ MarkerKept /\ CopiesKept /\ DaysKept /\ PlaceKept /\ StageKept /\ ListKept
  BY KeptParts
<1>1. UNCHANGED <<receipts, dayStart, fiscalDayNo, status, closingErrorCode, journal, committed, pc, reported,
                  dayState, pending, lastGlobal, state, queue, loaded, call, at>>
  BY DEF fdmsVars, storageVars, queueVars, journalVars
<1>2. /\ HighestGlobalNo' = HighestGlobalNo
      /\ (\A p : Held(p)' <=> Held(p)) /\ (\A p : Sound(p)' <=> Sound(p))
  BY <1>1, SameDay
<1>3. /\ SignedRecords' = SignedRecords
      /\ (SomeUnsigned' <=> SomeUnsigned) /\ (NothingWaits' <=> NothingWaits)
      /\ (\A k : NumberOf(k)' = NumberOf(k)) /\ (\A x : Covers(x)' <=> Covers(x))
  BY <1>1, SameWaiting
<1>4. /\ (\A x : Reaches(x)' <=> Reaches(x)) /\ (\A x : Given(x)' <=> Given(x))
      /\ (\A s : CopyKept(s)' <=> CopyKept(s))
      /\ (HeadMarked' <=> HeadMarked) /\ (AllSettled' <=> AllSettled)
      /\ (JournalKept' <=> JournalKept)
  BY <1>1, SameDoubt
<1>5. pc = "submit" =>
        /\ HighestGlobalNo <= lastGlobal
        /\ state # None => HighestGlobalNo <= state.receiptGlobalNo
        /\ dayState # None => HighestGlobalNo <= dayState.receiptGlobalNo
  <2> SUFFICES ASSUME pc = "submit"
               PROVE  /\ HighestGlobalNo <= lastGlobal
                      /\ state # None => HighestGlobalNo <= state.receiptGlobalNo
                      /\ dayState # None => HighestGlobalNo <= dayState.receiptGlobalNo
    OBVIOUS
  <2>1. status # "FiscalDayOpened" \/ ~Held(pending)
    BY <1>0 DEF PlaceKept, Submit, Takes, Held
  <2> QED
    BY <1>0, <2>1 DEF CopiesKept, CopyKept, Reaches
<1>6. pc \notin {"idle", "saveDay", "saveGlobal", "clearPending"}
  BY <1>0 DEF PlaceKept
<1>7. MarkerKept'
  BY <1>0, <1>1, <1>2, <1>3, <1>4 DEF MarkerKept
<1>8. CopiesKept'
  BY <1>0, <1>1, <1>3, <1>4 DEF CopiesKept
<1>9. DaysKept'
  BY <1>0, <1>1, <1>4 DEF DaysKept, DayDone
<1>10. PlaceKept'
  BY <1>0, <1>1, <1>2, <1>3, <1>5, <1>6 DEF PlaceKept, OldDayCleared
<1>11. StageKept'
  BY <1>0, <1>1, <1>2, <1>3, <1>4 DEF StageKept
<1>12. ListKept'
  BY <1>0, <1>1, SameFirst DEF ListKept
<1> QED
  BY <1>0, <1>4, <1>7, <1>8, <1>9, <1>10, <1>11, <1>12 DEF KeptInv

\* A day opens at FDMS: all that was signed before is of an earlier day.
LEMMA DayOpenedKept ==
  ASSUME QueueTypeInv, KeptInv, pc = "open", OpenDayAtFdms,
         sent' = None, answer' # None, answer'.fiscalDayNo = fiscalDayNo + 1,
         UNCHANGED <<state, pc, reported, storageVars, queueVars>>
  PROVE  KeptInv'
<1>0. JournalKept /\ MarkerKept /\ CopiesKept /\ DaysKept /\ PlaceKept /\ StageKept /\ ListKept
  BY KeptParts
<1>1. /\ UNCHANGED <<receipts, journal, committed, pc, reported,
                     dayState, pending, lastGlobal, state, queue, loaded, call, at>>
      /\ fiscalDayNo' = fiscalDayNo + 1 /\ dayStart' = Len(receipts)
  BY DEF OpenDayAtFdms, storageVars, queueVars, journalVars
<1>2. /\ call = "none" /\ pending = None /\ state = None /\ dayState = None /\ at = "top"
      /\ reported <= HighestGlobalNo /\ AllSettled /\ fiscalDayNo \in Nat
  BY <1>0, KeptTypes DEF PlaceKept, DaysKept, OldDayCleared, CallFits
<1>3. /\ SignedRecords' = SignedRecords /\ WaitingRecords' = WaitingRecords
      /\ (SomeUnsigned' <=> SomeUnsigned) /\ (NothingWaits' <=> NothingWaits)
      /\ (\A k : NumberOf(k)' = NumberOf(k)) /\ (\A x : Covers(x)' <=> Covers(x))
  BY <1>1, SameWaiting
<1>4. \A i : ReceiptAt(i)' = ReceiptAt(i)
  BY <1>1 DEF ReceiptAt
<1>5. /\ HighestGlobalNo' = HighestGlobalNo
      /\ (\A p : Held(p)' <=> Held(p))
  <2>1. GlobalNos' = GlobalNos
    BY <1>1, <1>4 DEF GlobalNos
  <2> QED
    BY <1>1, <1>4, <2>1 DEF HighestGlobalNo, Held
<1>6. DayReceiptCount' = 0
  <2>1. Len(receipts) \in Nat
    BY KeptTypes DEF FdmsTypeOK
  <2>2. Len(receipts') = Len(receipts) /\ dayStart' = Len(receipts)
    BY <1>1
  <2> QED
    BY ONLY <2>1, <2>2 DEF DayReceiptCount
<1>7. \A s \in DayState : CountsToday(s) => CountsToday(s)'
  <2> SUFFICES ASSUME NEW s \in DayState, CountsToday(s)
               PROVE  CountsToday(s)'
    OBVIOUS
  <2>1. s.fiscalDayNo \in Nat /\ s.fiscalDayNo <= fiscalDayNo
    BY DEF CountsToday, DayState
  <2>2. s.fiscalDayNo <= fiscalDayNo' /\ s.fiscalDayNo # fiscalDayNo'
    BY <1>1, <1>2, <2>1
  <2> QED
    BY <2>2 DEF CountsToday
<1>8. ~SomeUnsigned
  BY <1>0, <1>2, SettledIs
<1>9. \A k : Held(journal[k])' <=> Held(journal[k])
  BY <1>1, <1>5
<1>10. JournalKept'
  <2>1. \A k \in SignedRecords : Sound(journal[k])'
    <3>1. \A k \in SignedRecords : Sound(journal[k]) /\ journal[k].stateAfter \in DayState
      BY <1>0, KeptTypes DEF JournalKept, PreparedReceipt
    <3> QED
      BY <1>1, <1>7, <3>1 DEF Sound
  <2> QED
    BY <1>0, <1>1, <1>3, <1>5, <1>8, <1>9, <2>1 DEF JournalKept
<1>11. MarkerKept'
  BY <1>1, <1>2 DEF MarkerKept
<1>12. CopiesKept'
  <2>1. Reaches(lastGlobal)'
    BY <1>0, <1>1, <1>2, <1>5 DEF CopiesKept, Reaches
  <2>2. Given(lastGlobal)'
    BY <1>0, <1>1, <1>3, <1>5 DEF CopiesKept, Given
  <2> QED
    BY <1>1, <1>2, <1>3, <1>8, <2>1, <2>2 DEF CopiesKept
<1>13. DaysKept'
  <2>1. AllSettled'
    BY <1>1, <1>2, <1>3, <1>9 DEF AllSettled
  <2> QED
    BY <1>1, <1>2, <2>1 DEF DaysKept
<1>14. PlaceKept'
  BY <1>1, <1>2, <1>5, <1>6 DEF PlaceKept, OldDayCleared
<1>15. StageKept'
  BY <1>1, <1>2, <1>3, <1>8 DEF StageKept
<1>16. ListKept'
  BY <1>0, <1>1, <1>2 DEF ListKept
<1> QED
  BY <1>10, <1>11, <1>12, <1>13, <1>14, <1>15, <1>16 DEF KeptInv

\* The status of the day moves on, and never back to open while entries wait
\* unsigned or a sale is under way.
LEMMA StatusMovesKept ==
  ASSUME QueueTypeInv, KeptInv,
         UNCHANGED <<fiscalDayNo, receipts, dayStart, state, pc, reported, storageVars, queueVars>>,
         \/ UNCHANGED <<sent, answer>>
         \/ pc \in {"close"} /\ sent' = None /\ pending = None,
         status # "FiscalDayOpened" \/ (pc = "close" /\ pending = None),
         DayDone' => DayDone \/ AllSettled
  PROVE  KeptInv'
<1>0. JournalKept /\ MarkerKept /\ CopiesKept /\ DaysKept /\ PlaceKept /\ StageKept /\ ListKept
  BY KeptParts
<1>1. UNCHANGED <<receipts, dayStart, fiscalDayNo, journal, committed, pc, reported,
                  dayState, pending, lastGlobal, state, queue, loaded, call, at>>
  BY DEF storageVars, queueVars, journalVars
<1>2. /\ HighestGlobalNo' = HighestGlobalNo /\ DayReceiptCount' = DayReceiptCount
      /\ (\A p : Held(p)' <=> Held(p)) /\ (\A p : Sound(p)' <=> Sound(p))
      /\ (\A s : CountsToday(s)' <=> CountsToday(s))
  BY <1>1, SameDay
<1>3. /\ SignedRecords' = SignedRecords /\ WaitingRecords' = WaitingRecords
      /\ (SomeUnsigned' <=> SomeUnsigned) /\ (NothingWaits' <=> NothingWaits)
      /\ (\A k : NumberOf(k)' = NumberOf(k)) /\ (\A x : Covers(x)' <=> Covers(x))
  BY <1>1, SameWaiting
<1>4. \A x : Reaches(x) => Reaches(x)'
  BY <1>1, <1>2 DEF Reaches
<1>5. /\ (\A x : Given(x)' <=> Given(x)) /\ (HeadMarked' <=> HeadMarked)
      /\ (\A k : (Held(journal[k])' <=> Held(journal[k])) /\ (Sound(journal[k])' <=> Sound(journal[k])))
  BY <1>1, <1>2, <1>3 DEF Given, HeadMarked
<1>6. AllSettled' <=> AllSettled
  BY <1>1, <1>3, <1>5 DEF AllSettled
<1>7. ~SomeUnsigned /\ (call \in {"enqueue", "sale"} => state = None)
  BY <1>0 DEF JournalKept, DaysKept, PlaceKept
<1>8. JournalKept'
  BY <1>0, <1>1, <1>2, <1>3, <1>5, <1>7 DEF JournalKept
<1>9. MarkerKept'
  <2>1. (Held(pending)' <=> Held(pending)) /\ (Sound(pending)' <=> Sound(pending))
    BY <1>1, <1>2
  <2> QED
    BY <1>0, <1>1, <1>2, <1>3, <1>5, <2>1 DEF MarkerKept
<1>10. CopiesKept'
  <2>1. \A s : CopyKept(s) => CopyKept(s)'
    BY <1>2, <1>4, <1>5 DEF CopyKept
  <2>2. /\ state # None => CopyKept(state)'
        /\ dayState # None => CopyKept(dayState)'
        /\ Reaches(lastGlobal)' /\ Given(lastGlobal)'
    BY <1>0, <1>1, <1>4, <1>5, <2>1 DEF CopiesKept
  <2> QED
    BY <1>0, <1>1, <1>3, <1>7, <2>2 DEF CopiesKept
<1>11. DaysKept'
  BY <1>0, <1>1, <1>6, <1>7 DEF DaysKept
<1>12. PlaceKept'
  <2>1. CASE UNCHANGED <<sent, answer>>
    <3>1. Held(pending)' <=> Held(pending)
      BY <1>1, <1>2
    <3> QED
      BY <1>0, <1>1, <1>2, <1>3, <2>1, <3>1 DEF PlaceKept, OldDayCleared
  <2>2. CASE pc = "close" /\ sent' = None
    BY <1>0, <1>1, <1>3, <2>2 DEF PlaceKept
  <2> QED
    BY <2>1, <2>2
<1>13. StageKept'
  BY <1>0, <1>1, <1>3, <1>5 DEF StageKept
<1>14. ListKept'
  BY <1>0, <1>1, SameFirst DEF ListKept
<1> QED
  BY <1>8, <1>9, <1>10, <1>11, <1>12, <1>13, <1>14 DEF KeptInv

\* A close that FDMS will settle counts as many receipts as FDMS has, so its
\* state has given no number above FDMS's: nothing more waits.
LEMMA SettlingCloseCovers ==
  ASSUME QueueTypeInv, KeptInv, pc = "close", sent = CloseBody(state),
         Takes(sent), CloseVerdict(sent) = "None"
  PROVE  AllSettled
<1>0. JournalKept /\ CopiesKept /\ PlaceKept
  BY KeptParts
<1>1. /\ state # None /\ state \in DayState /\ pending = None /\ ~SomeUnsigned
      /\ Covers(state.receiptGlobalNo) /\ CountsToday(state)
  BY <1>0, KeptTypes DEF PlaceKept, CopiesKept, CopyKept
<1>2. /\ state.fiscalDayNo = fiscalDayNo /\ ~DayHasRed /\ state.receiptCounter = DayReceiptCount
  BY DEF Takes, CloseBody, CloseVerdict
<1>3. /\ state.receiptGlobalNo \in Nat /\ HighestGlobalNo \in Nat /\ DayReceiptCount \in Nat
  BY <1>1, KeptTypes
<1>4. state.receiptGlobalNo - DayReceiptCount <= HighestGlobalNo - DayReceiptCount
  BY <1>1, <1>2 DEF CountsToday
<1>5. state.receiptGlobalNo <= HighestGlobalNo
  BY <1>3, <1>4
<1>6. \A k \in SignedRecords : NumberOf(k) \in Nat /\ ~(HighestGlobalNo < NumberOf(k))
  BY <1>1, <1>3, <1>5, KeptTypes DEF Covers
<1>7. \A k \in SignedRecords : k = committed + 1 /\ Held(journal[k])
  BY <1>0, <1>6 DEF JournalKept
<1>8. \A k \in WaitingRecords : k \in SignedRecords /\ IsPrepared(journal[k])
  BY <1>1 DEF SomeUnsigned, SignedRecords
<1> QED
  BY <1>1, <1>7, <1>8 DEF AllSettled

LEMMA FdmsAnswersKept ==
  ASSUME QueueTypeInv, KeptInv, FdmsAnswers, UNCHANGED queueVars
  PROVE  KeptInv'
<1>0. PlaceKept
  BY KeptParts
<1>1. /\ sent # None /\ Handle(sent) /\ answer' = AnswerTo(sent) /\ sent' = None
      /\ UNCHANGED <<state, pc, reported, storageVars>>
  BY DEF FdmsAnswers
<1>2. /\ answer'.ok = Takes(sent) /\ answer' # None
      /\ Takes(sent) /\ sent.endpoint = "OpenDay" => answer'.fiscalDayNo = fiscalDayNo + 1
  <2>1. answer' \in Answer
    BY <1>1, KeptTypes, HandleType DEF TypeOK
  <2> QED
    BY <1>1, <2>1, NoneIsNothing DEF AnswerTo
<1>3. \/ pc = "submit" /\ pending # None /\ sent = Submit(pending.receipt)
      \/ pc = "open" /\ sent.endpoint = "OpenDay"
      \/ pc = "close" /\ pending = None /\ sent = CloseBody(state)
  <2>1. pc \in Places
    BY KeptTypes DEF TypeOK
  <2> QED
    BY <1>0, <1>1, <2>1 DEF PlaceKept, Places
<1>4. CASE ~Takes(sent)
  BY <1>1, <1>2, <1>4, RefusesKept DEF Handle
<1>5. CASE Takes(sent) /\ pc = "submit"
  <2>1. sent.endpoint = "SubmitReceipt" /\ sent.receipt = pending.receipt
    BY <1>3, <1>5 DEF Submit
  <2>2. status = "FiscalDayOpened" /\ RecordReceipt(pending.receipt)
    BY <1>1, <1>5, <2>1 DEF Handle, Takes
  <2> QED
    BY <1>1, <1>2, <1>5, <2>2, ReceiptRecordedKept
<1>6. CASE Takes(sent) /\ pc = "open"
  <2>1. OpenDayAtFdms
    BY <1>1, <1>3, <1>6 DEF Handle
  <2> QED
    BY <1>1, <1>2, <1>3, <1>6, <2>1, DayOpenedKept
<1>7. CASE Takes(sent) /\ pc = "close"
  <2>1. CloseDayAtFdms(sent)
    BY <1>1, <1>3, <1>7 DEF Handle, CloseBody
  <2>2. closingErrorCode' = CloseVerdict(sent) /\ status' = "FiscalDayCloseInitiated"
        /\ UNCHANGED <<fiscalDayNo, receipts, dayStart>>
    BY <2>1 DEF CloseDayAtFdms
  <2>3. DayDone' => AllSettled
    BY <1>3, <1>7, <2>2, SettlingCloseCovers DEF DayDone
  <2> QED
    BY <1>1, <1>3, <1>7, <2>2, <2>3, StatusMovesKept
<1> QED
  BY <1>3, <1>4, <1>5, <1>6, <1>7

LEMMA DaySettlesKept ==
  ASSUME QueueTypeInv, KeptInv, DaySettles, UNCHANGED queueVars
  PROVE  KeptInv'
<1>1. /\ status = "FiscalDayCloseInitiated"
      /\ status' = IF closingErrorCode = "None" THEN "FiscalDayClosed" ELSE "FiscalDayOpened"
      /\ UNCHANGED <<fiscalDayNo, receipts, dayStart, state, pc, reported, storageVars, sent, answer>>
  BY DEF DaySettles, SettleClose, wireVars
<1>2. DayDone' => DayDone
  BY <1>1 DEF DayDone
<1> QED
  BY <1>1, <1>2, StatusMovesKept

\* The clock is no part of it.
LEMMA ClockKept ==
  ASSUME KeptInv, UNCHANGED <<fdmsVars, state, pc, reported, storageVars, wireVars, queueVars>>
  PROVE  KeptInv'
<1>0. JournalKept /\ MarkerKept /\ CopiesKept /\ DaysKept /\ PlaceKept /\ StageKept /\ ListKept
  BY KeptParts
<1>1. UNCHANGED <<receipts, dayStart, fiscalDayNo, status, closingErrorCode, journal, committed, pc, reported,
                  dayState, pending, lastGlobal, state, queue, loaded, call, at, sent, answer>>
  BY DEF fdmsVars, storageVars, wireVars, queueVars, journalVars
<1>2. /\ HighestGlobalNo' = HighestGlobalNo /\ DayReceiptCount' = DayReceiptCount
      /\ (\A p : Held(p)' <=> Held(p)) /\ (\A p : Sound(p)' <=> Sound(p))
  BY <1>1, SameDay
<1>3. /\ SignedRecords' = SignedRecords
      /\ (SomeUnsigned' <=> SomeUnsigned) /\ (NothingWaits' <=> NothingWaits)
      /\ (\A k : NumberOf(k)' = NumberOf(k)) /\ (\A x : Covers(x)' <=> Covers(x))
  BY <1>1, SameWaiting
<1>4. /\ (\A x : Reaches(x)' <=> Reaches(x)) /\ (\A x : Given(x)' <=> Given(x))
      /\ (\A s : CopyKept(s)' <=> CopyKept(s))
      /\ (HeadMarked' <=> HeadMarked) /\ (AllSettled' <=> AllSettled)
      /\ (JournalKept' <=> JournalKept)
  BY <1>1, SameDoubt
<1>5. MarkerKept'
  BY <1>0, <1>1, <1>2, <1>3, <1>4 DEF MarkerKept
<1>6. CopiesKept'
  BY <1>0, <1>1, <1>3, <1>4 DEF CopiesKept
<1>7. DaysKept'
  BY <1>0, <1>1, <1>4 DEF DaysKept, DayDone
<1>8. PlaceKept'
  BY <1>0, <1>1, <1>2, <1>3 DEF PlaceKept, OldDayCleared
<1>9. StageKept'
  BY <1>0, <1>1, <1>2, <1>3, <1>4 DEF StageKept
<1>10. ListKept'
  BY <1>0, <1>1, SameFirst DEF ListKept
<1> QED
  BY <1>0, <1>4, <1>5, <1>6, <1>7, <1>8, <1>9, <1>10 DEF KeptInv

LEMMA WorldKept ==
  ASSUME QueueTypeInv, KeptInv, World
  PROVE  KeptInv'
<1>1. CASE FdmsAnswers \/ DaySettles \/ Tick
  BY <1>1, FdmsAnswersKept, DaySettlesKept, ClockKept DEF World, Tick
<1>2. CASE FdmsRefuses
  <2>1. UNCHANGED queueVars
    BY DEF World
  <2>2. /\ sent # None /\ sent' = None /\ answer' # None /\ ~answer'.ok
        /\ \A i \in DOMAIN receipts : ReceiptAt(i) # sent.receipt
        /\ UNCHANGED <<fdmsVars, state, pc, reported, storageVars>>
    <3>1. answer' = [ok |-> FALSE, red |-> FALSE, fiscalDayNo |-> 0]
      BY <1>2 DEF FdmsRefuses
    <3>2. answer' \in Answer
      BY <3>1 DEF Answer
    <3>3. answer' # None /\ ~answer'.ok
      BY <3>1, <3>2, NoneIsNothing
    <3> QED
      BY <1>2, <3>3 DEF FdmsRefuses
  <2> QED
    BY <2>1, <2>2, RefusesKept
<1> QED
  BY <1>1, <1>2 DEF World

-----------------------------------------------------------------------------
(* The invariant.                                                          *)

LEMMA InitQueueKept == QueueInit => KeptInv
<1> SUFFICES ASSUME QueueInit
             PROVE  KeptInv
  OBVIOUS
<1>1. /\ Init /\ journal = <<>> /\ committed = 0 /\ queue = <<>> /\ loaded = FALSE
      /\ call = "none" /\ at = "top" /\ Len(journal) = 0
  BY DEF QueueInit
<1>2. /\ state = None /\ pc = "idle" /\ dayState = None /\ pending = None /\ lastGlobal = 0
      /\ sent = None /\ answer = None
      /\ status = "FiscalDayClosed"
  BY <1>1 DEF Init, FdmsInit
<1>3. WaitingRecords = {} /\ SignedRecords = {} /\ ~SomeUnsigned
  BY <1>1 DEF WaitingRecords, SignedRecords, SomeUnsigned
<1>4. HighestGlobalNo = 0
  <2>1. GlobalNos = {}
    BY <1>1 DEF Init, FdmsInit, GlobalNos
  <2> QED
    BY <2>1 DEF HighestGlobalNo, Max
<1>5. JournalKept
  BY <1>1, <1>3 DEF JournalKept
<1>6. MarkerKept
  BY <1>2 DEF MarkerKept
<1>7. CopiesKept
  BY <1>1, <1>2, <1>3, <1>4 DEF CopiesKept, Reaches, Given
<1>8. DaysKept
  BY <1>1, <1>2, <1>3 DEF DaysKept, AllSettled
<1>9. PlaceKept
  BY <1>2 DEF PlaceKept
<1>10. StageKept
  BY <1>1 DEF StageKept
<1>11. ListKept
  BY <1>1 DEF ListKept
<1> QED
  BY <1>5, <1>6, <1>7, <1>8, <1>9, <1>10, <1>11 DEF KeptInv

LEMMA CallBeginsKept ==
  ASSUME QueueTypeInv, KeptInv, Enqueue \/ SubmitOrEnqueue \/ Flush, OnlySettledOutside'
  PROVE  KeptInv'
<1>1. PICK operation \in {"enqueue", "sale", "flush"} : Begin(operation)
  BY DEF Enqueue, SubmitOrEnqueue, Flush
<1>2. state = None => queue' = <<>> /\ (loaded \/ (dayState = None /\ pending = None))
  <2>1. "calledDayless" \notin mishaps' /\ "calledDayless" \in Mishaps
    BY DEF OnlySettledOutside, Mishaps
  <2> QED
    BY <1>1, <2>1 DEF Begin, ReconcileDue
<1>3. operation # "flush" /\ state # None => status = "FiscalDayOpened" /\ dayState # None
  <2>1. "soldClosed" \notin mishaps' /\ "soldClosed" \in Mishaps
    BY DEF OnlySettledOutside, Mishaps
  <2>2. "soldUnstored" \notin mishaps' /\ "soldUnstored" \in Mishaps
    BY DEF OnlySettledOutside, Mishaps
  <2> QED
    BY <1>1, <2>1, <2>2 DEF Begin
<1>4. CASE state = None
  BY <1>1, <1>2, <1>4, BeginInVainKept
<1>5. CASE state # None
  BY <1>1, <1>3, <1>5, BeginKept
<1> QED
  BY <1>4, <1>5

LEMMA NextQueueKept ==
  ASSUME ~KeepsOldDay
  PROVE  QueueTypeInv /\ QueueKeptInv /\ [QueueNext]_allVars => QueueKeptInv'
<1> SUFFICES ASSUME QueueTypeInv, QueueKeptInv, [QueueNext]_allVars, OnlySettledOutside'
             PROVE  KeptInv'
  BY DEF QueueKeptInv
<1>1. KeptInv
  BY MishapsStay DEF QueueKeptInv, OnlySettledOutside
<1>2. CASE EarlierVersionQueues
  BY <1>1, <1>2, EarlierVersionKept
<1>3. CASE Enqueue \/ SubmitOrEnqueue \/ Flush
  BY <1>1, <1>3, CallBeginsKept
<1>4. CASE UpgradeEntry \/ EntryUpgraded \/ TakeSigned \/ TakeUnanswered \/ Taken
  BY <1>1, <1>4, UpgradeEntryKept, EntryUpgradedKept, TakeSignedKept, TakeUnansweredKept, TakenKept
<1>5. CASE EnqueueRefused \/ HeadBlocked \/ FlushReturns
  BY <1>1, <1>5, QueueGivesUpKept
<1>6. CASE SubmitHead \/ SubmitUnsignedHead \/ SettleHead \/ CommitHead \/ SubmitSale
  BY <1>1, <1>6, SubmitHeadKept, UnsignedHeadKept, SettleHeadKept, CommitHeadKept, SubmitSaleKept
<1>7. CASE DeviceGoesOn \/ DeviceDone \/ DeviceRefused
  BY <1>1, <1>7, DeviceGoesOnKept, DeviceDoneKept, DeviceRefusedKept
<1>8. CASE NoOutcome \/ DeviceStorageFails \/ JournalFails \/ ProcessDies
  BY <1>1, <1>8, NoOutcomeKept, StorageFailsKept, JournalFailsKept, ProcessDiesKept
<1>9. CASE AppReconcile \/ AppCloses \/ AppOpensOrClears
  BY <1>1, <1>9, AppReconcileKept, AppClosesKept, AppOpensOrClearsKept
<1>10. CASE World
  BY <1>1, <1>10, WorldKept
<1>11. CASE UNCHANGED allVars
  BY <1>1, <1>11, ClockKept DEF allVars, vars
<1> QED
  BY <1>2, <1>3, <1>4, <1>5, <1>6, <1>7, <1>8, <1>9, <1>10, <1>11 DEF QueueNext, QueueGoesOn

LEMMA QueueKeptInvariance ==
  ASSUME ~KeepsOldDay
  PROVE  QueueSpec => [](QueueShape /\ QueueKeptInv)
<1>1. QueueInit => QueueShape /\ QueueKeptInv
  BY InitQueueShape, InitQueueKept DEF QueueKeptInv
<1>2. QueueShape /\ QueueKeptInv /\ [QueueNext]_allVars => (QueueShape /\ QueueKeptInv)'
  <2> SUFFICES ASSUME QueueShape, QueueKeptInv, [QueueNext]_allVars
               PROVE  QueueShape' /\ QueueKeptInv'
    OBVIOUS
  <2>1. QueueShape'
    BY NextQueueShape
  <2>2. Intact' => QueueTypeInv
    <3>1. Intact' => Intact
      BY MishapsStay DEF Intact
    <3> QED
      BY <3>1, TypeOfShape
  <2>3. OnlySettledOutside' => Intact'
    BY DEF OnlySettledOutside, Intact
  <2>4. Intact' => QueueKeptInv'
    BY <2>2, NextQueueKept
  <2>5. ~OnlySettledOutside' => QueueKeptInv'
    BY DEF QueueKeptInv
  <2> QED
    BY <2>1, <2>3, <2>4, <2>5
<1> QED
  BY <1>1, <1>2, PTL DEF QueueSpec

\* What the journal counts as submitted FDMS has recorded, that very receipt,
\* however sales, faults, restarts, closes and reconcile() interleave - also
\* once the head was settled outside the journal.  commit() never passes a
\* receipt that was not sent (flush(), submitOrEnqueue(), ensureLoaded()).
THEOREM NothingIsLost ==
  ASSUME ~KeepsOldDay
  PROVE  QueueSpec => []NothingLost
<1>1. QueueKeptInv => NothingLost
  BY DEF QueueKeptInv, OnlySettledOutside, KeptInv, JournalKept, Held, NothingLost
<1> QED
  BY <1>1, QueueKeptInvariance, PTL

=============================================================================
