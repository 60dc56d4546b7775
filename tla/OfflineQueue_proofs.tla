-------------------------- MODULE OfflineQueue_proofs --------------------------
(***************************************************************************)
(* Theorems about OfflineQueue for every value of its constants.           *)
(***************************************************************************)
EXTENDS OfflineQueue, FiscalDevice_order, WellFoundedInduction

-----------------------------------------------------------------------------
(* Type correctness.  It rests on where each call of the queue can be, and *)
(* on the cursors of the list: they count on from the journal's, so a      *)
(* commit never passes the journal's end - until a 0.3.x snapshot has      *)
(* changed its list and could not save it.                                 *)

\* The list never holds more than the journal behind its cursor, and less
\* while a receipt is on its way from the journal to the list.
Positions ==
  /\ \A i \in DOMAIN queue : queue[i].cursor = committed + i - 1
  /\ committed + Len(queue) <= Len(journal)
  /\ at = "take" => committed + Len(queue) < Len(journal)

ListShape ==
  /\ "savedHalf" \notin mishaps => Positions
  /\ at = "take" => journal # <<>>
  /\ at \in {"head", "commit"} => queue # <<>>
  /\ at \in {"upgrade", "upgrading"} =>
       ~AllSigned(queue) /\ \A i \in DOMAIN queue : queue[i].cursor + 1 \in DOMAIN journal
  /\ ~loaded => queue = <<>>

\* A call that finds no day, and nothing waiting: it can only return.
InVain == queue = <<>> /\ pc = "idle" /\ at \in {"top", "sign"}

\* Which stages of the queue go with which places in the device's code, ...
StageFits ==
  /\ call = "none" => at = "top"
  /\ call # "none" => loaded
  /\ call # "none" /\ at \in {"top", "upgrade", "sign", "journal", "commit"} => pc = "idle"
  /\ at \in {"head", "sale"} => pc \in {"submit", "saveDay", "saveGlobal", "clearPending"}
  /\ at \in {"take", "upgrading"} => pc \in {"saveDay", "saveGlobal"}
  /\ at \in {"head", "sale", "journal"} => pending # None

\* ... and which need a day in memory.
CallShape ==
  /\ StageFits
  /\ at \in {"take", "upgrade", "upgrading"} => state # None
  /\ "calledDayless" \notin mishaps /\ call # "none" => state # None \/ InVain

QueueShape == QueueTypeOK /\ TypeInv /\ ListShape /\ CallShape

(* What this comes to while neither has happened.                          *)

Intact == "savedHalf" \notin mishaps /\ "calledDayless" \notin mishaps

QueueTypes ==
  /\ TypeOK
  /\ journal \in Seq(PreparedReceipt \cup Unsigned)
  /\ committed \in 0..Len(journal)
  /\ queue \in Seq(Item)
  /\ loaded \in BOOLEAN
  /\ call \in Calls
  /\ at \in Stages
  /\ mishaps \subseteq Mishaps

ListFits ==
  /\ \A i \in DOMAIN queue : queue[i].cursor = committed + i - 1
  /\ committed + Len(queue) <= Len(journal)
  /\ at = "take" => committed + Len(queue) < Len(journal)
  /\ at \in {"head", "commit"} => queue # <<>>
  /\ at \in {"upgrade", "upgrading"} => ~AllSigned(queue)
  /\ ~loaded => queue = <<>>

CallFits ==
  /\ call = "none" => at = "top"
  /\ call # "none" => loaded /\ (state # None \/ InVain)
  /\ call # "none" /\ at \in {"top", "upgrade", "sign", "journal", "commit"} => pc = "idle"
  /\ at \in {"head", "sale"} => pc \in {"submit", "saveDay", "saveGlobal", "clearPending"}
  /\ at \in {"take", "upgrading"} => pc \in {"saveDay", "saveGlobal"}
  /\ at \in {"head", "sale", "journal"} => pending # None

QueueTypeInv == QueueTypes /\ TypeInv /\ ListFits /\ CallFits

-----------------------------------------------------------------------------
(* What both invariants of the queue speak of.                             *)

NothingWaits == committed = Len(journal)

\* The marker is the head's.
HeadMarked == ~NothingWaits /\ pending = journal[committed + 1]

\* The day is closed, or will be.
DayDone ==
  \/ status = "FiscalDayClosed"
  \/ status = "FiscalDayCloseInitiated" /\ closingErrorCode = "None"

-----------------------------------------------------------------------------
(* Sets of numbers and the first unsigned entry.                           *)

LEMMA LeastNatural ==
  ASSUME NEW T \in SUBSET Nat, T # {}
  PROVE  \E m \in T : \A k \in T : m <= k
<1> DEFINE R == OpToRel(<, Nat)
<1>1. IsWellFoundedOn(R, Nat)
  BY NatLessThanWellFounded
<1>2. \A k, m \in Nat : k < m => <<k, m>> \in R
  BY DEF OpToRel
<1> HIDE DEF R
<1>3. \E m \in T : \A k \in T : ~ (<<k, m>> \in R)
  BY <1>1, WFMin
<1>4. \A k, m \in Nat : m <= k \/ k < m
  OBVIOUS
<1> QED
  BY <1>2, <1>3, <1>4

\* The entry UpgradeEntry() signs is the first one that is not signed.
LEMMA FirstUnsignedIsFirst ==
  ASSUME queue \in Seq(Item), ~AllSigned(queue)
  PROVE  /\ FirstUnsigned \in DOMAIN queue
         /\ ~IsPrepared(queue[FirstUnsigned].item)
         /\ \A i \in 1..(FirstUnsigned - 1) : IsPrepared(queue[i].item)
<1> DEFINE I == {i \in 1..Len(queue) : ~IsPrepared(queue[i].item)}
<1>1. I # {} /\ I \in SUBSET Nat /\ DOMAIN queue = 1..Len(queue) /\ Len(queue) \in Nat
  BY DEF AllSigned
<1>2. FirstUnsigned = Min(I)
  BY <1>1 DEF FirstUnsigned, SelectInSeq
<1> HIDE DEF I
<1>3. \E m \in I : \A k \in I : m <= k
  BY <1>1, LeastNatural
<1>4. FirstUnsigned \in I /\ \A k \in I : FirstUnsigned <= k
  BY <1>2, <1>3 DEF Min
<1> USE DEF I
<1>5. ASSUME NEW i \in 1..(FirstUnsigned - 1)
      PROVE  i \notin I /\ i \in 1..Len(queue)
  BY <1>1, <1>4
<1> QED
  BY <1>1, <1>4, <1>5

LEMMA AllSignedHasNoFirst ==
  ASSUME queue \in Seq(Item)
  PROVE  FirstUnsigned = 0 <=> AllSigned(queue)
<1>1. CASE ~AllSigned(queue)
  <2>1. FirstUnsigned \in 1..Len(queue)
    BY <1>1, FirstUnsignedIsFirst
  <2> QED
    BY <1>1, <2>1
<1>2. CASE AllSigned(queue)
  <2>1. {i \in 1..Len(queue) : ~IsPrepared(queue[i].item)} = {}
    BY <1>2 DEF AllSigned
  <2> QED
    BY <1>2, <2>1 DEF FirstUnsigned, SelectInSeq
<1> QED
  BY <1>1, <1>2

-----------------------------------------------------------------------------
(* QueueShape is inductive.                                                *)

LEMMA InitQueueShape == QueueInit => QueueShape
<1> SUFFICES ASSUME QueueInit
             PROVE  QueueShape
  OBVIOUS
<1>1. TypeInv /\ TypeOK
  BY InitType DEF QueueInit, TypeInv
<1>2. /\ journal = <<>> /\ committed = 0 /\ queue = <<>> /\ loaded = FALSE
      /\ call = "none" /\ at = "top" /\ mishaps = {} /\ pc = "idle"
  BY DEF QueueInit, Init
<1>3. <<>> \in Seq(PreparedReceipt \cup Unsigned) /\ <<>> \in Seq(Item) /\ Len(<<>>) = 0 /\ DOMAIN <<>> = {}
  OBVIOUS
<1>4. QueueTypeOK
  <2>1. loaded \in BOOLEAN /\ call \in Calls /\ at \in Stages /\ mishaps \subseteq Mishaps
    BY <1>2 DEF Calls, Stages
  <2>2. committed \in Nat /\ committed <= Len(journal)
    BY <1>2, <1>3
  <2> QED
    BY <1>1, <1>2, <1>3, <2>1, <2>2 DEF QueueTypeOK
<1>5. ListShape
  BY <1>2, <1>3 DEF ListShape, Positions
<1>6. CallShape
  BY <1>2 DEF CallShape, StageFits
<1> QED
  BY <1>1, <1>4, <1>5, <1>6 DEF QueueShape

LEMMA MishapsStay == [QueueNext]_allVars => mishaps \subseteq mishaps'
<1> SUFFICES ASSUME [QueueNext]_allVars
             PROVE  mishaps \subseteq mishaps'
  OBVIOUS
<1>1. CASE EarlierVersionQueues \/ UNCHANGED allVars
  BY <1>1 DEF EarlierVersionQueues, allVars, queueVars
<1>2. CASE Enqueue \/ SubmitOrEnqueue \/ Flush
  BY <1>2 DEF Enqueue, SubmitOrEnqueue, Flush, Begin
<1>3. CASE QueueGoesOn
  BY <1>3 DEF QueueGoesOn, UpgradeEntry, EntryUpgraded, TakeSigned, EnqueueRefused, TakeUnanswered,
              Taken, SubmitHead, SubmitUnsignedHead, SettleHead, HeadBlocked, CommitHead, SubmitSale,
              FlushReturns, DeviceGoesOn, DeviceDone, DeviceRefused, queueVars
<1>4. CASE NoOutcome \/ DeviceStorageFails \/ JournalFails \/ ProcessDies
  BY <1>4 DEF NoOutcome, DeviceStorageFails, JournalFails, ProcessDies
<1>5. CASE AppReconcile \/ AppCloses \/ AppOpensOrClears \/ World
  BY <1>5 DEF AppReconcile, AppCloses, AppOpensOrClears, World, queueVars
<1> QED
  BY <1>1, <1>2, <1>3, <1>4, <1>5 DEF QueueNext

\* What is left of the journal behind any cursor.
LEMMA UncommittedIs ==
  ASSUME journal \in Seq(PreparedReceipt \cup Unsigned), committed \in Nat
  PROVE  /\ Uncommitted \in Seq(PreparedReceipt \cup Unsigned)
         /\ ReadJournal \in Seq(Item)
         /\ Len(ReadJournal) = IF committed <= Len(journal) THEN Len(journal) - committed ELSE 0
         /\ \A i \in 1..Len(ReadJournal) :
              /\ ReadJournal[i].cursor = committed + i - 1
              /\ ReadJournal[i].cursor + 1 \in DOMAIN journal
<1> DEFINE n == IF committed <= Len(journal) THEN Len(journal) - committed ELSE 0
<1>1. n \in Nat /\ Len(journal) \in Nat /\ committed \in Nat /\ (n # 0 => n = Len(journal) - committed)
  OBVIOUS
<1>2. /\ Uncommitted \in Seq(PreparedReceipt \cup Unsigned)
      /\ Len(Uncommitted) = n /\ DOMAIN Uncommitted = 1..n
  <2>1. Uncommitted \in Seq(PreparedReceipt \cup Unsigned)
    BY <1>1 DEF Uncommitted
  <2>2. Len(Uncommitted) = n
    BY <1>1 DEF Uncommitted
  <2> QED
    BY <2>1, <2>2
<1> HIDE DEF n
<1>3. \A i \in 1..n : [cursor |-> committed + i - 1, item |-> Uncommitted[i]] \in Item
  <2> SUFFICES ASSUME NEW i \in 1..n
               PROVE  committed + i - 1 \in Nat /\ Uncommitted[i] \in PreparedReceipt \cup Unsigned
    BY DEF Item
  <2> QED
    BY <1>1, <1>2
<1>4. ReadJournal = [i \in 1..n |-> [cursor |-> committed + i - 1, item |-> Uncommitted[i]]]
  BY <1>2 DEF ReadJournal
<1>5. ReadJournal \in Seq(Item) /\ Len(ReadJournal) = n
  BY <1>1, <1>3, <1>4
<1>6. \A i \in 1..n : committed + i - 1 + 1 \in 1..Len(journal)
  BY <1>1
<1>7. DOMAIN journal = 1..Len(journal)
  OBVIOUS
<1>8. \A i \in 1..n : ReadJournal[i].cursor = committed + i - 1
  BY <1>4
<1> QED
  BY <1>2, <1>5, <1>6, <1>7, <1>8 DEF n

\* The records behind the cursor and the list that is read from them.
LEMMA UncommittedType ==
  ASSUME journal \in Seq(PreparedReceipt \cup Unsigned), committed \in 0..Len(journal)
  PROVE  /\ Uncommitted \in Seq(PreparedReceipt \cup Unsigned)
         /\ Len(Uncommitted) = Len(journal) - committed
         /\ \A i \in 1..(Len(journal) - committed) : Uncommitted[i] = journal[committed + i]
         /\ ReadJournal \in Seq(Item)
         /\ Len(ReadJournal) = Len(journal) - committed
         /\ \A i \in 1..(Len(journal) - committed) :
              ReadJournal[i] = [cursor |-> committed + i - 1, item |-> journal[committed + i]]
<1> DEFINE n == Len(journal) - committed
<1>1. n \in Nat /\ committed \in Nat /\ Len(journal) \in Nat
  OBVIOUS
<1>2. /\ Uncommitted \in Seq(PreparedReceipt \cup Unsigned)
      /\ Len(Uncommitted) = n /\ DOMAIN Uncommitted = 1..n
      /\ \A i \in 1..n : Uncommitted[i] = journal[committed + i]
  BY <1>1 DEF Uncommitted
<1>3. \A i \in 1..n : [cursor |-> committed + i - 1, item |-> Uncommitted[i]] \in Item
  <2> SUFFICES ASSUME NEW i \in 1..n
               PROVE  committed + i - 1 \in Nat /\ Uncommitted[i] \in PreparedReceipt \cup Unsigned
    BY DEF Item
  <2> QED
    BY <1>1, <1>2
<1>4. ReadJournal = [i \in 1..n |-> [cursor |-> committed + i - 1, item |-> Uncommitted[i]]]
  BY <1>2 DEF ReadJournal
<1> HIDE DEF n
<1>5. ReadJournal \in Seq(Item) /\ Len(ReadJournal) = n
  BY <1>1, <1>3, <1>4
<1>6. \A i \in 1..n : ReadJournal[i] = [cursor |-> committed + i - 1, item |-> journal[committed + i]]
  BY <1>2, <1>4
<1> QED
  BY <1>2, <1>5, <1>6 DEF n

LEMMA SignedOrNot ==
  /\ \A p \in PreparedReceipt : IsPrepared(p)
  /\ \A u \in Unsigned : ~IsPrepared(u)
BY DEF PreparedReceipt, Unsigned, IsPrepared

LEMMA ItemType ==
  ASSUME NEW e \in Item
  PROVE  /\ e.cursor \in Nat /\ e.item \in PreparedReceipt \cup Unsigned
         /\ IsPrepared(e.item) => e.item \in PreparedReceipt
         /\ ~IsPrepared(e.item) => e.item \in Unsigned
<1>1. e.cursor \in Nat /\ e.item \in PreparedReceipt \cup Unsigned
  BY DEF Item
<1> QED
  BY <1>1, SignedOrNot

LEMMA LargerOfTwo ==
  ASSUME NEW m \in Nat, NEW n \in Nat
  PROVE  Max({m, n}) = IF n > m THEN n ELSE m
<1>1. \A x \in {m, n} : (\A y \in {m, n} : x >= y) <=> x = IF n > m THEN n ELSE m
  OBVIOUS
<1> QED
  BY <1>1 DEF Max

LEMMA ReplacedInSequence ==
  ASSUME NEW S, NEW s \in Seq(S), NEW i \in 1..Len(s), NEW x \in S
  PROVE  /\ [s EXCEPT ![i] = x] \in Seq(S) /\ Len([s EXCEPT ![i] = x]) = Len(s)
         /\ [s EXCEPT ![i] = x][i] = x
         /\ \A j \in 1..Len(s) : j # i => [s EXCEPT ![i] = x][j] = s[j]
<1>1. s \in [1..Len(s) -> S] /\ Len(s) \in Nat
  OBVIOUS
<1>2. [s EXCEPT ![i] = x] \in [1..Len(s) -> S]
  BY <1>1
<1> QED
  BY <1>1, <1>2

\* A journal that is ahead of the day state gives a day state.
LEMMA CaughtUpIs ==
  ASSUME journal \in Seq(PreparedReceipt \cup Unsigned), committed \in Nat, NEW s \in DayState
  PROVE  CaughtUp(s) \in DayState
<1>1. Uncommitted \in Seq(PreparedReceipt \cup Unsigned)
  BY UncommittedIs
<1>2. CASE Uncommitted # <<>> /\ IsPrepared(Last(Uncommitted))
  <2>1. Last(Uncommitted) \in PreparedReceipt \cup Unsigned
    BY <1>1, <1>2 DEF Last
  <2>2. Last(Uncommitted).stateAfter \in DayState
    BY <1>2, <2>1, SignedOrNot DEF PreparedReceipt
  <2> QED
    BY <2>2 DEF CaughtUp
<1>3. CASE ~(Uncommitted # <<>> /\ IsPrepared(Last(Uncommitted)))
  BY <1>3 DEF CaughtUp
<1> QED
  BY <1>2, <1>3

LEMMA CaughtUpType ==
  ASSUME QueueTypes, NEW s \in DayState
  PROVE  CaughtUp(s) \in DayState
<1>1. journal \in Seq(PreparedReceipt \cup Unsigned) /\ committed \in Nat
  BY DEF QueueTypes
<1> QED
  BY <1>1, CaughtUpIs

\* A step of the device leaves the list as it is.
LEMMA SameList ==
  ASSUME QueueShape, TypeInv', UNCHANGED <<journal, committed, queue, loaded>>,
         call' \in Calls, at' \in Stages, mishaps' \subseteq Mishaps, mishaps \subseteq mishaps',
         at' = "take" => at = "take",
         at' \in {"head", "commit"} => queue # <<>>,
         at' \in {"upgrade", "upgrading"} => at \in {"upgrade", "upgrading"}
  PROVE  QueueTypeOK' /\ ListShape'
<1>1. TypeOK'
  BY DEF TypeInv
<1>2. QueueTypeOK'
  BY <1>1 DEF QueueShape, QueueTypeOK
<1>3. AllSigned(queue)' <=> AllSigned(queue)
  BY DEF AllSigned
<1>4. ListShape'
  BY <1>3 DEF QueueShape, ListShape, Positions
<1> QED
  BY <1>2, <1>4

\* A call begins: the list holds what the journal does, unless it was loaded.
LEMMA BeginShape ==
  ASSUME QueueShape, NEW operation \in {"enqueue", "sale", "flush"}, Begin(operation)
  PROVE  QueueShape'
<1> USE DEF QueueShape
<1>1. /\ pc = "idle" /\ call = "none" /\ loaded' = TRUE /\ call' = operation
      /\ queue' = IF loaded THEN queue ELSE ReadJournal
      /\ state' = IF loaded \/ state = None THEN state ELSE CaughtUp(state)
      /\ at' = IF loaded \/ state = None \/ AllSigned(queue') THEN StageOf(operation) ELSE "upgrade"
      /\ state = None /\ queue' # <<>> => "calledDayless" \in mishaps'
      /\ mishaps \subseteq mishaps' /\ mishaps' \subseteq Mishaps
      /\ UNCHANGED <<fdmsVars, pc, reported, storageVars, wireVars, worldVars, journalVars>>
  <2>1. mishaps \subseteq Mishaps /\ "calledDayless" \in Mishaps
    BY DEF QueueTypeOK, Mishaps
  <2> QED
    BY <2>1 DEF Begin
<1>2. /\ journal \in Seq(PreparedReceipt \cup Unsigned) /\ committed \in Nat
      /\ queue \in Seq(Item) /\ Len(queue) \in Nat
  BY DEF QueueTypeOK
<1>3. state = None => state' = None
  BY <1>1
<1>4. state # None => state' \in DayState
  <2>1. state # None => state \in DayState
    BY DEF QueueTypeOK, TypeOK
  <2> QED
    BY <1>1, <1>2, <2>1, CaughtUpIs
<1>5. TypeInv'
  BY <1>1, <1>3, <1>4, NoneIsNothing
     DEF QueueTypeOK, TypeInv, TypeOK, FdmsTypeOK, fdmsVars, storageVars, wireVars, worldVars
<1>6. at' \in Stages /\ call' \in Calls /\ at' \in {"top", "sign", "upgrade"}
  BY <1>1 DEF StageOf, Stages, Calls
<1>7. committed' = committed /\ journal' = journal
  BY <1>1 DEF journalVars
<1>8. AllSigned(queue') <=> AllSigned(queue)'
  BY DEF AllSigned
<1>9. at' = "upgrade" => state # None /\ ~loaded /\ ~AllSigned(queue)'
  BY <1>1, <1>8 DEF StageOf
<1>10. CallShape'
  <2>1. StageFits'
    BY <1>1, <1>6 DEF StageFits
  <2>2. at' = "upgrade" => state' # None
    BY <1>4, <1>9, NoneIsNothing
  <2>3. "calledDayless" \notin mishaps' => state' # None \/ InVain'
    <3>1. CASE state # None
      BY <1>4, <3>1, NoneIsNothing
    <3>2. CASE state = None
      BY <1>1, <1>6, <1>9, <3>2 DEF InVain
    <3> QED
      BY <3>1, <3>2
  <2> QED
    BY <1>6, <2>1, <2>2, <2>3 DEF CallShape
<1>11. CASE loaded
  <2>1. queue' = queue /\ at' # "upgrade"
    BY <1>1, <1>9, <1>11
  <2>2. QueueTypeOK'
    BY <1>1, <1>5, <1>6, <1>7, <2>1 DEF QueueTypeOK, TypeInv
  <2>3. ListShape'
    BY <1>1, <1>6, <1>7, <2>1 DEF ListShape, Positions
  <2> QED
    BY <1>5, <1>10, <2>2, <2>3
<1>12. CASE ~loaded
  <2>1. queue' = ReadJournal
    BY <1>1, <1>12
  <2>2. /\ queue' \in Seq(Item)
        /\ Len(queue') = IF committed <= Len(journal) THEN Len(journal) - committed ELSE 0
        /\ \A i \in 1..Len(queue') :
              /\ queue'[i].cursor = committed + i - 1
              /\ queue'[i].cursor + 1 \in DOMAIN journal
    BY ONLY <1>2, <2>1, UncommittedIs
  <2>3. QueueTypeOK'
    BY <1>1, <1>5, <1>6, <1>7, <2>2 DEF QueueTypeOK, TypeInv
  <2>4. DOMAIN queue' = 1..Len(queue')
    BY <2>2
  <2>5. ASSUME "savedHalf" \notin mishaps'
        PROVE  Positions'
    <3>1. committed <= Len(journal) /\ Len(journal) \in Nat
      BY <1>1, <1>2, <2>5 DEF QueueTypeOK
    <3>2. committed + Len(queue') <= Len(journal)
      BY <1>2, <2>2, <3>1
    <3> QED
      BY <1>6, <1>7, <2>2, <2>4, <3>2 DEF Positions
  <2>6. ListShape'
    BY <1>1, <1>6, <1>7, <1>9, <2>2, <2>4, <2>5 DEF ListShape
  <2> QED
    BY <1>5, <1>10, <2>3, <2>6
<1> QED
  BY <1>11, <1>12

\* A receipt is journaled and the device goes on after it.
LEMMA TakeShape ==
  ASSUME QueueShape, NEW p \in PreparedReceipt, Take(p), call # "none",
         signed' \in Nat, mishaps' \subseteq Mishaps, mishaps \subseteq mishaps'
  PROVE  QueueShape'
<1> USE DEF QueueShape
<1>1. /\ journal' = Append(journal, p) /\ state' = p.stateAfter /\ pc' = "saveDay" /\ at' = "take"
      /\ UNCHANGED <<fdmsVars, reported, storageVars, wireVars, now, faults, committed, queue, loaded, call>>
  BY DEF Take
<1>2. state' \in DayState
  BY <1>1 DEF PreparedReceipt
<1>3. TypeInv'
  BY <1>1, <1>2, NoneIsNothing
     DEF QueueTypeOK, TypeInv, TypeOK, FdmsTypeOK, fdmsVars, storageVars, wireVars, Places
<1>4. /\ journal' \in Seq(PreparedReceipt \cup Unsigned) /\ Len(journal') = Len(journal) + 1
      /\ Len(journal) \in Nat /\ Len(queue) \in Nat /\ committed \in Nat /\ journal' # <<>>
  BY <1>1 DEF QueueTypeOK
<1>5. QueueTypeOK'
  BY <1>1, <1>3, <1>4 DEF QueueTypeOK, TypeInv, Stages
<1>6. ListShape'
  BY <1>1, <1>4 DEF ListShape, Positions
<1>7. CallShape'
  BY <1>1, <1>2, NoneIsNothing DEF CallShape, StageFits
<1> QED
  BY <1>3, <1>5, <1>6, <1>7

LEMMA NextQueueShape == QueueShape /\ [QueueNext]_allVars => QueueShape'
<1> SUFFICES ASSUME QueueShape, [QueueNext]_allVars
             PROVE  QueueShape'
  OBVIOUS
<1>0. QueueTypeOK /\ TypeInv /\ ListShape /\ CallShape
  BY DEF QueueShape
<1>m. mishaps \subseteq mishaps'
  BY MishapsStay
<1>00. /\ mishaps \subseteq Mishaps /\ call \in Calls /\ at \in Stages /\ pc \in Places
       /\ loaded \in BOOLEAN /\ queue \in Seq(Item) /\ signed \in Nat
       /\ journal \in Seq(PreparedReceipt \cup Unsigned)
       /\ committed \in Nat /\ Len(journal) \in Nat /\ Len(queue) \in Nat
  BY <1>0 DEF QueueTypeOK, TypeOK
<1>000. /\ state # None => state \in DayState
        /\ call = "none" \/ call \in {"enqueue", "sale", "flush"}
  BY <1>0, <1>00 DEF CallShape, StageFits, TypeInv, TypeOK, Calls
\* The continuation of a call of the device that leaves the queue alone.
<1>1. ASSUME [Next]_vars, UNCHANGED <<journal, committed, queue, loaded, call, at>>,
             mishaps' \subseteq Mishaps, CallShape'
      PROVE  QueueShape'
  <2>1. TypeInv'
    BY <1>0, <1>1, NextType
  <2> QED
    BY <1>00, <1>0, <1>m, <1>1, <2>1, SameList DEF QueueShape, ListShape
\* One that ends a step of the queue.
<1>2. ASSUME [Next]_vars, UNCHANGED <<journal, committed, queue, loaded>>,
             mishaps' \subseteq Mishaps, call' \in Calls,
             at' \in {"top", "sign", "journal", "sale"}, CallShape'
      PROVE  QueueShape'
  <2>1. TypeInv'
    BY <1>0, <1>2, NextType
  <2> QED
    BY <1>0, <1>m, <1>2, <2>1, SameList DEF QueueShape, Stages
\* Giving up: the call ends, or goes on to queue its own receipt.
<1>3. ASSUME FlushFails, pc' = "idle", UNCHANGED <<state, loaded, queue>>
      PROVE  call' \in Calls /\ at' \in {"top", "sign"} /\ CallShape'
  <2>1. at' \in {"top", "sign"} /\ ((call' = "none" /\ at' = "top") \/ (call' = call /\ call = "sale"))
    <3>1. CASE call = "sale"
      BY <1>3, <3>1 DEF FlushFails
    <3>2. CASE call # "sale"
      BY <1>3, <3>2 DEF FlushFails, Return
    <3> QED
      BY <3>1, <3>2
  <2>2. call' \in Calls /\ StageFits'
    BY <1>0, <1>3, <2>1 DEF CallShape, StageFits, Calls
  <2>3. "calledDayless" \notin mishaps' /\ call' # "none" => state' # None \/ InVain'
    BY <1>0, <1>m, <1>3, <2>1 DEF CallShape, InVain
  <2> QED
    BY <2>1, <2>2, <2>3 DEF CallShape
<1>4. CASE EarlierVersionQueues
  <2>1. PICK n \in 1..(MaxSigned - signed), entry \in Unsigned : journal' = [i \in 1..n |-> entry]
    BY <1>4 DEF EarlierVersionQueues
  <2>2. n \in Nat
    BY <1>00, BoundsAreNumbers
  <2>3. journal' \in Seq(PreparedReceipt \cup Unsigned) /\ Len(journal') = n
    BY <2>1, <2>2
  <2>4. /\ UNCHANGED <<vars, committed, queue, loaded, call, at, mishaps>>
        /\ journal = <<>> /\ queue = <<>> /\ ~loaded
    BY <1>4, <1>0, <1>00 DEF EarlierVersionQueues, ListShape
  <2>10. "savedHalf" \notin mishaps => committed = 0
    BY <1>0, <1>00, <2>4 DEF QueueTypeOK
  <2>11. call = "none" /\ at = "top"
    BY <1>0, <2>4 DEF CallShape, StageFits
  <2>5. TypeInv'
    BY <2>4, <1>0, NextType
  <2>6. QueueTypeOK'
    BY <1>0, <1>00, <2>2, <2>3, <2>4, <2>5, <2>10 DEF QueueTypeOK, TypeInv
  <2>7. AllSigned(queue)' <=> AllSigned(queue)
    BY <2>4 DEF AllSigned
  <2>8. ListShape'
    BY <1>0, <1>00, <2>2, <2>3, <2>4, <2>10, <2>11 DEF ListShape, Positions
  <2>9. CallShape'
    BY <2>4, <2>11 DEF CallShape, StageFits
  <2> QED
    BY <2>5, <2>6, <2>8, <2>9 DEF QueueShape
<1>5. CASE Enqueue \/ SubmitOrEnqueue \/ Flush
  <2>1. PICK operation \in {"enqueue", "sale", "flush"} : Begin(operation)
    BY <1>5 DEF Enqueue, SubmitOrEnqueue, Flush
  <2> QED
    BY <2>1, BeginShape
<1>s. ASSUME at = "upgrade", NEW date \in ReceiptDates(state)
      PROVE  /\ call # "none" /\ ~AllSigned(queue)
             /\ \A i \in DOMAIN queue : queue[i].cursor + 1 \in DOMAIN journal
             /\ SignedEntry(date) \in PreparedReceipt /\ EntryRecord \in 1..Len(journal)
  <2> DEFINE k == FirstUnsigned
             e == queue[k]
  <2>1. /\ ~AllSigned(queue) /\ \A i \in DOMAIN queue : queue[i].cursor + 1 \in DOMAIN journal
        /\ call # "none" /\ state # None
    BY <1>0, <1>s DEF ListShape, CallShape, StageFits
  <2>2. k \in DOMAIN queue /\ ~IsPrepared(e.item)
    BY <1>00, <2>1, FirstUnsignedIsFirst
  <2>3. e \in Item
    BY <1>00, <2>2
  <2>4. EntryRecord = e.cursor + 1
    BY DEF EntryRecord
  <2>5. SignedEntry(date) = Prepare(state, SignReceipt(state, date, e.item.amount, e.item.badTax))
    BY DEF SignedEntry
  <2>6. e.cursor + 1 \in DOMAIN journal
    BY <2>1, <2>2
  <2> HIDE DEF e, k
  <2>7. e.item \in Unsigned
    BY <2>2, <2>3, ItemType
  <2>8. state \in DayState
    BY <1>000, <2>1
  <2>9. SignedEntry(date) \in PreparedReceipt
    BY <1>0, <1>s, <2>5, <2>7, <2>8, PrepareType DEF QueueTypeOK, Unsigned
  <2> QED
    BY <1>00, <2>1, <2>4, <2>6, <2>9
<1>6. CASE UpgradeEntry
  <2>1. /\ at = "upgrade" /\ signed' = signed + 1 /\ pc' = "saveDay" /\ at' = "upgrading"
        /\ UNCHANGED <<fdmsVars, reported, storageVars, wireVars, now, faults,
                       committed, queue, loaded, call, mishaps>>
    BY <1>6 DEF UpgradeEntry
  <2>2. PICK date \in ReceiptDates(state) :
          /\ journal' = [journal EXCEPT ![EntryRecord] = SignedEntry(date)]
          /\ state' = SignedEntry(date).stateAfter
    BY <1>6 DEF UpgradeEntry
  <2>3. /\ call # "none" /\ ~AllSigned(queue)
        /\ \A i \in DOMAIN queue : queue[i].cursor + 1 \in DOMAIN journal
        /\ SignedEntry(date) \in PreparedReceipt /\ EntryRecord \in 1..Len(journal)
    BY <1>s, <2>1
  <2>4. /\ journal' \in Seq(PreparedReceipt \cup Unsigned) /\ Len(journal') = Len(journal)
    BY <1>00, <2>2, <2>3, ReplacedInSequence
  <2>5. DOMAIN journal' = DOMAIN journal
    BY <1>00, <2>4
  <2>6. state' \in DayState
    BY <2>2, <2>3 DEF PreparedReceipt
  <2>7. TypeInv'
    BY <1>0, <2>1, <2>6, NoneIsNothing
       DEF TypeInv, TypeOK, FdmsTypeOK, fdmsVars, storageVars, wireVars, Places
  <2>8. QueueTypeOK'
    BY <1>0, <2>1, <2>4, <2>7 DEF QueueTypeOK, TypeInv, Stages
  <2>9. AllSigned(queue)' <=> AllSigned(queue)
    BY <2>1 DEF AllSigned
  <2>10. ListShape'
    BY <1>0, <2>1, <2>3, <2>4, <2>5, <2>9 DEF ListShape, Positions
  <2>11. CallShape'
    BY <1>0, <2>1, <2>3, <2>6, NoneIsNothing DEF CallShape, StageFits
  <2> QED
    BY <2>7, <2>8, <2>10, <2>11 DEF QueueShape
<1>7. CASE EntryUpgraded
  <2> DEFINE k == FirstUnsigned
  <2>1. /\ at = "upgrading" /\ pc = "saveGlobal" /\ pc' = "idle"
        /\ lastGlobal' = IF state.receiptGlobalNo > lastGlobal THEN state.receiptGlobalNo ELSE lastGlobal
        /\ queue' = [queue EXCEPT ![k].item = journal[queue[k].cursor + 1]]
        /\ at' = IF AllSigned(queue') THEN StageOf(call) ELSE "upgrade"
        /\ UNCHANGED <<fdmsVars, state, reported, dayState, pending, wireVars, worldVars,
                       journalVars, loaded, call, mishaps>>
    BY <1>7 DEF EntryUpgraded, EntryRecord
  <2>2. /\ k \in 1..Len(queue) /\ queue[k].cursor + 1 \in DOMAIN journal
        /\ \A i \in DOMAIN queue : queue[i].cursor + 1 \in DOMAIN journal
    BY <1>0, <1>00, <2>1, FirstUnsignedIsFirst DEF ListShape
  <2>3. journal[queue[k].cursor + 1] \in PreparedReceipt \cup Unsigned
    BY <1>00, <2>2
  <2> HIDE DEF k
  <2>4. /\ queue' \in Seq(Item) /\ Len(queue') = Len(queue)
        /\ \A i \in 1..Len(queue) : queue'[i].cursor = queue[i].cursor
        /\ DOMAIN queue' = 1..Len(queue)
    <3> DEFINE e == [queue[k] EXCEPT !.item = journal[queue[k].cursor + 1]]
    <3>1. queue[k] \in Item
      BY <1>00, <2>2
    <3>2. e \in Item /\ e.cursor = queue[k].cursor
      BY <2>3, <3>1 DEF Item
    <3>3. queue' = [queue EXCEPT ![k] = e]
      BY <2>1
    <3> HIDE DEF e
    <3> QED
      BY <1>00, <2>2, <3>2, <3>3, ReplacedInSequence
  <2>5. call # "none" /\ loaded /\ state # None
    BY <1>0, <2>1 DEF CallShape, StageFits
  <2>6. TypeInv'
    <3>1. state \in DayState
      BY <1>000, <2>5
    <3>2. lastGlobal' \in Nat
      BY <1>0, <2>1, <3>1 DEF TypeInv, TypeOK, DayState
    <3> QED
      BY <1>0, <2>1, <3>2 DEF TypeInv, TypeOK, FdmsTypeOK, fdmsVars, wireVars, worldVars, Places
  <2>7. at' \in {"top", "sign", "upgrade"} /\ (at' = "upgrade" => ~AllSigned(queue)')
    BY <2>1 DEF StageOf, AllSigned
  <2>8. QueueTypeOK'
    BY <1>0, <2>1, <2>4, <2>6, <2>7 DEF QueueTypeOK, TypeInv, Stages, journalVars
  <2>9. ListShape'
    BY <1>0, <1>00, <2>1, <2>2, <2>4, <2>5, <2>7 DEF ListShape, Positions, journalVars
  <2>10. CallShape'
    BY <1>0, <2>1, <2>5, <2>7 DEF CallShape, StageFits
  <2> QED
    BY <2>6, <2>8, <2>9, <2>10 DEF QueueShape
<1>8. CASE TakeSigned
  <2>1. PICK amount \in Amounts, badTax \in BOOLEAN, date \in ReceiptDates(state) :
          Take(Prepare(state, SignReceipt(state, date, amount, badTax)))
    BY <1>8 DEF TakeSigned
  <2>2. call # "none" /\ state # None /\ signed' \in Nat /\ mishaps' \subseteq Mishaps
    BY <1>8, <1>0, <1>00 DEF TakeSigned, MaySign, CallShape, StageFits, Mishaps
  <2>3. Prepare(state, SignReceipt(state, date, amount, badTax)) \in PreparedReceipt
    BY <1>0, <1>000, <2>2, PrepareType DEF QueueTypeOK
  <2> QED
    BY <1>m, <2>1, <2>2, <2>3, TakeShape
<1>9. CASE TakeUnanswered
  <2>1. at = "journal" /\ Take(pending) /\ signed' = signed /\ mishaps' = mishaps
    BY <1>9 DEF TakeUnanswered
  <2>2. call # "none" /\ pending \in PreparedReceipt
    BY <2>1, <1>0 DEF CallShape, StageFits, TypeInv, TypeOK
  <2> QED
    BY <1>00, <1>m, <2>1, <2>2, TakeShape
<1>10. CASE Taken
  <2>1. /\ at = "take" /\ pc = "saveGlobal" /\ pc' = "idle" /\ call' = "none" /\ at' = "top"
        /\ lastGlobal' = IF state.receiptGlobalNo > lastGlobal THEN state.receiptGlobalNo ELSE lastGlobal
        /\ queue' = Append(queue, [cursor |-> committed + Len(queue), item |-> Last(journal)])
        /\ UNCHANGED <<fdmsVars, state, reported, dayState, pending, wireVars, worldVars,
                       journalVars, loaded, mishaps>>
    BY <1>10 DEF Taken, Return
  <2>2. call # "none" /\ loaded /\ state # None /\ journal # <<>>
    BY <1>0, <2>1 DEF CallShape, StageFits, ListShape
  <2>3. Last(journal) \in PreparedReceipt \cup Unsigned
    BY <1>00, <2>2 DEF Last
  <2>4. /\ queue' \in Seq(Item) /\ Len(queue') = Len(queue) + 1
        /\ \A i \in 1..Len(queue) : queue'[i] = queue[i]
        /\ queue'[Len(queue) + 1].cursor = committed + Len(queue)
        /\ DOMAIN queue' = 1..(Len(queue) + 1)
    BY <1>00, <2>1, <2>3 DEF Item
  <2>5. TypeInv'
    <3>1. state \in DayState
      BY <1>000, <2>2
    <3>2. lastGlobal' \in Nat
      BY <1>0, <2>1, <3>1 DEF TypeInv, TypeOK, DayState
    <3> QED
      BY <1>0, <2>1, <3>2 DEF TypeInv, TypeOK, FdmsTypeOK, fdmsVars, wireVars, worldVars, Places
  <2>6. QueueTypeOK'
    BY <1>0, <2>1, <2>4, <2>5 DEF QueueTypeOK, TypeInv, Stages, Calls, journalVars
  <2>7. ASSUME "savedHalf" \notin mishaps
        PROVE  Positions'
    <3>1. \A i \in 1..(Len(queue) + 1) : i \in 1..Len(queue) \/ i = Len(queue) + 1
      BY <1>00
    <3>2. Positions /\ \A i \in 1..Len(queue) : queue[i].cursor = committed + i - 1
      BY <1>0, <1>00, <2>7 DEF ListShape, Positions
    <3>3. committed + Len(queue) = committed + (Len(queue) + 1) - 1
      BY <1>00
    <3>4. \A i \in 1..(Len(queue) + 1) : queue'[i].cursor = committed + i - 1
      BY <2>4, <3>1, <3>2, <3>3
    <3>5. committed + (Len(queue) + 1) <= Len(journal)
      BY <1>00, <2>1, <3>2 DEF Positions
    <3> QED
      BY <2>1, <2>4, <3>4, <3>5 DEF Positions, journalVars
  <2>8. ListShape'
    BY <2>1, <2>2, <2>7 DEF ListShape
  <2>9. CallShape'
    BY <2>1 DEF CallShape, StageFits
  <2> QED
    BY <2>5, <2>6, <2>8, <2>9 DEF QueueShape
<1>11. CASE EnqueueRefused
  <2>1. CallShape'
    BY <1>11 DEF EnqueueRefused, Return, CallShape, StageFits
  <2>2. /\ UNCHANGED vars /\ UNCHANGED <<journal, committed, queue, loaded, mishaps>>
        /\ call' = "none" /\ at' = "top"
    BY <1>11 DEF EnqueueRefused, Return, journalVars
  <2> QED
    BY <1>2, <1>00, <2>1, <2>2 DEF Calls
<1>12. CASE SubmitHead
  <2>1. /\ at = "top" /\ pc = "idle" /\ call \in {"flush", "sale"} /\ queue # <<>> /\ IsPrepared(First)
        /\ pending' = First /\ sent' = Submit(First.receipt) /\ pc' = "submit" /\ at' = "head"
        /\ UNCHANGED <<fdmsVars, state, reported, dayState, lastGlobal, answer, late, worldVars,
                       journal, committed, queue, loaded, call, mishaps>>
    BY <1>12 DEF SubmitHead, Flushing, journalVars
  <2>2. First \in PreparedReceipt
    <3>1. queue[1] \in Item
      BY <1>00, <2>1
    <3> QED
      BY <2>1, <3>1, ItemType DEF First
  <2>3. sent' \in Request
    BY <2>1, <2>2 DEF PreparedReceipt, Submit, Request, SubmitRequest
  <2>4. TypeInv'
    BY <1>0, <2>1, <2>2, <2>3, NoneIsNothing DEF TypeInv, TypeOK, FdmsTypeOK, fdmsVars, worldVars, Places
  <2>5. CallShape'
    BY <1>0, <2>1, <2>2, NoneIsNothing DEF CallShape, StageFits, InVain
  <2> QED
    BY <1>0, <1>00, <1>m, <2>1, <2>4, <2>5, SameList DEF QueueShape, Stages
<1>13. CASE SubmitUnsignedHead
  <2>1. /\ at = "top" /\ call \in {"flush", "sale"} /\ queue # <<>> /\ SubmitReceipt /\ at' = "head"
        /\ UNCHANGED <<journal, committed, queue, loaded, call, mishaps>>
    BY <1>13 DEF SubmitUnsignedHead, Flushing, journalVars
  <2>2. pc' = "submit" /\ state' = state /\ state # None
    BY <2>1 DEF SubmitReceipt
  <2>3. TypeInv'
    BY <1>0, <2>1, NextType DEF Next
  <2>4. CallShape'
    BY <1>0, <2>1, <2>2, <2>3 DEF CallShape, StageFits, TypeInv
  <2> QED
    BY <1>0, <1>00, <1>m, <2>1, <2>3, <2>4, SameList DEF QueueShape, Stages
<1>14. CASE SettleHead
  <2>1. /\ at = "top" /\ call \in {"flush", "sale"} /\ queue # <<>> /\ at' = "head"
        /\ ReconcileConfirmed \/ ReconcileResubmit
        /\ UNCHANGED <<journal, committed, queue, loaded, call, mishaps>>
    BY <1>14 DEF SettleHead, Flushing, journalVars
  <2>2. TypeInv'
    BY <1>0, <2>1, NextType DEF Next, Reconcile
  <2>3. pc' \in {"saveDay", "submit"} /\ (state # None => state' # None) /\ pending' # None
    <3>1. CASE ReconcileConfirmed
      BY <2>2, <3>1 DEF ReconcileConfirmed, TypeInv, storageVars
    <3>2. CASE ReconcileResubmit
      BY <2>2, <3>2 DEF ReconcileResubmit, LoadedState, storageVars
    <3> QED
      BY <2>1, <3>1, <3>2
  <2>4. CallShape'
    BY <1>0, <2>1, <2>3 DEF CallShape, StageFits, InVain
  <2> QED
    BY <1>0, <1>00, <1>m, <2>1, <2>2, <2>4, SameList DEF QueueShape, Stages
<1>15. CASE HeadBlocked
  <2>1. /\ pc = "idle" /\ call \in {"flush", "sale"} /\ FlushFails /\ UNCHANGED vars
        /\ UNCHANGED <<journal, committed, queue, loaded, mishaps>>
    BY <1>15 DEF HeadBlocked, Flushing, journalVars
  <2>2. call' \in Calls /\ at' \in {"top", "sign"} /\ CallShape'
    BY <1>3, <2>1 DEF vars
  <2> QED
    BY <1>2, <1>00, <2>1, <2>2
<1>16. CASE CommitHead
  <2>1. /\ at = "commit" /\ at' = "top" /\ queue' = Tail(queue)
        /\ committed' = Max({committed, queue[1].cursor + 1})
        /\ UNCHANGED <<vars, journal, loaded, call, mishaps>>
    BY <1>16 DEF CommitHead
  <2>2. queue # <<>> /\ call # "none" /\ loaded /\ pc = "idle" /\ queue[1] \in Item
    BY <1>0, <1>00, <2>1 DEF ListShape, CallShape, StageFits
  <2>3. queue[1].cursor \in Nat
    BY <2>2, ItemType
  <2>4. committed' = IF queue[1].cursor + 1 > committed THEN queue[1].cursor + 1 ELSE committed
    BY <1>00, <2>1, <2>3, LargerOfTwo
  <2>5. /\ queue' \in Seq(Item) /\ Len(queue') = Len(queue) - 1
        /\ DOMAIN queue' = 1..(Len(queue) - 1)
        /\ \A i \in 1..(Len(queue) - 1) : queue'[i] = queue[i + 1]
    BY <1>00, <2>1, <2>2
  <2>6. TypeInv'
    BY <1>0, <2>1, NextType
  <2>7. ASSUME "savedHalf" \notin mishaps
        PROVE  Positions' /\ committed' <= Len(journal')
    <3>1. /\ \A i \in 1..Len(queue) : queue[i].cursor = committed + i - 1
          /\ committed + Len(queue) <= Len(journal)
      BY <1>0, <1>00, <2>7 DEF ListShape, Positions
    <3>2. 1 \in 1..Len(queue) /\ Len(queue) >= 1
      BY <1>00, <2>2
    <3>3. queue[1].cursor = committed
      BY <1>00, <3>1, <3>2
    <3>4. committed' = committed + 1
      BY <1>00, <2>4, <3>3
    <3>5. \A i \in 1..(Len(queue) - 1) : queue'[i].cursor = committed' + i - 1
      <4> SUFFICES ASSUME NEW i \in 1..(Len(queue) - 1)
                   PROVE  queue'[i].cursor = committed' + i - 1
        OBVIOUS
      <4>1. i + 1 \in 1..Len(queue)
        BY <1>00
      <4>2. queue[i + 1].cursor = committed + (i + 1) - 1
        BY <3>1, <4>1
      <4>3. queue'[i].cursor = committed + (i + 1) - 1
        BY <2>5, <4>2
      <4>4. committed + (i + 1) - 1 = (committed + 1) + i - 1
        BY <1>00
      <4> QED
        BY <3>4, <4>3, <4>4
    <3>6. committed' + (Len(queue) - 1) <= Len(journal) /\ committed' <= Len(journal)
      BY <1>00, <3>1, <3>2, <3>4
    <3> QED
      BY <2>1, <2>5, <3>5, <3>6 DEF Positions
  <2>8. committed' \in Nat
    BY <1>00, <2>3, <2>4
  <2>9. QueueTypeOK'
    BY <1>0, <2>1, <2>5, <2>6, <2>7, <2>8 DEF QueueTypeOK, TypeInv, Stages
  <2>10. ListShape'
    BY <2>1, <2>2, <2>7 DEF ListShape
  <2>11. state' # None \/ InVain' \/ "calledDayless" \in mishaps'
    BY <1>0, <2>1, <2>2 DEF CallShape, InVain, vars
  <2>12. CallShape'
    BY <1>0, <2>1, <2>2, <2>11 DEF CallShape, StageFits, vars
  <2> QED
    BY <2>6, <2>9, <2>10, <2>12 DEF QueueShape
<1>17. CASE SubmitSale
  <2>1. /\ call = "sale" /\ SubmitReceipt /\ at' = "sale"
        /\ UNCHANGED <<journal, committed, queue, loaded, call, mishaps>>
    BY <1>17 DEF SubmitSale, journalVars
  <2>2. pc' = "submit" /\ state' = state /\ state # None
    BY <2>1 DEF SubmitReceipt
  <2>3. pending' # None
    BY <1>0, <2>1, <2>2, NextType DEF Next, TypeInv
  <2>4. CallShape'
    BY <1>0, <2>1, <2>2, <2>3 DEF CallShape, StageFits
  <2> QED
    BY <1>2, <1>00, <2>1, <2>4 DEF Next
<1>18. CASE FlushReturns
  <2>1. /\ UNCHANGED vars /\ UNCHANGED <<journal, committed, queue, loaded, mishaps>>
        /\ call' = "none" /\ at' = "top"
    BY <1>18 DEF FlushReturns, Return, journalVars
  <2>2. CallShape'
    BY <2>1 DEF CallShape, StageFits
  <2> QED
    BY <1>2, <1>00, <2>1, <2>2 DEF Calls
<1>19. CASE DeviceGoesOn
  <2>1. UNCHANGED <<journal, committed, queue, loaded, call, at, mishaps>>
    BY <1>19 DEF DeviceGoesOn, queueVars, journalVars
  <2>2. Next
    BY <1>19 DEF DeviceGoesOn, Next, Continue
  <2>3. TypeInv'
    BY <1>0, <2>2, NextType
  <2>4. CallShape'
    <3>1. CASE SubmitAnswered \/ SaveDayState
      BY <1>0, <2>1, <2>3, <3>1
         DEF CallShape, StageFits, InVain, SubmitAnswered, SaveDayState, TypeInv, storageVars
    <3>2. CASE SaveLastGlobal /\ at \notin {"take", "upgrading"}
      BY <1>0, <2>1, <3>2 DEF CallShape, StageFits, InVain, SaveLastGlobal, TypeInv
    <3>3. CASE OpenAnswered \/ CloseAnswered \/ DayCallRefused
      <4>1. pc \in {"open", "close"}
        BY <3>3 DEF OpenAnswered, CloseAnswered, DayCallRefused
      <4>2. call = "none" /\ at = "top"
        BY <1>0, <1>00, <4>1 DEF CallShape, StageFits, Stages
      <4> QED
        BY <2>1, <4>2 DEF CallShape, StageFits
    <3> QED
      BY <1>19, <3>1, <3>2, <3>3 DEF DeviceGoesOn
  <2> QED
    BY <1>00, <1>1, <2>1, <2>2, <2>4
<1>20. CASE DeviceDone
  <2>1. /\ ClearPending /\ IF at = "head" THEN at' = "commit" /\ UNCHANGED call ELSE Return
        /\ UNCHANGED <<journal, committed, queue, loaded, mishaps>>
    BY <1>20 DEF DeviceDone, journalVars
  <2>2. TypeInv' /\ pc' = "idle" /\ state' = state
    BY <1>0, <2>1, NextType DEF Next, Continue, ClearPending
  <2>3. CASE at = "head"
    <3>1. at' = "commit" /\ call' = call /\ queue # <<>>
      BY <1>0, <2>1, <2>3 DEF ListShape
    <3>2. CallShape'
      BY <1>0, <2>1, <2>2, <2>3, <3>1 DEF CallShape, StageFits, InVain
    <3> QED
      BY <1>00, <1>m, <2>1, <2>2, <3>1, <3>2, SameList DEF QueueShape, Stages
  <2>4. CASE at # "head"
    <3>1. call' = "none" /\ at' = "top" /\ CallShape'
      BY <2>1, <2>4 DEF Return, CallShape, StageFits
    <3> QED
      BY <1>00, <1>m, <2>1, <2>2, <3>1, SameList DEF QueueShape, Stages, Calls
  <2> QED
    BY <2>3, <2>4
<1>21. ASSUME Thrown, pc' = "idle", UNCHANGED <<state, loaded, queue>>
       PROVE  call' \in Calls /\ at' \in {"top", "sign"} /\ CallShape'
  <2>1. CASE at = "head"
    BY <1>3, <1>21, <2>1 DEF Thrown
  <2>2. CASE at # "head"
    BY <1>21, <2>2 DEF Thrown, Return, CallShape, StageFits, Calls
  <2> QED
    BY <2>1, <2>2
<1>22. CASE DeviceRefused
  <2>1. /\ SubmitRefused /\ Thrown /\ UNCHANGED <<journal, committed, queue, loaded, mishaps>>
        /\ pc' = "idle" /\ state' = state
    BY <1>22 DEF DeviceRefused, SubmitRefused, journalVars
  <2>2. call' \in Calls /\ at' \in {"top", "sign"} /\ CallShape'
    BY <1>21, <2>1
  <2> QED
    BY <1>2, <1>00, <2>1, <2>2 DEF Next, Continue
<1>23. CASE NoOutcome
  <2>1. /\ OutcomeUnknown /\ UNCHANGED <<journal, committed, queue, loaded, mishaps>>
        /\ pc' = "idle" /\ state' = state /\ pending' = pending
        /\ IF at = "sale" THEN at' = "journal" /\ UNCHANGED call ELSE Thrown
    BY <1>23 DEF NoOutcome, OutcomeUnknown, AbandonCall, storageVars, journalVars
  <2>2. CASE at = "sale"
    <3>1. CallShape'
      BY <1>0, <2>1, <2>2 DEF CallShape, StageFits, InVain
    <3> QED
      BY <1>2, <1>00, <2>1, <2>2, <3>1 DEF Next
  <2>3. CASE at # "sale"
    <3>1. call' \in Calls /\ at' \in {"top", "sign"} /\ CallShape'
      BY <1>21, <2>1, <2>3
    <3> QED
      BY <1>2, <1>00, <2>1, <3>1 DEF Next
  <2> QED
    BY <2>2, <2>3
<1>24. CASE DeviceStorageFails
  <2>1. /\ StorageFails /\ Thrown /\ UNCHANGED <<journal, committed, queue, loaded>>
        /\ mishaps' \subseteq Mishaps /\ pc' = "idle" /\ state' = state
    BY <1>24, <1>00 DEF DeviceStorageFails, StorageFails, journalVars, Mishaps
  <2>2. call' \in Calls /\ at' \in {"top", "sign"} /\ CallShape'
    BY <1>21, <2>1
  <2> QED
    BY <1>2, <2>1, <2>2 DEF Next
<1>25. CASE JournalFails
  <2>1. /\ at \in {"sign", "journal", "commit", "upgrade"} /\ (at = "sign" => MaySign)
        /\ faults' = faults + 1
        /\ IF at = "commit" THEN FlushFails ELSE Return
        /\ UNCHANGED <<fdmsVars, state, pc, reported, storageVars, wireVars, now, queue, loaded>>
        /\ mishaps' \subseteq Mishaps
        /\ \/ UNCHANGED <<journal, committed, signed>>
           \/ ListChanged /\ "savedHalf" \in mishaps'
    BY <1>25, <1>00 DEF JournalFails, journalVars, Mishaps
  <2>2. pc' = "idle" /\ state' = state /\ call # "none"
    BY <1>0, <2>1 DEF CallShape, StageFits
  <2>3. call' \in Calls /\ at' \in {"top", "sign"} /\ CallShape'
    BY <1>3, <2>1, <2>2 DEF Return, CallShape, StageFits, Calls
  <2>4. ASSUME ListChanged
        PROVE  /\ journal' \in Seq(PreparedReceipt \cup Unsigned)
               /\ committed' \in Nat /\ signed' \in Nat
    <3>1. ASSUME NEW x \in PreparedReceipt
          PROVE  Append(journal, x) \in Seq(PreparedReceipt \cup Unsigned)
      BY <1>00
    <3>2. CASE at = "sign"
      <4>1. PICK amount \in Amounts, badTax \in BOOLEAN, date \in ReceiptDates(state) :
              journal' = Append(journal, Prepare(state, SignReceipt(state, date, amount, badTax)))
        BY <2>4, <3>2 DEF ListChanged
      <4>2. state \in DayState
        BY <1>000, <2>1, <3>2 DEF MaySign
      <4>3. Prepare(state, SignReceipt(state, date, amount, badTax)) \in PreparedReceipt
        BY <1>0, <4>2, PrepareType DEF QueueTypeOK
      <4> QED
        BY <1>00, <2>4, <3>1, <3>2, <4>1, <4>3 DEF ListChanged
    <3>3. CASE at = "journal"
      <4>1. pending \in PreparedReceipt
        BY <1>0, <3>3 DEF CallShape, StageFits, TypeInv, TypeOK
      <4> QED
        BY <1>00, <2>4, <3>1, <3>3, <4>1 DEF ListChanged
    <3>4. CASE at = "commit"
      <4>1. committed' = Max({committed, queue[1].cursor + 1}) /\ UNCHANGED <<journal, signed>>
        BY <2>4, <3>4 DEF ListChanged
      <4>2. queue[1] \in Item
        BY <1>0, <1>00, <3>4 DEF ListShape
      <4>3. queue[1].cursor \in Nat
        BY <4>2, ItemType
      <4> QED
        BY <1>00, <4>1, <4>3, LargerOfTwo
    <3>5. CASE at = "upgrade"
      <4>1. PICK date \in ReceiptDates(state) :
              journal' = [journal EXCEPT ![EntryRecord] = SignedEntry(date)]
        BY <2>4, <3>5 DEF ListChanged
      <4>2. SignedEntry(date) \in PreparedReceipt /\ EntryRecord \in 1..Len(journal)
        BY <1>s, <3>5
      <4>3. journal' \in Seq(PreparedReceipt \cup Unsigned)
        BY <1>00, <4>1, <4>2, ReplacedInSequence
      <4> QED
        BY <1>00, <2>4, <3>5, <4>3 DEF ListChanged
    <3> QED
      BY <2>4, <3>2, <3>3, <3>4, <3>5 DEF ListChanged
  <2>5. CASE UNCHANGED <<journal, committed, signed>>
    <3>1. TypeInv'
      BY <1>0, <2>1, <2>5 DEF TypeInv, TypeOK, FdmsTypeOK, fdmsVars, storageVars, wireVars
    <3> QED
      BY <1>00, <1>m, <2>1, <2>3, <2>5, <3>1, SameList DEF QueueShape, Stages
  <2>6. CASE ListChanged /\ "savedHalf" \in mishaps'
    <3>1. TypeInv'
      BY <1>0, <2>1, <2>4, <2>6 DEF TypeInv, TypeOK, FdmsTypeOK, fdmsVars, storageVars, wireVars
    <3>2. QueueTypeOK'
      BY <1>0, <2>1, <2>3, <2>4, <2>6, <3>1 DEF QueueTypeOK, TypeInv, Stages
    <3>3. ListShape'
      BY <1>0, <2>1, <2>3, <2>6 DEF ListShape
    <3> QED
      BY <2>3, <3>1, <3>2, <3>3 DEF QueueShape
  <2> QED
    BY <2>1, <2>5, <2>6
<1>26. CASE ProcessDies
  <2>1. /\ Crash /\ queue' = <<>> /\ loaded' = FALSE /\ call' = "none" /\ at' = "top"
        /\ mishaps' \subseteq Mishaps /\ UNCHANGED <<journal, committed>>
    BY <1>26, <1>00 DEF ProcessDies, Return, journalVars, Mishaps
  <2>2. TypeInv'
    BY <1>0, <2>1, NextType DEF Next
  <2>3. <<>> \in Seq(Item) /\ Len(<<>>) = 0 /\ DOMAIN <<>> = {}
    OBVIOUS
  <2>4. loaded' \in BOOLEAN
    BY <2>1
  <2>5. QueueTypeOK'
    BY <1>0, <1>m, <2>1, <2>2, <2>3, <2>4 DEF QueueTypeOK, TypeInv, Calls, Stages
  <2>6. ListShape'
    BY <1>0, <1>00, <1>m, <2>1, <2>3 DEF ListShape, Positions, QueueTypeOK
  <2>7. CallShape'
    BY <2>1 DEF CallShape, StageFits
  <2> QED
    BY <2>2, <2>5, <2>6, <2>7 DEF QueueShape
\* The application's calls and the world find the queue at rest, or leave
\* the device's memory alone.
<1>27. ASSUME [Next]_vars, call = "none", UNCHANGED <<journal, committed, queue, loaded, call, at>>,
              mishaps' \subseteq Mishaps
       PROVE  QueueShape'
  <2>1. CallShape'
    BY <1>0, <1>27 DEF CallShape, StageFits
  <2> QED
    BY <1>1, <1>27, <2>1
<1>28. CASE AppReconcile
  BY <1>28, <1>00, <1>27 DEF AppReconcile, Next, journalVars, Mishaps
<1>29. CASE AppCloses
  BY <1>29, <1>00, <1>27 DEF AppCloses, Next, journalVars, Mishaps
<1>30. CASE AppOpensOrClears
  BY <1>30, <1>00, <1>27 DEF AppOpensOrClears, Next, queueVars, journalVars
<1>31. CASE World \/ UNCHANGED allVars
  <2>1. /\ UNCHANGED <<journal, committed, queue, loaded, call, at, mishaps>>
        /\ UNCHANGED <<state, pc, pending>> /\ [Next]_vars
    BY <1>31 DEF World, FdmsAnswers, FdmsRefuses, DaySettles, Tick, Next, allVars, vars, queueVars, journalVars, storageVars
  <2>2. CallShape'
    BY <1>0, <2>1 DEF CallShape, StageFits, InVain
  <2> QED
    BY <1>1, <1>00, <2>1, <2>2
<1> QED
  BY <1>4, <1>5, <1>6, <1>7, <1>8, <1>9, <1>10, <1>11, <1>12, <1>13, <1>14, <1>15, <1>16, <1>17,
     <1>18, <1>19, <1>20, <1>22, <1>23, <1>24, <1>25, <1>26, <1>28, <1>29, <1>30, <1>31
     DEF QueueNext, QueueGoesOn

-----------------------------------------------------------------------------

LEMMA TypeOfShape == QueueShape /\ Intact => QueueTypeInv
<1> SUFFICES ASSUME QueueShape, Intact
             PROVE  QueueTypeInv
  OBVIOUS
<1>1. "savedHalf" \notin mishaps /\ "calledDayless" \notin mishaps
  BY DEF Intact
<1>2. Len(journal) \in Nat /\ committed \in Nat
  BY DEF QueueShape, QueueTypeOK
<1>3. committed \in 0..Len(journal)
  BY <1>1, <1>2 DEF QueueShape, QueueTypeOK
<1>4. QueueTypes
  BY <1>3 DEF QueueShape, QueueTypeOK, QueueTypes
<1>5. ListFits
  BY <1>1 DEF QueueShape, ListShape, Positions, ListFits
<1>6. CallFits
  BY <1>1 DEF QueueShape, CallShape, StageFits, CallFits
<1> QED
  BY <1>4, <1>5, <1>6 DEF QueueShape, QueueTypeInv

LEMMA ShapeOfType == QueueTypeInv /\ Intact => QueueShape
<1> SUFFICES ASSUME QueueTypeInv, Intact
             PROVE  QueueShape
  OBVIOUS
<1>0. QueueTypes /\ TypeInv /\ ListFits /\ CallFits
  BY DEF QueueTypeInv
<1>1. "savedHalf" \notin mishaps /\ "calledDayless" \notin mishaps
  BY DEF Intact
<1>2. /\ Len(journal) \in Nat /\ committed \in Nat /\ committed <= Len(journal)
      /\ Len(queue) \in Nat /\ DOMAIN queue = 1..Len(queue) /\ DOMAIN journal = 1..Len(journal)
  BY <1>0 DEF QueueTypes
<1>3. QueueTypeOK
  BY <1>0, <1>2 DEF QueueTypes, QueueTypeOK
<1>4. Positions
  BY <1>0 DEF ListFits, Positions
<1>5. at = "take" => journal # <<>>
  <2> SUFFICES ASSUME at = "take", journal = <<>>
               PROVE  FALSE
    OBVIOUS
  <2>1. committed + Len(queue) < Len(journal)
    BY <1>0 DEF ListFits
  <2>2. Len(journal) = 0
    OBVIOUS
  <2> QED
    BY <1>2, <2>1, <2>2
<1>6. \A i \in DOMAIN queue : queue[i].cursor + 1 \in DOMAIN journal
  BY <1>2, <1>4 DEF Positions
<1>7. ListShape
  BY <1>0, <1>4, <1>5, <1>6 DEF ListFits, ListShape
<1>8. StageFits
  BY <1>0 DEF CallFits, StageFits
<1>9. at \in {"take", "upgrade", "upgrading"} => state # None
  BY <1>0 DEF CallFits, InVain
<1>10. CallShape
  BY <1>0, <1>8, <1>9 DEF CallFits, CallShape
<1> QED
  BY <1>0, <1>3, <1>7, <1>10 DEF QueueShape

LEMMA NextQueueType == QueueTypeInv /\ [QueueNext]_allVars /\ Intact' => QueueTypeInv'
<1> SUFFICES ASSUME QueueTypeInv, [QueueNext]_allVars, Intact'
             PROVE  QueueTypeInv'
  OBVIOUS
<1>1. Intact
  BY MishapsStay DEF Intact
<1>2. QueueShape'
  BY <1>1, ShapeOfType, NextQueueShape
<1>3. QueueShape' /\ Intact' => QueueTypeInv'
  BY TypeOfShape, PTL
<1> QED
  BY <1>2, <1>3

LEMMA QueueShapeInvariance == QueueSpec => []QueueShape
BY InitQueueShape, NextQueueShape, PTL DEF QueueSpec

LEMMA QueueTypeInvariance == QueueSpec => [](Intact => QueueTypeInv)
<1>1. QueueShape => (Intact => QueueTypeInv)
  BY TypeOfShape
<1> QED
  BY <1>1, QueueShapeInvariance, PTL

\* Every record, entry and variable keeps its type and the journal's cursor
\* never passes its end, whatever fails, unless a snapshot's list was changed
\* and could not be saved (commit(), take(), readFrom()).
THEOREM QueueTypeCorrect == QueueSpec => []QueueTypeOK
<1>1. QueueShape => QueueTypeOK
  BY DEF QueueShape
<1> QED
  BY <1>1, QueueShapeInvariance, PTL

=============================================================================
