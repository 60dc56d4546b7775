----------------------------- MODULE OfflineQueue -----------------------------
(***************************************************************************)
(* OfflineReceiptQueue (src/src/core/queue.ts) between the application and *)
(* a FiscalDevice: receipts are signed when sold, appended to a journal    *)
(* and sent in order later.  The queue and the device share one pending    *)
(* marker and one day state, and the journal has a commit cursor of its    *)
(* own, so a receipt is settled in two places that no write spans.         *)
(*                                                                         *)
(* The application sells through the queue only, and calls the queue,      *)
(* reconcile() and closeDay() whenever it likes.  The journal may be the   *)
(* snapshot of SDK 0.3.x, whose entries are unsigned and are signed when   *)
(* the queue is loaded.                                                    *)
(***************************************************************************)
EXTENDS FiscalDevice

VARIABLES
  journal,    \* the Journal's records, each a signed receipt
  committed,  \* its cursor: how many of them are submitted
  queue,      \* this.pending, in memory
  loaded,     \* this.loaded
  call,       \* the queue's operation in progress
  at,         \* where it is
  mishaps     \* which of Mishaps have happened; not part of the program

journalVars == <<journal, committed>>
queueVars   == <<journalVars, queue, loaded, call, at, mishaps>>
allVars     == <<vars, queueVars>>

\* An entry of a 0.3.x snapshot: what of a ReceiptInput is modelled.
Unsigned == [amount : Amounts, badTax : BOOLEAN]

IsPrepared(entry) == "receipt" \in DOMAIN entry

Item == [cursor : Nat, item : PreparedReceipt \cup Unsigned]

Calls == {"none", "enqueue", "sale", "flush"}

\* "top" is the head of flush()'s loop, and where an idle queue rests.
Stages == {"top", "upgrade", "upgrading", "sign", "take", "journal", "head", "commit", "sale"}

\* What the queue does not survive.  "settledOutside": a journaled receipt
\* was settled at FDMS and in the marker, but not in the journal, by the
\* application's reconcile() or by a flush() cut short before its commit.
\* "tookHalf": a write of take() failed and its caller went on.
\* "closedBehind": closeDay() was called while the stored day was behind the
\* journal, which ensureLoaded() makes up for in memory only, or the journal
\* held unsigned entries.
\* "soldClosed": the application sold into a day whose close is under way or
\* done, from the stored state that reconcile() still loads.
\* "soldOverMarker": enqueue() signed the number of an unresolved submit.
\* "soldUnstored": openDay() threw when it stored the day, and the application
\* sold all the same.
\* "upgradeCutShort": the signing of a snapshot failed part of the way, or the
\* process died with a signed entry stored, the device not advanced to it and
\* unsigned entries behind it.
\* "calledDayless": a call of the queue ran with no day in memory, while
\* receipts waited or before reconcile() had loaded the day.  flush() then
\* leaves the day at the receipt it commits, behind those that still wait.
\* "savedHalf": save() of a 0.3.x snapshot failed once its list in memory was
\* changed.  The model follows that list, across a restart too.
Mishaps ==
  {"settledOutside", "tookHalf", "closedBehind", "soldClosed", "soldOverMarker", "soldUnstored",
   "upgradeCutShort", "calledDayless", "savedHalf"}

QueueTypeOK ==
  /\ TypeOK
  /\ journal \in Seq(PreparedReceipt \cup Unsigned)
  /\ committed \in Nat
  /\ "savedHalf" \notin mishaps => committed <= Len(journal)
  /\ queue \in Seq(Item)
  /\ loaded \in BOOLEAN
  /\ call \in Calls
  /\ at \in Stages
  /\ mishaps \subseteq Mishaps

QueueInit ==
  /\ Init
  /\ journal = <<>> /\ committed = 0
  /\ queue = <<>> /\ loaded = FALSE
  /\ call = "none" /\ at = "top"
  /\ mishaps = {}

-----------------------------------------------------------------------------
(* The start of a call.                                                    *)

\* The uncommitted records of the journal, oldest first.
Uncommitted == SubSeq(journal, committed + 1, Len(journal))

\* Mutation of ReadJournal: the record at the cursor counts as committed.
ReadJournalPastHead ==
  [i \in 1..(Len(Uncommitted) - 1) |-> [cursor |-> committed + i, item |-> Uncommitted[i + 1]]]

\* readFrom(committed()).
ReadJournal ==
  [i \in DOMAIN Uncommitted |-> [cursor |-> committed + i - 1, item |-> Uncommitted[i]]]

\* Mutation of CaughtUp: the device stays at its stored state.
CaughtUpNever(s) == s

\* The day state once a journal that is ahead of it has been read.
CaughtUp(s) ==
  IF /\ Uncommitted # <<>> /\ IsPrepared(Last(Uncommitted))
     /\ Last(Uncommitted).stateAfter.receiptGlobalNo > s.receiptGlobalNo
  THEN Last(Uncommitted).stateAfter
  ELSE s

AllSigned(items) == \A i \in DOMAIN items : IsPrepared(items[i].item)

StoredIsBehind ==
  \/ ~AllSigned(ReadJournal)
  \/ Uncommitted # <<>> /\ (dayState = None \/ CaughtUp(dayState) # dayState)

\* Where an operation goes on once the journal is loaded.
StageOf(operation) == IF operation = "enqueue" THEN "sign" ELSE "top"

\* loadPersistedState() has not run, and has something to load.
ReconcileDue == ~loaded /\ (dayState # None \/ pending # None)

\* ensureLoaded() runs first in every call.  With no day in memory it neither
\* catches up nor signs what a snapshot holds, then or later.
Begin(operation) ==
  /\ pc = "idle" /\ call = "none"
  /\ queue' = IF loaded THEN queue ELSE ReadJournal
  /\ state' = IF loaded \/ state = None THEN state ELSE CaughtUp(state)
  /\ loaded' = TRUE
  /\ call' = operation
  /\ at' = IF loaded \/ state = None \/ AllSigned(queue') THEN StageOf(operation) ELSE "upgrade"
  /\ mishaps' = mishaps \cup
       {m \in Mishaps :
          \/ m = "calledDayless" /\ state = None /\ (queue' # <<>> \/ ReconcileDue)
          \/ /\ operation # "flush" /\ state # None
             /\ \/ m = "soldClosed" /\ status # "FiscalDayOpened"
                \/ m = "soldUnstored" /\ dayState = None}
  /\ UNCHANGED <<fdmsVars, pc, reported, storageVars, wireVars, worldVars, journalVars>>

Enqueue == signed < MaxSigned /\ Begin("enqueue")

SubmitOrEnqueue == signed < MaxSigned /\ Begin("sale")

Flush == Begin("flush")

Return == call' = "none" /\ at' = "top"

-----------------------------------------------------------------------------
(* The rest of ensureLoaded(): unsigned entries are signed in order.       *)

\* SDK 0.3.x queued sales before this version was started.
EarlierVersionQueues ==
  /\ state = None /\ ~loaded /\ pending = None /\ journal = <<>>
  /\ status = "FiscalDayOpened" /\ dayState # None
  /\ \E n \in 1..(MaxSigned - signed), entry \in Unsigned : journal' = [i \in 1..n |-> entry]
  /\ UNCHANGED <<vars, committed, queue, loaded, call, at, mishaps>>

FirstUnsigned == SelectInSeq(queue, LAMBDA e : ~IsPrepared(e.item))

\* The entry signed, and where it stands in the journal.
SignedEntry(date) ==
  LET input == queue[FirstUnsigned].item
  IN  Prepare(state, SignReceipt(state, date, input.amount, input.badTax))

EntryRecord == queue[FirstUnsigned].cursor + 1

\* Signed, replaced in the journal and applied in memory.
UpgradeEntry ==
  /\ at = "upgrade"
  /\ \E date \in ReceiptDates(state) :
       /\ journal' = [journal EXCEPT ![EntryRecord] = SignedEntry(date)]
       /\ state' = SignedEntry(date).stateAfter
  /\ signed' = signed + 1
  /\ pc' = "saveDay"
  /\ at' = "upgrading"
  /\ UNCHANGED <<fdmsVars, reported, storageVars, wireVars, now, faults,
                 committed, queue, loaded, call, mishaps>>

\* applyPrepared() has stored the state; the entry in the list is replaced.
EntryUpgraded ==
  /\ at = "upgrading" /\ pc = "saveGlobal"
  /\ lastGlobal' = IF state.receiptGlobalNo > lastGlobal THEN state.receiptGlobalNo ELSE lastGlobal
  /\ pc' = "idle"
  /\ queue' = [queue EXCEPT ![FirstUnsigned].item = journal[EntryRecord]]
  /\ at' = IF AllSigned(queue') THEN StageOf(call) ELSE "upgrade"
  /\ UNCHANGED <<fdmsVars, state, reported, dayState, pending, wireVars, worldVars,
                 journalVars, loaded, call, mishaps>>

-----------------------------------------------------------------------------
(* take(): journal a signed receipt, then let the device go on after it.   *)

\* Mutation of Take: the receipt is journaled and not applied.
TakeUnapplied(p) ==
  /\ journal' = Append(journal, p)
  /\ pc' = "saveDay"
  /\ at' = "take"
  /\ UNCHANGED <<fdmsVars, state, reported, storageVars, wireVars, now, faults,
                 committed, queue, loaded, call>>

\* Appended and applied in memory.  A crash between the two is one before the
\* first write of applyPrepared(), whose check of the number always passes:
\* the receipt was signed from this very state.
Take(p) ==
  /\ journal' = Append(journal, p)
  /\ state' = p.stateAfter
  /\ pc' = "saveDay"
  /\ at' = "take"
  /\ UNCHANGED <<fdmsVars, reported, storageVars, wireVars, now, faults,
                 committed, queue, loaded, call>>

\* enqueue() refuses to sell behind entries that could not be signed, and
\* signReceipt() without a day.
MaySign == FirstUnsigned = 0 /\ state # None

\* enqueue() signs from memory, whatever the marker.
TakeSigned ==
  /\ at = "sign" /\ MaySign
  /\ \E amount \in Amounts, badTax \in BOOLEAN, date \in ReceiptDates(state) :
       Take(Prepare(state, SignReceipt(state, date, amount, badTax)))
  /\ signed' = signed + 1
  /\ mishaps' = IF pending # None /\ pending.receipt.globalNo > state.receiptGlobalNo
                THEN mishaps \cup {"soldOverMarker"} ELSE mishaps

EnqueueRefused ==
  /\ at = "sign" /\ ~MaySign
  /\ Return
  /\ UNCHANGED <<vars, journalVars, queue, loaded, mishaps>>

\* submitOrEnqueue() journals a receipt whose outcome is unknown and keeps the
\* marker.
TakeUnanswered ==
  /\ at = "journal"
  /\ Take(pending)
  /\ UNCHANGED <<signed, mishaps>>

\* applyPrepared() has stored the state; the receipt joins the list.
Taken ==
  /\ at = "take" /\ pc = "saveGlobal"
  /\ lastGlobal' = IF state.receiptGlobalNo > lastGlobal THEN state.receiptGlobalNo ELSE lastGlobal
  /\ pc' = "idle"
  /\ queue' = Append(queue, [cursor |-> committed + Len(queue), item |-> Last(journal)])
  /\ Return
  /\ UNCHANGED <<fdmsVars, state, reported, dayState, pending, wireVars, worldVars,
                 journalVars, loaded, mishaps>>

-----------------------------------------------------------------------------
(* flush(), alone or at the start of submitOrEnqueue().                    *)

Flushing == at = "top" /\ pc = "idle" /\ call \in {"flush", "sale"}

First == queue[1].item

\* flush() stops at an error; submitOrEnqueue() then queues its own receipt.
FlushFails ==
  IF call = "sale" THEN at' = "sign" /\ UNCHANGED call ELSE Return

\* submitPrepared() of the head.
SubmitHead ==
  /\ Flushing /\ queue # <<>> /\ IsPrepared(First) /\ NoPending
  /\ pending' = First
  /\ sent' = Submit(First.receipt)
  /\ pc' = "submit"
  /\ at' = "head"
  /\ UNCHANGED <<fdmsVars, state, reported, dayState, lastGlobal, answer, late, worldVars,
                 journalVars, queue, loaded, call, mishaps>>

\* A head that could not be signed when it was loaded is signed now.
SubmitUnsignedHead ==
  /\ Flushing /\ queue # <<>> /\ ~IsPrepared(First)
  /\ SubmitReceipt
  /\ pending'.receipt.amount = First.amount /\ pending'.receipt.badTax = First.badTax
  /\ at' = "head"
  /\ UNCHANGED <<journalVars, queue, loaded, call, mishaps>>

\* Mutation of HeadIsMarked: any marker is taken for the head's.
AnyIsMarked == pending # None

\* The marker is the head's, by its number.
HeadIsMarked ==
  pending # None /\ IsPrepared(First) /\ pending.receipt.globalNo = First.receipt.globalNo

SettleHead ==
  /\ Flushing /\ queue # <<>> /\ HeadIsMarked
  /\ ReconcileConfirmed \/ ReconcileResubmit
  /\ at' = "head"
  /\ UNCHANGED <<journalVars, queue, loaded, call, mishaps>>

\* PendingSubmitError for another receipt, or no day to sign the head in.
HeadBlocked ==
  /\ Flushing /\ queue # <<>>
  /\ \/ pending # None /\ ~HeadIsMarked
     \/ state = None /\ ~IsPrepared(First)
  /\ FlushFails
  /\ UNCHANGED <<vars, journalVars, queue, loaded, mishaps>>

\* Mutation of CommitHead: the cursor moves to the head and not past it.
CommitHeadShort ==
  /\ at = "commit"
  /\ committed' = Max({committed, queue[1].cursor})
  /\ queue' = Tail(queue)
  /\ at' = "top"
  /\ UNCHANGED <<vars, journal, loaded, call, mishaps>>

\* Mutation of CommitHead: the cursor moves one record too far.
CommitHeadFar ==
  /\ at = "commit"
  /\ committed' = Max({committed, queue[1].cursor + 2})
  /\ queue' = Tail(queue)
  /\ at' = "top"
  /\ UNCHANGED <<vars, journal, loaded, call, mishaps>>

CommitHead ==
  /\ at = "commit"
  /\ committed' = Max({committed, queue[1].cursor + 1})
  /\ queue' = Tail(queue)
  /\ at' = "top"
  /\ UNCHANGED <<vars, journal, loaded, call, mishaps>>

\* Nothing is left to flush: submitOrEnqueue() submits its own receipt.
SubmitSale ==
  /\ Flushing /\ queue = <<>> /\ call = "sale"
  /\ SubmitReceipt
  /\ at' = "sale"
  /\ UNCHANGED <<journalVars, queue, loaded, call, mishaps>>

\* flush() is done, or submitOrEnqueue()'s own receipt is refused: for a marker,
\* or without a day.
FlushReturns ==
  /\ Flushing /\ queue = <<>>
  /\ call = "flush" \/ ~NoPending \/ state = None
  /\ Return
  /\ UNCHANGED <<vars, journalVars, queue, loaded, mishaps>>

-----------------------------------------------------------------------------
(* How the device's calls end, and where the queue goes on.                *)

\* An error thrown out of the device.
Thrown == IF at = "head" THEN FlushFails ELSE Return

DeviceGoesOn ==
  /\ \/ SubmitAnswered \/ SaveDayState
     \/ SaveLastGlobal /\ at \notin {"take", "upgrading"}
     \/ OpenAnswered \/ CloseAnswered \/ DayCallRefused
  /\ UNCHANGED queueVars

DeviceDone ==
  /\ ClearPending
  /\ IF at = "head" THEN at' = "commit" /\ UNCHANGED call ELSE Return
  /\ UNCHANGED <<journalVars, queue, loaded, mishaps>>

DeviceRefused ==
  /\ SubmitRefused
  /\ Thrown
  /\ UNCHANGED <<journalVars, queue, loaded, mishaps>>

\* submitOrEnqueue() takes a receipt whose outcome is unknown into its journal.
NoOutcome ==
  /\ OutcomeUnknown
  /\ IF at = "sale" THEN at' = "journal" /\ UNCHANGED call ELSE Thrown
  /\ UNCHANGED <<journalVars, queue, loaded, mishaps>>

DeviceStorageFails ==
  /\ StorageFails
  /\ Thrown
  /\ mishaps' = mishaps \cup {m \in {"tookHalf", "upgradeCutShort"} :
                              \/ m = "tookHalf" /\ at = "take"
                              \/ m = "upgradeCutShort" /\ at = "upgrading"}
  /\ UNCHANGED <<journalVars, queue, loaded>>

\* What a 0.3.x snapshot has already done to its list when save() throws.
ListChanged ==
  \/ /\ at = "sign"
     /\ \E amount \in Amounts, badTax \in BOOLEAN, date \in ReceiptDates(state) :
          journal' = Append(journal, Prepare(state, SignReceipt(state, date, amount, badTax)))
     /\ signed' = signed + 1
     /\ UNCHANGED committed
  \/ /\ at = "journal"
     /\ journal' = Append(journal, pending)
     /\ UNCHANGED <<committed, signed>>
  \/ /\ at = "commit"
     /\ committed' = Max({committed, queue[1].cursor + 1})
     /\ UNCHANGED <<journal, signed>>
  \/ /\ at = "upgrade"
     /\ \E date \in ReceiptDates(state) : journal' = [journal EXCEPT ![EntryRecord] = SignedEntry(date)]
     /\ signed' = signed + 1
     /\ UNCHANGED committed

\* append(), commit() or replace() throws.  A file or memory journal is left as
\* it was; enqueue() then has sold nothing.
JournalFails ==
  /\ at \in {"sign", "journal", "commit", "upgrade"} /\ (at = "sign" => MaySign)
  /\ faults < MaxFaults
  /\ faults' = faults + 1
  /\ IF at = "commit" THEN FlushFails ELSE Return
  /\ LET noted == mishaps \cup {m \in Mishaps :
                    \/ m = "settledOutside" /\ at = "commit"
                    \/ m = "tookHalf" /\ at = "journal"
                    \/ m = "upgradeCutShort" /\ at = "upgrade"}
     IN  \/ UNCHANGED <<journalVars, signed>> /\ mishaps' = noted
         \/ ListChanged /\ mishaps' = noted \cup {"savedHalf"}
  /\ UNCHANGED <<fdmsVars, state, pc, reported, storageVars, wireVars, now, queue, loaded>>

\* The process dies; the next one has read neither the day nor the journal.
ProcessDies ==
  /\ Crash
  /\ queue' = <<>> /\ loaded' = FALSE
  /\ Return
  /\ mishaps' = mishaps \cup {m \in {"settledOutside", "upgradeCutShort"} :
                              \/ m = "settledOutside" /\ at = "commit"
                              \/ /\ m = "upgradeCutShort"
                                 /\ at = "upgrading" /\ pc = "saveDay" /\ ~AllSigned(ReadJournal)}
  /\ UNCHANGED journalVars

-----------------------------------------------------------------------------
(* The application's own calls of the device.                              *)

\* On every start, and whenever it likes between calls of the queue.
AppReconcile ==
  /\ call = "none"
  /\ Reconcile
  /\ mishaps' = IF pending # None /\ \E i \in DOMAIN Uncommitted : Uncommitted[i] = pending
                THEN mishaps \cup {"settledOutside"} ELSE mishaps
  /\ UNCHANGED <<journalVars, queue, loaded, call, at>>

AppCloses ==
  /\ call = "none"
  /\ CloseDay
  /\ mishaps' = IF StoredIsBehind THEN mishaps \cup {"closedBehind"} ELSE mishaps
  /\ UNCHANGED <<journalVars, queue, loaded, call, at>>

AppOpensOrClears ==
  /\ call = "none"
  /\ OpenDay \/ ClearPersistedState
  /\ UNCHANGED queueVars

World ==
  /\ FdmsAnswers \/ FdmsRefuses \/ DaySettles \/ Tick
  /\ UNCHANGED queueVars

-----------------------------------------------------------------------------
QueueGoesOn ==
  \/ UpgradeEntry \/ EntryUpgraded
  \/ TakeSigned \/ EnqueueRefused \/ TakeUnanswered \/ Taken
  \/ SubmitHead \/ SubmitUnsignedHead \/ SettleHead \/ HeadBlocked \/ CommitHead
  \/ SubmitSale \/ FlushReturns
  \/ DeviceGoesOn \/ DeviceDone \/ DeviceRefused

QueueNext ==
  \/ EarlierVersionQueues
  \/ Enqueue \/ SubmitOrEnqueue \/ Flush
  \/ QueueGoesOn
  \/ NoOutcome \/ DeviceStorageFails \/ JournalFails \/ ProcessDies
  \/ AppReconcile \/ AppCloses \/ AppOpensOrClears
  \/ World

QueueSpec == QueueInit /\ [][QueueNext]_allVars

\* Besides FDMS and the continuation of every call: the application comes
\* back to reconcile() and, while the day is open, to flush().
FairQueueSpec ==
  /\ QueueSpec
  /\ WF_allVars(World /\ FdmsAnswers) /\ WF_allVars(World /\ DaySettles)
  /\ WF_allVars(QueueGoesOn)
  /\ SF_allVars(AppReconcile)
  /\ SF_allVars(Flush /\ status = "FiscalDayOpened")

-----------------------------------------------------------------------------
(* Properties.                                                             *)

Undisturbed == mishaps = {}

\* The receipts are recorded in the order of the journal, each once, with
\* their numbers, chain and dates intact: FDMS finds none out of sequence,
\* however sales, failing flushes, closes and restarts interleave - short of
\* a mishap.
QueueKeepsSequence == Undisturbed => NoSequencingRed

\* The records that wait, up to the last that is signed.
ToSend ==
  SubSeq(Uncommitted, 1, Max({i \in DOMAIN Uncommitted : IsPrepared(Uncommitted[i])} \cup {0}))

\* FDMS's counters once the first i of them are recorded.
TotalAfter[i \in 0..Len(ToSend)] ==
  IF i = 0 THEN dayTotal ELSE TotalAfter[i - 1] + ToSend[i].receipt.amount

\* s is FDMS's day plus the receipts that wait in the journal, all signed.
AgreesWithQueue(s) ==
  /\ \A i \in DOMAIN ToSend : IsPrepared(ToSend[i])
  /\ s.fiscalDayNo = fiscalDayNo
  /\ s.receiptCounter = DayReceiptCount + Len(ToSend)
  /\ s.receiptGlobalNo = HighestGlobalNo + Len(ToSend)
  /\ s.counters = TotalAfter[Len(ToSend)]
  /\ s.previousReceiptHash = IF ToSend = <<>> THEN LastHash ELSE Last(ToSend).receipt.hash

\* Between calls, with no submit unresolved, the day the next receipt is
\* signed from is FDMS's plus exactly what the journal still holds signed:
\* after any restart the journal and the stored day together lose no sale and
\* count none twice.  Only a call that loads the journal catches up with it,
\* so from then on memory, or the day stored when it was dropped, must agree
\* as it stands.
QueueInStep ==
  Undisturbed /\ pc = "idle" /\ call = "none" /\ pending = None =>
    /\ state # None => AgreesWithQueue(IF loaded THEN state ELSE CaughtUp(state))
    /\ dayState # None =>
         AgreesWithQueue(IF loaded /\ state = None THEN dayState ELSE CaughtUp(dayState))

\* A receipt the journal counts as submitted is in FDMS's record, that very
\* receipt and not another of its number - also when reconcile() or a flush()
\* that died has settled the head outside the journal, which can send it twice
\* but never drops it.
NothingLost ==
  mishaps \subseteq {"settledOutside"} =>
    \A i \in 1..committed : \E j \in DOMAIN receipts : ReceiptAt(j) = journal[i].receipt

\* While no write of take() fails, no two receipts are journaled with one
\* number: should the process die in take() "before applyPrepared, ensureLoaded
\* on the next start sees a journal entry ahead of the device state and catches
\* the state up, so the number is neither reused nor skipped".
JournaledNumberNotReused ==
  mishaps \subseteq {"settledOutside", "closedBehind", "soldClosed"} =>
    \A i, j \in DOMAIN journal :
      /\ i # j
      /\ IsPrepared(journal[i]) /\ IsPrepared(journal[j])
      => journal[i].receipt.globalNo # journal[j].receipt.globalNo

\* No sale is signed with the number of a submit that is still unresolved:
\* "submitReceipt() and closeDay() refuse to run while a submit is unresolved
\* [...], so the failure cannot compound".
UnresolvedNumberNotReused ==
  pending # None =>
    \A i \in DOMAIN Uncommitted :
      IsPrepared(Uncommitted[i]) /\ Uncommitted[i].receipt.globalNo = pending.receipt.globalNo =>
        Uncommitted[i] = pending

\* FDMS never accepts a close that will settle while receipts still wait in
\* the journal, whenever closeDay() is called: the counters it signs include
\* them, so such a close bounces.
DayWaitsForQueue ==
  [][Undisturbed /\ status = "FiscalDayOpened" /\ status' = "FiscalDayCloseInitiated"
       /\ closingErrorCode' = "None" => Uncommitted = <<>>]_allVars

\* A journal that holds receipts is eventually sent, whatever faults came
\* before, unless FDMS goes on refusing its head, behind which flush() stops
\* each time, or the application goes on closing the day over it.
QueueDrains ==
  <>[][~AppCloses /\ ~FdmsRefuses]_allVars =>
    (Uncommitted # <<>> ~> Uncommitted = <<>> \/ ~Undisturbed)

=============================================================================
