----------------------------- MODULE FiscalDevice -----------------------------
(***************************************************************************)
(* FiscalDevice (src/src/core/device.ts) on a durable Storage, talking to  *)
(* FDMS over a connection that may fail at any point.  One application     *)
(* calls it, one call at a time; each action is the code between two       *)
(* suspension points that matter, a storage write or an FDMS call, so that *)
(* a crash, a failing write and a lost answer can fall between any two.    *)
(***************************************************************************)
EXTENDS Fdms, SequencesExt

CONSTANTS
  None,          \* no day state, no receipt, no request, no answer
  Amounts,       \* the amounts receipts can have
  MaxAhead,      \* how far an explicit receiptDate may lie in the future
  LateDelivery,  \* a request given up on may still reach FDMS afterwards
  ForceClose,    \* closeDay is called with { force: true }
  KeepsOldDay,   \* the application may open a day without clearPersistedState
  ClockMayLag,   \* a day may open before the clock passes the last receipt's
                 \* date, and explicit dates may lie in the past
  \* Bounds, for model checking.
  MaxSigned,     \* receipts signed
  MaxDays,       \* days opened
  MaxTime,       \* seconds
  MaxFaults      \* calls and writes that fail, and crashes

DayState == [fiscalDayNo : Nat, receiptCounter : Nat, receiptGlobalNo : Nat,
             previousReceiptHash : Nat, previousReceiptDate : Nat,
             counters : Int, redErrors : SUBSET Nat]

PreparedReceipt == [receipt : Receipt, stateAfter : DayState]

\* Where a call is suspended: between calls, waiting for FDMS's answer, or
\* before the next storage write of persistState() or commitPrepared().
Places == {"idle", "submit", "open", "close", "saveDay", "saveGlobal", "clearPending"}

ASSUME NoneIsNothing ==
  None \notin DayState /\ None \notin PreparedReceipt /\ None \notin Request /\ None \notin Answer

ASSUME AmountsAreNumbers == Amounts \subseteq Int

ASSUME BoundsAreNumbers ==
  MaxAhead \in Nat /\ MaxSigned \in Nat /\ MaxDays \in Nat /\ MaxTime \in Nat /\ MaxFaults \in Nat

ASSUME SwitchesAreBoolean ==
  LateDelivery \in BOOLEAN /\ ForceClose \in BOOLEAN /\ KeepsOldDay \in BOOLEAN /\ ClockMayLag \in BOOLEAN

VARIABLES
  \* In memory: lost in a crash.
  state,       \* this.state
  pc,          \* where the call in progress is
  reported,    \* openDay's copy of GetStatus.lastReceiptGlobalNo
  \* In the Storage: survives.
  dayState,    \* KEY_DAY_STATE
  pending,     \* KEY_PENDING
  lastGlobal,  \* KEY_LAST_GLOBAL, 0 when absent
  \* The connection.
  sent,        \* the request on its way to FDMS
  answer,      \* the answer on its way back
  late,        \* requests the device gave up on that can still arrive
  \* The world.
  now,         \* the server-corrected clock, in seconds
  signed,      \* receipts signed so far, the last hash given out
  faults       \* failures so far

storageVars == <<dayState, pending, lastGlobal>>
wireVars    == <<sent, answer, late>>
worldVars   == <<now, signed, faults>>
vars == <<fdmsVars, state, pc, reported, storageVars, wireVars, worldVars>>

TypeOK ==
  /\ FdmsTypeOK
  /\ state \in DayState \cup {None}
  /\ pc \in Places
  /\ reported \in Nat
  /\ dayState \in DayState \cup {None}
  /\ pending \in PreparedReceipt \cup {None}
  /\ lastGlobal \in Nat
  /\ sent \in Request \cup {None}
  /\ answer \in Answer \cup {None}
  /\ late \in Seq(Request)
  /\ now \in Nat \ {0}
  /\ signed \in Nat
  /\ faults \in Nat

Init ==
  /\ FdmsInit
  /\ state = None /\ pc = "idle" /\ reported = 0
  /\ dayState = None /\ pending = None /\ lastGlobal = 0
  /\ sent = None /\ answer = None /\ late = <<>>
  /\ now = 1 /\ signed = 0 /\ faults = 0

-----------------------------------------------------------------------------
(* Signing.                                                                *)

\* A generated date is the clock's, nudged past the previous receipt's.
AutoDate(s) == IF now <= s.previousReceiptDate THEN s.previousReceiptDate + 1 ELSE now

\* An explicit one is trusted once it is after the previous receipt's.
ReceiptDates(s) ==
  {AutoDate(s)} \cup {d \in 1..(now + MaxAhead) :
                        d > s.previousReceiptDate /\ (ClockMayLag \/ d >= now)}

SignReceipt(s, date, amount, badTax) ==
  [globalNo |-> s.receiptGlobalNo + 1, counter |-> s.receiptCounter + 1,
   date |-> date, amount |-> amount, badTax |-> badTax,
   previousHash |-> s.previousReceiptHash, hash |-> signed + 1]

\* Mutation of StateAfter: the day's counters are not accumulated.
StateAfterUncounted(s, r) ==
  [fiscalDayNo |-> s.fiscalDayNo,
   receiptCounter |-> s.receiptCounter + 1, receiptGlobalNo |-> s.receiptGlobalNo + 1,
   previousReceiptHash |-> r.hash, previousReceiptDate |-> r.date,
   counters |-> s.counters, redErrors |-> s.redErrors]

StateAfter(s, r) ==
  [fiscalDayNo |-> s.fiscalDayNo,
   receiptCounter |-> s.receiptCounter + 1, receiptGlobalNo |-> s.receiptGlobalNo + 1,
   previousReceiptHash |-> r.hash, previousReceiptDate |-> r.date,
   counters |-> s.counters + r.amount, redErrors |-> s.redErrors]

Prepare(s, r) == [receipt |-> r, stateAfter |-> StateAfter(s, r)]

Submit(r) == [endpoint |-> "SubmitReceipt", receipt |-> r]

\* refusePending(), for the calls that may not run over an unresolved submit.
NoPending == pending = None

\* submitReceipt(): sign, write the marker, send.  A crash before the marker
\* is written leaves nothing behind; one between the marker and the request is
\* a request lost.
SubmitReceipt ==
  /\ pc = "idle" /\ NoPending /\ state # None
  /\ signed < MaxSigned
  /\ \E amount \in Amounts, badTax \in BOOLEAN, date \in ReceiptDates(state) :
       LET r == SignReceipt(state, date, amount, badTax)
       IN  pending' = Prepare(state, r) /\ sent' = Submit(r)
  /\ pc' = "submit"
  /\ signed' = signed + 1
  /\ UNCHANGED <<fdmsVars, state, reported, dayState, lastGlobal, answer, late, now, faults>>

-----------------------------------------------------------------------------
(* Committing a receipt FDMS has: memory, then the three stored keys.      *)

\* Mutation of CommittedState: memory is only set when it is empty.
CommittedStateNotAdvanced(s, p, red) ==
  LET t == IF s = None THEN p.stateAfter ELSE s
  IN  IF red THEN [t EXCEPT !.redErrors = @ \cup {p.receipt.globalNo}] ELSE t

\* Mutation of CommittedState: a validation error of any colour counts as Red.
CommittedStateAnyColour(s, p, red) ==
  LET t == IF s = None THEN p.stateAfter
           ELSE IF s.receiptGlobalNo < p.receipt.globalNo THEN p.stateAfter ELSE s
  IN  [t EXCEPT !.redErrors = @ \cup {p.receipt.globalNo}]

\* The state after commitPrepared(p, response): stateAfter, unless memory is
\* there already, and FDMS's Red verdict when there is a response.
CommittedState(s, p, red) ==
  LET t == IF s = None THEN p.stateAfter
           ELSE IF s.receiptGlobalNo < p.receipt.globalNo THEN p.stateAfter ELSE s
  IN  IF red THEN [t EXCEPT !.redErrors = @ \cup {p.receipt.globalNo}] ELSE t

\* FDMS took the receipt and its answer arrived.
SubmitAnswered ==
  /\ pc = "submit" /\ answer # None /\ answer.ok
  /\ state' = CommittedState(state, pending, answer.red)
  /\ answer' = None
  /\ pc' = "saveDay"
  /\ UNCHANGED <<fdmsVars, reported, storageVars, sent, late, worldVars>>

\* Mutation of SubmitRefused: the marker of a refused receipt stays.
SubmitRefusedKept ==
  /\ pc = "submit" /\ answer # None /\ ~answer.ok
  /\ answer' = None
  /\ pc' = "idle"
  /\ UNCHANGED <<fdmsVars, state, reported, storageVars, sent, late, worldVars>>

\* A definite refusal: nothing is pending any more.
SubmitRefused ==
  /\ pc = "submit" /\ answer # None /\ ~answer.ok
  /\ pending' = None
  /\ answer' = None
  /\ pc' = "idle"
  /\ UNCHANGED <<fdmsVars, state, reported, dayState, lastGlobal, sent, late, worldVars>>

\* Mutation of SaveDayState: persistState() leaves the highest number alone.
SaveDayStateOnly ==
  /\ pc = "saveDay"
  /\ dayState' = state
  /\ pc' = IF pending = None THEN "idle" ELSE "clearPending"
  /\ UNCHANGED <<fdmsVars, state, reported, pending, lastGlobal, wireVars, worldVars>>

\* persistState(), first key.
SaveDayState ==
  /\ pc = "saveDay"
  /\ dayState' = state
  /\ pc' = "saveGlobal"
  /\ UNCHANGED <<fdmsVars, state, reported, pending, lastGlobal, wireVars, worldVars>>

\* persistState(), second key: only ever raised.  openDay() ends here.
SaveLastGlobal ==
  /\ pc = "saveGlobal"
  /\ lastGlobal' = IF state.receiptGlobalNo > lastGlobal THEN state.receiptGlobalNo ELSE lastGlobal
  /\ pc' = IF pending = None THEN "idle" ELSE "clearPending"
  /\ UNCHANGED <<fdmsVars, state, reported, dayState, pending, wireVars, worldVars>>

\* The end of commitPrepared().
ClearPending ==
  /\ pc = "clearPending"
  /\ pending' = None
  /\ pc' = "idle"
  /\ UNCHANGED <<fdmsVars, state, reported, dayState, lastGlobal, wireVars, worldVars>>

-----------------------------------------------------------------------------
(* reconcile(): load the stored day, then settle the pending submit.       *)

\* loadPersistedState().
LoadedState == IF state = None THEN dayState ELSE state

ReconcileNothing ==
  /\ pc = "idle" /\ pending = None
  /\ state = None /\ dayState # None
  /\ state' = LoadedState
  /\ UNCHANGED <<fdmsVars, pc, reported, storageVars, wireVars, worldVars>>

\* Mutation of ReportedAsRecorded: the pending receipt itself is not enough.
ReportedBeyond(p) == LastReceiptGlobalNo > p.receipt.globalNo

\* Mutation of ReportedAsRecorded: off by one the other way.
ReportedNearly(p) == LastReceiptGlobalNo + 1 >= p.receipt.globalNo

\* GetStatus says the pending receipt arrived.
ReportedAsRecorded(p) == LastReceiptGlobalNo >= p.receipt.globalNo

\* "confirmed": committed without a response, so without its Red verdict.
ReconcileConfirmed ==
  /\ pc = "idle" /\ pending # None
  /\ ReportedAsRecorded(pending)
  /\ state' = CommittedState(LoadedState, pending, FALSE)
  /\ pc' = "saveDay"
  /\ UNCHANGED <<fdmsVars, reported, storageVars, wireVars, worldVars>>

\* "resubmitted" or "rejected", by the answer: the identical receipt again.
ReconcileResubmit ==
  /\ pc = "idle" /\ pending # None
  /\ ~ReportedAsRecorded(pending)
  /\ state' = LoadedState
  /\ sent' = Submit(pending.receipt)
  /\ pc' = "submit"
  /\ UNCHANGED <<fdmsVars, reported, storageVars, answer, late, worldVars>>

-----------------------------------------------------------------------------
(* The fiscal day.                                                         *)

\* What closing a day properly leaves behind before the next is opened.
OldDayCleared == state = None /\ dayState = None

ClockPassed == \A i \in DOMAIN receipts : ReceiptAt(i).date < now

\* openDay() up to the request: GetStatus said the day is closed.
OpenDay ==
  /\ pc = "idle" /\ NoPending
  /\ status = "FiscalDayClosed"
  /\ fiscalDayNo < MaxDays
  /\ KeepsOldDay \/ OldDayCleared
  /\ ClockMayLag \/ ClockPassed
  /\ reported' = LastReceiptGlobalNo
  /\ sent' = [endpoint |-> "OpenDay"]
  /\ pc' = "open"
  /\ UNCHANGED <<fdmsVars, state, storageVars, answer, late, worldVars>>

\* Numbers go on from the highest of GetStatus's and the stored one.
OpeningGlobalNo == IF reported > lastGlobal THEN reported ELSE lastGlobal

NewDayState(dayNo, globalNo) ==
  [fiscalDayNo |-> dayNo, receiptCounter |-> 0, receiptGlobalNo |-> globalNo,
   previousReceiptHash |-> 0, previousReceiptDate |-> 0, counters |-> 0, redErrors |-> {}]

OpenAnswered ==
  /\ pc = "open" /\ answer # None /\ answer.ok
  /\ state' = NewDayState(answer.fiscalDayNo, OpeningGlobalNo)
  /\ reported' = 0
  /\ answer' = None
  /\ pc' = "saveDay"
  /\ UNCHANGED <<fdmsVars, storageVars, sent, late, worldVars>>

CloseBody(s) ==
  [endpoint |-> "CloseDay", fiscalDayNo |-> s.fiscalDayNo,
   counter |-> s.receiptCounter, total |-> s.counters]

\* closeDay() refuses up front while the day is known to hold a Red receipt,
\* unless forced.
MayClose(s) == ForceClose \/ s.redErrors = {}

CloseDay ==
  /\ pc = "idle" /\ NoPending /\ state # None
  /\ MayClose(state)
  /\ sent' = CloseBody(state)
  /\ pc' = "close"
  /\ UNCHANGED <<fdmsVars, state, reported, storageVars, answer, late, worldVars>>

\* Memory forgets the day; the stored copy stays for a retry.
CloseAnswered ==
  /\ pc = "close" /\ answer # None /\ answer.ok
  /\ state' = None
  /\ answer' = None
  /\ pc' = "idle"
  /\ UNCHANGED <<fdmsVars, reported, storageVars, sent, late, worldVars>>

DayCallRefused ==
  /\ pc \in {"open", "close"} /\ answer # None /\ ~answer.ok
  /\ reported' = 0
  /\ answer' = None
  /\ pc' = "idle"
  /\ UNCHANGED <<fdmsVars, state, storageVars, sent, late, worldVars>>

\* clearPersistedState(), once GetStatus reports FiscalDayClosed.
ClearPersistedState ==
  /\ pc = "idle" /\ status = "FiscalDayClosed"
  /\ ~OldDayCleared
  /\ state' = None
  /\ dayState' = None
  /\ UNCHANGED <<fdmsVars, pc, reported, pending, lastGlobal, wireVars, worldVars>>

-----------------------------------------------------------------------------
(* FDMS, the connection, failures and time.                                *)

FdmsAnswers ==
  /\ sent # None
  /\ Handle(sent)
  /\ answer' = AnswerTo(sent)
  /\ sent' = None
  /\ UNCHANGED <<state, pc, reported, storageVars, late, worldVars>>

\* FDMS refuses a receipt of an open day for what it says: a definite 4xx.  A
\* receipt it holds already it records as a Red duplicate (RCPT012) instead.
FdmsRefuses ==
  /\ sent # None /\ sent.endpoint = "SubmitReceipt"
  /\ \A i \in DOMAIN receipts : ReceiptAt(i) # sent.receipt
  /\ answer' = [ok |-> FALSE, red |-> FALSE, fiscalDayNo |-> 0]
  /\ sent' = None
  /\ UNCHANGED <<fdmsVars, state, pc, reported, storageVars, late, worldVars>>

\* The device stops waiting: a request still on its way is lost, or arrives
\* when nobody waits for it.
AbandonCall ==
  /\ pc' = "idle"
  /\ reported' = 0
  /\ sent' = None
  /\ answer' = None
  /\ late' = IF LateDelivery /\ sent # None THEN Append(late, sent) ELSE late

\* Mutation of OutcomeUnknown: a 5xx is taken for a definite refusal.
OutcomeTakenForRefusal ==
  /\ pc \in {"submit", "open", "close"}
  /\ faults < MaxFaults
  /\ AbandonCall
  /\ pending' = None
  /\ faults' = faults + 1
  /\ UNCHANGED <<fdmsVars, state, dayState, lastGlobal, now, signed>>

\* A dropped connection, a timeout, a 5xx, 408 or 429: the outcome is unknown
\* and the marker stays, whether or not FDMS has handled the request.
OutcomeUnknown ==
  /\ pc \in {"submit", "open", "close"}
  /\ faults < MaxFaults
  /\ AbandonCall
  /\ faults' = faults + 1
  /\ UNCHANGED <<fdmsVars, state, storageVars, now, signed>>

\* A storage write throws; memory keeps what it has.
StorageFails ==
  /\ pc \in {"saveDay", "saveGlobal", "clearPending"}
  /\ faults < MaxFaults
  /\ pc' = "idle"
  /\ faults' = faults + 1
  /\ UNCHANGED <<fdmsVars, state, reported, storageVars, wireVars, now, signed>>

\* The process dies and a new one starts on the same storage.
Crash ==
  /\ faults < MaxFaults
  /\ pc # "idle" \/ state # None
  /\ AbandonCall
  /\ state' = None
  /\ faults' = faults + 1
  /\ UNCHANGED <<fdmsVars, storageVars, now, signed>>

LateArrives ==
  /\ \E i \in DOMAIN late : Handle(late[i]) /\ late' = RemoveAt(late, i)
  /\ UNCHANGED <<state, pc, reported, storageVars, sent, answer, worldVars>>

DaySettles ==
  /\ SettleClose
  /\ UNCHANGED <<state, pc, reported, storageVars, wireVars, worldVars>>

Tick ==
  /\ now < MaxTime
  /\ now' = now + 1
  /\ UNCHANGED <<fdmsVars, state, pc, reported, storageVars, wireVars, signed, faults>>

-----------------------------------------------------------------------------
\* The continuations of a call, which run as soon as what they await is there.
Continue ==
  \/ SubmitAnswered \/ SubmitRefused
  \/ SaveDayState \/ SaveLastGlobal \/ ClearPending
  \/ OpenAnswered \/ CloseAnswered \/ DayCallRefused

Reconcile == ReconcileNothing \/ ReconcileConfirmed \/ ReconcileResubmit

Next ==
  \/ SubmitReceipt \/ OpenDay \/ CloseDay \/ ClearPersistedState
  \/ Reconcile
  \/ Continue
  \/ FdmsAnswers \/ FdmsRefuses \/ DaySettles \/ LateArrives
  \/ OutcomeUnknown \/ StorageFails \/ Crash
  \/ Tick

Spec == Init /\ [][Next]_vars

\* FDMS answers what reaches it, a call goes on when it can, and the
\* application calls reconcile() as long as a submit is pending, as every
\* start, CLI command and MCP tool call does.
FairSpec ==
  /\ Spec
  /\ WF_vars(FdmsAnswers) /\ WF_vars(DaySettles)
  /\ WF_vars(Continue) /\ WF_vars(Reconcile)

-----------------------------------------------------------------------------
(* Properties.                                                             *)

\* FDMS never finds a receipt misnumbered, out of its hash chain or misdated:
\* the promise of submitPrepared() and reconcile() over every crash, failed
\* write and lost answer.  One such receipt and the device can no longer
\* close its day.
NoSequencingRed ==
  \A i \in DOMAIN receipts : receipts[i].errors \cap SequencingCodes = {}

\* s describes the fiscal day exactly as FDMS holds it.
Agrees(s) ==
  /\ s.fiscalDayNo = fiscalDayNo
  /\ s.receiptCounter = DayReceiptCount
  /\ s.receiptGlobalNo = HighestGlobalNo
  /\ s.previousReceiptHash = LastHash
  /\ s.previousReceiptDate = LastDate
  /\ s.counters = dayTotal

\* Between calls, with no submit unresolved, every copy of the day state the
\* device could go on from - in memory, or in storage after a restart -
\* agrees with FDMS: persistState() and loadPersistedState() lose nothing.
InStep ==
  pc = "idle" /\ pending = None =>
    \A s \in {state, dayState} \ {None} : Agrees(s)

\* closeDay() never signs counters that differ from FDMS's, so a close never
\* bounces for the SDK's own arithmetic.
NoCloseMismatch == closingErrorCode \notin {"BadCertificateSignature", "CountersMismatch"}

\* With no submit unresolved the stored highest number is exactly FDMS's
\* highest, whatever was interrupted before: the next openDay() can count on
\* it where GetStatus under-reports.
IssuedIsDurable == pending = None => lastGlobal = HighestGlobalNo

\* closeDay() refuses a day up front only for a receipt FDMS did colour Red
\* in that very day.
RedIsTruthful ==
  \A s \in {state, dayState} \ {None} : \A n \in s.redErrors :
    \E i \in (dayStart + 1)..Len(receipts) :
      ReceiptAt(i).globalNo = n /\ receipts[i].errors # {}

\* Every number up to the highest one the device remembers as issued is in
\* FDMS's record, even with requests that arrive late, days opened over old
\* state and a lagging clock: reconcile() may repeat a number but skips none.
NoGap == \A n \in 1..lastGlobal : n \in GlobalNos

\* FDMS holds no number twice.
NoDuplicateNumber ==
  \A i, j \in DOMAIN receipts : ReceiptAt(i).globalNo = ReceiptAt(j).globalNo => i = j

\* A close that was not forced never fails for Red receipts: closeDay()
\* "refuses up front when the day holds Red validation errors".
RefusesRedUpFront == ForceClose \/ closingErrorCode # "ReceiptsWithValidationErrors"

\* A pending submit is settled - confirmed, resubmitted or rejected - once
\* the faults stop, whatever they left behind.
PendingIsSettled == pending # None ~> pending = None

\* After a restart the device goes on with the day FDMS has open: "a restart
\* picks up exactly where it stopped".
Resumable ==
  pc = "idle" /\ pending = None /\ status = "FiscalDayOpened" =>
    state # None \/ dayState # None

-----------------------------------------------------------------------------
(* The ledger this implements: FDMS's receipts, the marker and the stored  *)
(* highest number.                                                         *)

LedgerEntry(r) == [number |-> r.globalNo, previous |-> r.previousHash, hash |-> r.hash]

Ledger == INSTANCE FiscalLedger WITH
  Hashes <- 1..MaxSigned, NoHash <- 0,
  ledger <- [i \in DOMAIN receipts |-> LedgerEntry(ReceiptAt(i))],
  firstOfDay <- DayReceiptCount = 0,
  pending <- IF pending = None THEN {} ELSE {LedgerEntry(pending.receipt)},
  issued <- lastGlobal

\* The device on FDMS implements the gapless ledger: a signed receipt is
\* entered at most once and the marker goes only when both sides agree.
ImplementsLedger == Ledger!Spec

=============================================================================
