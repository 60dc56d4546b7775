------------------------- MODULE FiscalDevice_proofs -------------------------
(***************************************************************************)
(* Theorems about FiscalDevice for every value of its constants.           *)
(***************************************************************************)
EXTENDS FiscalDevice, TLAPS

-----------------------------------------------------------------------------
(* The invariants.  Type correctness is inductive only with the knowledge  *)
(* that a call that waits for a submit has a marker and one that persists  *)
(* the day has a day.                                                      *)

TypeInv ==
  /\ TypeOK
  /\ pc = "submit" => pending # None
  /\ pc \in {"saveDay", "saveGlobal"} => state # None

-----------------------------------------------------------------------------
(* The invariant behind NoGap.  It needs nothing of the environment: every *)
(* number below one that is anywhere in use has been recorded.             *)

\* The numbers 1..n are all in FDMS's record.
Covered(n) == \A k \in 1..n : k \in GlobalNos

\* Requests that carry a receipt carry one whose predecessors are recorded.
CoversRequest(q) == q.endpoint = "SubmitReceipt" => Covered(q.receipt.globalNo - 1)

CoverInv ==
  /\ Covered(lastGlobal)
  /\ Covered(reported)
  /\ \A k \in GlobalNos : Covered(k)
  /\ state # None => Covered(state.receiptGlobalNo)
  /\ dayState # None => Covered(dayState.receiptGlobalNo)
  /\ pending # None =>
       /\ Covered(pending.receipt.globalNo - 1)
       /\ pending.stateAfter.receiptGlobalNo = pending.receipt.globalNo
  /\ sent # None => CoversRequest(sent)
  /\ sent # None /\ pc = "submit" => sent = Submit(pending.receipt)
  /\ \A i \in DOMAIN late : CoversRequest(late[i])
  /\ answer # None => sent = None
  /\ pc \in {"idle", "saveDay", "saveGlobal", "clearPending"} => sent = None /\ answer = None
  /\ pc = "submit" /\ answer # None /\ answer.ok => pending.receipt.globalNo \in GlobalNos

-----------------------------------------------------------------------------
(* Type correctness.                                                       *)

\* A request is a record of exactly one of the three kinds.
LEMMA RequestKinds ==
  ASSUME NEW q \in Request
  PROVE  /\ q.endpoint \in {"SubmitReceipt", "OpenDay", "CloseDay"}
         /\ q.endpoint = "SubmitReceipt" => q.receipt \in Receipt
         /\ q.endpoint = "CloseDay" => q \in CloseRequest
BY DEF Request, SubmitRequest, OpenRequest, CloseRequest

LEMMA ReceiptType ==
  ASSUME FdmsTypeOK
  PROVE  \A i \in DOMAIN receipts : ReceiptAt(i) \in Receipt
<1>1. \A i \in DOMAIN receipts : receipts[i] \in Recorded
  BY DEF FdmsTypeOK
<1> QED
  BY <1>1 DEF ReceiptAt, Recorded

\* FDMS stays well typed whatever request it handles, and so is its answer.
LEMMA HandleType ==
  ASSUME FdmsTypeOK, NEW q \in Request, Handle(q)
  PROVE  FdmsTypeOK' /\ AnswerTo(q) \in Answer
<1>1. AnswerTo(q) \in Answer
  BY DEF AnswerTo, Answer, Takes, FdmsTypeOK
<1>2. CASE q.endpoint = "SubmitReceipt" /\ RecordReceipt(q.receipt)
  <2>1. [receipt |-> q.receipt, errors |-> ValidationErrors(q.receipt)] \in Recorded
    BY <1>2, RequestKinds DEF Recorded, ValidationErrors
  <2> QED
    BY <1>1, <1>2, <2>1, RequestKinds DEF RecordReceipt, FdmsTypeOK, Receipt
<1>3. CASE OpenDayAtFdms
  BY <1>1, <1>3 DEF OpenDayAtFdms, FdmsTypeOK, Statuses, ClosingErrors
<1>4. CASE q.endpoint = "CloseDay" /\ CloseDayAtFdms(q)
  BY <1>1, <1>4 DEF CloseDayAtFdms, CloseVerdict, FdmsTypeOK, Statuses, ClosingErrors
<1>5. CASE UNCHANGED fdmsVars
  BY <1>1, <1>5 DEF fdmsVars, FdmsTypeOK
<1> QED
  BY <1>2, <1>3, <1>4, <1>5 DEF Handle

\* A signed receipt and the state after it are well typed.
LEMMA PrepareType ==
  ASSUME TypeOK, NEW s \in DayState, NEW amount \in Amounts, NEW badTax \in BOOLEAN,
         NEW date \in ReceiptDates(s)
  PROVE  /\ date \in Nat
         /\ SignReceipt(s, date, amount, badTax) \in Receipt
         /\ Prepare(s, SignReceipt(s, date, amount, badTax)) \in PreparedReceipt
<1>1. date \in Nat
  BY BoundsAreNumbers DEF ReceiptDates, AutoDate, DayState, TypeOK
<1>2. SignReceipt(s, date, amount, badTax) \in Receipt
  BY <1>1, AmountsAreNumbers DEF SignReceipt, Receipt, DayState, TypeOK
<1>3. ASSUME NEW r \in Receipt
      PROVE  StateAfter(s, r) \in DayState
  BY DEF StateAfter, Receipt, DayState
<1> QED
  BY <1>1, <1>2, <1>3 DEF Prepare, PreparedReceipt

LEMMA CommittedStateType ==
  ASSUME NEW s \in DayState \cup {None}, NEW p \in PreparedReceipt, NEW red \in BOOLEAN
  PROVE  CommittedState(s, p, red) \in DayState
<1> DEFINE t == IF s = None THEN p.stateAfter
                ELSE IF s.receiptGlobalNo < p.receipt.globalNo THEN p.stateAfter ELSE s
<1>1. t \in DayState
  BY DEF PreparedReceipt
<1>2. p.receipt.globalNo \in Nat
  BY DEF PreparedReceipt, Receipt
<1>3. [t EXCEPT !.redErrors = @ \cup {p.receipt.globalNo}] \in DayState
  BY <1>1, <1>2 DEF DayState
<1> QED
  BY <1>1, <1>3 DEF CommittedState

LEMMA RemoveAtType ==
  ASSUME NEW S, NEW q \in Seq(S), NEW i \in DOMAIN q
  PROVE  RemoveAt(q, i) \in Seq(S)
<1>1. SubSeq(q, 1, i - 1) \in Seq(S) /\ SubSeq(q, i + 1, Len(q)) \in Seq(S)
  OBVIOUS
<1> QED
  BY <1>1 DEF RemoveAt

LEMMA RemoveAtElements ==
  ASSUME NEW S, NEW q \in Seq(S), NEW i \in DOMAIN q, NEW j \in DOMAIN RemoveAt(q, i)
  PROVE  \E m \in DOMAIN q : RemoveAt(q, i)[j] = q[m]
<1> DEFINE T == {q[m] : m \in DOMAIN q}
<1>1. q \in Seq(T)
  OBVIOUS
<1> HIDE DEF T
<1>2. RemoveAt(q, i) \in Seq(T)
  BY <1>1, RemoveAtType
<1>3. RemoveAt(q, i)[j] \in T
  BY <1>2
<1> QED
  BY <1>3 DEF T

\* GetStatus reports a number FDMS has recorded, or 0.
LEMMA LastReceiptRecorded ==
  ASSUME FdmsTypeOK
  PROVE  LastReceiptGlobalNo \in Nat /\ LastReceiptGlobalNo \in GlobalNos \cup {0}
<1>1. \A i \in DOMAIN receipts : ReceiptAt(i).globalNo \in Nat
  BY ReceiptType DEF Receipt
<1> QED
  BY <1>1 DEF LastReceiptGlobalNo, GlobalNos

LEMMA InitType == Init => TypeInv
<1>1. <<>> \in Seq(Recorded) /\ <<>> \in Seq(Request) /\ Len(<<>>) = 0
  OBVIOUS
<1> QED
  BY <1>1 DEF Init, FdmsInit, TypeInv, TypeOK, FdmsTypeOK, Statuses, ClosingErrors, Places

\* What AbandonCall leaves on the wire.
LEMMA AbandonType ==
  ASSUME TypeOK, AbandonCall
  PROVE  /\ pc' \in Places /\ reported' \in Nat
         /\ sent' \in Request \cup {None} /\ answer' \in Answer \cup {None}
         /\ late' \in Seq(Request)
<1>1. ASSUME sent # None
      PROVE  Append(late, sent) \in Seq(Request)
  BY <1>1 DEF TypeOK
<1> QED
  BY <1>1 DEF AbandonCall, TypeOK, Places

LEMMA NextType == TypeInv /\ [Next]_vars => TypeInv'
<1> SUFFICES ASSUME TypeInv, [Next]_vars
             PROVE  TypeInv'
  OBVIOUS
<1> USE DEF TypeInv
<1>1. CASE SubmitReceipt
  <2>1. PICK amount \in Amounts, badTax \in BOOLEAN, date \in ReceiptDates(state) :
          /\ pending' = Prepare(state, SignReceipt(state, date, amount, badTax))
          /\ sent' = Submit(SignReceipt(state, date, amount, badTax))
    BY <1>1 DEF SubmitReceipt
  <2>2. state \in DayState
    BY <1>1 DEF SubmitReceipt, TypeOK
  <2>3. pending' \in PreparedReceipt /\ sent' \in Request
    BY <2>1, <2>2, PrepareType DEF Submit, Request, SubmitRequest
  <2> QED
    BY <1>1, <2>3, NoneIsNothing DEF SubmitReceipt, TypeOK, FdmsTypeOK, fdmsVars, Places
<1>2. CASE OpenDay
  <2>1. LastReceiptGlobalNo \in Nat
    BY LastReceiptRecorded DEF TypeOK
  <2>2. sent' \in Request
    BY <1>2 DEF OpenDay, Request, OpenRequest
  <2> QED
    BY <1>2, <2>1, <2>2 DEF OpenDay, TypeOK, FdmsTypeOK, fdmsVars, storageVars, worldVars, Places
<1>3. CASE CloseDay
  <2>1. sent' \in Request
    BY <1>3 DEF CloseDay, CloseBody, Request, CloseRequest, TypeOK, DayState
  <2> QED
    BY <1>3, <2>1 DEF CloseDay, TypeOK, FdmsTypeOK, fdmsVars, storageVars, worldVars, Places
<1>4. CASE ClearPersistedState
  BY <1>4 DEF ClearPersistedState, TypeOK, FdmsTypeOK, fdmsVars, wireVars, worldVars
<1>5. CASE ReconcileNothing
  BY <1>5 DEF ReconcileNothing, LoadedState, TypeOK, FdmsTypeOK, fdmsVars, storageVars, wireVars, worldVars
<1>6. CASE ReconcileConfirmed
  <2>1. LoadedState \in DayState \cup {None} /\ pending \in PreparedReceipt
    BY <1>6 DEF ReconcileConfirmed, LoadedState, TypeOK
  <2>2. state' \in DayState
    BY <1>6, <2>1, CommittedStateType DEF ReconcileConfirmed
  <2> QED
    BY <1>6, <2>2, NoneIsNothing DEF ReconcileConfirmed, TypeOK, FdmsTypeOK, fdmsVars, storageVars, wireVars, worldVars, Places
<1>7. CASE ReconcileResubmit
  <2>1. sent' \in Request
    BY <1>7 DEF ReconcileResubmit, Submit, Request, SubmitRequest, TypeOK, PreparedReceipt
  <2> QED
    BY <1>7, <2>1 DEF ReconcileResubmit, LoadedState, TypeOK, FdmsTypeOK, fdmsVars, storageVars, worldVars, Places
<1>8. CASE SubmitAnswered
  <2>1. state' \in DayState
    BY <1>8, CommittedStateType DEF SubmitAnswered, TypeOK, Answer
  <2> QED
    BY <1>8, <2>1, NoneIsNothing DEF SubmitAnswered, TypeOK, FdmsTypeOK, fdmsVars, storageVars, worldVars, Places
<1>9. CASE SubmitRefused
  BY <1>9 DEF SubmitRefused, TypeOK, FdmsTypeOK, fdmsVars, worldVars, Places
<1>10. CASE SaveDayState
  BY <1>10 DEF SaveDayState, TypeOK, FdmsTypeOK, fdmsVars, wireVars, worldVars, Places
<1>11. CASE SaveLastGlobal
  BY <1>11 DEF SaveLastGlobal, TypeOK, FdmsTypeOK, fdmsVars, wireVars, worldVars, Places, DayState
<1>12. CASE ClearPending
  BY <1>12 DEF ClearPending, TypeOK, FdmsTypeOK, fdmsVars, wireVars, worldVars, Places
<1>13. CASE OpenAnswered
  <2>1. state' \in DayState
    BY <1>13 DEF OpenAnswered, NewDayState, OpeningGlobalNo, TypeOK, Answer, DayState
  <2> QED
    BY <1>13, <2>1, NoneIsNothing DEF OpenAnswered, TypeOK, FdmsTypeOK, fdmsVars, storageVars, worldVars, Places
<1>14. CASE CloseAnswered
  BY <1>14 DEF CloseAnswered, TypeOK, FdmsTypeOK, fdmsVars, storageVars, worldVars, Places
<1>15. CASE DayCallRefused
  BY <1>15 DEF DayCallRefused, TypeOK, FdmsTypeOK, fdmsVars, storageVars, worldVars, Places
<1>16. CASE FdmsAnswers
  <2>1. FdmsTypeOK' /\ answer' \in Answer
    BY <1>16, HandleType DEF FdmsAnswers, TypeOK
  <2> QED
    BY <1>16, <2>1 DEF FdmsAnswers, TypeOK, storageVars, worldVars
<1>17. CASE DaySettles
  BY <1>17 DEF DaySettles, SettleClose, TypeOK, FdmsTypeOK, Statuses, storageVars, wireVars, worldVars
<1>18. CASE LateArrives
  <2>1. PICK i \in DOMAIN late : Handle(late[i]) /\ late' = RemoveAt(late, i)
    BY <1>18 DEF LateArrives
  <2>2. late[i] \in Request
    BY <2>1 DEF TypeOK
  <2>3. FdmsTypeOK' /\ late' \in Seq(Request)
    BY <2>1, <2>2, HandleType, RemoveAtType DEF TypeOK
  <2> QED
    BY <1>18, <2>3 DEF LateArrives, TypeOK, storageVars, worldVars
<1>19. CASE OutcomeUnknown
  BY <1>19, AbandonType DEF OutcomeUnknown, AbandonCall, TypeOK, FdmsTypeOK, fdmsVars, storageVars
<1>20. CASE StorageFails
  BY <1>20 DEF StorageFails, TypeOK, FdmsTypeOK, fdmsVars, storageVars, wireVars, Places
<1>21. CASE Crash
  BY <1>21, AbandonType DEF Crash, AbandonCall, TypeOK, FdmsTypeOK, fdmsVars, storageVars
<1>22. CASE Tick
  BY <1>22 DEF Tick, TypeOK, FdmsTypeOK, fdmsVars, storageVars, wireVars
<1>23. CASE UNCHANGED vars
  BY <1>23 DEF vars, TypeOK, FdmsTypeOK, fdmsVars, storageVars, wireVars, worldVars
<1>24. CASE FdmsRefuses
  BY <1>24 DEF FdmsRefuses, Answer, TypeOK, FdmsTypeOK, fdmsVars, storageVars, worldVars
<1> QED
  BY <1>1, <1>2, <1>3, <1>4, <1>5, <1>6, <1>7, <1>8, <1>9, <1>10, <1>11, <1>12, <1>13,
     <1>14, <1>15, <1>16, <1>17, <1>18, <1>19, <1>20, <1>21, <1>22, <1>23, <1>24
     DEF Next, Reconcile, Continue

LEMMA TypeInvariance == Spec => []TypeInv
BY InitType, NextType, PTL DEF Spec

\* Every variable keeps its type, whatever the environment does.
THEOREM TypeCorrect == Spec => []TypeOK
<1>1. TypeInv => TypeOK
  BY DEF TypeInv
<1> QED
  BY <1>1, TypeInvariance, PTL

-----------------------------------------------------------------------------
(* No gap: CoverInv is inductive given TypeInv.                            *)

\* Handling a request only adds numbers, and only one whose predecessors are
\* all there.
LEMMA HandleCovers ==
  ASSUME FdmsTypeOK, NEW q \in Request, Handle(q), CoversRequest(q),
         \A k \in GlobalNos : Covered(k)
  PROVE  /\ GlobalNos \subseteq GlobalNos'
         /\ \A k \in GlobalNos' : Covered(k)'
         /\ Takes(q) /\ q.endpoint = "SubmitReceipt" => q.receipt.globalNo \in GlobalNos'
<1>1. CASE q.endpoint = "SubmitReceipt" /\ RecordReceipt(q.receipt)
  <2> DEFINE n == q.receipt.globalNo
  <2>1. GlobalNos' = GlobalNos \cup {n}
    <3> DEFINE e == [receipt |-> q.receipt, errors |-> ValidationErrors(q.receipt)]
    <3>1. receipts' = Append(receipts, e) /\ e.receipt = q.receipt
      BY <1>1 DEF RecordReceipt
    <3>2. /\ Len(receipts) \in Nat /\ DOMAIN receipts = 1..Len(receipts)
          /\ DOMAIN receipts' = 1..(Len(receipts) + 1)
          /\ \A i \in DOMAIN receipts : receipts'[i] = receipts[i]
          /\ receipts'[Len(receipts) + 1] = e
      BY <3>1 DEF FdmsTypeOK
    <3>3. DOMAIN receipts' = DOMAIN receipts \cup {Len(receipts) + 1}
      BY <3>2
    <3> HIDE DEF e
    <3> QED
      BY <3>1, <3>2, <3>3 DEF GlobalNos, ReceiptAt
  <2>2. n \in Nat /\ Covered(n - 1)
    BY <1>1, RequestKinds DEF CoversRequest, Receipt
  <2>3. \A k \in 1..n : k \in 1..(n - 1) \cup {n}
    BY <2>2
  <2> QED
    BY <1>1, <2>1, <2>2, <2>3 DEF Covered
<1>2. CASE q.endpoint # "SubmitReceipt" /\ receipts' = receipts
  BY <1>2 DEF GlobalNos, ReceiptAt, Covered
<1>3. CASE ~Takes(q) /\ UNCHANGED fdmsVars
  BY <1>3 DEF fdmsVars, GlobalNos, ReceiptAt, Covered
<1> QED
  BY <1>1, <1>2, <1>3 DEF Handle, OpenDayAtFdms, CloseDayAtFdms

LEMMA SameNumbers == UNCHANGED receipts => GlobalNos' = GlobalNos
BY DEF GlobalNos, ReceiptAt

LEMMA InitCovers == Init => CoverInv
BY DEF Init, FdmsInit, CoverInv, Covered, GlobalNos

\* What a crash or a call given up on leaves covers the same requests.
LEMMA AbandonCovers ==
  ASSUME TypeOK, CoverInv, AbandonCall
  PROVE  \A i \in DOMAIN late' : CoversRequest(late'[i])
<1>1. CASE late' = late
  BY <1>1 DEF CoverInv
<1>2. CASE sent # None /\ late' = Append(late, sent)
  <2>1. /\ Len(late) \in Nat /\ DOMAIN late = 1..Len(late)
        /\ DOMAIN late' = 1..(Len(late) + 1)
        /\ \A i \in DOMAIN late : late'[i] = late[i]
        /\ late'[Len(late) + 1] = sent
    BY <1>2 DEF TypeOK
  <2>2. \A i \in DOMAIN late' : i \in DOMAIN late \/ i = Len(late) + 1
    BY <2>1
  <2> QED
    BY <1>2, <2>1, <2>2 DEF CoverInv
<1> QED
  BY <1>1, <1>2 DEF AbandonCall

LEMMA NextCovers == TypeInv /\ CoverInv /\ [Next]_vars => CoverInv'
<1> SUFFICES ASSUME TypeInv, CoverInv, [Next]_vars
             PROVE  CoverInv'
  OBVIOUS
<1> USE DEF TypeInv
<1>1. CASE SubmitReceipt
  <2>1. PICK amount \in Amounts, badTax \in BOOLEAN, date \in ReceiptDates(state) :
          /\ pending' = Prepare(state, SignReceipt(state, date, amount, badTax))
          /\ sent' = Submit(SignReceipt(state, date, amount, badTax))
    BY <1>1 DEF SubmitReceipt
  <2> DEFINE r == SignReceipt(state, date, amount, badTax)
  <2>2. state \in DayState /\ state.receiptGlobalNo \in Nat
    BY <1>1 DEF SubmitReceipt, TypeOK, DayState
  <2>3. /\ pending'.receipt.globalNo - 1 = state.receiptGlobalNo
        /\ pending'.stateAfter.receiptGlobalNo = pending'.receipt.globalNo
        /\ sent' = Submit(pending'.receipt)
        /\ sent'.receipt.globalNo - 1 = state.receiptGlobalNo
    BY <2>1, <2>2 DEF Prepare, StateAfter, SignReceipt, Submit
  <2> QED
    BY <1>1, <2>3, SameNumbers DEF SubmitReceipt, CoverInv, CoversRequest, Covered, fdmsVars
<1>2. CASE OpenDay
  <2>1. Covered(LastReceiptGlobalNo)
    BY LastReceiptRecorded DEF TypeOK, CoverInv, Covered
  <2> QED
    BY <1>2, <2>1, SameNumbers DEF OpenDay, CoverInv, CoversRequest, Covered, fdmsVars, storageVars
<1>3. CASE CloseDay
  BY <1>3, SameNumbers DEF CloseDay, CloseBody, CoverInv, CoversRequest, Covered, fdmsVars, storageVars
<1>4. CASE ClearPersistedState
  BY <1>4, SameNumbers DEF ClearPersistedState, CoverInv, CoversRequest, Covered, fdmsVars, wireVars
<1>5. CASE ReconcileNothing
  BY <1>5, SameNumbers DEF ReconcileNothing, LoadedState, CoverInv, CoversRequest, Covered, fdmsVars, storageVars, wireVars
<1>6. ASSUME NEW s \in DayState \cup {None}, NEW red \in BOOLEAN, pending # None,
             s # None => Covered(s.receiptGlobalNo), Covered(pending.receipt.globalNo)
      PROVE  Covered(CommittedState(s, pending, red).receiptGlobalNo)
  <2> DEFINE t == IF s = None THEN pending.stateAfter
                  ELSE IF s.receiptGlobalNo < pending.receipt.globalNo THEN pending.stateAfter
                  ELSE s
  <2>1. t \in DayState /\ Covered(t.receiptGlobalNo)
    BY <1>6 DEF CoverInv, TypeOK, PreparedReceipt
  <2>2. [t EXCEPT !.redErrors = @ \cup {pending.receipt.globalNo}].receiptGlobalNo = t.receiptGlobalNo
    BY <2>1 DEF DayState
  <2> QED
    BY <2>1, <2>2 DEF CommittedState
<1>7. CASE ReconcileConfirmed
  <2>1. Covered(pending.receipt.globalNo)
    <3>1. LastReceiptGlobalNo \in Nat /\ LastReceiptGlobalNo \in GlobalNos \cup {0}
      BY LastReceiptRecorded DEF TypeOK
    <3>2. pending.receipt.globalNo \in Nat /\ LastReceiptGlobalNo >= pending.receipt.globalNo
      BY <1>7 DEF ReconcileConfirmed, ReportedAsRecorded, TypeOK, PreparedReceipt, Receipt
    <3> QED
      BY <3>1, <3>2 DEF CoverInv, Covered
  <2>2. /\ LoadedState \in DayState \cup {None}
        /\ LoadedState # None => Covered(LoadedState.receiptGlobalNo)
    BY DEF LoadedState, TypeOK, CoverInv
  <2>3. Covered(CommittedState(LoadedState, pending, FALSE).receiptGlobalNo)
    BY <1>6, <1>7, <2>1, <2>2 DEF ReconcileConfirmed
  <2> QED
    BY <1>7, <2>3, SameNumbers DEF ReconcileConfirmed, CoverInv, CoversRequest, Covered, fdmsVars, storageVars, wireVars
<1>8. CASE ReconcileResubmit
  BY <1>8, SameNumbers DEF ReconcileResubmit, LoadedState, Submit, CoverInv, CoversRequest, Covered, fdmsVars, storageVars
<1>9. CASE SubmitAnswered
  <2>1. Covered(pending.receipt.globalNo)
    BY <1>9 DEF SubmitAnswered, CoverInv
  <2>2. answer.red \in BOOLEAN /\ state \in DayState \cup {None} /\ pending # None
    BY <1>9 DEF SubmitAnswered, TypeOK, Answer
  <2>3. Covered(CommittedState(state, pending, answer.red).receiptGlobalNo)
    BY <1>6, <2>1, <2>2 DEF CoverInv
  <2> QED
    BY <1>9, <2>3, SameNumbers DEF SubmitAnswered, CoverInv, CoversRequest, Covered, fdmsVars, storageVars
<1>10. CASE SubmitRefused
  BY <1>10, SameNumbers DEF SubmitRefused, CoverInv, CoversRequest, Covered, fdmsVars
<1>11. CASE SaveDayState
  BY <1>11, SameNumbers DEF SaveDayState, CoverInv, CoversRequest, Covered, fdmsVars, wireVars
<1>12. CASE SaveLastGlobal
  BY <1>12, SameNumbers DEF SaveLastGlobal, CoverInv, CoversRequest, Covered, fdmsVars, wireVars
<1>13. CASE ClearPending
  BY <1>13, SameNumbers DEF ClearPending, CoverInv, CoversRequest, Covered, fdmsVars, wireVars
<1>14. CASE OpenAnswered
  <2>1. state'.receiptGlobalNo = OpeningGlobalNo /\ reported' = 0
    BY <1>14 DEF OpenAnswered, NewDayState
  <2>2. Covered(OpeningGlobalNo) /\ Covered(0)
    BY DEF OpeningGlobalNo, CoverInv, Covered
  <2> QED
    BY <1>14, <2>1, <2>2, SameNumbers DEF OpenAnswered, CoverInv, CoversRequest, Covered, fdmsVars, storageVars
<1>15. CASE CloseAnswered
  BY <1>15, SameNumbers DEF CloseAnswered, CoverInv, CoversRequest, Covered, fdmsVars, storageVars
<1>16. CASE DayCallRefused
  BY <1>16, SameNumbers DEF DayCallRefused, CoverInv, CoversRequest, Covered, fdmsVars, storageVars
<1>17. CASE FdmsAnswers
  <2>1. sent \in Request /\ CoversRequest(sent) /\ pc \in {"submit", "open", "close"}
    BY <1>17 DEF FdmsAnswers, TypeOK, CoverInv, Places
  <2>2. /\ GlobalNos \subseteq GlobalNos'
        /\ \A k \in GlobalNos' : Covered(k)'
        /\ Takes(sent) /\ sent.endpoint = "SubmitReceipt" => sent.receipt.globalNo \in GlobalNos'
    BY <1>17, <2>1, HandleCovers DEF FdmsAnswers, TypeOK, CoverInv
  <2>3. pc = "submit" /\ answer'.ok => pending.receipt.globalNo \in GlobalNos'
    BY <1>17, <2>1, <2>2 DEF FdmsAnswers, AnswerTo, CoverInv, Submit
  <2> QED
    BY <1>17, <2>1, <2>2, <2>3 DEF FdmsAnswers, CoverInv, CoversRequest, Covered, storageVars
<1>18. CASE DaySettles
  BY <1>18, SameNumbers DEF DaySettles, SettleClose, CoverInv, CoversRequest, Covered, storageVars, wireVars
<1>19. CASE LateArrives
  <2>1. PICK i \in DOMAIN late : Handle(late[i]) /\ late' = RemoveAt(late, i)
    BY <1>19 DEF LateArrives
  <2>2. late[i] \in Request /\ CoversRequest(late[i])
    BY <2>1 DEF TypeOK, CoverInv
  <2>3. /\ GlobalNos \subseteq GlobalNos'
        /\ \A k \in GlobalNos' : Covered(k)'
    BY <2>1, <2>2, HandleCovers DEF TypeOK, CoverInv
  <2>4. \A j \in DOMAIN late' : \E m \in DOMAIN late : late'[j] = late[m]
    BY <2>1, RemoveAtElements DEF TypeOK
  <2> QED
    BY <1>19, <2>3, <2>4 DEF LateArrives, CoverInv, CoversRequest, Covered, storageVars
<1>20. CASE OutcomeUnknown
  BY <1>20, AbandonCovers, SameNumbers DEF OutcomeUnknown, AbandonCall, CoverInv, CoversRequest, Covered, fdmsVars, storageVars
<1>21. CASE StorageFails
  BY <1>21, SameNumbers DEF StorageFails, CoverInv, CoversRequest, Covered, fdmsVars, storageVars, wireVars
<1>22. CASE Crash
  BY <1>22, AbandonCovers, SameNumbers DEF Crash, AbandonCall, CoverInv, CoversRequest, Covered, fdmsVars, storageVars
<1>23. CASE Tick
  BY <1>23, SameNumbers DEF Tick, CoverInv, CoversRequest, Covered, fdmsVars, storageVars, wireVars
<1>24. CASE UNCHANGED vars
  BY <1>24, SameNumbers DEF vars, CoverInv, CoversRequest, Covered, fdmsVars, storageVars, wireVars
<1>25. CASE FdmsRefuses
  <2>1. ~answer'.ok
    BY <1>25 DEF FdmsRefuses
  <2> QED
    BY <1>25, <2>1, SameNumbers DEF FdmsRefuses, CoverInv, CoversRequest, Covered, fdmsVars, storageVars
<1> QED
  BY <1>1, <1>2, <1>3, <1>4, <1>5, <1>7, <1>8, <1>9, <1>10, <1>11, <1>12, <1>13, <1>14,
     <1>15, <1>16, <1>17, <1>18, <1>19, <1>20, <1>21, <1>22, <1>23, <1>24,
     <1>25
     DEF Next, Reconcile, Continue

\* Whatever the environment does - crashes, failing writes, lost answers,
\* requests that arrive late, days opened over old state, a lagging clock -
\* every number the device remembers as issued was recorded by FDMS.
THEOREM NumbersHaveNoGap == Spec => []NoGap
<1>1. CoverInv => NoGap
  BY DEF CoverInv, Covered, NoGap
<1>2. Spec => []CoverInv
  BY InitCovers, NextCovers, TypeInvariance, PTL DEF Spec
<1> QED
  BY <1>1, <1>2, PTL

=============================================================================
