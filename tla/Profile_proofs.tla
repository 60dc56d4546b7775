---------------------------- MODULE Profile_proofs ----------------------------
(***************************************************************************)
(* Theorems about Profile: type correctness for every value of its         *)
(* constants and, short of a mishap, the promises of the commands about    *)
(* receipts, the day in the profile and closes, with nothing arriving late *)
(* and a clock that does not lag.                                          *)
(***************************************************************************)
EXTENDS Profile, FiscalDevice_order

-----------------------------------------------------------------------------
(* Type correctness.  It rests on where each command can be: the device is *)
(* called in two of its steps only, and what is saved is there.            *)

\* Steps in which a call of the device is under way.
DeviceRuns == step \in {"settling", "acting"}

Registers == step \in {"issue", "device", "certificate", "key"}

CommandFits ==
  /\ pc # "idle" <=> DeviceRuns
  /\ command = "none" => step = "exit" /\ state = None
  /\ Registers => command = "register"
  /\ command = "register" => Registers \/ step = "exit"
  /\ pc = "clearPending" => state # None
  /\ step = "save" => state # None

ProfileTypeInv == ProfileTypeOK /\ TypeInv /\ CommandFits

-----------------------------------------------------------------------------
(* The invariant short of a mishap: the files of the profile and, while a  *)
(* command runs, its memory are FDMS's day, but for an unresolved submit   *)
(* and for the file of an earlier day while the next one is being opened.  *)

\* OpenDay took effect and its answer is on its way.
Opened == pc = "open" /\ answer # None /\ answer.ok

\* ... or is being stored.
Opening == Opened \/ (pc = "saveDay" /\ pending = None)

DayInv == pending = None =>
  /\ state # None => Fits(state) \/ Opened
  /\ dayState # None => Fits(dayState) \/ (Opening /\ dayState.fiscalDayNo # fiscalDayNo)
  /\ lastGlobal = Len(receipts)

\* A CloseDay that FDMS's counters agree with, or one without the means to.
CloseFits(q) ==
  /\ q.endpoint = "CloseDay"
  /\ \/ q.counter = DayReceiptCount /\ q.total = dayTotal
     \/ dayState = None /\ q \in BlindCloses

\* What a call of the device waits for and what it knows.
DeviceInv ==
  /\ late = <<>>
  /\ answer # None => sent = None
  /\ pc = "idle" => sent = None /\ answer = None
  /\ pc = "submit" =>
       /\ pending # None
       /\ sent # None => sent = Submit(pending.receipt) /\ Waiting(pending)
       /\ answer # None /\ answer.ok => Entered(pending)
       /\ answer # None /\ ~answer.ok => Waiting(pending)
  /\ pc = "open" =>
       /\ pending = None /\ command = "open" /\ ClockPassed /\ reported <= Len(receipts)
       /\ sent # None => sent.endpoint = "OpenDay"
       /\ answer # None /\ answer.ok =>
            /\ Fits(NewDayState(answer.fiscalDayNo, Len(receipts)))
            /\ dayState # None => dayState.fiscalDayNo # fiscalDayNo
  /\ pc = "close" =>
       /\ pending = None
       /\ sent # None => CloseFits(sent)
  /\ pc \in {"saveDay", "saveGlobal", "clearPending"} =>
       /\ sent = None /\ answer = None
       /\ state # None /\ Fits(state)
       /\ pending # None => Entered(pending)
       /\ pending = None => command = "open"
  /\ pc \in {"saveGlobal", "clearPending"} => dayState # None /\ Fits(dayState)
  /\ pc = "clearPending" => pending # None /\ lastGlobal = Len(receipts)

\* The marker is settled before a command goes on, and has its day with it.
StepInv ==
  /\ pending # None => dayState # None
  /\ step \in {"load", "restore", "act", "status", "save", "poll"} => pending = None
  /\ step = "status" => dayState = None
  /\ command = "submit" /\ step # "exit" => dayState # None
  /\ command = "open" /\ step # "exit" /\ dayState = None => state = None \/ pc = "saveDay"

ProfileFits ==
  BookInv /\ DayInv /\ PendingInv /\ DeviceInv /\ StepInv

ProfileOrderInv == Undisturbed => ProfileFits

-----------------------------------------------------------------------------
(* ProfileTypeInv is inductive.                                            *)

\* The part of ProfileTypeOK that is not the device's.
ProfileOwnOK ==
  /\ command \in Commands
  /\ step \in Steps
  /\ local \in DayState \cup {None}
  /\ torn \in BOOLEAN /\ registered \in BOOLEAN
  /\ certificate \in Pems /\ privateKey \in Pems
  /\ mishaps \subseteq Mishaps

LEMMA InitProfileType == ProfileInit => ProfileTypeInv
<1> SUFFICES ASSUME ProfileInit
             PROVE  ProfileTypeInv
  OBVIOUS
<1>1. TypeInv /\ TypeOK
  BY InitType DEF ProfileInit, TypeInv
<1>2. ProfileTypeOK
  BY <1>1 DEF ProfileInit, ProfileTypeOK, Commands, Steps, Pems, Mishaps
<1>3. CommandFits
  BY DEF ProfileInit, Init, CommandFits, DeviceRuns, Registers
<1> QED
  BY <1>1, <1>2, <1>3 DEF ProfileTypeInv

\* The device's variables stay well typed in the steps the commands take
\* without it.
LEMMA OutsideType ==
  ASSUME TypeInv, UNCHANGED <<receipts, fiscalDayNo, dayStart, dayTotal, closingErrorCode>>,
         UNCHANGED <<reported, pending, answer, late, now, signed>>,
         status' \in Statuses, faults' \in Nat,
         state' \in DayState \cup {None}, dayState' \in DayState \cup {None}, lastGlobal' \in Nat,
         sent' \in Request \cup {None}, pc' \in Places,
         pc' = pc \/ pc' = "close", pc # "idle" => state' = state
  PROVE  TypeInv'
<1>1. FdmsTypeOK'
  BY DEF TypeInv, TypeOK, FdmsTypeOK
<1>2. TypeOK'
  BY <1>1 DEF TypeInv, TypeOK
<1> QED
  BY <1>2 DEF TypeInv

LEMMA NextProfileType == ProfileTypeInv /\ [ProfileNext]_allVars => ProfileTypeInv'
<1> SUFFICES ASSUME ProfileTypeInv, [ProfileNext]_allVars
             PROVE  ProfileTypeInv'
  OBVIOUS
<1>0. TypeInv /\ TypeOK /\ CommandFits /\ ProfileOwnOK
  BY DEF ProfileTypeInv, ProfileTypeOK, ProfileOwnOK
<1>00. SUFFICES TypeInv' /\ ProfileOwnOK' /\ CommandFits'
  BY DEF ProfileTypeInv, ProfileTypeOK, ProfileOwnOK, TypeInv
<1> USE DEF DeviceRuns, Registers
<1>1. [Next]_vars => TypeInv'
  BY <1>0, NextType
<1>2. ASSUME UNCHANGED vars, UNCHANGED <<local, torn>>,
             UNCHANGED mishaps,
             command' \in Commands, step' \in Steps, registered' \in BOOLEAN,
             certificate' \in Pems, privateKey' \in Pems
      PROVE  TypeInv' /\ ProfileOwnOK'
  BY <1>0, <1>1, <1>2 DEF ProfileOwnOK
<1>3. CASE \E force \in BOOLEAN : RegisterCommand(force) \/ RegisterTool(force)
  <2>1. PICK force \in BOOLEAN : RegisterCommand(force)
    BY <1>3 DEF RegisterTool
  <2>2. TypeInv' /\ ProfileOwnOK'
    BY <1>0, <1>2, <2>1 DEF RegisterCommand, ProfileOwnOK, fileVars, Commands, Steps
  <2>3. CommandFits'
    BY <1>0, <2>1 DEF RegisterCommand, Idle, CommandFits, vars
  <2> QED
    BY <2>2, <2>3
<1>4. CASE DayOpenCommand \/ OpenFiscalDayTool \/ DayCloseCommand
  <2>1. TypeInv' /\ ProfileOwnOK'
    BY <1>0, <1>2, <1>4 DEF DayOpenCommand, OpenFiscalDayTool, DayCloseCommand, StartCommand,
                            ProfileOwnOK, fileVars, Commands, Steps
  <2>2. CommandFits'
    BY <1>0, <1>4 DEF DayOpenCommand, OpenFiscalDayTool, DayCloseCommand, StartCommand, Idle,
                      CommandFits, vars
  <2> QED
    BY <2>1, <2>2
<1>5. CASE SubmitCommand \/ SubmitReceiptTool \/ CloseFiscalDayTool
  <2>1. /\ UNCHANGED vars /\ UNCHANGED fileVars /\ UNCHANGED mishaps /\ local' = dayState
        /\ pc = "idle" /\ command = "none" /\ command' \in {"submit", "mcpClose"}
        /\ step' \in {"reconcile", "status"}
    BY <1>5 DEF SubmitCommand, SubmitReceiptTool, CloseFiscalDayTool, StartCommand, Idle
  <2>2. TypeInv'
    BY <1>1, <2>1
  <2>3. ProfileOwnOK'
    BY <1>0, <2>1 DEF ProfileOwnOK, TypeOK, fileVars, Commands, Steps
  <2>4. CommandFits'
    BY <1>0, <2>1 DEF CommandFits, vars
  <2> QED
    BY <2>2, <2>3, <2>4
<1>6. CASE FdmsRegisters \/ WriteProfile
  <2>1. TypeInv' /\ ProfileOwnOK'
    BY <1>0, <1>2, <1>6 DEF FdmsRegisters, WriteProfile, Outdated, ProfileOwnOK, Steps, Pems
  <2>2. CommandFits'
    BY <1>0, <1>6 DEF FdmsRegisters, WriteProfile, CommandFits, vars
  <2> QED
    BY <2>1, <2>2
<1>7. CASE ReconcileStep
  <2>1. TypeInv'
    <3>1. CASE ReconcileConfirmed \/ ReconcileResubmit
      BY <1>1, <3>1 DEF Next, Reconcile
    <3>2. CASE /\ pc = "idle" /\ state' = LoadedState
               /\ UNCHANGED <<fdmsVars, pc, reported, storageVars, wireVars, worldVars>>
      BY <1>0, <3>2, OutsideType
         DEF LoadedState, TypeInv, TypeOK, FdmsTypeOK, fdmsVars, storageVars, wireVars, worldVars
    <3> QED
      BY <1>7, <3>1, <3>2 DEF ReconcileStep
  <2>2. /\ step' \in {"act", "load", "restore", "settling"} /\ UNCHANGED <<command, local, fileVars, mishaps>>
        /\ step' = "settling" <=> pc' # "idle"
        /\ command # "none" /\ command # "register" /\ pc' # "clearPending"
    BY <1>0, <1>7 DEF ReconcileStep, AfterReconcile, ReconcileConfirmed, ReconcileResubmit, CommandFits
  <2>3. ProfileOwnOK'
    BY <1>0, <2>2 DEF ProfileOwnOK, fileVars, Steps
  <2>4. CommandFits'
    BY <2>2 DEF CommandFits
  <2> QED
    BY <2>1, <2>3, <2>4
<1>8. CASE LoadStep \/ RestoreStep
  <2>1. /\ pc = "idle" /\ command # "none" /\ command # "register"
        /\ state' \in {dayState, local} /\ step' \in {"status", "act"}
        /\ UNCHANGED <<fdmsVars, pc, reported, storageVars, wireVars, worldVars, command, fileVars>>
        /\ local' \in {local, None} /\ mishaps' \subseteq mishaps \cup {"restoredStale"}
    BY <1>0, <1>8 DEF LoadStep, RestoreStep, CommandFits
  <2>2. TypeInv'
    BY <1>0, <2>1, OutsideType
       DEF ProfileOwnOK, TypeInv, TypeOK, FdmsTypeOK, fdmsVars, storageVars, wireVars, worldVars
  <2>3. ProfileOwnOK'
    BY <1>0, <2>1 DEF ProfileOwnOK, fileVars, Steps, Mishaps
  <2>4. CommandFits'
    BY <2>1 DEF CommandFits
  <2> QED
    BY <2>2, <2>3, <2>4
<1>9. CASE Act
  <2>1. /\ step' = "acting" /\ pc' \in {"open", "submit", "close"} /\ command \notin {"none", "register"}
        /\ UNCHANGED <<command, local, fileVars, mishaps>> /\ [Next]_vars
    BY <1>9 DEF Act, OpenDay, SubmitReceipt, CloseDay, Next
  <2>2. ProfileOwnOK' /\ CommandFits'
    BY <1>0, <2>1 DEF ProfileOwnOK, CommandFits, fileVars, Steps
  <2> QED
    BY <1>1, <2>1, <2>2
<1>10. CASE Declined \/ AlreadyClosed
  <2>1. TypeInv' /\ ProfileOwnOK'
    BY <1>0, <1>2, <1>10 DEF Declined, AlreadyClosed, ProfileOwnOK, fileVars, Steps
  <2>2. CommandFits'
    BY <1>0, <1>10 DEF Declined, AlreadyClosed, CommandFits, vars
  <2> QED
    BY <2>1, <2>2
<1>11. CASE CloseFromServerCounters
  <2>1. sent' \in Request
    <3>1. DayReceiptCount \in Nat
      BY <1>0, BookTypes DEF TypeOK
    <3> QED
      BY <1>0, <1>11, <3>1
         DEF CloseFromServerCounters, ServerCloseBody, Request, CloseRequest, TypeOK, FdmsTypeOK
  <2>2. pc = "idle" /\ command \notin {"none", "register"}
    BY <1>0, <1>11 DEF CloseFromServerCounters, CommandFits
  <2>3. TypeInv'
    BY <1>0, <1>11, <2>1, <2>2, OutsideType
       DEF CloseFromServerCounters, TypeInv, TypeOK, FdmsTypeOK, Places, fdmsVars, storageVars, worldVars
  <2>4. ProfileOwnOK' /\ CommandFits'
    BY <1>0, <1>11, <2>2 DEF CloseFromServerCounters, ProfileOwnOK, CommandFits, fileVars, Steps
  <2> QED
    BY <2>3, <2>4
<1>12. CASE DeviceGoesOn
  <2>1. TypeInv' /\ UNCHANGED <<command, local, fileVars, mishaps>>
    BY <1>1, <1>12 DEF DeviceGoesOn, Next, Continue
  <2>2. /\ pc # "idle" /\ DeviceRuns /\ command \notin {"none", "register"}
    BY <1>0, <1>12 DEF DeviceGoesOn, SubmitAnswered, OpenAnswered, SaveDayState, SaveLastGlobal,
                       CloseAnswered, DayCallRefused, ClearPending, SubmitRefused, CommandFits
  <2>3. step' \in {step, "save", "poll", "exit", "act", "load", "restore"}
    BY <1>12 DEF DeviceGoesOn, AfterReconcile
  <2>4. ProfileOwnOK'
    BY <1>0, <2>1, <2>3 DEF ProfileOwnOK, fileVars, Steps
  <2>5. CASE (SubmitAnswered \/ OpenAnswered \/ SaveDayState) /\ UNCHANGED step
    <3>1. pc' \in {"saveDay", "saveGlobal"} /\ step' = step /\ command' = command
      BY <2>1, <2>5 DEF SubmitAnswered, OpenAnswered, SaveDayState
    <3> QED
      BY <2>1, <2>2, <2>4, <3>1 DEF CommandFits
  <2>6. CASE SaveLastGlobal /\ step' = IF pending = None THEN "save" ELSE step
    <3>1. /\ \/ pc' = "idle" /\ step' = "save"
             \/ pc' = "clearPending" /\ step' = step
          /\ state # None /\ state' = state /\ command' = command
      BY <1>0, <2>1, <2>6 DEF SaveLastGlobal, TypeInv
    <3> QED
      BY <2>1, <2>2, <2>4, <3>1 DEF CommandFits
  <2>7. CASE \/ CloseAnswered /\ step' = "poll"
             \/ DayCallRefused /\ step' = "exit"
    <3>1. pc' = "idle" /\ step' \in {"poll", "exit"} /\ command' = command
      BY <2>1, <2>7 DEF CloseAnswered, DayCallRefused
    <3> QED
      BY <2>1, <2>2, <2>4, <3>1 DEF CommandFits
  <2>8. CASE \/ ClearPending /\ step' = IF step = "settling" THEN AfterReconcile ELSE "save"
             \/ SubmitRefused /\ step' = IF step = "settling" THEN AfterReconcile ELSE "exit"
    <3>1. /\ pc' = "idle" /\ step' \in {"save", "exit", "act", "load", "restore"}
          /\ step' = "save" => state # None
          /\ state' = state /\ command' = command
      BY <1>0, <2>1, <2>8 DEF ClearPending, SubmitRefused, AfterReconcile, CommandFits
    <3> QED
      BY <2>1, <2>2, <2>4, <3>1 DEF CommandFits
  <2> QED
    BY <1>12, <2>1, <2>4, <2>5, <2>6, <2>7, <2>8 DEF DeviceGoesOn
<1>13. CASE DeviceThrows
  <2>1. TypeInv' /\ step' = "exit" /\ pc' = "idle" /\ UNCHANGED <<command, local, fileVars>>
    BY <1>1, <1>13 DEF DeviceThrows, Next, OutcomeUnknown, AbandonCall, StorageFails
  <2>2. mishaps' \subseteq Mishaps
    BY <1>0, <1>13 DEF DeviceThrows, NoteOpensOver, ProfileOwnOK, Mishaps
  <2>3. command # "none"
    BY <1>0, <1>13 DEF DeviceThrows, OutcomeUnknown, StorageFails, CommandFits
  <2> QED
    BY <1>0, <2>1, <2>2, <2>3 DEF ProfileOwnOK, CommandFits, fileVars, Steps
<1>14. CASE NotReached
  <2>1. /\ pc = "idle" /\ command \notin {"none", "register"} /\ step' = "exit" /\ faults' \in Nat
        /\ UNCHANGED <<fdmsVars, state, pc, reported, storageVars, wireVars, now, signed,
                       command, local, fileVars, mishaps>>
    BY <1>0, <1>14 DEF NotReached, CommandFits, TypeOK
  <2>2. TypeInv'
    BY <1>0, <2>1, OutsideType
       DEF TypeInv, TypeOK, FdmsTypeOK, fdmsVars, storageVars, wireVars
  <2> QED
    BY <1>0, <2>1, <2>2 DEF ProfileOwnOK, CommandFits, fileVars, Steps
<1>15. CASE SaveStep
  <2>1. /\ pc = "idle" /\ state # None /\ command \notin {"none", "register"} /\ step' = "exit"
        /\ dayState' = state /\ lastGlobal' \in {lastGlobal, state.receiptGlobalNo}
        /\ UNCHANGED <<fdmsVars, state, pc, reported, pending, wireVars, worldVars,
                       command, local, fileVars, mishaps>>
    BY <1>0, <1>15 DEF SaveStep, SaveLastGlobalNo, CommandFits
  <2>2. TypeInv'
    BY <1>0, <2>1, OutsideType
       DEF TypeInv, TypeOK, FdmsTypeOK, DayState, fdmsVars, wireVars, worldVars
  <2> QED
    BY <1>0, <2>1, <2>2 DEF ProfileOwnOK, CommandFits, fileVars, Steps
<1>16. CASE SaveTorn
  <2>1. /\ pc = "idle" /\ command \notin {"none", "register"} /\ step' = "exit"
        /\ dayState' = None /\ faults' \in Nat /\ torn' = TRUE
        /\ UNCHANGED <<fdmsVars, state, pc, reported, pending, lastGlobal, wireVars, now, signed,
                       command, local, registered, certificate, privateKey, mishaps>>
    BY <1>0, <1>16 DEF SaveTorn, CommandFits, TypeOK
  <2>2. TypeInv'
    BY <1>0, <2>1, OutsideType
       DEF TypeInv, TypeOK, FdmsTypeOK, fdmsVars, wireVars
  <2> QED
    BY <1>0, <2>1, <2>2 DEF ProfileOwnOK, CommandFits, Steps
<1>17. CASE PollDayClosed
  <2>1. /\ pc = "idle" /\ command \notin {"none", "register"} /\ step' = "exit"
        /\ dayState' \in {dayState, None}
        /\ UNCHANGED <<fdmsVars, state, pc, reported, pending, lastGlobal, wireVars, worldVars,
                       command, local, fileVars, mishaps>>
    BY <1>0, <1>17 DEF PollDayClosed, CommandFits
  <2>2. TypeInv'
    BY <1>0, <2>1, OutsideType
       DEF TypeInv, TypeOK, FdmsTypeOK, fdmsVars, wireVars, worldVars
  <2> QED
    BY <1>0, <2>1, <2>2 DEF ProfileOwnOK, CommandFits, fileVars, Steps
<1>18. CASE Exit
  <2>1. /\ pc = "idle" /\ step = "exit" /\ step' = step /\ command' = "none" /\ state' = None /\ local' = None
        /\ UNCHANGED <<fdmsVars, pc, reported, storageVars, wireVars, worldVars, fileVars, mishaps>>
    BY <1>0, <1>18 DEF Exit, CommandFits
  <2>2. TypeInv'
    BY <1>0, <2>1, OutsideType
       DEF TypeInv, TypeOK, FdmsTypeOK, fdmsVars, storageVars, wireVars, worldVars
  <2> QED
    BY <1>0, <2>1, <2>2 DEF ProfileOwnOK, CommandFits, fileVars, Commands
<1>19. CASE RegisterCutShort
  <2>1. /\ command = "register" /\ pc = "idle" /\ step' = "exit" /\ faults' \in Nat
        /\ UNCHANGED <<fdmsVars, state, pc, reported, storageVars, wireVars, now, signed,
                       command, local, fileVars, mishaps>>
    BY <1>0, <1>19 DEF RegisterCutShort, CommandFits, TypeOK
  <2>2. TypeInv'
    BY <1>0, <2>1, OutsideType
       DEF TypeInv, TypeOK, FdmsTypeOK, fdmsVars, storageVars, wireVars
  <2> QED
    BY <1>0, <2>1, <2>2 DEF ProfileOwnOK, CommandFits, fileVars, Steps
<1>20. CASE CommandDies
  <2>1. /\ command' = "none" /\ step' = "exit" /\ local' = None /\ pc' = "idle" /\ state' = None
        /\ UNCHANGED fileVars /\ mishaps' \subseteq Mishaps
    BY <1>0, <1>20 DEF CommandDies, Crash, AbandonCall, NoteOpensOver, ProfileOwnOK, Mishaps
  <2>2. TypeInv'
    BY <1>1, <1>20 DEF CommandDies, Next
  <2> QED
    BY <1>0, <2>1, <2>2 DEF ProfileOwnOK, CommandFits, fileVars, Commands, Steps
<1>21. CASE DeleteTornFile
  <2>1. TypeInv'
    BY <1>1, <1>21 DEF DeleteTornFile
  <2> QED
    BY <1>0, <1>21, <2>1 DEF DeleteTornFile, ProfileOwnOK, CommandFits, commandVars, vars
<1>22. CASE PortalCloses
  <2>1. /\ status' = "FiscalDayClosed"
        /\ UNCHANGED <<fiscalDayNo, receipts, dayStart, dayTotal, closingErrorCode, state, pc, reported,
                       storageVars, wireVars, worldVars, profileVars>>
    BY <1>22 DEF PortalCloses
  <2>2. TypeInv'
    BY <1>0, <2>1, OutsideType
       DEF TypeInv, TypeOK, FdmsTypeOK, Statuses, storageVars, wireVars, worldVars
  <2> QED
    BY <1>0, <2>1, <2>2 DEF ProfileOwnOK, CommandFits, profileVars, commandVars, fileVars
<1>23. CASE World
  <2>1. TypeInv' /\ UNCHANGED profileVars /\ UNCHANGED <<pc, state>>
    BY <1>1, <1>23 DEF World, Next, FdmsAnswers, FdmsRefuses, DaySettles, Tick
  <2> QED
    BY <1>0, <2>1 DEF ProfileOwnOK, CommandFits, profileVars, commandVars, fileVars
<1>24. CASE UNCHANGED allVars
  <2>1. TypeInv' /\ UNCHANGED profileVars /\ UNCHANGED <<pc, state>>
    BY <1>1, <1>24 DEF allVars, vars
  <2> QED
    BY <1>0, <2>1 DEF ProfileOwnOK, CommandFits, profileVars, commandVars, fileVars
<1> QED
  BY <1>3, <1>4, <1>5, <1>6, <1>7, <1>8, <1>9, <1>10, <1>11, <1>12, <1>13, <1>14, <1>15, <1>16,
     <1>17, <1>18, <1>19, <1>20, <1>21, <1>22, <1>23, <1>24
     DEF ProfileNext, CommandGoesOn

LEMMA ProfileTypeInvariance == ProfileSpec => []ProfileTypeInv
BY InitProfileType, NextProfileType, PTL DEF ProfileSpec

\* The commands' files and memory stay well typed; in particular what a command
\* saves (saveDayState(), saveLastGlobalNo()) and what restoreState() is given
\* is a day.
THEOREM ProfileTypeCorrect == ProfileSpec => []ProfileTypeOK
<1>1. ProfileTypeInv => ProfileTypeOK
  BY DEF ProfileTypeInv
<1> QED
  BY <1>1, ProfileTypeInvariance, PTL

-----------------------------------------------------------------------------
(* ProfileOrderInv is inductive, given ProfileTypeInv.  First the steps of *)
(* the commands that leave FDMS alone.                                     *)

LEMMA ProfileStepTypes ==
  ASSUME ProfileTypeInv, ProfileFits
  PROVE  /\ TypeInv /\ TypeOK /\ FdmsTypeOK /\ CommandFits
         /\ BookInv /\ DayInv /\ PendingInv /\ DeviceInv /\ StepInv
         /\ Len(receipts) \in Nat /\ LastReceiptGlobalNo = Len(receipts)
         /\ None \notin DayState /\ None \notin PreparedReceipt
         /\ pc = "idle" /\ pending = None /\ dayState # None => Fits(dayState)
         /\ pc = "idle" /\ pending = None /\ state # None => Fits(state)
<1>1. TypeInv /\ TypeOK /\ FdmsTypeOK /\ CommandFits
  BY DEF ProfileTypeInv, TypeInv, TypeOK
<1>2. BookInv /\ DayInv /\ PendingInv /\ DeviceInv /\ StepInv
  BY DEF ProfileFits
<1>3. LastReceiptGlobalNo = Len(receipts) /\ Len(receipts) \in Nat
  BY <1>1, <1>2, LatestIsLast, BookTypes
<1>4. None \notin DayState /\ None \notin PreparedReceipt
  BY NoneIsNothing
<1>5. pc = "idle" /\ pending = None => /\ dayState # None => Fits(dayState)
                                       /\ state # None => Fits(state)
  BY <1>2 DEF DayInv, Opening, Opened
<1> QED
  BY <1>1, <1>2, <1>3, <1>4, <1>5

LEMMA BookStays ==
  ASSUME TypeOK, BookInv, UNCHANGED <<receipts, dayStart>>,
         now' = now \/ now' = now + 1
  PROVE  BookInv'
BY SameBookInv

\* The device does nothing.
LEMMA DeviceStays ==
  ASSUME TypeOK, DayInv, PendingInv, DeviceInv,
         UNCHANGED <<receipts, dayStart, fiscalDayNo, dayTotal>>,
         UNCHANGED <<state, pc, reported, storageVars, wireVars>>,
         now' = now \/ now' = now + 1,
         command' = command \/ pc = "idle"
  PROVE  DayInv' /\ PendingInv' /\ DeviceInv'
<1>1. UNCHANGED <<dayState, pending, lastGlobal, sent, answer, late>>
  BY DEF storageVars, wireVars
<1>2. /\ pending # None => Waiting(pending)' = Waiting(pending) /\ Entered(pending)' = Entered(pending)
      /\ Fits(state)' = Fits(state) /\ FitsOrBehind(state)' = FitsOrBehind(state)
      /\ Fits(dayState)' = Fits(dayState) /\ FitsOrBehind(dayState)' = FitsOrBehind(dayState)
      /\ DayReceiptCount' = DayReceiptCount
  BY <1>1, SamePending, SameMemory, SameStored, SameBook
<1>3. Opened' = Opened /\ Opening' = Opening
  BY <1>1 DEF Opened, Opening
<1>4. DayInv'
  BY <1>1, <1>2, <1>3 DEF DayInv
<1>5. PendingInv'
  BY <1>1, <1>2 DEF PendingInv
<1>6. ClockPassed => ClockPassed'
  BY SameClockPassed
<1>7. Fits(NewDayState(answer.fiscalDayNo, Len(receipts)))' = Fits(NewDayState(answer.fiscalDayNo, Len(receipts)))
  BY <1>1, SameBook DEF Fits
<1>8. CloseFits(sent)' = CloseFits(sent)
  BY <1>1, <1>2 DEF CloseFits, BlindCloses
<1>9. DeviceInv'
  BY <1>1, <1>2, <1>6, <1>7, <1>8 DEF DeviceInv
<1> QED
  BY <1>4, <1>5, <1>9

\* Between calls of the device a command loads, restores or drops its memory.
LEMMA MemoryLoads ==
  ASSUME TypeOK, DayInv, PendingInv, DeviceInv, pc = "idle",
         UNCHANGED <<receipts, dayStart, fiscalDayNo, dayTotal>>,
         UNCHANGED <<pc, reported, storageVars, wireVars, now>>,
         state' \in {state, dayState, None}
  PROVE  DayInv' /\ PendingInv' /\ DeviceInv'
<1>1. UNCHANGED <<dayState, pending, lastGlobal, sent, answer, late>>
  BY DEF storageVars, wireVars
<1>2. /\ pending # None => Waiting(pending)' = Waiting(pending) /\ Entered(pending)' = Entered(pending)
      /\ Fits(dayState)' = Fits(dayState) /\ FitsOrBehind(dayState)' = FitsOrBehind(dayState)
  BY <1>1, SamePending, SameStored
<1>3. ~Opening /\ ~Opening'
  BY DEF Opened, Opening
<1>4. pending = None => /\ state # None => Fits(state)
                        /\ dayState # None => Fits(dayState)
                        /\ lastGlobal = Len(receipts)
  BY <1>3 DEF DayInv, Opening
<1>5. state' # None => /\ (state # None => Fits(state)) /\ (dayState # None => Fits(dayState)) => Fits(state)'
                       /\ (state # None => FitsOrBehind(state)) /\ (dayState # None => FitsOrBehind(dayState))
                            => FitsOrBehind(state)'
  BY SameBook DEF Fits, FitsOrBehind
<1>6. DayInv'
  BY <1>1, <1>2, <1>3, <1>4, <1>5 DEF DayInv
<1>7. PendingInv'
  BY <1>1, <1>2, <1>5 DEF PendingInv
<1>8. DeviceInv'
  BY <1>1 DEF DeviceInv
<1> QED
  BY <1>6, <1>7, <1>8

\* A call of the device is given up, or its process dies, short of a mishap.
LEMMA DeviceGivesUp ==
  ASSUME TypeOK, DayInv, PendingInv, DeviceInv, Opening => dayState = None \/ dayState.fiscalDayNo = fiscalDayNo,
         UNCHANGED <<receipts, dayStart, fiscalDayNo, dayTotal>>,
         UNCHANGED <<storageVars, now>>,
         state' \in {state, None}, Opened => state' = None,
         pc' = "idle", sent' = None, answer' = None, late' = <<>>
  PROVE  DayInv' /\ PendingInv' /\ DeviceInv'
<1>1. UNCHANGED <<dayState, pending, lastGlobal>>
  BY DEF storageVars
<1>2. /\ pending # None => Waiting(pending)' = Waiting(pending) /\ Entered(pending)' = Entered(pending)
      /\ Fits(dayState)' = Fits(dayState) /\ FitsOrBehind(dayState)' = FitsOrBehind(dayState)
  BY <1>1, SamePending, SameStored
<1>3. pending = None => /\ state' # None => Fits(state)
                        /\ dayState # None => Fits(dayState)
                        /\ lastGlobal = Len(receipts)
  BY DEF DayInv
<1>4. state' # None => Fits(state)' = Fits(state) /\ FitsOrBehind(state)' = FitsOrBehind(state) /\ state # None
  BY SameMemory
<1>5. DayInv'
  BY <1>1, <1>2, <1>3, <1>4 DEF DayInv
<1>6. PendingInv'
  BY <1>1, <1>2, <1>4 DEF PendingInv
<1>7. DeviceInv'
  BY DEF DeviceInv
<1> QED
  BY <1>5, <1>6, <1>7

\* reconcile() finds the pending receipt recorded.
LEMMA ProfileConfirms ==
  ASSUME ProfileTypeInv, ProfileFits, ReconcileConfirmed, command' = command
  PROVE  DayInv' /\ PendingInv' /\ DeviceInv' /\ BookInv'
<1>0. /\ TypeOK /\ BookInv /\ DayInv /\ PendingInv /\ DeviceInv
      /\ LastReceiptGlobalNo = Len(receipts) /\ Len(receipts) \in Nat
  BY ProfileStepTypes
<1>1. pending # None /\ Entered(pending) /\ ~Waiting(pending)
  BY <1>0, NotBoth DEF ReconcileConfirmed, ReportedAsRecorded, PendingInv, Waiting
<1>2. LoadedState # None => FitsOrBehind(LoadedState)
  BY <1>0, <1>1 DEF LoadedState, PendingInv
<1>3. LoadedState \in DayState \cup {None} /\ pending \in PreparedReceipt
  BY <1>0, <1>1 DEF LoadedState, TypeOK
<1>4. state' \in DayState /\ Fits(state')
  BY <1>1, <1>2, <1>3, <1>0, CommittedFits, CommittedStateType DEF ReconcileConfirmed
<1>5. state' # None /\ Fits(state)'
  BY <1>4, SameBook, NoneIsNothing DEF ReconcileConfirmed, Fits, fdmsVars
<1>6. Entered(pending)'
  BY <1>1, SamePending DEF ReconcileConfirmed, fdmsVars, storageVars
<1>7. BookInv'
  BY <1>0, BookStays DEF ReconcileConfirmed, fdmsVars, worldVars
<1>8. DayInv' /\ PendingInv'
  BY <1>0, <1>1, <1>5, <1>6, SameStored
     DEF ReconcileConfirmed, DayInv, PendingInv, FitsOrBehind, fdmsVars, storageVars
<1>9. DeviceInv'
  BY <1>0, <1>1, <1>5, <1>6 DEF ReconcileConfirmed, DeviceInv, wireVars, storageVars
<1> QED
  BY <1>7, <1>8, <1>9

\* ... or sends it again.
LEMMA ProfileResubmits ==
  ASSUME ProfileTypeInv, ProfileFits, ReconcileResubmit, command' = command
  PROVE  DayInv' /\ PendingInv' /\ DeviceInv' /\ BookInv'
<1>0. /\ TypeOK /\ BookInv /\ DayInv /\ PendingInv /\ DeviceInv
      /\ LastReceiptGlobalNo = Len(receipts) /\ Len(receipts) \in Nat
  BY ProfileStepTypes
<1>1. pending # None /\ Waiting(pending) /\ ~Entered(pending)
  BY <1>0, NotBoth DEF ReconcileResubmit, ReportedAsRecorded, PendingInv, Entered
<1>2. /\ state # None => Fits(state)
      /\ dayState # None => Fits(dayState)
      /\ lastGlobal = Len(receipts)
  BY <1>0, <1>1 DEF PendingInv
<1>3. state' # None => Fits(state')
  BY <1>2 DEF ReconcileResubmit, LoadedState
<1>4. state' # None => Fits(state)'
  BY <1>3, SameBook DEF ReconcileResubmit, Fits, fdmsVars
<1>5. Waiting(pending)'
  BY <1>1, SamePending DEF ReconcileResubmit, fdmsVars, storageVars
<1>6. BookInv'
  BY <1>0, BookStays DEF ReconcileResubmit, fdmsVars, worldVars
<1>7. DayInv' /\ PendingInv'
  BY <1>1, <1>2, <1>4, <1>5, SameStored
     DEF ReconcileResubmit, DayInv, PendingInv, fdmsVars, storageVars
<1>8. DeviceInv'
  BY <1>0, <1>1, <1>5 DEF ReconcileResubmit, DeviceInv, storageVars
<1> QED
  BY <1>6, <1>7, <1>8

\* FDMS took the pending receipt and says so.
LEMMA ProfileSubmitAnswered ==
  ASSUME ProfileTypeInv, ProfileFits, SubmitAnswered, command' = command
  PROVE  DayInv' /\ PendingInv' /\ DeviceInv' /\ BookInv'
<1>0. TypeOK /\ BookInv /\ DayInv /\ PendingInv /\ DeviceInv
  BY ProfileStepTypes
<1>1. pending # None /\ Entered(pending) /\ ~Waiting(pending) /\ sent = None
  BY <1>0, NotBoth DEF SubmitAnswered, DeviceInv
<1>2. state # None => FitsOrBehind(state)
  BY <1>0, <1>1 DEF PendingInv
<1>3. /\ state \in DayState \cup {None} /\ pending \in PreparedReceipt
      /\ answer.red \in BOOLEAN
  BY <1>0, <1>1 DEF SubmitAnswered, TypeOK, Answer
<1>4. state' \in DayState /\ Fits(state')
  BY <1>0, <1>1, <1>2, <1>3, CommittedFits, CommittedStateType DEF SubmitAnswered
<1>5. state' # None /\ Fits(state)'
  BY <1>4, SameBook, NoneIsNothing DEF SubmitAnswered, Fits, fdmsVars
<1>6. Entered(pending)'
  BY <1>1, SamePending DEF SubmitAnswered, fdmsVars, storageVars
<1>7. BookInv'
  BY <1>0, BookStays DEF SubmitAnswered, fdmsVars, worldVars
<1>8. DayInv' /\ PendingInv'
  BY <1>0, <1>1, <1>5, <1>6, SameStored
     DEF SubmitAnswered, DayInv, PendingInv, FitsOrBehind, fdmsVars, storageVars
<1>9. DeviceInv'
  BY <1>0, <1>1, <1>5, <1>6 DEF SubmitAnswered, DeviceInv, storageVars
<1> QED
  BY <1>7, <1>8, <1>9

\* The day opened goes on from FDMS's highest number.
LEMMA ProfileOpenAnswered ==
  ASSUME ProfileTypeInv, ProfileFits, OpenAnswered, command' = command
  PROVE  DayInv' /\ PendingInv' /\ DeviceInv' /\ BookInv'
<1>0. /\ TypeOK /\ BookInv /\ DayInv /\ PendingInv /\ DeviceInv
      /\ Len(receipts) \in Nat
  BY ProfileStepTypes
<1>1. /\ pending = None /\ command = "open" /\ sent = None
      /\ lastGlobal = Len(receipts) /\ reported <= Len(receipts)
      /\ Fits(NewDayState(answer.fiscalDayNo, Len(receipts)))
  BY <1>0 DEF OpenAnswered, DeviceInv, DayInv
<1>2. state' = NewDayState(answer.fiscalDayNo, Len(receipts))
  BY <1>0, <1>1 DEF OpenAnswered, OpeningGlobalNo, TypeOK
<1>3. Fits(state)'
  BY <1>1, <1>2, SameBook DEF OpenAnswered, Fits, fdmsVars
<1>4. state' # None
  <2>1. answer.fiscalDayNo \in Nat
    BY <1>0 DEF OpenAnswered, TypeOK, Answer
  <2>2. state' \in DayState
    BY <1>0, <1>2, <2>1 DEF NewDayState, DayState
  <2> QED
    BY <2>2, NoneIsNothing
<1>5. BookInv'
  BY <1>0, BookStays DEF OpenAnswered, fdmsVars, worldVars
<1>6. dayState # None => Fits(dayState) \/ dayState.fiscalDayNo # fiscalDayNo
  BY <1>0, <1>1 DEF DayInv
<1>7. DayInv' /\ PendingInv'
  BY <1>1, <1>3, <1>6, SameStored
     DEF OpenAnswered, DayInv, Opening, PendingInv, fdmsVars, storageVars
<1>8. DeviceInv'
  BY <1>0, <1>1, <1>3, <1>4 DEF OpenAnswered, DeviceInv, storageVars
<1> QED
  BY <1>5, <1>7, <1>8

\* The rest of persistState() and commitPrepared(), and what refuses a call.
LEMMA ProfileDeviceGoesOn ==
  ASSUME ProfileTypeInv, ProfileFits, command' = command,
         \/ SaveDayState \/ SaveLastGlobal \/ ClearPending
         \/ SubmitRefused \/ CloseAnswered \/ DayCallRefused
  PROVE  DayInv' /\ PendingInv' /\ DeviceInv' /\ BookInv'
<1>0. /\ TypeOK /\ BookInv /\ DayInv /\ PendingInv /\ DeviceInv
      /\ Len(receipts) \in Nat
  BY ProfileStepTypes
<1>1. /\ UNCHANGED <<receipts, dayStart, fiscalDayNo, dayTotal, closingErrorCode, now, late, sent>>
      /\ pending # None => Waiting(pending)' = Waiting(pending) \/ pending' # pending
      /\ pending' # None => pending' = pending /\ Waiting(pending)' = Waiting(pending)
                            /\ Entered(pending)' = Entered(pending)
  BY SamePending DEF SaveDayState, SaveLastGlobal, ClearPending, SubmitRefused, CloseAnswered,
                     DayCallRefused, fdmsVars, storageVars, wireVars, worldVars
<1>2. BookInv'
  BY <1>0, <1>1, BookStays
<1>3. /\ state' = state => Fits(state)' = Fits(state) /\ FitsOrBehind(state)' = FitsOrBehind(state)
      /\ dayState' = dayState =>
           Fits(dayState)' = Fits(dayState) /\ FitsOrBehind(dayState)' = FitsOrBehind(dayState)
      /\ dayState' = state => Fits(dayState)' = Fits(state)
  BY <1>1, SameBook DEF Fits, FitsOrBehind
<1>4. CASE SaveDayState
  <2>1. /\ state # None /\ Fits(state) /\ sent = None /\ answer = None
        /\ pending # None => Entered(pending)
        /\ pending = None => command = "open"
    BY <1>0, <1>4 DEF SaveDayState, DeviceInv
  <2>2. /\ dayState' = state /\ state' = state /\ pending' = pending /\ lastGlobal' = lastGlobal
        /\ pc' = "saveGlobal" /\ answer' = answer
    BY <1>4 DEF SaveDayState, wireVars
  <2>3. Fits(state)' /\ Fits(dayState)' /\ FitsOrBehind(state)' /\ FitsOrBehind(dayState)'
    BY <1>3, <2>1, <2>2 DEF FitsOrBehind
  <2>4. DayInv'
    BY <1>0, <1>1, <2>2, <2>3 DEF DayInv
  <2>5. PendingInv'
    BY <1>0, <1>1, <2>1, <2>2, <2>3, NotBoth DEF PendingInv
  <2>6. DeviceInv'
    BY <1>0, <1>1, <2>1, <2>2, <2>3 DEF DeviceInv
  <2> QED
    BY <1>2, <2>4, <2>5, <2>6
<1>5. CASE SaveLastGlobal
  <2>1. /\ state # None /\ Fits(state) /\ dayState # None /\ Fits(dayState) /\ sent = None /\ answer = None
        /\ pending # None => Entered(pending)
    BY <1>0, <1>5 DEF SaveLastGlobal, DeviceInv
  <2>2. state.receiptGlobalNo = Len(receipts) /\ lastGlobal <= Len(receipts) /\ lastGlobal \in Nat
    BY <1>0, <2>1, NotBoth DEF DayInv, PendingInv, Fits, TypeOK
  <2>3. lastGlobal' = Len(receipts)
    BY <1>0, <1>5, <2>2 DEF SaveLastGlobal
  <2>4. /\ dayState' = dayState /\ state' = state /\ pending' = pending /\ answer' = answer
        /\ pc' = IF pending = None THEN "idle" ELSE "clearPending"
    BY <1>5 DEF SaveLastGlobal, wireVars
  <2>5. Fits(state)' /\ Fits(dayState)' /\ FitsOrBehind(state)' /\ FitsOrBehind(dayState)'
    BY <1>3, <2>1, <2>4 DEF FitsOrBehind
  <2>6. DayInv'
    BY <1>1, <2>3, <2>5 DEF DayInv
  <2>7. PendingInv'
    BY <1>0, <1>1, <2>1, <2>3, <2>4, <2>5 DEF PendingInv
  <2>8. DeviceInv'
    BY <1>0, <1>1, <2>1, <2>3, <2>4, <2>5 DEF DeviceInv
  <2> QED
    BY <1>2, <2>6, <2>7, <2>8
<1>6. CASE ClearPending
  <2>1. /\ state # None /\ Fits(state) /\ dayState # None /\ Fits(dayState) /\ sent = None /\ answer = None
        /\ lastGlobal = Len(receipts)
    BY <1>0, <1>6 DEF ClearPending, DeviceInv
  <2>2. /\ dayState' = dayState /\ state' = state /\ pending' = None /\ answer' = answer
        /\ pc' = "idle" /\ lastGlobal' = lastGlobal
    BY <1>6 DEF ClearPending, wireVars
  <2>3. DayInv'
    BY <1>1, <1>3, <2>1, <2>2 DEF DayInv
  <2> QED
    BY <1>0, <1>1, <1>2, <2>1, <2>2, <2>3 DEF PendingInv, DeviceInv
<1>7. CASE SubmitRefused
  <2>1. /\ pending # None /\ Waiting(pending) /\ sent = None
    BY <1>0, <1>7 DEF SubmitRefused, DeviceInv
  <2>2. /\ state # None => Fits(state)
        /\ dayState # None => Fits(dayState)
        /\ lastGlobal = Len(receipts)
    BY <1>0, <2>1, NotBoth DEF PendingInv
  <2>3. /\ dayState' = dayState /\ state' = state /\ pending' = None /\ answer' = None
        /\ pc' = "idle" /\ lastGlobal' = lastGlobal
    BY <1>7 DEF SubmitRefused
  <2>4. DayInv'
    BY <1>1, <1>3, <2>2, <2>3 DEF DayInv
  <2> QED
    BY <1>0, <1>1, <1>2, <2>1, <2>3, <2>4 DEF PendingInv, DeviceInv
<1>8. CASE CloseAnswered \/ DayCallRefused
  <2>1. /\ pending = None /\ sent = None /\ ~Opening
    BY <1>0, <1>8 DEF CloseAnswered, DayCallRefused, DeviceInv, Opening, Opened
  <2>2. /\ state # None => Fits(state)
        /\ dayState # None => Fits(dayState)
        /\ lastGlobal = Len(receipts)
    BY <1>0, <2>1 DEF DayInv, Opening
  <2>3. /\ dayState' = dayState /\ state' \in {state, None} /\ pending' = None /\ answer' = None
        /\ pc' = "idle" /\ lastGlobal' = lastGlobal
    BY <1>8, <2>1 DEF CloseAnswered, DayCallRefused, storageVars
  <2>4. DayInv'
    BY <1>1, <1>3, <2>2, <2>3 DEF DayInv
  <2> QED
    BY <1>0, <1>1, <1>2, <2>1, <2>3, <2>4 DEF PendingInv, DeviceInv
<1> QED
  BY <1>4, <1>5, <1>6, <1>7, <1>8

\* The device call a command is for.
LEMMA ProfileActs ==
  ASSUME ProfileTypeInv, ProfileFits, Punctual, Act
  PROVE  DayInv' /\ PendingInv' /\ DeviceInv' /\ BookInv'
<1>0. /\ TypeOK /\ BookInv /\ DayInv /\ PendingInv /\ DeviceInv /\ StepInv
      /\ LastReceiptGlobalNo = Len(receipts) /\ Len(receipts) \in Nat
      /\ None \notin DayState /\ None \notin PreparedReceipt
  BY ProfileStepTypes
<1>1. /\ pc = "idle" /\ pending = None /\ sent = None /\ answer = None
      /\ state # None => Fits(state)
      /\ dayState # None => Fits(dayState)
      /\ lastGlobal = Len(receipts)
      /\ command' = command
  <2>1. pc = "idle" /\ pending = None /\ command' = command
    BY <1>0 DEF Act, OpenDay, SubmitReceipt, CloseDay, StepInv
  <2> QED
    BY <1>0, <2>1 DEF DayInv, DeviceInv, Opening, Opened
<1>2. BookInv'
  BY <1>0, BookStays DEF Act, OpenDay, SubmitReceipt, CloseDay, fdmsVars, worldVars
<1>3. CASE command = "open" /\ OpenDay
  <2>1. /\ UNCHANGED <<receipts, dayStart, fiscalDayNo, dayTotal, state, dayState, pending, lastGlobal>>
        /\ answer' = None /\ late' = late /\ now' = now /\ pc' = "open" /\ ClockPassed
        /\ reported' = Len(receipts) /\ sent' = [endpoint |-> "OpenDay"]
    BY <1>0, <1>1, <1>3 DEF OpenDay, Punctual, fdmsVars, storageVars, worldVars
  <2>2. DayInv' /\ PendingInv'
    BY <1>1, <2>1, SameMemory, SameStored DEF DayInv, PendingInv
  <2>3. ClockPassed'
    BY <1>0, <2>1, SameClockPassed
  <2>4. DeviceInv'
    BY <1>0, <1>1, <1>3, <2>1, <2>3 DEF DeviceInv
  <2> QED
    BY <1>2, <2>2, <2>4
<1>4. CASE command = "submit" /\ SubmitReceipt
  <2>1. PICK amount \in Amounts, badTax \in BOOLEAN, date \in ReceiptDates(state) :
          /\ pending' = Prepare(state, SignReceipt(state, date, amount, badTax))
          /\ sent' = Submit(SignReceipt(state, date, amount, badTax))
    BY <1>4 DEF SubmitReceipt
  <2>2. state # None /\ state \in DayState /\ Fits(state)
    BY <1>0, <1>1, <1>4 DEF SubmitReceipt, TypeOK
  <2>3. Waiting(pending') /\ pending' # None /\ sent' = Submit(pending'.receipt)
    <3>1. Waiting(Prepare(state, SignReceipt(state, date, amount, badTax)))
      BY <1>0, <2>2, SignedIsNext
    <3>2. Prepare(state, SignReceipt(state, date, amount, badTax)) \in PreparedReceipt
      BY <1>0, <2>2, PrepareType
    <3> QED
      BY <1>0, <2>1, <3>1, <3>2 DEF Prepare
  <2>4. Waiting(pending)'
    BY <1>4, <2>3, SameBook DEF SubmitReceipt, Waiting, fdmsVars, ReceiptAt
  <2>5. DayInv' /\ PendingInv'
    BY <1>1, <1>4, <2>3, <2>4, SameMemory, SameStored DEF SubmitReceipt, DayInv, PendingInv, fdmsVars
  <2>6. DeviceInv'
    BY <1>0, <1>1, <1>4, <2>3, <2>4 DEF SubmitReceipt, DeviceInv
  <2> QED
    BY <1>2, <2>5, <2>6
<1>5. CASE command \in {"cliClose", "mcpClose"} /\ CloseDay
  <2>1. /\ UNCHANGED <<receipts, dayStart, fiscalDayNo, dayTotal, state, dayState, pending, lastGlobal>>
        /\ answer' = None /\ late' = late /\ now' = now /\ pc' = "close" /\ state # None
        /\ sent' = CloseBody(state)
    BY <1>1, <1>5 DEF CloseDay, fdmsVars, storageVars, worldVars
  <2>2. DayInv' /\ PendingInv'
    BY <1>1, <2>1, SameMemory, SameStored DEF DayInv, PendingInv
  <2>3. CloseFits(sent)'
    <3>1. sent'.endpoint = "CloseDay" /\ sent'.counter = DayReceiptCount' /\ sent'.total = dayTotal'
      BY <1>1, <2>1, SameBook DEF CloseBody, Fits
    <3> QED
      BY <3>1 DEF CloseFits
  <2>4. DeviceInv'
    BY <1>0, <1>1, <2>1, <2>3 DEF DeviceInv
  <2> QED
    BY <1>2, <2>2, <2>4
<1> QED
  BY <1>3, <1>4, <1>5 DEF Act

\* FDMS handles what the device sent.
LEMMA ProfileFdmsAnswers ==
  ASSUME ProfileTypeInv, ProfileFits, FdmsAnswers, command' = command
  PROVE  DayInv' /\ PendingInv' /\ DeviceInv' /\ BookInv'
<1>0. /\ TypeOK /\ FdmsTypeOK /\ BookInv /\ DayInv /\ PendingInv /\ DeviceInv
      /\ Len(receipts) \in Nat
  BY ProfileStepTypes
<1>1. /\ sent # None /\ sent' = None /\ answer = None
      /\ pc \in {"submit", "open", "close"}
      /\ Handle(sent) /\ answer' = AnswerTo(sent) /\ AnswerTo(sent).ok = Takes(sent)
      /\ UNCHANGED <<state, pc, reported, storageVars, late, now>>
  BY <1>0 DEF FdmsAnswers, DeviceInv, TypeOK, Places, AnswerTo, worldVars
<1>2. ~Opening /\ UNCHANGED <<dayState, pending, lastGlobal>>
  BY <1>1 DEF Opening, Opened, storageVars
<1>3. answer' # None
  BY <1>0, <1>1, HandleType, NoneIsNothing DEF TypeOK
<1>4. CASE Takes(sent) /\ pc = "submit"
  <2>1. pending # None /\ Waiting(pending) /\ sent = Submit(pending.receipt)
    BY <1>0, <1>1, <1>4 DEF DeviceInv
  <2>2. RecordReceipt(pending.receipt)
    BY <1>1, <1>4, <2>1 DEF Handle, Submit
  <2>3. BookInv' /\ Entered(pending)' /\ Len(receipts') = Len(receipts) + 1
    BY <1>0, <1>1, <1>2, <2>1, <2>2, Recording
  <2>4. /\ state # None => Fits(state)
        /\ dayState # None => Fits(dayState)
        /\ lastGlobal = Len(receipts)
    BY <1>0, <2>1, NotBoth DEF PendingInv
  <2>5. /\ state' # None => FitsOrBehind(state)'
        /\ dayState' # None => FitsOrBehind(dayState)'
        /\ lastGlobal' <= Len(receipts')
    BY <1>0, <1>1, <1>2, <2>3, <2>4 DEF FitsOrBehind, Fits
  <2>6. DayInv' /\ PendingInv'
    BY <1>2, <2>1, <2>3, <2>5 DEF DayInv, PendingInv
  <2>7. DeviceInv'
    BY <1>0, <1>1, <1>2, <1>4, <2>1, <2>3 DEF DeviceInv
  <2> QED
    BY <2>3, <2>6, <2>7
<1>5. CASE Takes(sent) /\ pc = "open"
  <2>1. /\ pending = None /\ command = "open" /\ ClockPassed /\ reported <= Len(receipts)
        /\ sent.endpoint = "OpenDay"
    BY <1>0, <1>1, <1>5 DEF DeviceInv
  <2>2. OpenDayAtFdms /\ AnswerTo(sent).fiscalDayNo = fiscalDayNo + 1
    BY <1>1, <1>5, <2>1 DEF Handle, AnswerTo
  <2>3. /\ fiscalDayNo' = fiscalDayNo + 1 /\ fiscalDayNo \in Nat /\ receipts' = receipts
        /\ DayReceiptCount' = 0 /\ LastHash' = 0 /\ LastDate' = 0 /\ dayTotal' = 0
    BY <1>0, <2>2 DEF OpenDayAtFdms, DayReceiptCount, LastHash, LastDate, FdmsTypeOK
  <2>4. BookInv'
    BY <1>0, <1>1, <2>1, <2>2 DEF OpenDayAtFdms, BookInv, ClockPassed, ReceiptAt
  <2>5. Opened'
    BY <1>1, <1>3, <1>5 DEF Opened
  <2>6. dayState # None => dayState.fiscalDayNo # fiscalDayNo + 1
    <3>1. dayState # None => dayState.fiscalDayNo = fiscalDayNo
      BY <1>0, <1>2, <2>1 DEF DayInv, Fits
    <3> QED
      BY <2>3, <3>1
  <2>7. DayInv' /\ PendingInv'
    BY <1>0, <1>2, <2>1, <2>3, <2>5, <2>6 DEF DayInv, PendingInv, Opening
  <2>8. ClockPassed'
    BY <1>1, <2>1, <2>3 DEF ClockPassed, ReceiptAt
  <2>9. Fits(NewDayState(answer.fiscalDayNo, Len(receipts)))'
    BY <1>1, <2>2, <2>3 DEF Fits, NewDayState
  <2>10. DeviceInv'
    BY <1>0, <1>1, <1>2, <1>5, <2>1, <2>3, <2>6, <2>8, <2>9 DEF DeviceInv
  <2> QED
    BY <2>4, <2>7, <2>10
<1>6. CASE Takes(sent) /\ pc = "close"
  <2>1. pending = None /\ sent.endpoint = "CloseDay"
    BY <1>0, <1>1, <1>6 DEF DeviceInv, CloseFits
  <2>2. CloseDayAtFdms(sent)
    BY <1>1, <1>6, <2>1 DEF Handle
  <2>4. BookInv'
    BY <1>0, <1>1, <2>2, SameBookInv DEF CloseDayAtFdms
  <2>5. DayInv' /\ PendingInv'
    BY <1>0, <1>1, <1>2, <2>1, <2>2, SameMemory, SameStored DEF CloseDayAtFdms, DayInv, PendingInv, Opening, Opened
  <2>6. DeviceInv'
    BY <1>0, <1>1, <1>2, <1>6, <2>1 DEF DeviceInv
  <2> QED
    BY <2>4, <2>5, <2>6
<1>7. CASE ~Takes(sent)
  <2>1. /\ UNCHANGED <<receipts, dayStart, fiscalDayNo, dayTotal, closingErrorCode>>
        /\ ~AnswerTo(sent).ok
    BY <1>1, <1>7 DEF Handle, fdmsVars
  <2>2. BookInv'
    BY <1>0, <1>1, <2>1, BookStays
  <2>3. DayInv' /\ PendingInv'
    BY <1>0, <1>1, <1>2, <2>1, SamePending, SameMemory, SameStored DEF DayInv, PendingInv, Opening, Opened
  <2>4. ClockPassed' = ClockPassed
    BY <1>1, <2>1 DEF ClockPassed, ReceiptAt
  <2>5. DeviceInv'
    BY <1>0, <1>1, <1>2, <2>1, <2>4, SamePending DEF DeviceInv
  <2> QED
    BY <2>2, <2>3, <2>5
<1> QED
  BY <1>1, <1>4, <1>5, <1>6, <1>7

\* ... or refuses for good, when what it refused is still to be recorded.
LEMMA ProfileFdmsRefuses ==
  ASSUME ProfileTypeInv, ProfileFits, FdmsRefuses, command' = command
  PROVE  DayInv' /\ PendingInv' /\ DeviceInv' /\ BookInv'
<1>0. /\ TypeOK /\ BookInv /\ DayInv /\ PendingInv /\ DeviceInv
  BY ProfileStepTypes
<1>1. /\ sent # None /\ sent.endpoint = "SubmitReceipt" /\ pc = "submit"
      /\ sent' = None /\ answer' = [ok |-> FALSE, red |-> FALSE, fiscalDayNo |-> 0]
      /\ UNCHANGED <<receipts, dayStart, fiscalDayNo, dayTotal, state, pc, reported, storageVars, late, now>>
  BY <1>0 DEF FdmsRefuses, DeviceInv, CloseFits, TypeOK, Places, fdmsVars, worldVars
<1>2. UNCHANGED <<dayState, pending, lastGlobal>> /\ ~Opening /\ ~Opening'
  BY <1>1 DEF storageVars, Opening, Opened
<1>3. BookInv'
  BY <1>0, <1>1, BookStays
<1>4. DayInv' /\ PendingInv'
  BY <1>0, <1>1, <1>2, SamePending, SameMemory, SameStored DEF DayInv, PendingInv, Opening
<1>5. DeviceInv'
  BY <1>0, <1>1, <1>2, SamePending DEF DeviceInv
<1> QED
  BY <1>3, <1>4, <1>5

\* Closing a day without the profile's: the server's counters.
LEMMA ProfileClosesFromServer ==
  ASSUME ProfileTypeInv, ProfileFits, CloseFromServerCounters
  PROVE  DayInv' /\ PendingInv' /\ DeviceInv' /\ BookInv'
<1>0. /\ TypeOK /\ BookInv /\ DayInv /\ PendingInv /\ DeviceInv /\ StepInv /\ CommandFits
  BY ProfileStepTypes
<1>1. pc = "idle" /\ pending = None /\ answer = None /\ ~Opening
  <2>1. pc = "idle"
    BY <1>0 DEF CloseFromServerCounters, CommandFits, DeviceRuns
  <2> QED
    BY <1>0, <2>1 DEF CloseFromServerCounters, StepInv, DeviceInv, Opening, Opened
<1>2. /\ UNCHANGED <<receipts, dayStart, fiscalDayNo, dayTotal, closingErrorCode, now>>
      /\ UNCHANGED <<state, dayState, pending, lastGlobal, answer, late>>
      /\ pc' = "close" /\ dayState = None
      /\ sent' \in BlindCloses
  BY <1>0 DEF StepInv, BlindCloses, ServerCloseBody, CloseFromServerCounters, fdmsVars, storageVars, worldVars
<1>3. BookInv'
  BY <1>0, <1>2, BookStays
<1>4. DayInv' /\ PendingInv'
  BY <1>0, <1>1, <1>2, SameMemory, SameStored DEF DayInv, PendingInv, Opening, Opened
<1>5. CloseFits(sent)'
  <2>1. DayReceiptCount' = DayReceiptCount /\ BlindCloses' = BlindCloses
    BY <1>2, SameBook DEF BlindCloses
  <2>2. sent'.endpoint = "CloseDay"
    BY <1>2 DEF BlindCloses
  <2> QED
    BY <1>2, <2>1, <2>2 DEF CloseFits
<1>6. DeviceInv'
  BY <1>0, <1>1, <1>2, <1>5 DEF DeviceInv
<1> QED
  BY <1>3, <1>4, <1>6

\* saveDayState() writes what the device has stored already, ...
LEMMA ProfileSaves ==
  ASSUME ProfileTypeInv, ProfileFits, SaveStep
  PROVE  DayInv' /\ PendingInv' /\ DeviceInv' /\ BookInv'
<1>0. /\ TypeOK /\ BookInv /\ DayInv /\ PendingInv /\ DeviceInv /\ StepInv /\ CommandFits
      /\ Len(receipts) \in Nat
  BY ProfileStepTypes
<1>1. /\ pc = "idle" /\ pending = None /\ state # None /\ Fits(state) /\ lastGlobal = Len(receipts)
  <2>1. pc = "idle" /\ pending = None /\ state # None
    BY <1>0 DEF SaveStep, CommandFits, DeviceRuns, StepInv
  <2> QED
    BY <1>0, <2>1 DEF DayInv, Opened
<1>2. lastGlobal' = Len(receipts)
  BY <1>0, <1>1 DEF SaveStep, SaveLastGlobalNo, Fits
<1>3. /\ UNCHANGED <<receipts, dayStart, fiscalDayNo, dayTotal, closingErrorCode, now>>
      /\ UNCHANGED <<state, pc, pending, sent, answer, late>>
      /\ dayState' = state
  BY DEF SaveStep, fdmsVars, wireVars, worldVars
<1>4. BookInv'
  BY <1>0, <1>3, BookStays
<1>5. Fits(state)' /\ Fits(dayState)'
  BY <1>1, <1>3, SameBook DEF Fits
<1>6. DayInv' /\ PendingInv'
  BY <1>1, <1>2, <1>3, <1>5 DEF DayInv, PendingInv
<1>7. DeviceInv'
  BY <1>0, <1>1, <1>3 DEF DeviceInv
<1> QED
  BY <1>4, <1>6, <1>7

\* ... and a day that is torn or given up leaves the highest number.
LEMMA ProfileDropsDay ==
  ASSUME ProfileTypeInv, ProfileFits, pc = "idle", pending = None,
         UNCHANGED <<fdmsVars, state, pc, reported, pending, lastGlobal, wireVars, now>>,
         dayState' \in {dayState, None}
  PROVE  DayInv' /\ PendingInv' /\ DeviceInv' /\ BookInv'
<1>0. /\ TypeOK /\ BookInv /\ DayInv /\ PendingInv /\ DeviceInv
  BY ProfileStepTypes
<1>1. UNCHANGED <<receipts, dayStart, fiscalDayNo, dayTotal, closingErrorCode, sent, answer, late>>
  BY DEF fdmsVars, wireVars
<1>2. BookInv'
  BY <1>0, <1>1, BookStays
<1>3. dayState' # None => dayState' = dayState /\ Fits(dayState)' = Fits(dayState)
  BY <1>1, SameBook DEF Fits
<1>4. DayInv'
  BY <1>0, <1>1, <1>3, SameMemory DEF DayInv, Opening, Opened
<1>5. PendingInv' /\ DeviceInv'
  BY <1>0, <1>1 DEF PendingInv, DeviceInv
<1> QED
  BY <1>2, <1>4, <1>5

\* A call of the device fails with its outcome unknown, or its process dies.
LEMMA ProfileBreaks ==
  ASSUME ProfileTypeInv, ProfileFits, Punctual, NoteOpensOver, Undisturbed',
         OutcomeUnknown \/ StorageFails \/ Crash
  PROVE  DayInv' /\ PendingInv' /\ DeviceInv' /\ BookInv'
<1>0. /\ TypeOK /\ BookInv /\ DayInv /\ PendingInv /\ DeviceInv /\ StepInv /\ CommandFits
  BY ProfileStepTypes
<1>1. ~OpensOver
  BY DEF NoteOpensOver, Undisturbed
<1>2. Opening => command = "open" /\ (dayState = None \/ dayState.fiscalDayNo = fiscalDayNo)
  <2>1. Opening => command = "open"
    BY <1>0 DEF Opening, Opened, DeviceInv
  <2> QED
    BY <1>1, <2>1 DEF OpensOver
<1>3. Opened => state = None
  <2> SUFFICES ASSUME Opened
               PROVE  state = None
    OBVIOUS
  <2>1. command = "open" /\ (dayState = None \/ dayState.fiscalDayNo = fiscalDayNo) /\ pc = "open"
    BY <1>2 DEF Opening, Opened
  <2>2. dayState = None
    BY <1>0, <2>1 DEF Opened, DeviceInv
  <2>3. step # "exit"
    BY <1>0, <2>1 DEF CommandFits, DeviceRuns
  <2> QED
    BY <1>0, <2>1, <2>2, <2>3 DEF StepInv
<1>4. /\ UNCHANGED <<receipts, dayStart, fiscalDayNo, dayTotal, closingErrorCode, storageVars, now>>
      /\ state' \in {state, None}
      /\ pc' = "idle" /\ sent' = None /\ answer' = None /\ late' = <<>>
  <2>1. CASE OutcomeUnknown \/ Crash
    BY <1>0, <2>1 DEF OutcomeUnknown, Crash, AbandonCall, Punctual, DeviceInv, fdmsVars
  <2>2. CASE StorageFails
    BY <1>0, <2>2 DEF StorageFails, DeviceInv, fdmsVars, wireVars
  <2> QED
    BY <2>1, <2>2
<1>5. BookInv'
  BY <1>0, <1>4, BookStays
<1>6. DayInv' /\ PendingInv' /\ DeviceInv'
  <2>1. Opening => dayState = None \/ dayState.fiscalDayNo = fiscalDayNo
    BY <1>2
  <2>2. Opened => state' = None
    BY <1>3, <1>4
  <2> QED
    BY <1>0, <1>4, <2>1, <2>2, DeviceGivesUp
<1> QED
  BY <1>5, <1>6

\* What a step leaves of the commands' own part of the invariant.
LEMMA StepStays ==
  ASSUME StepInv, UNCHANGED <<state, dayState, pending, pc>>,
         step' = "exit" \/ UNCHANGED <<command, step>>
  PROVE  StepInv'
BY DEF StepInv

\* Mishaps are not forgotten.
LEMMA MishapsStay == [ProfileNext]_allVars => mishaps \subseteq mishaps'
<1> SUFFICES ASSUME [ProfileNext]_allVars
             PROVE  mishaps \subseteq mishaps'
  OBVIOUS
<1>1. CASE \E force \in BOOLEAN : RegisterCommand(force) \/ RegisterTool(force)
  BY <1>1 DEF RegisterTool, RegisterCommand
<1>2. CASE DayOpenCommand \/ OpenFiscalDayTool \/ SubmitCommand \/ SubmitReceiptTool
           \/ DayCloseCommand \/ CloseFiscalDayTool
  BY <1>2 DEF DayOpenCommand, OpenFiscalDayTool, SubmitCommand, SubmitReceiptTool, DayCloseCommand,
              CloseFiscalDayTool, StartCommand
<1>3. CASE FdmsRegisters \/ WriteProfile \/ ReconcileStep \/ LoadStep \/ RestoreStep \/ Act \/ Declined
  BY <1>3 DEF FdmsRegisters, WriteProfile, ReconcileStep, LoadStep, RestoreStep, Act, Declined
<1>4. CASE CloseFromServerCounters \/ AlreadyClosed \/ DeviceGoesOn \/ SaveStep \/ PollDayClosed \/ Exit
           \/ NotReached
  BY <1>4 DEF CloseFromServerCounters, AlreadyClosed, DeviceGoesOn, SaveStep, PollDayClosed, Exit, NotReached
<1>5. CASE RegisterCutShort \/ DeviceThrows \/ SaveTorn \/ CommandDies \/ DeleteTornFile
  BY <1>5 DEF RegisterCutShort, DeviceThrows, SaveTorn, CommandDies, DeleteTornFile, NoteOpensOver
<1>6. CASE PortalCloses \/ World \/ UNCHANGED allVars
  BY <1>6 DEF PortalCloses, World, allVars, profileVars
<1> QED
  BY <1>1, <1>2, <1>3, <1>4, <1>5, <1>6 DEF ProfileNext, CommandGoesOn

LEMMA InitProfileOrder == ProfileInit => ProfileOrderInv
<1> SUFFICES ASSUME ProfileInit
             PROVE  ProfileFits
  BY DEF ProfileOrderInv
<1>1. Init /\ receipts = <<>> /\ Len(<<>>) = 0
  BY DEF ProfileInit, Init, FdmsInit
<1>2. BookInv
  BY <1>1, InitOrder DEF OrderInv
<1>3. DayInv /\ PendingInv /\ DeviceInv /\ StepInv
  BY <1>1 DEF ProfileInit, Init, DayInv, PendingInv, DeviceInv, StepInv
<1> QED
  BY <1>2, <1>3 DEF ProfileFits

\* The steps of a command up to the device call it is for, ...
LEMMA ProfileCommandGoesOn ==
  ASSUME ProfileTypeInv, ProfileFits, Punctual, Undisturbed, Undisturbed',
         \/ ReconcileStep \/ LoadStep \/ RestoreStep \/ Act \/ Declined
         \/ CloseFromServerCounters \/ AlreadyClosed
  PROVE  ProfileFits'
<1> SUFFICES DayInv' /\ PendingInv' /\ DeviceInv' /\ BookInv' /\ StepInv'
  BY DEF ProfileFits
<1>0. /\ TypeOK /\ BookInv /\ DayInv /\ PendingInv /\ DeviceInv /\ StepInv /\ CommandFits
  BY ProfileStepTypes
<1>1. CASE ReconcileStep
  <2>1. CASE pending = None /\ state' = LoadedState /\ step' = AfterReconcile
             /\ UNCHANGED <<fdmsVars, pc, reported, storageVars, wireVars, worldVars>>
    <3>1. /\ UNCHANGED <<receipts, dayStart, fiscalDayNo, dayTotal, closingErrorCode>>
          /\ UNCHANGED <<pc, reported, storageVars, wireVars, now, pending, dayState>>
          /\ state' \in {state, dayState, None} /\ pc = "idle"
      BY <1>1, <2>1 DEF ReconcileStep, LoadedState, fdmsVars, storageVars, worldVars
    <3>2. BookInv'
      BY <1>0, <3>1, BookStays
    <3>3. DayInv' /\ PendingInv' /\ DeviceInv'
      BY <1>0, <3>1, MemoryLoads
    <3>4. StepInv'
      BY <1>0, <1>1, <2>1, <3>1 DEF ReconcileStep, StepInv, LoadedState, AfterReconcile
    <3> QED
      BY <3>2, <3>3, <3>4
  <2>2. CASE (ReconcileConfirmed \/ ReconcileResubmit) /\ step' = "settling"
    <3>1. command' = command /\ UNCHANGED <<dayState, pending>>
      BY <1>1, <2>2 DEF ReconcileStep, ReconcileConfirmed, ReconcileResubmit, storageVars
    <3>2. DayInv' /\ PendingInv' /\ DeviceInv' /\ BookInv'
      BY <2>2, <3>1, ProfileConfirms, ProfileResubmits
    <3>3. StepInv'
      BY <1>0, <2>2, <3>1 DEF ReconcileConfirmed, ReconcileResubmit, StepInv
    <3> QED
      BY <3>2, <3>3
  <2> QED
    BY <1>1, <2>1, <2>2 DEF ReconcileStep
<1>2. CASE LoadStep \/ RestoreStep
  <2>1. RestoreStep => local = state
    BY DEF RestoreStep, Undisturbed
  <2>2. /\ UNCHANGED <<receipts, dayStart, fiscalDayNo, dayTotal, closingErrorCode>>
        /\ UNCHANGED <<pc, reported, storageVars, wireVars, now, pending, dayState, command>>
        /\ state' \in {state, dayState, None} /\ step' \in {"status", "act"} /\ pc = "idle"
        /\ pending = None
        /\ dayState = None => state' = state \/ state' = None
        /\ step # "exit" /\ (step' = "status" => dayState = None)
    BY <1>0, <1>2, <2>1 DEF LoadStep, RestoreStep, CommandFits, DeviceRuns, StepInv, fdmsVars, storageVars, worldVars
  <2>3. BookInv'
    BY <1>0, <2>2, BookStays
  <2>4. DayInv' /\ PendingInv' /\ DeviceInv'
    BY <1>0, <2>2, MemoryLoads
  <2>5. StepInv'
    BY <1>0, <2>2 DEF StepInv
  <2> QED
    BY <2>3, <2>4, <2>5
<1>3. CASE Act
  <2>1. /\ UNCHANGED <<command, dayState, state>> /\ step' = "acting"
        /\ pending' # None => pending # None \/ command = "submit"
        /\ step = "act" /\ pc = "idle"
    BY <1>3 DEF Act, OpenDay, SubmitReceipt, CloseDay, storageVars
  <2>2. StepInv'
    BY <1>0, <2>1 DEF StepInv
  <2> QED
    BY <1>3, <2>2, ProfileActs
<1>4. CASE Declined \/ AlreadyClosed
  <2>1. UNCHANGED vars /\ UNCHANGED command /\ step' = "exit"
    BY <1>4 DEF Declined, AlreadyClosed
  <2>2. /\ UNCHANGED <<receipts, dayStart, fiscalDayNo, dayTotal, closingErrorCode>>
        /\ UNCHANGED <<state, pc, reported, storageVars, wireVars, now, dayState, pending>>
    BY <2>1 DEF vars, fdmsVars, storageVars, worldVars
  <2> QED
    BY <1>0, <2>1, <2>2, BookStays, DeviceStays, StepStays
<1>5. CASE CloseFromServerCounters
  <2>1. /\ UNCHANGED <<command, dayState, state, pending>> /\ step' = "acting" /\ pc = "idle" /\ step = "status"
    BY <1>0, <1>5 DEF CloseFromServerCounters, CommandFits, DeviceRuns, storageVars
  <2>2. StepInv'
    BY <1>0, <2>1 DEF StepInv
  <2> QED
    BY <1>5, <2>2, ProfileClosesFromServer
<1> QED
  BY <1>1, <1>2, <1>3, <1>4, <1>5

\* ... how the device's calls go on, ...
LEMMA ProfileDeviceStep ==
  ASSUME ProfileTypeInv, ProfileFits, DeviceGoesOn
  PROVE  ProfileFits'
<1> SUFFICES DayInv' /\ PendingInv' /\ DeviceInv' /\ BookInv' /\ StepInv'
  BY DEF ProfileFits
<1>0. /\ TypeOK /\ DeviceInv /\ StepInv /\ CommandFits
  BY ProfileStepTypes
<1>1. command' = command
  BY DEF DeviceGoesOn
<1>2. DayInv' /\ PendingInv' /\ DeviceInv' /\ BookInv'
  BY <1>1, ProfileSubmitAnswered, ProfileOpenAnswered, ProfileDeviceGoesOn DEF DeviceGoesOn
<1>3. pc # "idle" => step \in {"settling", "acting"}
  BY <1>0 DEF CommandFits, DeviceRuns
<1>4. CASE (SubmitAnswered \/ OpenAnswered \/ SaveDayState) /\ UNCHANGED step
  <2>1. /\ pending' = pending /\ dayState' \in {dayState, state}
        /\ SaveDayState => dayState' # None
        /\ ~SaveDayState => dayState' = dayState /\ pc' = "saveDay"
        /\ pc # "idle"
    BY <1>0, <1>4 DEF SubmitAnswered, OpenAnswered, SaveDayState, DeviceInv, storageVars
  <2> QED
    BY <1>0, <1>1, <1>2, <1>3, <1>4, <2>1 DEF StepInv
<1>5. CASE SaveLastGlobal /\ step' = IF pending = None THEN "save" ELSE step
  <2>1. UNCHANGED <<pending, dayState>> /\ dayState # None /\ pc # "idle"
    BY <1>0, <1>5 DEF SaveLastGlobal, DeviceInv
  <2> QED
    BY <1>0, <1>1, <1>2, <1>3, <1>5, <2>1 DEF StepInv
<1>6. CASE CloseAnswered /\ step' = "poll"
  <2>1. UNCHANGED <<pending, dayState>> /\ pending = None /\ state' = None /\ pc # "idle"
    BY <1>0, <1>6 DEF CloseAnswered, DeviceInv, storageVars
  <2> QED
    BY <1>0, <1>1, <1>2, <1>3, <1>6, <2>1 DEF StepInv
<1>7. CASE DayCallRefused /\ step' = "exit"
  <2>1. UNCHANGED <<pending, dayState>>
    BY <1>7 DEF DayCallRefused, storageVars
  <2> QED
    BY <1>0, <1>2, <1>7, <2>1 DEF StepInv
<1>8. CASE \/ ClearPending /\ step' = IF step = "settling" THEN AfterReconcile ELSE "save"
           \/ SubmitRefused /\ step' = IF step = "settling" THEN AfterReconcile ELSE "exit"
  <2>1. pending' = None /\ dayState' = dayState /\ dayState # None
    BY <1>0, <1>8 DEF ClearPending, SubmitRefused, DeviceInv, StepInv
  <2> QED
    BY <1>0, <1>1, <1>2, <1>8, <2>1 DEF StepInv, AfterReconcile
<1> QED
  BY <1>4, <1>5, <1>6, <1>7, <1>8 DEF DeviceGoesOn

\* ... and what happens between the commands.
LEMMA ProfileOutside ==
  ASSUME ProfileTypeInv, ProfileFits,
         UNCHANGED <<receipts, dayStart, fiscalDayNo, dayTotal, closingErrorCode>>,
         UNCHANGED <<state, pc, reported, storageVars, wireVars>>,
         now' = now \/ now' = now + 1,
         command' = command \/ pc = "idle",
         step' = "exit" \/ UNCHANGED <<command, step>>
  PROVE  ProfileFits'
<1>0. TypeOK /\ BookInv /\ DayInv /\ PendingInv /\ DeviceInv /\ StepInv
  BY ProfileStepTypes
<1>1. BookInv'
  BY <1>0, BookStays
<1>2. DayInv' /\ PendingInv' /\ DeviceInv'
  BY <1>0, DeviceStays
<1>3. StepInv'
  BY <1>0, StepStays DEF storageVars
<1> QED
  BY <1>1, <1>2, <1>3 DEF ProfileFits

\* Starting a command and registering leave the device alone.
LEMMA ProfileStarts ==
  ASSUME ProfileTypeInv, ProfileFits, UNCHANGED vars, command' = command \/ pc = "idle",
         \/ step' \in {"reconcile", "issue", "device", "certificate", "key"}
         \/ step' = "exit"
         \/ step' = "status" /\ dayState = None,
         command' = "submit" => dayState # None,
         command' = "open" /\ dayState = None => state = None
  PROVE  ProfileFits'
<1>0. TypeOK /\ BookInv /\ DayInv /\ PendingInv /\ DeviceInv /\ StepInv
  BY ProfileStepTypes
<1>1. /\ UNCHANGED <<receipts, dayStart, fiscalDayNo, dayTotal, closingErrorCode>>
      /\ UNCHANGED <<state, pc, reported, storageVars, wireVars, now, dayState, pending>>
  BY DEF vars, fdmsVars, storageVars, worldVars
<1>2. BookInv'
  BY <1>0, <1>1, BookStays
<1>3. DayInv' /\ PendingInv' /\ DeviceInv'
  BY <1>0, <1>1, DeviceStays
<1>4. StepInv'
  BY <1>0, <1>1 DEF StepInv
<1> QED
  BY <1>2, <1>3, <1>4 DEF ProfileFits

LEMMA NextProfileOrder ==
  ProfileTypeInv /\ ProfileOrderInv /\ Punctual /\ [ProfileNext]_allVars => ProfileOrderInv'
<1> SUFFICES ASSUME ProfileTypeInv, ProfileOrderInv, Punctual, [ProfileNext]_allVars, Undisturbed'
             PROVE  ProfileFits'
  BY DEF ProfileOrderInv
<1>1. Undisturbed /\ ProfileFits
  BY MishapsStay DEF Undisturbed, ProfileOrderInv
<1>2. /\ TypeOK /\ BookInv /\ DayInv /\ PendingInv /\ DeviceInv /\ StepInv /\ CommandFits
      /\ ProfileTypeOK
  BY <1>1, ProfileStepTypes DEF ProfileTypeInv
<1>3. CASE \/ \E force \in BOOLEAN : RegisterCommand(force) \/ RegisterTool(force)
           \/ DayOpenCommand \/ OpenFiscalDayTool
           \/ SubmitCommand \/ SubmitReceiptTool
           \/ DayCloseCommand \/ CloseFiscalDayTool
  <2>1. /\ UNCHANGED vars /\ Idle
        /\ step' \in {"reconcile", "issue"} \/ (step' = "status" /\ dayState = None)
        /\ command' = "submit" => dayState # None
    BY <1>3 DEF RegisterTool, RegisterCommand, DayOpenCommand, OpenFiscalDayTool, SubmitCommand,
                SubmitReceiptTool, DayCloseCommand, CloseFiscalDayTool, StartCommand
  <2>2. pc = "idle" /\ state = None
    BY <1>2, <2>1 DEF Idle, CommandFits
  <2> QED
    BY <1>1, <2>1, <2>2, ProfileStarts
<1>4. CASE FdmsRegisters \/ WriteProfile
  <2>1. UNCHANGED vars /\ UNCHANGED command /\ step' \in {"device", "certificate", "key", "exit"} /\ Registers
    BY <1>4 DEF FdmsRegisters, WriteProfile, Registers
  <2>2. command = "register"
    BY <1>2, <2>1 DEF CommandFits
  <2> QED
    BY <1>1, <2>1, <2>2, ProfileStarts
<1>5. CASE \/ ReconcileStep \/ LoadStep \/ RestoreStep \/ Act \/ Declined
           \/ CloseFromServerCounters \/ AlreadyClosed
  BY <1>1, <1>5, ProfileCommandGoesOn
<1>6. CASE DeviceGoesOn
  BY <1>1, <1>6, ProfileDeviceStep
<1>7. CASE SaveStep
  <2>1. dayState' = state /\ state # None /\ pending' = pending /\ pending = None /\ step' = "exit"
    BY <1>2, <1>7 DEF SaveStep, CommandFits, StepInv
  <2>2. StepInv'
    BY <2>1 DEF StepInv
  <2> QED
    BY <1>1, <1>7, <2>2, ProfileSaves DEF ProfileFits
<1>8. CASE SaveTorn \/ PollDayClosed
  <2>1. /\ pc = "idle" /\ pending = None /\ step' = "exit" /\ dayState' \in {dayState, None}
        /\ UNCHANGED <<fdmsVars, state, pc, reported, pending, lastGlobal, wireVars, now>>
    BY <1>2, <1>8 DEF SaveTorn, PollDayClosed, CommandFits, DeviceRuns, StepInv, worldVars
  <2>2. StepInv'
    BY <2>1 DEF StepInv
  <2> QED
    BY <1>1, <2>1, <2>2, ProfileDropsDay DEF ProfileFits
<1>9. CASE Exit
  <2>1. /\ pc = "idle" /\ command' = "none" /\ state' = None /\ step' = "exit"
        /\ UNCHANGED <<receipts, dayStart, fiscalDayNo, dayTotal, closingErrorCode>>
        /\ UNCHANGED <<pc, reported, storageVars, wireVars, now, dayState, pending>>
    BY <1>2, <1>9 DEF Exit, CommandFits, DeviceRuns, fdmsVars, storageVars, worldVars
  <2>2. BookInv'
    BY <1>2, <2>1, BookStays
  <2>3. DayInv' /\ PendingInv' /\ DeviceInv'
    BY <1>2, <2>1, MemoryLoads
  <2>4. StepInv'
    BY <1>2, <2>1 DEF StepInv
  <2> QED
    BY <2>2, <2>3, <2>4 DEF ProfileFits
<1>10. CASE NotReached \/ RegisterCutShort
  <2>1. /\ UNCHANGED <<receipts, dayStart, fiscalDayNo, dayTotal, closingErrorCode>>
        /\ UNCHANGED <<state, pc, reported, storageVars, wireVars, now, command>> /\ step' = "exit"
    BY <1>10 DEF NotReached, RegisterCutShort, fdmsVars
  <2> QED
    BY <1>1, <2>1, ProfileOutside
<1>11. CASE DeviceThrows \/ CommandDies
  <2>1. /\ OutcomeUnknown \/ StorageFails \/ Crash
        /\ NoteOpensOver /\ step' = "exit" /\ UNCHANGED <<dayState, pending>>
    BY <1>11 DEF DeviceThrows, CommandDies, OutcomeUnknown, StorageFails, Crash, storageVars
  <2>2. StepInv'
    BY <1>2, <2>1 DEF StepInv
  <2> QED
    BY <1>1, <2>1, <2>2, ProfileBreaks DEF ProfileFits
<1>12. CASE DeleteTornFile \/ PortalCloses \/ UNCHANGED allVars \/ (World /\ (DaySettles \/ Tick))
  <2>1. /\ UNCHANGED <<receipts, dayStart, fiscalDayNo, dayTotal, closingErrorCode>>
        /\ UNCHANGED <<state, pc, reported, storageVars, wireVars, command, step>>
        /\ now' = now \/ now' = now + 1
    BY <1>12 DEF DeleteTornFile, PortalCloses, World, DaySettles, SettleClose, Tick, allVars, vars,
                 profileVars, commandVars, fdmsVars, worldVars
  <2> QED
    BY <1>1, <2>1, ProfileOutside
<1>13. CASE World /\ (FdmsAnswers \/ FdmsRefuses)
  <2>1. UNCHANGED <<command, step, dayState, pending, state, pc>>
    BY <1>13 DEF World, FdmsAnswers, FdmsRefuses, profileVars, commandVars, storageVars
  <2>2. StepInv'
    BY <1>2, <2>1, StepStays
  <2> QED
    BY <1>1, <1>13, <2>1, <2>2, ProfileFdmsAnswers, ProfileFdmsRefuses DEF ProfileFits
<1> QED
  BY <1>3, <1>4, <1>5, <1>6, <1>7, <1>8, <1>9, <1>10, <1>11, <1>12, <1>13 DEF ProfileNext, CommandGoesOn, World

LEMMA ProfileOrderInvariance ==
  ASSUME Punctual
  PROVE  ProfileSpec => []ProfileOrderInv
<1>1. ProfileTypeInv /\ ProfileOrderInv /\ [ProfileNext]_allVars => ProfileOrderInv'
  BY NextProfileOrder
<1> QED
  BY <1>1, InitProfileOrder, ProfileTypeInvariance, PTL DEF ProfileSpec

-----------------------------------------------------------------------------
(* What the commands promise.                                              *)

\* Commands that each start from the profile's files alone - the CLI's and the
\* MCP server's, failing, dying and being retried in any order - never send a
\* receipt that FDMS finds misnumbered, unchained or misdated, short of a
\* mishap.
THEOREM CommandsAreOneDevice ==
  ASSUME Punctual
  PROVE  ProfileSpec => []CommandsKeepSequence
<1>1. ProfileTypeInv /\ ProfileOrderInv => CommandsKeepSequence
  BY DEF ProfileOrderInv, ProfileFits, CommandsKeepSequence, NoSequencingRed, BookInv
<1> QED
  BY <1>1, ProfileTypeInvariance, ProfileOrderInvariance, PTL

\* What a command leaves in day-state.json is FDMS's day once no submit is
\* unresolved: after a close that bounced, timed out or was done by ZIMRA, and
\* after a write that failed half-way through persistState().
THEOREM ProfileStaysInStep ==
  ASSUME Punctual
  PROVE  ProfileSpec => []ProfileInStep
<1>1. ProfileTypeInv /\ ProfileOrderInv => ProfileInStep
  <2> SUFFICES ASSUME ProfileTypeInv, ProfileFits,
                      command = "none", pending = None, dayState # None
               PROVE  Agrees(dayState)
    BY DEF ProfileOrderInv, ProfileInStep
  <2>1. FdmsTypeOK /\ BookInv /\ Fits(dayState)
    <3>1. pc = "idle"
      BY DEF ProfileTypeInv, CommandFits, DeviceRuns
    <3> QED
      BY <3>1, ProfileStepTypes
  <2> QED
    BY <2>1, HighestIsLen DEF Agrees, Fits
<1> QED
  BY <1>1, ProfileTypeInvariance, ProfileOrderInvariance, PTL

\* FDMS begins to close a day when it is asked to and by no other step.
LEMMA ProfileBeginsToClose ==
  ASSUME [ProfileNext]_allVars, status = "FiscalDayOpened", status' = "FiscalDayCloseInitiated"
  PROVE  FdmsAnswers
<1>1. CASE \/ \E force \in BOOLEAN : RegisterCommand(force) \/ RegisterTool(force)
           \/ DayOpenCommand \/ OpenFiscalDayTool
           \/ SubmitCommand \/ SubmitReceiptTool
           \/ DayCloseCommand \/ CloseFiscalDayTool
  BY <1>1 DEF RegisterTool, RegisterCommand, DayOpenCommand, OpenFiscalDayTool, SubmitCommand,
              SubmitReceiptTool, DayCloseCommand, CloseFiscalDayTool, StartCommand, vars, fdmsVars
<1>2. CASE FdmsRegisters \/ WriteProfile \/ LoadStep \/ RestoreStep \/ Declined
           \/ CloseFromServerCounters \/ AlreadyClosed \/ Exit \/ NotReached
  BY <1>2 DEF FdmsRegisters, WriteProfile, LoadStep, RestoreStep, Declined, CloseFromServerCounters,
              AlreadyClosed, Exit, NotReached, vars, fdmsVars
<1>3. CASE ReconcileStep \/ Act
  BY <1>3 DEF ReconcileStep, ReconcileConfirmed, ReconcileResubmit, Act, OpenDay, SubmitReceipt, CloseDay,
              fdmsVars
<1>4. CASE DeviceGoesOn
  BY <1>4 DEF DeviceGoesOn, SubmitAnswered, OpenAnswered, SaveDayState, SaveLastGlobal, CloseAnswered,
              DayCallRefused, ClearPending, SubmitRefused, fdmsVars
<1>5. CASE SaveStep \/ SaveTorn \/ PollDayClosed \/ RegisterCutShort \/ DeviceThrows \/ CommandDies
           \/ DeleteTornFile
  BY <1>5 DEF SaveStep, SaveTorn, PollDayClosed, RegisterCutShort, DeviceThrows, CommandDies, DeleteTornFile,
              OutcomeUnknown, StorageFails, Crash, vars, fdmsVars
<1>6. CASE PortalCloses \/ World \/ UNCHANGED allVars
  BY <1>6 DEF PortalCloses, World, FdmsRefuses, DaySettles, SettleClose, Tick, allVars, vars, fdmsVars
<1> QED
  BY <1>1, <1>2, <1>3, <1>4, <1>5, <1>6 DEF ProfileNext, CommandGoesOn

\* FDMS never refuses a close for its counters, whether the command signed the
\* profile's day or what closeFromServerCounters() was told by GetStatus, but one
\* that had no day to go by and no count or no date.
THEOREM ClosesCountAlike ==
  ASSUME Punctual
  PROVE  ProfileSpec => ServerCountersMatch
<1> DEFINE Bounces == /\ status = "FiscalDayOpened" /\ status' = "FiscalDayCloseInitiated"
                      /\ closingErrorCode' \in {"BadCertificateSignature", "CountersMismatch"}
<1>1. ProfileTypeInv /\ ProfileOrderInv /\ [ProfileNext]_allVars =>
        [Undisturbed /\ Bounces => dayState = None /\ sent \in BlindCloses]_allVars
  <2> SUFFICES ASSUME ProfileTypeInv, ProfileFits, [ProfileNext]_allVars, Bounces
               PROVE  dayState = None /\ sent \in BlindCloses
    BY DEF ProfileOrderInv
  <2>0. TypeOK /\ DeviceInv
    BY ProfileStepTypes
  \* Only FDMS's handling of a CloseDay begins to close.
  <2>1. FdmsAnswers
    BY ProfileBeginsToClose
  <2>2. sent.endpoint = "CloseDay" /\ CloseDayAtFdms(sent)
    BY <2>1 DEF FdmsAnswers, Handle, RecordReceipt, OpenDayAtFdms, fdmsVars
  <2>3. CloseFits(sent)
    BY <2>0, <2>1, <2>2 DEF FdmsAnswers, DeviceInv, TypeOK, Places, Submit
  <2>4. CloseVerdict(sent) \in {"BadCertificateSignature", "CountersMismatch"}
    BY <2>2 DEF CloseDayAtFdms
  <2>5. ~(sent.counter = DayReceiptCount /\ sent.total = dayTotal)
    BY <2>4 DEF CloseVerdict
  <2> QED
    BY <2>3, <2>5 DEF CloseFits
<1> QED
  BY <1>1, ProfileTypeInvariance, ProfileOrderInvariance, PTL DEF ProfileSpec, ServerCountersMatch

\* Whatever the environment does, mishaps included, no command gives up the day
\* in the profile while FDMS has it open: only a write torn by a crash and a
\* poll that found the day closed take day-state.json away.
THEOREM DayIsKept == ProfileSpec => DayKeptUntilClosed
<1> DEFINE KeptInStep == dayState # None /\ dayState' = None /\ ~torn' => status = "FiscalDayClosed"
<1>1. ProfileTypeInv /\ [ProfileNext]_allVars => [KeptInStep]_allVars
  <2> SUFFICES ASSUME ProfileTypeInv, [ProfileNext]_allVars, dayState # None, dayState' = None, ~torn'
               PROVE  status = "FiscalDayClosed"
    OBVIOUS
  <2>0. CommandFits /\ TypeInv
    BY DEF ProfileTypeInv
  <2>1. CASE \/ \E force \in BOOLEAN : RegisterCommand(force) \/ RegisterTool(force)
             \/ DayOpenCommand \/ OpenFiscalDayTool
             \/ SubmitCommand \/ SubmitReceiptTool
             \/ DayCloseCommand \/ CloseFiscalDayTool
    BY <2>1 DEF RegisterTool, RegisterCommand, DayOpenCommand, OpenFiscalDayTool, SubmitCommand,
                SubmitReceiptTool, DayCloseCommand, CloseFiscalDayTool, StartCommand, vars, storageVars
  <2>2. CASE FdmsRegisters \/ WriteProfile \/ LoadStep \/ RestoreStep \/ Declined
             \/ CloseFromServerCounters \/ AlreadyClosed \/ Exit \/ NotReached
    BY <2>2 DEF FdmsRegisters, WriteProfile, LoadStep, RestoreStep, Declined, CloseFromServerCounters,
                AlreadyClosed, Exit, NotReached, vars, storageVars
  <2>3. CASE ReconcileStep \/ Act
    BY <2>3 DEF ReconcileStep, ReconcileConfirmed, ReconcileResubmit, Act, OpenDay, SubmitReceipt, CloseDay,
                storageVars
  <2>4. CASE DeviceGoesOn
    <3>1. SaveDayState => state # None
      BY <2>0 DEF SaveDayState, TypeInv
    <3> QED
      BY <2>4, <3>1 DEF DeviceGoesOn, SubmitAnswered, OpenAnswered, SaveDayState, SaveLastGlobal,
                        CloseAnswered, DayCallRefused, ClearPending, SubmitRefused, storageVars
  <2>5. CASE SaveStep \/ SaveTorn \/ PollDayClosed
    BY <2>0, <2>5 DEF SaveStep, SaveTorn, PollDayClosed, CommandFits
  <2>6. CASE RegisterCutShort \/ DeviceThrows \/ CommandDies \/ DeleteTornFile
    BY <2>6 DEF RegisterCutShort, DeviceThrows, CommandDies, DeleteTornFile, OutcomeUnknown, StorageFails,
                Crash, vars, storageVars
  <2>7. CASE PortalCloses \/ World \/ UNCHANGED allVars
    BY <2>7 DEF PortalCloses, World, FdmsAnswers, FdmsRefuses, DaySettles, Tick, allVars, vars, storageVars
  <2> QED
    BY <2>1, <2>2, <2>3, <2>4, <2>5, <2>6, <2>7 DEF ProfileNext, CommandGoesOn
<1> QED
  BY <1>1, ProfileTypeInvariance, PTL DEF ProfileSpec, DayKeptUntilClosed

-----------------------------------------------------------------------------
(* The commands implement FiscalLedger, short of a mishap.                 *)

\* No command but a submit gives out a hash or writes a marker.
LEMMA NextProfileHash == ProfileTypeInv /\ HashInv /\ [ProfileNext]_allVars => HashInv'
<1> SUFFICES ASSUME ProfileTypeInv, HashInv, [ProfileNext]_allVars
             PROVE  HashInv'
  OBVIOUS
<1>0. TypeInv
  BY DEF ProfileTypeInv
<1>1. CASE [Next]_vars
  BY <1>0, <1>1, NextHash
<1>2. CASE UNCHANGED <<signed, pending>>
  BY <1>2 DEF HashInv
<1>3. CASE \/ \E force \in BOOLEAN : RegisterCommand(force) \/ RegisterTool(force)
           \/ DayOpenCommand \/ OpenFiscalDayTool
           \/ SubmitCommand \/ SubmitReceiptTool
           \/ DayCloseCommand \/ CloseFiscalDayTool
  BY <1>1, <1>3 DEF RegisterTool, RegisterCommand, DayOpenCommand, OpenFiscalDayTool, SubmitCommand,
                    SubmitReceiptTool, DayCloseCommand, CloseFiscalDayTool, StartCommand
<1>4. CASE FdmsRegisters \/ WriteProfile \/ LoadStep \/ RestoreStep \/ Declined
           \/ CloseFromServerCounters \/ AlreadyClosed \/ Exit \/ NotReached
  BY <1>2, <1>4 DEF FdmsRegisters, WriteProfile, LoadStep, RestoreStep, Declined, CloseFromServerCounters,
                    AlreadyClosed, Exit, NotReached, vars, storageVars, worldVars
<1>5. CASE ReconcileStep
  BY <1>1, <1>2, <1>5 DEF ReconcileStep, Reconcile, Next, storageVars, worldVars
<1>6. CASE Act \/ DeviceGoesOn \/ DeviceThrows \/ CommandDies
  BY <1>1, <1>6 DEF Act, DeviceGoesOn, DeviceThrows, CommandDies, Continue, Next
<1>7. CASE SaveStep \/ SaveTorn \/ PollDayClosed \/ RegisterCutShort \/ DeleteTornFile \/ PortalCloses
  BY <1>2, <1>7 DEF SaveStep, SaveTorn, PollDayClosed, RegisterCutShort, DeleteTornFile, PortalCloses,
                    vars, storageVars, worldVars
<1>8. CASE World \/ UNCHANGED allVars
  BY <1>1, <1>8 DEF World, Next, allVars
<1> QED
  BY <1>3, <1>4, <1>5, <1>6, <1>7, <1>8 DEF ProfileNext, CommandGoesOn

LEMMA NextProfileLedger ==
  ProfileTypeInv /\ ProfileOrderInv /\ HashInv /\ Punctual /\ [ProfileNext]_allVars =>
    (Undisturbed' => [Ledger!Next]_Ledger!vars)
<1> SUFFICES ASSUME ProfileTypeInv, ProfileOrderInv, HashInv, Punctual, [ProfileNext]_allVars, Undisturbed'
             PROVE  Ledger!Next \/ UNCHANGED Ledger!vars
  OBVIOUS
<1>1. ProfileFits
  BY MishapsStay DEF Undisturbed, ProfileOrderInv
<1>2. /\ TypeOK /\ BookInv /\ DayInv /\ PendingInv /\ DeviceInv /\ StepInv /\ CommandFits
      /\ Len(receipts) \in Nat
  BY <1>1, ProfileStepTypes
<1>3. CASE \/ \E force \in BOOLEAN : RegisterCommand(force) \/ RegisterTool(force)
           \/ DayOpenCommand \/ OpenFiscalDayTool
           \/ SubmitCommand \/ SubmitReceiptTool
           \/ DayCloseCommand \/ CloseFiscalDayTool
  BY <1>3, LedgerStutters
     DEF RegisterTool, RegisterCommand, DayOpenCommand, OpenFiscalDayTool, SubmitCommand,
         SubmitReceiptTool, DayCloseCommand, CloseFiscalDayTool, StartCommand, vars, fdmsVars, storageVars
<1>4. CASE FdmsRegisters \/ WriteProfile \/ LoadStep \/ RestoreStep \/ Declined
           \/ CloseFromServerCounters \/ AlreadyClosed \/ Exit \/ NotReached
  BY <1>4, LedgerStutters
     DEF FdmsRegisters, WriteProfile, LoadStep, RestoreStep, Declined, CloseFromServerCounters,
         AlreadyClosed, Exit, NotReached, vars, fdmsVars, storageVars
<1>5. CASE ReconcileStep
  BY <1>5, LedgerStutters DEF ReconcileStep, ReconcileConfirmed, ReconcileResubmit, fdmsVars, storageVars
<1>6. CASE Act
  <2>1. CASE OpenDay \/ CloseDay
    BY <2>1, LedgerStutters DEF OpenDay, CloseDay, fdmsVars, storageVars
  <2>2. CASE SubmitReceipt
    <3>1. state # None => Fits(state)
      BY <1>1, <2>2, ProfileStepTypes DEF SubmitReceipt, NoPending
    <3> QED
      BY <1>2, <2>2, <3>1, LedgerSigns
  <2> QED
    BY <1>6, <2>1, <2>2 DEF Act
<1>7. CASE DeviceGoesOn
  <2>1. CASE SubmitAnswered \/ SaveDayState \/ OpenAnswered \/ CloseAnswered \/ DayCallRefused
    BY <2>1, LedgerStutters
       DEF SubmitAnswered, SaveDayState, OpenAnswered, CloseAnswered, DayCallRefused, fdmsVars, storageVars
  <2>2. CASE SaveLastGlobal
    <3>1. Fits(state) /\ (pending # None => Entered(pending))
      BY <1>2, <2>2 DEF SaveLastGlobal, DeviceInv
    <3>2. lastGlobal <= Len(receipts) /\ (pending = None => lastGlobal = Len(receipts))
      BY <1>2, <3>1 DEF DayInv, PendingInv
    <3> QED
      BY <1>2, <2>2, <3>1, <3>2, LedgerNotes
  <2>3. CASE SubmitRefused \/ ClearPending
    <3>1. lastGlobal = Len(receipts)
      BY <1>2, <2>3, NotBoth DEF SubmitRefused, ClearPending, DeviceInv, PendingInv
    <3> QED
      BY <1>2, <2>3, <3>1, LedgerResolves
  <2> QED
    BY <1>7, <2>1, <2>2, <2>3 DEF DeviceGoesOn
<1>8. CASE SaveStep
  \* What is saved once more is what is stored already.
  <2>1. pc = "idle" /\ pending = None /\ state # None
    BY <1>2, <1>8 DEF SaveStep, CommandFits, DeviceRuns, StepInv
  <2>2. state.receiptGlobalNo = Len(receipts) /\ lastGlobal = Len(receipts)
    BY <1>1, <1>2, <2>1, ProfileStepTypes DEF Fits, DayInv
  <2>3. UNCHANGED <<receipts, dayStart, pending, lastGlobal>>
    BY <1>8, <2>2 DEF SaveStep, SaveLastGlobalNo, fdmsVars
  <2> QED
    BY <2>3, LedgerStutters
<1>9. CASE SaveTorn \/ PollDayClosed \/ RegisterCutShort \/ DeleteTornFile \/ PortalCloses
  BY <1>9, LedgerStutters
     DEF SaveTorn, PollDayClosed, RegisterCutShort, DeleteTornFile, PortalCloses, vars, fdmsVars, storageVars
<1>10. CASE DeviceThrows \/ CommandDies
  BY <1>10, LedgerStutters
     DEF DeviceThrows, CommandDies, OutcomeUnknown, StorageFails, Crash, fdmsVars, storageVars
<1>11. CASE World
  <2>1. CASE FdmsAnswers
    <3>1. CallsFit
      BY <1>2 DEF DeviceInv, CloseFits, CallsFit, TypeOK, Places
    <3> QED
      BY <1>2, <2>1, <3>1, LedgerTakes
  <2>2. CASE FdmsRefuses \/ DaySettles \/ Tick
    BY <2>2, LedgerStutters DEF FdmsRefuses, DaySettles, SettleClose, Tick, fdmsVars, storageVars
  <2> QED
    BY <1>11, <2>1, <2>2 DEF World
<1>12. CASE UNCHANGED allVars
  BY <1>12, LedgerStutters DEF allVars, vars, fdmsVars, storageVars
<1> QED
  BY <1>3, <1>4, <1>5, <1>6, <1>7, <1>8, <1>9, <1>10, <1>11, <1>12 DEF ProfileNext, CommandGoesOn

\* Commands that share nothing but the files, run, cut short and run again in
\* any order, are the gapless ledger short of a mishap: a signed receipt enters
\* FDMS's record at most once and in turn, one at a time is unresolved, and its
\* marker goes only when the stored highest number is FDMS's own.
THEOREM CommandsAreTheLedger ==
  ASSUME Punctual
  PROVE  ProfileSpec => CommandsImplementLedger
<1> DEFINE LedgerStep == Undisturbed' => [Ledger!Next]_Ledger!vars
<1>1. ProfileTypeInv /\ ProfileOrderInv /\ HashInv /\ [ProfileNext]_allVars => [LedgerStep]_allVars
  BY NextProfileLedger
<1>2. ProfileTypeInv /\ HashInv /\ [ProfileNext]_allVars => HashInv'
  BY NextProfileHash
<1>3. ProfileInit => Ledger!Init /\ HashInv
  BY InitLedger, InitHash DEF ProfileInit
<1> QED
  BY <1>1, <1>2, <1>3, ProfileTypeInvariance, ProfileOrderInvariance, PTL
     DEF ProfileSpec, CommandsImplementLedger

=============================================================================
