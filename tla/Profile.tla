-------------------------------- MODULE Profile --------------------------------
(***************************************************************************)
(* The CLI (src/src/node/cli.ts) and the MCP server (src/src/node/mcp.ts)  *)
(* over one profile directory (src/src/node/profile.ts).  Every command    *)
(* and every tool call is a fresh FiscalDevice whose Storage is the        *)
(* directory: it loads the day, reconciles, restores, acts and saves, and  *)
(* nothing but the files survives it.  Commands run one at a time.         *)
(*                                                                         *)
(* The directory holds the device's own three keys, where day-state.json   *)
(* is KEY_DAY_STATE and is also written by the commands, in place; and     *)
(* device.json, the certificate and the private key, written by            *)
(* registering.  Commands that only read (status, ping, config, the sample *)
(* receipt) change nothing and are left out.                               *)
(***************************************************************************)
EXTENDS FiscalDevice

VARIABLES
  command,      \* the command or tool call in progress
  step,         \* where it is
  local,        \* the day state it loaded and has not restored yet
  torn,         \* day-state.json is half-written
  registered,   \* device.json is there
  certificate,  \* device-certificate.pem
  privateKey,   \* device-private-key.pem
  mishaps       \* which of Mishaps have happened; not part of the program

commandVars == <<command, step, local>>
fileVars    == <<torn, registered, certificate, privateKey>>
profileVars == <<commandVars, fileVars, mishaps>>
allVars     == <<vars, profileVars>>

\* The CLI and the MCP server close a day in different orders; the other
\* commands are the same in both.
Commands == {"none", "open", "submit", "cliClose", "mcpClose", "register"}

\* A device call is under way in "settling" (reconcile()) and in "acting"
\* (what the command is for).
Steps ==
  {"exit", "reconcile", "settling", "load", "restore", "status", "act", "acting", "save", "poll",
   "issue", "device", "certificate", "key"}

\* "stale": of an earlier registration than FDMS's last.
Pems == {"absent", "stale", "current"}

\* "restoredStale": a command restored the day it had loaded before its own
\* reconcile() settled a submit.
\* "openedOver": OpenDay took effect at FDMS and its answer was not stored,
\* over the file of an earlier day.
Mishaps == {"restoredStale", "openedOver"}

ProfileTypeOK ==
  /\ TypeOK
  /\ command \in Commands
  /\ step \in Steps
  /\ local \in DayState \cup {None}
  /\ torn \in BOOLEAN /\ registered \in BOOLEAN
  /\ certificate \in Pems /\ privateKey \in Pems
  /\ mishaps \subseteq Mishaps

ProfileInit ==
  /\ Init
  /\ command = "none" /\ step = "exit" /\ local = None
  /\ torn = FALSE /\ registered = FALSE
  /\ certificate = "absent" /\ privateKey = "absent"
  /\ mishaps = {}

-----------------------------------------------------------------------------
(* Registering.                                                            *)

Idle == command = "none" /\ pc = "idle"

MayRegister(force) == certificate = "absent" \/ force

\* An existing certificate stops it unless forced.
RegisterCommand(force) ==
  /\ Idle /\ MayRegister(force)
  /\ command' = "register" /\ step' = "issue"
  /\ UNCHANGED <<vars, local, fileVars, mishaps>>

RegisterTool(force) == RegisterCommand(force)

Outdated(pem) == IF pem = "absent" THEN "absent" ELSE "stale"

\* FDMS issues a certificate, which invalidates the one before.
FdmsRegisters ==
  /\ step = "issue"
  /\ certificate' = Outdated(certificate)
  /\ privateKey' = Outdated(privateKey)
  /\ step' = "device"
  /\ UNCHANGED <<vars, command, local, torn, registered, mishaps>>

\* Mutation of WriteProfile: a private key that is there is kept.
WriteProfileKeepingKey ==
  /\ \/ /\ step = "device" /\ registered' = TRUE /\ step' = "certificate"
        /\ UNCHANGED <<certificate, privateKey>>
     \/ /\ step = "certificate" /\ certificate' = "current" /\ step' = "key"
        /\ UNCHANGED <<registered, privateKey>>
     \/ /\ step = "key" /\ step' = "exit"
        /\ privateKey' = IF privateKey = "absent" THEN "current" ELSE privateKey
        /\ UNCHANGED <<registered, certificate>>
  /\ UNCHANGED <<vars, command, local, torn, mishaps>>

\* writeProfile(): three files, one after another.
WriteProfile ==
  /\ \/ /\ step = "device" /\ registered' = TRUE /\ step' = "certificate"
        /\ UNCHANGED <<certificate, privateKey>>
     \/ /\ step = "certificate" /\ certificate' = "current" /\ step' = "key"
        /\ UNCHANGED <<registered, privateKey>>
     \/ /\ step = "key" /\ privateKey' = "current" /\ step' = "exit"
        /\ UNCHANGED <<registered, certificate>>
  /\ UNCHANGED <<vars, command, local, torn, mishaps>>

\* The process dies, or RegisterDevice or a write fails.
RegisterCutShort ==
  /\ command = "register" /\ step # "exit"
  /\ faults < MaxFaults
  /\ faults' = faults + 1
  /\ step' = "exit"
  /\ UNCHANGED <<fdmsVars, state, pc, reported, storageVars, wireVars, now, signed,
                 command, local, fileVars, mishaps>>

\* loadProfile() finds every file.
ProfileLoads == registered /\ certificate # "absent" /\ privateKey # "absent"

\* FDMS lets the profile in.
Admitted == certificate = "current" /\ privateKey = "current"

-----------------------------------------------------------------------------
(* The commands, from their start to the device call they are for.         *)

\* A half-written day-state.json makes each of them throw before it does
\* anything.
StartCommand(name, first) ==
  /\ Idle /\ ProfileLoads /\ ~torn
  /\ command' = name
  /\ step' = first
  /\ UNCHANGED <<vars, fileVars, mishaps>>

DayOpenCommand == StartCommand("open", "reconcile") /\ UNCHANGED local

OpenFiscalDayTool == StartCommand("open", "reconcile") /\ UNCHANGED local

\* The day is loaded before anything else; there has to be one.
SubmitCommand ==
  /\ dayState # None
  /\ local' = dayState
  /\ StartCommand("submit", "reconcile")

SubmitReceiptTool ==
  /\ dayState # None
  /\ local' = dayState
  /\ StartCommand("submit", "reconcile")

\* Reconciles, then loads the day.
DayCloseCommand == StartCommand("cliClose", "reconcile") /\ UNCHANGED local

\* Loads the day, and reconciles if there is one.
CloseFiscalDayTool ==
  /\ local' = dayState
  /\ StartCommand("mcpClose", IF dayState = None THEN "status" ELSE "reconcile")

AfterReconcile ==
  IF command = "open" THEN "act" ELSE IF command = "cliClose" THEN "load" ELSE "restore"

ReconcileStep ==
  /\ step = "reconcile" /\ pc = "idle"
  /\ \/ /\ pending = None
        /\ state' = LoadedState
        /\ step' = AfterReconcile
        /\ UNCHANGED <<fdmsVars, pc, reported, storageVars, wireVars, worldVars>>
     \/ /\ Admitted
        /\ ReconcileConfirmed \/ ReconcileResubmit
        /\ step' = "settling"
  /\ UNCHANGED <<command, local, fileVars, mishaps>>

\* Mutation of LoadStep: without a day in the profile there is nothing to close.
LoadStepOrNothing ==
  /\ step = "load"
  /\ state' = dayState
  /\ step' = IF dayState = None THEN "exit" ELSE "act"
  /\ UNCHANGED <<fdmsVars, pc, reported, storageVars, wireVars, worldVars,
                 command, local, fileVars, mishaps>>

\* loadDayState() and restoreState() of `day close`.
LoadStep ==
  /\ step = "load"
  /\ state' = dayState
  /\ step' = IF dayState = None THEN "status" ELSE "act"
  /\ UNCHANGED <<fdmsVars, pc, reported, storageVars, wireVars, worldVars,
                 command, local, fileVars, mishaps>>

\* restoreState() of what was loaded first.
RestoreStep ==
  /\ step = "restore"
  /\ state' = local
  /\ local' = None
  /\ step' = "act"
  /\ mishaps' = IF local = state THEN mishaps ELSE mishaps \cup {"restoredStale"}
  /\ UNCHANGED <<fdmsVars, pc, reported, storageVars, wireVars, worldVars, command, fileVars>>

Act ==
  /\ step = "act" /\ Admitted
  /\ \/ command = "open" /\ OpenDay
     \/ command = "submit" /\ SubmitReceipt
     \/ command \in {"cliClose", "mcpClose"} /\ CloseDay
  /\ step' = "acting"
  /\ UNCHANGED <<command, local, fileVars, mishaps>>

\* The day is closed, the bound on days is not reached and the clock is past
\* the last receipt.
MayOpen ==
  status = "FiscalDayClosed" /\ fiscalDayNo < MaxDays /\ (ClockMayLag \/ ClockPassed)

\* A receipt that does not validate, a day that is not closed when it is to be
\* opened, one known to hold a Red receipt when it is to be closed.
Declined ==
  /\ step = "act" /\ pc = "idle"
  /\ \/ command = "submit"
     \/ command = "open" /\ ~MayOpen
     \/ command \in {"cliClose", "mcpClose"} /\ ~MayClose(state)
  /\ step' = "exit"
  /\ UNCHANGED <<vars, command, local, fileVars, mishaps>>

-----------------------------------------------------------------------------
(* closeFromServerCounters(): no day in the profile.                       *)

\* Mutation of ServerCloseBody: the counter is the device's highest number.
ServerCloseBodyGlobal(counted, dated) ==
  [endpoint |-> "CloseDay", fiscalDayNo |-> fiscalDayNo,
   counter |-> LastReceiptGlobalNo, total |-> IF dated THEN dayTotal ELSE dayTotal + 1]

\* What GetStatus reports, signed as it is.  `counted`: it reports quantities of
\* documents, which "per spec" are "only present when the day is closed with
\* Manual reconciliation"; without them the counter is 0.  `dated`: the date,
\* given with --date or today's, is the one the day was opened on; a signature
\* over another date fails as one over other counters does.
ServerCloseBody(counted, dated) ==
  [endpoint |-> "CloseDay", fiscalDayNo |-> fiscalDayNo,
   counter |-> IF counted THEN DayReceiptCount ELSE 0,
   total |-> IF dated THEN dayTotal ELSE dayTotal + 1]

\* Lacking one of them is a fault.
CloseFromServerCounters ==
  /\ step = "status" /\ Admitted
  /\ status # "FiscalDayClosed"
  /\ \E counted, dated \in BOOLEAN :
       /\ sent' = ServerCloseBody(counted, dated)
       /\ \/ counted /\ dated /\ UNCHANGED faults
          \/ ~(counted /\ dated) /\ faults < MaxFaults /\ faults' = faults + 1
  /\ pc' = "close"
  /\ step' = "acting"
  /\ UNCHANGED <<fdmsVars, state, reported, storageVars, answer, late, now, signed,
                 command, local, fileVars, mishaps>>

AlreadyClosed ==
  /\ step = "status" /\ Admitted
  /\ status = "FiscalDayClosed"
  /\ step' = "exit"
  /\ UNCHANGED <<vars, command, local, fileVars, mishaps>>

-----------------------------------------------------------------------------
(* How the device's calls end, and what the commands do after them.        *)

\* FDMS's day is not the one in the file.
OpensOver == command = "open" /\ dayState # None /\ dayState.fiscalDayNo # fiscalDayNo

NoteOpensOver == mishaps' = IF OpensOver THEN mishaps \cup {"openedOver"} ELSE mishaps

DeviceGoesOn ==
  /\ \/ (SubmitAnswered \/ OpenAnswered \/ SaveDayState) /\ UNCHANGED step
     \/ SaveLastGlobal /\ step' = IF pending = None THEN "save" ELSE step
     \/ CloseAnswered /\ step' = "poll"
     \/ DayCallRefused /\ step' = "exit"
     \/ ClearPending /\ step' = IF step = "settling" THEN AfterReconcile ELSE "save"
     \/ SubmitRefused /\ step' = IF step = "settling" THEN AfterReconcile ELSE "exit"
  /\ UNCHANGED <<command, local, fileVars, mishaps>>

DeviceThrows ==
  /\ OutcomeUnknown \/ StorageFails
  /\ step' = "exit"
  /\ NoteOpensOver
  /\ UNCHANGED <<command, local, fileVars>>

\* GetStatus or GetConfig is not answered: by a lost connection, or because
\* the certificate is not FDMS's last or the key is not the certificate's.
NotReached ==
  /\ pc = "idle" /\ command # "register"
  /\ step = "reconcile" => pending # None
  /\ step \in {"reconcile", "act", "status", "poll"}
  /\ \/ ~Admitted /\ UNCHANGED faults
     \/ faults < MaxFaults /\ faults' = faults + 1
  /\ step' = "exit"
  /\ UNCHANGED <<fdmsVars, state, pc, reported, storageVars, wireVars, now, signed,
                 command, local, fileVars, mishaps>>

\* Mutation of SaveStep: the counters are left out of the file.
SaveStepUncounted ==
  /\ step = "save"
  /\ dayState' = [state EXCEPT !.counters = 0]
  /\ step' = "exit"
  /\ UNCHANGED <<fdmsVars, state, pc, reported, pending, lastGlobal, wireVars, worldVars,
                 command, local, fileVars, mishaps>>

\* saveLastGlobalNo(): the profile's highest number only rises.
SaveLastGlobalNo(n) == lastGlobal' = IF n <= lastGlobal THEN lastGlobal ELSE n

\* saveDayState(): what the device has stored already, once more.
SaveStep ==
  /\ step = "save"
  /\ dayState' = state
  /\ SaveLastGlobalNo(state.receiptGlobalNo)
  /\ step' = "exit"
  /\ UNCHANGED <<fdmsVars, state, pc, reported, pending, wireVars, worldVars,
                 command, local, fileVars, mishaps>>

\* The process dies in the middle of that write.
SaveTorn ==
  /\ step = "save"
  /\ faults < MaxFaults
  /\ faults' = faults + 1
  /\ dayState' = None /\ torn' = TRUE
  /\ step' = "exit"
  /\ UNCHANGED <<fdmsVars, state, pc, reported, pending, lastGlobal, wireVars, now, signed,
                 command, local, registered, certificate, privateKey, mishaps>>

\* Mutation of PollDayClosed: any outcome clears the file.
PollDayClosedAnyhow ==
  /\ step = "poll" /\ Admitted
  /\ dayState' = None
  /\ step' = "exit"
  /\ UNCHANGED <<fdmsVars, state, pc, reported, pending, lastGlobal, wireVars, worldVars,
                 command, local, fileVars, mishaps>>

\* Either a poll finds the day closed, and the file goes, or the last one does
\* not, and it stays for a retry.
PollDayClosed ==
  /\ step = "poll" /\ Admitted
  /\ dayState' = IF status = "FiscalDayClosed" THEN None ELSE dayState
  /\ step' = "exit"
  /\ UNCHANGED <<fdmsVars, state, pc, reported, pending, lastGlobal, wireVars, worldVars,
                 command, local, fileVars, mishaps>>

\* The process ends and its memory with it.
Exit ==
  /\ step = "exit" /\ command # "none"
  /\ command' = "none" /\ state' = None /\ local' = None
  /\ UNCHANGED <<fdmsVars, pc, reported, storageVars, wireVars, worldVars, step, fileVars, mishaps>>

CommandDies ==
  /\ Crash
  /\ command' = "none" /\ step' = "exit" /\ local' = None
  /\ NoteOpensOver
  /\ UNCHANGED fileVars

-----------------------------------------------------------------------------
(* FDMS, ZIMRA and the user.                                               *)

\* "Delete the stale file to continue", for a file nothing can read.
DeleteTornFile ==
  /\ torn /\ Idle
  /\ torn' = FALSE
  /\ UNCHANGED <<vars, commandVars, registered, certificate, privateKey, mishaps>>

\* ZIMRA closes a day the device cannot close.
PortalCloses ==
  /\ status = "FiscalDayOpened" /\ DayHasRed
  /\ status' = "FiscalDayClosed"
  /\ UNCHANGED <<fiscalDayNo, receipts, dayStart, dayTotal, closingErrorCode, state, pc, reported,
                 storageVars, wireVars, worldVars, profileVars>>

World ==
  /\ FdmsAnswers \/ FdmsRefuses \/ DaySettles \/ Tick
  /\ UNCHANGED profileVars

-----------------------------------------------------------------------------
CommandGoesOn ==
  \/ FdmsRegisters \/ WriteProfile
  \/ ReconcileStep \/ LoadStep \/ RestoreStep \/ Act \/ Declined
  \/ CloseFromServerCounters \/ AlreadyClosed
  \/ DeviceGoesOn \/ SaveStep \/ PollDayClosed \/ Exit
  \/ NotReached

ProfileNext ==
  \/ \E force \in BOOLEAN : RegisterCommand(force) \/ RegisterTool(force)
  \/ DayOpenCommand \/ OpenFiscalDayTool
  \/ SubmitCommand \/ SubmitReceiptTool
  \/ DayCloseCommand \/ CloseFiscalDayTool
  \/ CommandGoesOn
  \/ RegisterCutShort \/ DeviceThrows \/ SaveTorn \/ CommandDies
  \/ DeleteTornFile \/ PortalCloses
  \/ World

ProfileSpec == ProfileInit /\ [][ProfileNext]_allVars

\* Commands run to their end, FDMS answers and settles, and whoever runs the
\* device comes back to `day close` while a day is open, to `register --force`
\* while the files do not let it in, and to the portal for a Red day.
FairProfileSpec ==
  /\ ProfileSpec
  /\ WF_allVars(CommandGoesOn)
  /\ WF_allVars(World /\ FdmsAnswers) /\ WF_allVars(World /\ DaySettles)
  /\ SF_allVars(PortalCloses) /\ SF_allVars(DeleteTornFile)
  /\ SF_allVars(DayCloseCommand /\ status = "FiscalDayOpened")
  /\ SF_allVars(RegisterCommand(TRUE) /\ ~(ProfileLoads /\ Admitted))

-----------------------------------------------------------------------------
(* Properties.                                                             *)

Undisturbed == mishaps = {}

\* Commands that each start from the files alone number, chain and date the
\* receipts as one long-lived device would, whichever of them fail or die and
\* whichever front end runs them - short of a mishap.
CommandsKeepSequence == Undisturbed => NoSequencingRed

\* Between commands, with no submit unresolved, the day in the profile is
\* FDMS's: also after a close that bounced, timed out or was done by ZIMRA.
ProfileInStep ==
  Undisturbed /\ command = "none" /\ pending = None /\ dayState # None => Agrees(dayState)

\* The closes of FDMS's day that may lack the receipt count, the date or both.
BlindCloses ==
  [endpoint : {"CloseDay"}, fiscalDayNo : {fiscalDayNo}, counter : {0, DayReceiptCount},
   total : {dayTotal, dayTotal + 1}]

\* No close bounces for its counters, be they the profile's or the server's, but
\* one that had no day to go by and lacked the receipt count or the date.
ServerCountersMatch ==
  [][Undisturbed
       /\ status = "FiscalDayOpened" /\ status' = "FiscalDayCloseInitiated"
       /\ closingErrorCode' \in {"BadCertificateSignature", "CountersMismatch"} =>
     dayState = None /\ sent \in BlindCloses]_allVars

\* The day in the profile is given up only once FDMS has closed it, however
\* the polls go: "local state is kept until FDMS confirms the close".
DayKeptUntilClosed ==
  [][dayState # None /\ dayState' = None /\ ~torn' => status = "FiscalDayClosed"]_allVars

\* Whatever sequence of commands is run, cut short and run again over the files
\* alone, short of a mishap each step is a step of the gapless ledger or none of
\* its business: a signed receipt enters FDMS's record at most once and in turn,
\* and a marker goes only when the stored highest number is FDMS's own.
CommandsImplementLedger ==
  Ledger!Init /\ [][Undisturbed' => [Ledger!Next]_Ledger!vars]_allVars

\* Every day FDMS has open is closed in the end by coming back to `day close`,
\* once faults stop: with the profile's day; without it, after OpenDay's answer
\* was lost or the file was torn, given the date the day was opened on and a
\* server that reports the quantities; by ZIMRA when it holds a Red receipt.
\* Only the file of an earlier day stands in the way.
DayIsClosed ==
  status # "FiscalDayClosed" ~> status = "FiscalDayClosed" \/ "openedOver" \in mishaps

\* However a registration is cut short, registering again with --force leads
\* to a profile that loads and that FDMS lets in.
ProfileIsRepaired == ~(ProfileLoads /\ Admitted) ~> ProfileLoads /\ Admitted

=============================================================================
