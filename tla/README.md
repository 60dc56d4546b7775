# A verification development of zimra-fdms

zimra-fdms is a client for ZIMRA's Fiscal Device Management System (FDMS). A
point of sale registers as a fiscal device, opens a fiscal day, submits signed
receipts that are numbered without gaps and chained by hash, and closes the day
with a signature over counters it accumulated itself. One misnumbered,
unchained or misdated receipt (a *Red* validation error) and the device can no
longer close its day. The specifications here say what keeps that from
happening when processes die, writes fail and answers get lost.

## The system

| Component | State | Operations | Correct when |
|---|---|---|---|
| **FiscalDevice** `src/src/core/device.ts` | in memory the day state (numbers, previous hash and date, counters, Red errors); in a Storage three keys: day state, pending marker, highest number | `openDay`, `submitReceipt` (= `signReceipt` + `submitPrepared`), `closeDay`, `reconcile`, `clearPersistedState`; for the queue `applyPrepared`, `discardPending`; for the CLI `restoreState` | every receipt follows the last one FDMS recorded; a marker is settled exactly once; the counters signed at the close are FDMS's |
| **FDMS**, after the local simulator `src/src/simulator/server.ts` | the device's status, days, receipts with their validation errors, counters, closing error | `OpenDay`, `SubmitReceipt`, `CloseDay` (accepted now, settled later), `GetStatus` | records everything, colours what is wrong, closes only clean days with matching counters |
| **Transport / FdmsClient** `core/transport.ts`, `node/transport.ts`, `core/fetch-transport.ts` | none | one HTTP call: an answer, a refusal, or an unknown outcome (`isOutcomeUnknown`); GETs and Ping are retried | an unknown outcome is never taken for a refusal |
| **Storage** `core/storage.ts`, `node/storage.ts` | a key-value map | `get`, `set`, `delete`, atomic per key | a reader never sees half a value |
| **ServerCorrectedClock** `core/clock.ts` | offset, samples | `learn`, `now` | receipt dates follow server time |
| **OfflineReceiptQueue** `core/queue.ts` | pending list, journal | `enqueue`, `submitOrEnqueue`, `flush`, `ensureLoaded` | FIFO, every journaled receipt recorded once, chain kept while offline |
| **Journal / FileJournal** `core/journal.ts`, `node/storage.ts` | records, commit cursor | `append`, `readFrom`, `commit`, `committed`, `compact`, `replace` | nothing uncommitted is lost, nothing committed comes back except after a crash |
| **Profile, CLI, MCP server** `node/profile.ts`, `node/cli.ts`, `node/mcp.ts` | a profile directory shared by successive (and concurrent) processes | `register`, `day open`, `submit`, `day close`, the stateless close from server counters, `pollDayClosed` | each process goes on where the last one stopped |
| **Taxes and counters** `core/device.ts`, `core/signing.ts` | the day's counters | `buildReceiptTaxes`, `lineTaxCents`, `accumulateCounters`, `mergeCurrencyCase` | exact cents, one rounding per line, one counter per key |
| **Signing strings, QR, money** `core/signing.ts`, `core/qr.ts`, `core/money.ts` | none | canonical strings, decimal text to cents | byte-for-byte what FDMS recomputes |
| **Crypto and encodings** `core/signer.ts`, `csr.ts`, `asn1.ts`, `bytes.ts`, `sha256.ts`, `md5.ts`, `node/pem-signer.ts`, `node/keys.ts` | none | digests, DER, CSR | published test vectors |
| **Registration** `core/registration.ts`, `node/registration.ts` | none | one request that returns a certificate | - |
| **Errors** `core/errors.ts`, `core/types.ts` | static tables | explanations | - |
| **Simulator CA and CLI** `simulator/ca.ts`, `simulator/cli.ts`, **conformance** `src/src/conformance`, **React Native** `packages/react-native`, scripts, docs, spec, vectors | - | adapters and tooling | - |

**Interaction.** The application (or the CLI, or an MCP tool) calls
`FiscalDevice`, one call after another; the device awaits its Storage and, through
`FdmsClient` and a Transport, FDMS. The queue sits between the application and
the device, shares the pending marker with it and adds a journal of its own. The
CLI and the MCP server start a fresh device per command on the files the last
command left. FDMS acts by itself in one place: a close settles some time after it
was accepted.

**What is hard.** Every `await` is a place where the process can die, a write can
fail, or an answer can be lost after FDMS acted; a request given up on can arrive
afterwards; `GetStatus` reports the number of the receipt with the latest *date*,
not the highest number; dates have a resolution of a second and must strictly
increase; a close can bounce back when memory has forgotten the day; the stored
day can belong to a day that is over. `PROJECT.json` lists these hazards at
their lines, with the properties that cover them and the ones still open.

## Modules

| Module | What it is |
|---|---|
| `Fdms` | FDMS as one device sees it: state, validation, endpoints, `GetStatus.lastReceiptGlobalNo` with its quirk, the asynchronous close |
| `FiscalDevice` | extends `Fdms`: the device, its storage, the connection, crashes, failing writes, time; all properties of the protocol |
| `FiscalLedger` | the abstract specification of the device on FDMS: a gapless, duplicate-free, hash-chained ledger with at most one unresolved entry |
| `OfflineQueue` | extends `FiscalDevice`: the queue, its journal and the application, sharing the marker and the day state with the device |
| `Profile` | extends `FiscalDevice`: commands and tool calls as fresh processes over one profile directory, registration, the stateless close, `pollDayClosed` |
| `JournalLog` | the abstract specification of a Journal: an ordered log that drops a record only after it was sent |
| `FileJournal` | the journal's two files, torn appends, `compact()` and crashes; implements `JournalLog` |
| `Money` | decimal text and JSON numbers to cents |
| `Receipts` | extends `Money`: validation of a receipt, its taxes and totals, what FDMS checks of them, the order of the CloseDay string |
| `FiscalCounters` | extends `Receipts`: the counters of a day, on the device and at FDMS, across an upgrade of the SDK |
| `MCFiscalDevice`, `MCOfflineQueue`, `MCProfile`, `MCFileJournal`, `MCFiscalCounters` + `*.cfg` | instances for TLC |
| `FiscalDevice_proofs` | types, and the theorem that needs nothing of the environment |
| `FiscalDevice_order` | the theorems for an orderly environment: sequence, agreement and Red receipts; the refinement of `FiscalLedger` |
| `OfflineQueue_proofs`, `OfflineQueue_order`, `OfflineQueue_kept` | the queue's types; the journal, the marker and the day together, short of a mishap; that the journal loses nothing, also when its head is settled outside it |
| `Profile_proofs` | the profile's types, what the commands promise short of a mishap, that the day is kept, and the refinement of `FiscalLedger` |
| `FileJournal_proofs` | the journal's theorems, up to the refinement of `JournalLog` |
| `FiscalCounters_proofs` | amounts, taxes and totals of receipts of any length; the counters of both sides over a day of any length |

### From code to model

Each action of `FiscalDevice` is the code between two suspension points that
matter - a storage write or an FDMS call - and `pc` is where the call in progress
waits:

| Code | Actions |
|---|---|
| `submitReceipt`: sign, write the marker, send | `SubmitReceipt` (`pc` = "submit") |
| the answer: `commitPrepared` to memory, or drop the marker on a refusal | `SubmitAnswered`, `SubmitRefused` |
| `persistState`, two keys; then the marker | `SaveDayState`, `SaveLastGlobal`, `ClearPending` |
| `reconcile` | `ReconcileNothing`, `ReconcileConfirmed`, `ReconcileResubmit` (whose answer is again `SubmitAnswered` or `SubmitRefused`) |
| `openDay` | `OpenDay`, `OpenAnswered`, then the two keys |
| `closeDay`, `clearPersistedState` | `CloseDay`, `CloseAnswered`, `ClearPersistedState` |
| a call's definite 4xx | FDMS refuses a receipt for what it says in `FdmsRefuses`, everything else in `FdmsAnswers`; the caller sees it in `SubmitRefused`, `DayCallRefused` |
| network failure, timeout, 5xx, 408, 429 | `OutcomeUnknown` |
| a `Storage.set` or `delete` that throws | `StorageFails` |
| the process dies, the next starts | `Crash` |
| the simulator's handlers and its close timer | `FdmsAnswers`, `DaySettles` |
| a request FDMS gets after the caller gave up | `LateArrives` |
| seconds pass | `Tick` |

`GetStatus` is read inside the action that acts on it, except in `openDay`, where
the number read before the `OpenDay` request is used after it and is kept in
`reported`. `SubmitReceipt` writes the marker and sends in one step: dying between
the two looks, to everything that follows, like a request that was lost.

The other modules follow the same rule - an action is the code between two
suspension points, and a variable says where the call waits:

| Code | Actions |
|---|---|
| queue: `enqueue`, `submitOrEnqueue`, `flush` begin with `ensureLoaded` | `Enqueue`, `SubmitOrEnqueue`, `Flush` (each `Begin`, which reads the journal and, when there is a day in memory, catches up in memory), `UpgradeEntry`, `EntryUpgraded` |
| `take`: append, apply, then the list | `TakeSigned`, or `EnqueueRefused` behind unsigned entries or without a day; `TakeUnanswered` (append), `SaveDayState`/`SaveLastGlobal` within `DeviceGoesOn` (apply), `Taken` |
| `flush`'s loop: `submitOne`, then `commit` | `SubmitHead` or `SettleHead` or `HeadBlocked`, the device's own actions, `DeviceDone`, `CommitHead`, `FlushReturns`; failures in `NoOutcome`, `DeviceRefused`, `DeviceStorageFails`, `JournalFails` |
| the 0.3.x wrapper `journalFromQueueStorage`, whose list changes before its save can fail | `ListChanged` within `JournalFails` |
| journal: `append`, `commit`, `compact` | `AppendRecord` or, cut short, `AppendDies`; `CommitHead`; `CompactLog` then `CompactCursor` |
| a CLI command or MCP tool | `DayOpenCommand`, `OpenFiscalDayTool`, ...; then `ReconcileStep`, `LoadStep`, `RestoreStep`, `Act`, the device's own actions, `SaveStep` (`saveDayState` in place; cut short, `SaveTorn`), `PollDayClosed`, `Exit` |
| `closeFromServerCounters` | `CloseFromServerCounters` (`ServerCloseBody(counted, dated)`), `AlreadyClosed` |
| `register`: the request, then three files | `RegisterCommand`, `RegisterTool`, `FdmsRegisters`, `WriteProfile` per file; cut short, `RegisterCutShort` |
| a file of `submit` | `ReceiptInputFromJson` (`MoneyFromJsonNumber` per amount), then `InCents` (`AmountToCents`) in `signReceipt` |
| `signReceipt` and the counters | `Accepts`, `BuildReceipt`, `AccumulateCounters`; a later version on a stored day is `Upgrade` |

### Abstractions

* A receipt's lines, taxes and payments are one amount, a day's counters their
  sum. The sum is wrong whenever one receipt is counted twice or not at all, which
  is what crash recovery can do to it. How lines become taxes and taxes counters is
  the subject of `Receipts` and `FiscalCounters`, which have no failures.
* A hash is a serial number: two different signings never share one, the identical
  receipt resubmitted keeps it. FDMS's signature check fails exactly when the
  receipt chains to a different predecessor than FDMS's.
* Dates are seconds; 0 is "no date yet".
* `RCPT013` stands for all Red errors of a receipt's contents. Yellow errors
  change nothing and are left out, so a validation error is a Red one.
* FDMS computes the closing verdict when it accepts `CloseDay` and applies it when
  the close settles; the model stores it in `closingErrorCode` at once.
* The simulator records every receipt of an open day. FDMS may also refuse one, again each
  time it is sent; `FdmsRefuses` is that, for any receipt FDMS does not hold. An OpenDay or CloseDay it
  refuses leaves the device where one that was lost on the way does.
* The stateless close signs what `GetStatus` reports. `types.ts:142` says the quantities of
  documents are there only after a Manual close, so the receipt count it sends may be 0; and
  its date is today's unless `--date` is given, which need not be the date the day was opened
  on. `ServerCloseBody(counted, dated)` has both, each lack counted as a fault: the person
  gives the date in the end and the server reports the quantities. A server that never
  does makes such a close bounce for ever (`server.ts:504`, `513-515`), and nothing in the code helps.
* A decimal is its digits and a power of ten. `moneyFromJsonNumber` accepts what
  is within 1e-9 of its text with two decimals (`money.ts:81`), so it signs 2.50 for 2.5000000001, though its comment
  (`money.ts:73`) says anything finer is refused; `IsNear` is that comparison, with the tolerance as
  `Precision`, 10^9 in the code and 10^4 in the run, as TLC's integers have 32 bits. Numerals right at the limit, where
  the rounding of a double decides, and those no double is near, are left out.
* A line's total is `Math.round` of a product of doubles, which can fall short of a half:
  100 * 1.005 is 100.49999999999999. `LineTotal` takes the pairs for which it does from `ShortTies`.
* The snapshot of 0.3.x, when its save fails, has a list in memory that is ahead of what is stored; the
  model follows that list, across a restart too (the mishap `savedHalf`).
* In `Receipts` amounts are cents, percents hundredths of a percent, quantities
  thousandths; a tax code or a currency is its rank in the order of code points, a
  currency also a letter case. Names, addresses and descriptions are left out.
* In `Profile` the simulator's certificate check admits any certificate it issued,
  FDMS only the last (`cli.ts:208` warns of it): `Admitted` follows the CLI's text.
* In `FileJournal` a torn append leaves part of a line or a whole line without its
  newline; which bytes, nobody can tell apart.
* One application calls one device instance, one call at a time. `openDay`'s
  optional arguments (an explicit day number, an extra lower bound for the
  numbering) are not given, and the Storage belongs to the device.

### Switches

Four constants say what the environment may do:

| Constant | TRUE means |
|---|---|
| `LateDelivery` | a request given up on may still reach FDMS afterwards |
| `KeepsOldDay` | a day may be opened while the state of the old one is still stored; FALSE: `clearPersistedState()` was called, as its comment asks |
| `ClockMayLag` | a day may open before the corrected clock has passed the last receipt's date (after future-dated receipts), and explicit dates may lie in the past; FALSE is the situation outside the caveat of `device.ts:288-292` |
| `ForceClose` | `closeDay({ force: true })`, which sends more closes, not fewer |

`FileJournal` has three more:

| Constant | TRUE means |
|---|---|
| `DiesInCompact` | the process may die between the two writes of `compact()` |
| `CompactsLive` | `compact()` may run while the queue holds entries |
| `AppendsToTail` | `append()` may follow one that was cut short |

With any of them TRUE the properties fail: `DiesInCompact` and `CompactsLive` break
`ImplementsJournalLog` and `ListMatchesLog` (records are skipped), `AppendsToTail` breaks
`Readable` (the log cannot be read any more). The code does append to a torn line
(`storage.ts:65`), so `Readable` does not say that a log never becomes corrupt, only that nothing else makes it so. `docs/HARDENING.md` lists the first and
the last as known; the run and the theorems say what the files keep without them.

### Mishaps

`OfflineQueue` and `Profile` keep every step the code can take, also those after which
it does not keep its promises. A history variable, `mishaps`, notes such an event when it
happens, and a property that needs it says which events it leaves out. Most properties of the two modules
speak of behaviours in which none has happened (`Undisturbed`): the mishaps are where the code stops keeping them.

| Mishap | What happened |
|---|---|
| `settledOutside` | a journaled receipt was settled in the marker but not in the journal, by the application's `reconcile()` or by a `flush()` cut short before its commit; it is sent twice (`docs/HARDENING.md`), but `NothingLost` still holds, as it does after no other mishap of the queue |
| `tookHalf` | a write of `take()` failed and the application went on |
| `closedBehind` | `closeDay()` when the stored day is behind the journal, or the journal holds unsigned entries (run `number_reused`) |
| `soldClosed` | a sale into a day whose close is under way; when the process dies in `take()` the next day reuses its number, as in `number_reused` |
| `soldOverMarker` | `enqueue()` signed the number of an unresolved submit (run `sold_over_marker`) |
| `soldUnstored` | a sale after `openDay()` threw while storing the day |
| `calledDayless` | a call of the queue with no day in memory, while receipts waited or before `reconcile()` had loaded the day: as after a `closeDay()` that dropped the day and then bounced. `flush()` then leaves memory and storage at the receipt it commits, behind those that still wait (`queue.ts:156`, `device.ts:662`), and a sale after a write that fails takes the number of one of them. No fault has to come before it |
| `savedHalf` | the save of a 0.3.x snapshot failed after its list in memory had changed (`queue.ts:42`, `51`, `59`) |
| `upgradeCutShort` | the signing of a 0.3.x snapshot stopped half-way with unsigned entries behind |
| `restoredStale` | a command restored the day it had loaded before its own `reconcile()` settled a submit (run `restored_over`) |
| `openedOver` | OpenDay took effect and its answer was not stored, over the file of an earlier day |

## Runs

| Run | Instance | Checks |
|---|---|---|
| `orderly` (`FiscalDevice.cfg`) | the first three switches FALSE; 3 receipts, 2 days, 3 seconds, 2 faults, dates up to one second ahead, a positive and a negative amount; ~829 000 states | `TypeOK`, `NoSequencingRed`, `InStep`, `NoCloseMismatch`, `IssuedIsDurable`, `RedIsTruthful`, and `ImplementsLedger` (refinement of `FiscalLedger`) |
| `unreliable` | all switches TRUE, with fairness; 2 receipts, 2 days, 2 seconds, 2 faults; ~228 000 states | `NoGap`, `PendingIsSettled` |
| `queue` (`OfflineQueue.cfg`) | 2 sales, 1 day, 2 faults, a snapshot of 0.3.x or none, with fairness; ~809 000 states | `QueueTypeOK`, `QueueKeepsSequence`, `QueueInStep`, `NothingLost`, `DayWaitsForQueue`, `QueueDrains` |
| `file_journal` | 5 appends, 3 crashes, the three switches FALSE | `TypeOK`, `ListMatchesLog`, `Readable`, `ImplementsJournalLog` (refinement of `JournalLog`) |
| `profile` | 2 receipts, 2 days, 2 seconds, 2 faults, with fairness; ~247 000 states | `ProfileTypeOK`, `CommandsKeepSequence`, `ProfileInStep`, `ServerCountersMatch`, `DayKeptUntilClosed`, `CommandsImplementLedger` (`FiscalLedger` again), `DayIsClosed`, `ProfileIsRepaired` |
| `receipts` (`FiscalCounters.cfg`) | every pair of 185 receipt files, the day begun under either version; ~60 000 states | `CountersTypeOK`, `SignedAsWritten`, `TaxIsExact`, `CreditsCancel`, `TotalsAddUp`, `CountersBalance`, `SignedAsFdmsCounts`, `OrderDoesNotMatter` |
| `lost_open_day` | `orderly` with fewer receipts | `Resumable` fails |
| `late_delivery` | `LateDelivery` only | `NoDuplicateNumber` fails |
| `unforced_close` | `ForceClose` FALSE | `RefusesRedUpFront` fails |
| `sold_over_marker` | `queue` without fairness | `UnresolvedNumberNotReused` fails |
| `restored_over` | `profile` with one day and one fault | `NoDuplicateNumber` fails |
| `number_reused` | `queue` with two days and one fault, without fairness | `JournaledNumberNotReused` fails |

**What the passing runs show.**

* *The device.* With an orderly environment - which still lets the
  process die, any write fail and any answer get lost at every point - FDMS never
  colours a receipt Red for its number, chain or date (`NoSequencingRed`); between
  calls, with nothing pending, memory and storage describe FDMS's day exactly
  (`InStep`), so no close bounces for the SDK's own arithmetic (`NoCloseMismatch`);
  the stored highest number is FDMS's (`IssuedIsDurable`); a day is refused up
  front only for a receipt FDMS did colour Red in it (`RedIsTruthful`); and the whole
  implements `FiscalLedger`. Without those assumptions the device may repeat a number,
  but it never skips one (`NoGap`), and a marker is always settled once the
  faults stop (`PendingIsSettled`).
* *The queue.* Short of a mishap, sales are recorded in the order of the journal and
  in sequence; the stored day plus the journal is FDMS's day plus what waits
  (`QueueInStep`), whichever of append, apply, marker and commit a crash falls
  between; the journal never counts as submitted what FDMS does not have
  (`NothingLost`, also when the head is settled outside the journal); a
  close over a journal that is not empty bounces (`DayWaitsForQueue`); and the journal drains
  (`QueueDrains`), unless the application goes on closing the day or FDMS goes on refusing the head: a
  rejected receipt blocks the queue for ever (`docs/HARDENING.md:89`, `test/crash.test.ts:435`).
* *The journal's files* keep the order and lose nothing unsent, and the
  positions the queue computes stay those of the file.
* *The profile.* Commands that share nothing but files behave like one device and, short of a
  mishap, are steps of the same `FiscalLedger` (`CommandsImplementLedger`); a close bounces for its counters only when it
  had no day to go by and lacked the receipt count or the date (`ServerCountersMatch`); the day
  in the profile goes only with FDMS's; once faults stop, every open day is closed in the end,
  also after `day-state.json` was torn or OpenDay's answer was lost, for which the stateless close must
  have the count and the date; a broken registration is repaired by registering again.
* *Receipts.* What is signed is what the file says, or differs from it by no more than
  `moneyFromJsonNumber` tolerates; every tax is within half
  a cent a line; a receipt that passes `signReceipt` passes FDMS's checks of
  its totals; sums by tax, by counter and by payment agree; a close signs what FDMS
  counted, in whatever order the receipts came and across an upgrade. Two percents under
  one tax ID are kept apart in a receipt's taxes but not in the counters
  (`device.ts:963`): then the percent that is signed depends on the order,
  which is why `OrderDoesNotMatter` asks for one percent per tax ID.

**What the violations show.** Each run finds the code doing something its
documentation says it does not; `PROJECT.json` quotes the lines.

* `lost_open_day`, four steps, no crash: `openDay()` stores nothing before the
  request. When the answer is lost, FDMS has an open day, the device has no state
  for it, `reconcile()` has nothing to settle and `openDay()` refuses because the
  day is open. Only the stateless close of the CLI gets out of it (`DayIsClosed`).
* `late_delivery`: a submit times out, `reconcile()` asks `GetStatus`, which does not
  know it, and resubmits; the first request arrives as well.
* `unforced_close`: a receipt FDMS coloured Red, whose answer was lost, is confirmed
  through `GetStatus`, which does not say the colour; `closeDay()` then does not
  refuse.
* `sold_over_marker`: a submit's answer is lost; `enqueue()` signs the next sale from the
  day as it was before, with the same number.
* `restored_over`: a submit's answer is lost and the process ends; the next `submit`
  command loads the day, its `reconcile()` records the receipt, the command
  restores the day it had loaded and issues the number again.
* `number_reused`: the process dies in `take()` between the append and the write of the day, so
  the stored number is behind the journal, and the next process catches up in memory only. Two
  things then drop that memory. When FDMS refuses the head and the day is closed before anything
  was stored, the close bounces; `reconcile()` loads the stored day, the queue is loaded and does
  not catch up again, and a sale in the same day takes the number of the one that waits. When the
  day is closed from the stored state, the close settles, and the next day starts from the
  stored number. A flush then sends both; when the answer for the second is lost, `GetStatus` may report its
  number because of the first, and the journal counts it as submitted though FDMS never
  had it. That is why `NothingLost` leaves `closedBehind` out.

Two switches have no run of their own. With `KeepsOldDay`, `NoSequencingRed` fails: the day is
opened over the stored state of the previous day, the answer to `OpenDay` is lost and the
process restarts; `reconcile()` loads the old day, and the next receipt continues the old
day's counter and chain in the new day. With `ClockMayLag`, the caveat in the comment of
`reconcile()` (a future-dated receipt makes `GetStatus` under-report), `NoDuplicateNumber`
fails as documented.

**Bounds.** `orderly`: three receipts over two days have a first receipt of a day, a
successor within the day and a first receipt of the next day, with the pending marker on
any of them; two faults have a crash during the recovery from a crash; three seconds have
two receipts in one second, a future-dated one, and a clock that has passed it. `queue`:
two sales have a head with one behind it and a sale that is queued while the head is
unresolved. One day is enough for what these need; that the journal
outlives the day is in `number_reused`. `profile`: two days have a file of
an earlier day under the new one, two faults a command that fails while it recovers
from another. `file_journal`: five records have some committed, some waiting
and some torn; three crashes have one during each of two recoveries. `receipts`: two
receipts are enough because counters are added to one at a time, and the 185 files cover
each rule on both of its sides. The faults are counted only when the environment does
something wrong, never for progress. The runs on the device, the queue, the journal and
the receipts switch deadlock checking off because the system may really stop: no
receipts to sell and the day closed, no more appends, a full day.

**Fairness.** `FairSpec` (`PendingIsSettled`): weak fairness of `FdmsAnswers` and
`DaySettles`: FDMS handles what reaches it and its timer fires. Of `Continue`: a promise
that has settled resumes its function. Of `Reconcile`: every CLI command, every MCP tool
call and, by the README's instruction, every start of an application calls `reconcile()`
before anything else. `FairQueueSpec` adds `QueueGoesOn`, the continuation of the
queue's calls, and strong fairness of `AppReconcile` and of `Flush` while the day is open:
the application comes back to both, though other calls and crashes get in between.
`FairProfileSpec` has the same for commands (`CommandGoesOn`), and strong fairness of
what a person does about a profile that is stuck: `day close` while a day is open,
`register --force` while the files do not let the device in, deleting a
`day-state.json` the CLI refuses to read, and the portal for a day with a Red receipt.
No fairness is assumed of the faults, and they are finitely many, those of a stateless close that
lacks the count or the date included. FDMS's refusals of a receipt (`FdmsRefuses`) are not
counted: the marker of a refused receipt is dropped, so `PendingIsSettled` and the profile's
properties hold whatever FDMS refuses, and `QueueDrains` leaves out that it never stops.

## Proofs

`FiscalDevice_proofs` holds, for every value of the constants:

* **`TypeCorrect`**: `Spec => []TypeOK`. Type correctness is not inductive alone: the
  answer of a submit is committed from the marker and `persistState` saves the state
  in memory, so `TypeInv` adds that a waiting submit has a marker and a save has a
  day.
* **`NumbersHaveNoGap`**: `Spec => []NoGap`, with no assumption on the environment.
  The argument: call *n* covered when every number up to *n* is in FDMS's record. Every
  number in use anywhere - in memory, in storage, in the marker (its predecessor), on
  the wire, in requests that may arrive late, in the number `openDay` read, and each
  number in the record itself - is covered (`CoverInv`). Signing adds one to a covered
  number; a receipt whose predecessor is covered is covered once FDMS records it; the
  device advances to a receipt's number only after an answer or a `GetStatus` that
  proves it recorded; and `GetStatus`, whatever it under-reports, only ever reports
  numbers that are in the record. `NoGap` alone says only something of the stored
  highest number and says nothing of where that number comes from.

`FiscalDevice_order` assumes `Orderly` - `LateDelivery`, `KeepsOldDay` and `ClockMayLag`
are FALSE, the three conditions without which the code does not keep these promises:
`late_delivery` shows it for the first, the section on the runs says how the second fails and the
comment at `device.ts:288-292` how the third - and nothing else of the environment: any number of crashes,
failed writes and lost answers at any point.

* **`SequenceIsSound`**: `Spec => []NoSequencingRed`; **`DeviceInStep`**: `[]InStep`;
  **`IssuedDurable`**: `[]IssuedIsDurable`; **`CloseMatches`**: `[]NoCloseMismatch`. All four
  follow from one inductive invariant, `OrderInv`, because each needs the others: the
  next receipt is in sequence because the state it was signed from agreed with FDMS, and
  that state agrees because the last receipt was in sequence. Its parts:
  * `BookInv`: FDMS's *i*-th receipt has number *i*, and dates strictly rise. So the
    receipt with the latest date, which `GetStatus` reports, is the one with the highest
    number (`LatestIsLast`, `HighestIsLen`), and the answer of `GetStatus` can be trusted.
  * `QuietInv`: with no marker, memory, storage and the stored highest number agree with
    FDMS (`Fits`).
  * `PendingInv`: with a marker, either its receipt is the very next one FDMS expects
    (`Waiting`) and every copy still agrees, or it is FDMS's last (`Entered`) and a copy
    agrees or is behind. `GetStatus` tells the two apart, which is why `reconcile()` is right
    to resubmit in one case and to commit in the other; `NotBoth` says they exclude
    each other.
  * `CallInv`: what a suspended call waits for and what its answer implies. The number
    `openDay` read before its request is still at most FDMS's highest when it is used.

  The lemmas behind the steps: `SignedIsNext` (a receipt signed from a state that fits is
  the next one, dates included), `Recording` (FDMS records the next one without an error
  and it becomes the last) and `CommittedFits` (committing the last one brings a
  state that is behind up to date).

**`RedTruthful`**, `Spec => []RedIsTruthful`, stands on top of it. `RedInv` says it also of
the marker's `stateAfter`, which replaces the day state when a receipt is committed, and of a
verdict that is on its way back: it is the pending receipt's, because `OrderInv` has that
receipt in FDMS's record by then. What FDMS coloured Red stays so while the day lasts, and a
day state does not outlive its day.

**`LedgerIsImplemented`**, `Spec => ImplementsLedger`, is the last theorem of that module. The ledger is
FDMS's record (`Book`), the marker its unresolved entry. Each step maps to `Enter`, `NewDay`,
`Note`, `Resolve`, `Sign` or a stutter: by `OrderInv` the receipt FDMS records is the one the
ledger expects next (`NextEntryIsFollowing`), and a marker is dropped only when the
stored highest number is FDMS's. `HashInv` is what is needed besides: the hashes in use are
serial numbers already given out, so that a new one is new. What the four kinds of step need for
that - `LedgerSigns`, `LedgerTakes`, `LedgerNotes`, `LedgerResolves` - is stated without `OrderInv`, so
that the profile's commands can use it too.

`OfflineQueue_proofs` has **`QueueTypeCorrect`**, without an assumption on the environment: the types
rest on where a call of the queue can be, whether there is a day in memory or not, and on the list
being the journal behind its cursor (`QueueShape`). The list is that only until a snapshot's save failed
half-way (`savedHalf`), after which even the cursor may pass the journal's end; while neither that nor a
call without a day has happened (`Intact`) the shape comes to the simpler `QueueTypeInv` that the
invariants below build on.

`OfflineQueue_order` assumes `Orderly` and has **`JournalKeepsSequence`** (`[]QueueKeepsSequence`),
**`JournalInStep`** (`[]QueueInStep`) and **`CloseWaitsForQueue`** (`[]DayWaitsForQueue`). They hold until a mishap
has happened: a call with no day in memory while receipts wait ends what they promise as a half-taken
sale does, and so does a snapshot's half-done save. `QueueInStep` takes memory as it stands once the queue has
loaded the journal, as nothing catches up with the journal after that. The device's `OrderInv`
does not carry over: with a journal, the day in memory and in storage runs ahead of FDMS by
all that is signed and not sent. `QueueOrderInv` says, while no mishap has happened, that there is an
*n*, between the journal's cursor and its end, up to which the journal is signed
(`InStepAt(n)`), and compares everything with FDMS's day as it will be once the
journal has been recorded up to *n*:

* `RecordedTo` is how far FDMS has it already: the cursor, or one more when the head was
  recorded and the commit has not been written. `NumberAt`, `CounterAt`, `HashAt`, `DateAt` and
  `CountersAt` are FDMS's day after record *j*, `FitsAt(s, j)` says that a state describes it, and
  `Follows(p, j)` that a signed receipt is the one expected there. With *j* = `RecordedTo` these
  are the device's `Fits` and `Waiting`.
* `JournalInv`: every signed record behind `RecordedTo` follows the one before it, and what
  an earlier version left unsigned lies behind all of them.
* `MarkerInv`: a marker is the journal's head, or FDMS's last receipt, or, with an empty journal,
  the next one.
* `MemoryInv` and `StoredInv`: a state fits, or is behind and the journal or the marker will bring
  it up to date; memory is never behind storage. Once the queue is loaded and memory was
  dropped by a close that bounced, the stored day fits as it is, for nothing will catch up with the journal again.
* `PlaceInv`, `StageInv`, `ListInv`: what each point of a call knows, and that the list in memory is
  the journal behind its cursor but for the entry in hand.

The steps: FDMS recording the head moves `RecordedTo` and not the day at *n*
(`FdmsAnswers` and `SettleHead` change which of two descriptions is used, not what they
describe), `CommitHead` moves the cursor past it, `TakeSigned` adds record *n* + 1, and `Begin`,
which replays the journal in memory, makes a state that is behind fit (`TotalAfterIs`: the replay
ends in the state after the last record).

`OfflineQueue_kept` assumes only `~KeepsOldDay` and has **`NothingIsLost`**
(`[]NothingLost`): the clock may lag, and `LateDelivery` makes no difference to `OfflineQueue`, whose `World`
has no late arrivals. `QueueOrderInv` is of no use for it, as `NothingLost` must hold after
`settledOutside`, when FDMS may have the head twice, the second time out of sequence, and neither dates,
chain nor counters of the two sides agree any more. `KeptInv` therefore speaks of numbers only:

* `JournalKept`: FDMS has what is committed; what waits and is signed has rising numbers above
  FDMS's highest, but for a head that FDMS already has and whose number *is* the highest.
  So a number that `GetStatus` reports is never that of a receipt waiting behind the head, and
  confirming by number confirms the right receipt.
* `MarkerKept`: a marked receipt that FDMS does not have has a number above FDMS's highest, and it is
  the head's, or the journal is empty and no copy of the day has advanced to it.
* `CopiesKept`: memory, storage and the stored highest number are not below FDMS's highest,
  but for a receipt the marker still settles (`Reaches`), nor above every number given out (`Given`),
  and what the next receipt is signed from is not below what waits (`Covers`). This gives a new
  receipt a number of its own.
* `DaysKept`: when the day is closed or about to be, nothing waits but a head that
  FDMS has (`AllSettled`). This is where `closedBehind` would break it. A close over a journal
  that has more bounces, for which one counter is needed after all: while no receipt of the day
  is Red, the state's day counter is ahead of FDMS's by at least as much as its number is
  (`CountsToday`), so that a close over something unsent has too high a counter.
* `PlaceKept`, `StageKept` and `ListKept`: what each point of a call of the device or the queue knows, and the
  list in memory.

`Profile_proofs` has **`ProfileTypeCorrect`** and **`DayIsKept`** (`DayKeptUntilClosed`, an action
property) without an assumption on the environment: unless a crash tears the file, a day leaves
the profile only while FDMS has it closed. **`CommandsAreOneDevice`**
(`[]CommandsKeepSequence`), **`ProfileStaysInStep`** (`[]ProfileInStep`) and **`ClosesCountAlike`**
(`[]ServerCountersMatch`) assume `Punctual`, the part of `Orderly` about the network and the clock;
`KeepsOldDay` may be TRUE, as opening over an earlier day's file does harm only when OpenDay's answer
is not stored, which is the mishap `openedOver`. `ProfileOrderInv` is the counterpart of `OrderInv` for files that
no process holds on to:

* `DayInv`: with no marker, memory and the file agree with FDMS, but for an OpenDay that took effect
  and whose answer is under way or being stored (`Opened`, `Opening`). Then the file may hold an earlier
  day, and that it *is* an earlier one - its number is not the one FDMS opened - is part of the
  invariant, as it is what tells a crash there (the mishap `openedOver`) from one that loses
  nothing.
* `PendingInv` and `DeviceInv`: as in `OrderInv`, with the close of `closeFromServerCounters` as one
  more request: it has FDMS's own counters, or there is no day in the profile and it lacks the
  receipt count or the date (`CloseFits`). A close signed from the profile's day can therefore never bounce for
  its counters, which is what `ClosesCountAlike` says beyond the stateless one.
* `StepInv`: what a command relies on between its steps: after its `reconcile()` nothing is pending, and a
  submit has a day; while a command asks for the status, no day is loaded.

**`CommandsAreTheLedger`** (`CommandsImplementLedger`) is the same refinement for the commands, from
`ProfileOrderInv`: a step after which no mishap has happened is a step of `FiscalLedger` or a stutter.
The commands add no step of their own to it: what `SaveStep` writes once more is what is stored
already, and restoring, loading, polling and registering leave FDMS's record, the marker and
the highest number alone. The mishaps are left out for a reason: after `restoredStale` a command signs a
number FDMS has (run `restored_over`), which no step of the ledger does.

`FileJournal_proofs` has **`JournalReadable`** for any number of appends and crashes, assuming only that
nothing is appended to a torn line (`AppendsToTail` FALSE), which the code may do: nothing else corrupts the
log, neither a torn append nor a compaction, whenever it runs and wherever it is cut short (`RecordsOnly`).
With all three switches FALSE (`Tidy`) it has **`JournalTyped`**, **`JournalListed`** and
**`JournalIsImplemented`**. Their inductive invariant `JournalInv`: no line is garbage, the
cursor lies within the log - counting a last record that only lacks its newline - and the
queue's list is exactly `Listed(Waits, Base)`, what waits with the positions it has in the
file. The steps then are facts about sequences: appending to a log appends to each suffix of it
(`SuffixOfAppend`), a suffix without its head is the next shorter one (`SuffixTail`), and
`compact()` leaves, read from 0, what was there from the cursor on.

`FiscalCounters_proofs` assumes nothing but that the inputs are receipt files (`InputsAreFiles`).
Of single amounts: **`RoundedWithinHalf`**, **`RoundingIsSymmetric`** and **`LineTaxIsExact`** for every
amount, quantity and percent; **`FormattedIsRead`** for every amount; **`JsonAmountIsNear`**, that an
amount that is accepted becomes cents that are within the code's tolerance of it, and
**`JsonAmountIsExact`**, that one of at most two decimals is accepted and becomes exactly its cents, for
every tolerance and however many decimals are written. On
these stand the properties of the `receipts` run, for files with any number of lines and payments
and days with any number of receipts:

* **`SoldInvariant`**: every receipt of the day is `Built(file)` for a file that submit accepts. From it
  follow **`TotalsAlwaysAddUp`**, **`AlwaysSignedAsWritten`** and **`TaxIsAlwaysExact`**. The last and the
  first need that the tax entries split the lines: `TaxesAre` gives, for the sorted entries, the
  function from lines to entries whose groups they sum (`Splits`), and `SumPartition` that sums over
  groups add up to the sum over all. `SortedByIs` and `OrderedIs` say of the sort that it is a
  permutation, all these need of it, and that it ascends.
* **`CountingInvariant`** is the inductive invariant of the counters. Its core is that
  `MergeCurrencyCase(deviceCounters) = fdmsCounters`, as sequences; that the signed strings agree
  (**`AlwaysSignedAsFdmsCounts`**) says less and is not inductive. The step is `MergeUpsert`: to add to a counter and
  then merge is to merge and then add, whichever of the counters that the merge makes one it was
  added to. There the order of additions does not matter once a counter of the key exists
  (`UpsertCommutes`), and two additions to it are one of the sum (`UpsertTwice`). An upgrade at any
  point changes nothing.
* **`CountersAlwaysBalance`** and **`CreditsAlwaysCancel`** rest on `AccumulateAdds`: the total over any set of
  keys grows by what the receipt adds to it (`SalesAreBalances`: as much to the sales as to the
  balances; `CreditTakesBack`: a credit the opposite of its sale). That a single counter is the
  total of its key needs that no key is there twice (`KeysDiffer`). **`CountersTypeCorrect`** is a part
  of the same invariant.
* **`OrderNeverMatters`**: what `closeDay()` signs is what any order of the day's receipts counts up to. Counters
  *account for the day* (`Accounts`) when no key is there twice, every counter has the key and the
  percent of something a receipt added, and the total of every key is what the receipts added to
  it. FDMS's counters do (a part of `CountingInv`), and so do those counted in any other order
  (`CountedAccounts`, with `PermutedSum`: a sum does not depend on its order). Of any two such
  sequences one string is signed (`AccountsAgree`): a key whose total is not zero has one counter in each, of
  that value, and of one percent, as `OnePercentPerTax` says - the first receipt to name a tax ID gives the
  counter its percent, so without it the order would matter. The sort keys of different counters
  differ (`SortKeysDiffer`, from `NoneIsNoNumber`: a missing tax ID is sorted as -1), and a set of different keys
  has one ascending order (`OneOrder`).

The sums, the merge and the accumulation are recursive functions. What is proved of them is
proved by induction on the natural numbers over the set of lengths for which it holds (`Induction`, from the
library's well-founded induction), so no theorem about an operator parameter is needed.

The proofs use the named assumptions on the constants - `NoneIsNothing`,
`AmountsAreNumbers`, `BoundsAreNumbers` and `SwitchesAreBoolean` of `FiscalDevice`,
`NoRecords`, `JournalSwitches` and `JournalBounds` of `FileJournal`, `ScalesAreNumbers` of `Money`,
`NoneIsNoNumber` of `Receipts`,
`InputsAreFiles` of `FiscalCounters` - which TLC evaluates in
every run of those modules, as it does `ShortTiesAreTies` of `Receipts`, which no proof needs.

Model-checked only: the liveness properties `PendingIsSettled`, `QueueDrains`, `DayIsClosed` and
`ProfileIsRepaired`, which are out of the prover's reach. Every other property of a passing run is a theorem.

## Not modelled

* **Overlapping calls** on one `FiscalDevice` or one queue, overlapping requests at FDMS,
  commands that overlap in one profile. `docs/HARDENING.md` lists the missing serialisation;
  every module has one call in progress.
* **A second machine** on the same device.
* **The text layout** of signing strings and QR data, and the bytes of everything
  cryptographic: fixed by published vectors in `vectors/` and `src/src/conformance`, and
  pure functions of their input.
* **`discardPending` and `renewCertificate`**, which the front ends do not call; `getConfig`, `ping`
  and the commands that only read.
* **The Yellow errors** and the error catalogue, which change nothing; the simulator's
  certificate authority and command line; the React Native and browser adapters; scripts,
  documentation, API description.

## Plan

1. A device with two calls in progress, for the interleavings above.
