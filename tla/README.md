# Newport MS: TLA+ models, checks and proofs

This directory is the verification project of the plant-management system in
`src/`: an API server (`apps/api`, NestJS and PostgreSQL), a desktop app and a
phone app that work offline (`apps/desktop`, `apps/mobile`), and a domain
package both sides share (`packages/domain`). The centre of the project is
offline synchronisation: it is the part with several concurrent actors, lost
messages, restarts and a durable state on each side, and the part whose
mistakes lose people's work.

## 1. Inventory

| Component | State it keeps | Operations | What is hard | What makes it correct |
|---|---|---|---|---|
| Sync contract (`domain/src/sync.ts`) | none (tables, pure functions) | merge by field, conflict decision, push validation and order | which side wins, per entity and field; approval changes the answer | protected fields come from the server, nothing filled is blanked, appended lines survive |
| Sync engine (`api/src/sync`) | rows, `sync_idempotency`, answers of the requests in progress | push (look up, gate, read, write, record), pull | four statements per operation, no common transaction: twin requests, crashes, office edits between any two | nothing acknowledged is lost, a re-send changes nothing, policy kept whatever was read |
| Feed triggers (`prisma/migrations/...0001`) | `sync_change_log`, its sequence, row versions | number and log every write | the number is drawn before the commit that shows it | the newest entry of a record is the record's row |
| Sync client (`domain/src/client.ts`) | records, queue, conflicts, cursor | queue, push, pull, decide a conflict, full resync | every store access is an await the user's next edit can fall into; the process can be killed at any of them | queued work is never lost and always answered; every change at or before the cursor was applied; the copy follows the feed |
| Device stores (memory, Dexie, SQLite) | the same, in memory or on disk | addPending, failPending, removePending, wipe, ... | three implementations of one interface; two of Dexie's calls read, then write; cycles overlap | the three hold the same queue; an unsent edit can be read |
| Schedulers (`syncStore.ts`, `state/sync.ts`) | timers, running flags, the cursor | start, stop, nudge, sync now, full resync | nothing keeps two cycles apart; stop during a run | a cycle always comes; the cursor claims only what was pulled |
| Work orders, permits | work order status, permit, labour, log | create, transition, add labour, approve a permit; devices push orders, log rows and labour | check and update in separate statements; version check on one of them only; pushes in between | only legal transitions, each with its log row; dangerous work starts with a permit HSE approved |
| Laboratory | samples, results, out-of-specification cases, certificates | enter, verify, handle a case, certify | every check is before its transaction and takes no lock: entry beside review, review beside review, two managers on one case, prints beside all of them; devices push results too | every breach an analyst entered has a case; no case goes on without its texts; a certificate shows such a breach only once its cases are settled |
| Authentication | refresh tokens in families, the clients' held pair | login, refresh, logout, change password | rotation is read, then written; answers are lost; the access token expires meanwhile | one live refresh token per family; the one a device holds is live; expiry alone does not sign out |
| Access control | permission cache (30 s) | load, invalidate, decide, scope a list | a load racing an invalidation; roles come in no order; lists and details are scoped in different places | the profile follows the user's version; the widest grant wins; what is listed can be opened |
| Documents | files, rows, the device's upload queue | capture, flush, upload, file, delete | file and row are two writes; flushes overlap; the month in the key turns | every row has its bytes; a photo leaves the device only for the server; a waiting one arrives |
| Attendance | punches, days, corrections | import, recalculate, resolve a correction | two recalculations or a decision in between; shifts over midnight | a punch counts once; an approved correction shows in the day and in the payroll |
| Shift logs | log, approval | upsert, approve, lock, reopen | approval racing an edit | who prepared a log stays the same, whoever saves |
| Roles, permissions, organisation | constant tables | lookups | - | read-only |
| API shell, audit | configuration | wiring, `withScope` transactions, error format | - | the transaction of an office edit is part of `SyncServer` |
| User interfaces | screen state | presentation | - | the edits they queue are the inputs of `OfflineSync` |
| Schema, seed, scripts | - | one-off | - | - |

How they interact: a device calls `POST /v1/sync/push` and `GET /v1/sync/pull`;
the engine reads and writes the rows the REST services (work orders,
laboratory, ...) also write; every write, whoever makes it, fires the triggers
that feed `sync_change_log`; pulls read that log. So devices, push handlers and
office users share the rows, and devices learn of each other through the feed
only. The engine writes tables of the other services as well
(`sync.ts:51-69`): `work_orders`, `wo_logs`, `wo_labor_entries`, shift logs,
samples, results, punches. What a push may do to an order, its log, a shift log
or a result is an action of `WorkOrder`, `ShiftLog` or `Laboratory`; pushes of
labour and of samples are left out there. `PROJECT.json` lists every component with its sources and its status, and
every hazard with the line where it bites.

## 2. Modules

```
SyncPolicy          contract: tables, merge, decision, validity of a push
  SyncServer        handlers, database rows, feed, office transactions
    PushService     ... facing clients that may send anything     (MCPushService)
    OfflineSync     ... facing the real devices                   (MCOfflineSync)
    SyncServerProofs    lemmas about single steps of the server
      PushServiceProofs theorems about PushService's behaviours
      OfflineSyncProofs theorems about OfflineSync's behaviours

Laboratory  WorkOrder  Attendance  AuthSession  ShiftLog  AccessReads
DeviceStores  DeviceScheduler
  PlantServices     the eight parts above, side by side           (MCPlantServices)
                    Laboratory also by itself                     (MCLaboratory)
  LaboratoryProofs  theorems about Laboratory
  PlantWorkProofs   ... WorkOrder, ShiftLog, Attendance
  AccessProofs      ... AuthSession, AccessReads
  DeviceProofs      ... DeviceScheduler, DeviceStores

Outbox              what an upload queue promises
  DocumentUpload    the queue and the server's handlers, which implement it
    DocumentUploadProofs  theorems, the refinement among them
```

**SyncPolicy** is `packages/domain/src/sync.ts`. A field value is the *set of
its lines*: `{}` is blank, a scalar is a singleton, an append field may hold
several lines. `appendValue` adds the client's lines that are not there yet, so
a set is exactly what the properties tell apart; the order of lines is lost. A
device's record may lack keys (an absent key and a blank one differ for
protected fields), so data is a function on some of the fields; a database row
has all of them.

**SyncServer** is `sync-engine.service.ts` with the triggers. Each handler walks
its request operation by operation. One operation is the statements of
`applyOp`, each an action others interleave with:

| phase | action | code |
|---|---|---|
| `check` | `AnswerDuplicate`, `PassGate` | the idempotency lookup, then the permission gate |
| `read` | `ReadRow` | scope query and row read, then the whole decision (merge, delete rule, create) up to the statement that writes |
| `write` | `WriteRow`, `WriteFails` | the INSERT or UPDATE with its triggers in one transaction of its own; or the exception the catch turns into a rejection |
| `stamp` | `StampOp`, `StampFails` | the insert into `sync_idempotency`, whose error the code swallows |
| `check`, nothing left | `FinishPush` | the response |

`RestWrite`, `RestCommit` and `RestAbort` are an office user's transaction
(`withScope` and a REST service): the update locks the row and draws the feed
number, the commit shows both. A push's update waits for that lock. The
permission lookup and the scope query read tables nothing here changes, so they
share the step of the statement next to them. `effect` is a history variable:
what the database really took from an operation (`written`, or `vacuous` when it
already was what the operation asks for).

**PushService** drives those handlers with arbitrary batches of `Requests`, in
any order, re-sent and concurrent, which includes every client and every network
fault seen from the server. `ServerCrash` and a failing stamp are switched on by
`Faults`.

**OfflineSync** drives the same handlers with devices. `QueueRead`, `QueueWrite`,
`QueueAdd` are the awaits of `queue()`; `BeginSync`, `SendBatch`, `Respond`,
`HandleResult`, `EndBatch` are `pushAll`; `PullPage`, `ReadLocal`, `WriteLocal`,
`EndPage` are `pullAll` and `applyRemoteChange`; `Wipe` is what each app does
after the server asks for a full resync; `TakeServer`, `TakeLocal` are
`resolveConflict`. `LoseRequest` ends a cycle while the handler it spoke to goes
on; `DeviceRestart` loses what was only in memory (the cycle, a half-done
`queue()`, the opId-to-entity map); `ServerRestart` loses the handlers.

**Laboratory**, **WorkOrder**, **Attendance**, **AuthSession** and **ShiftLog**
are services of the API in the same style: a request slot walks through its
handler, and each statement other requests can come before is an action. What a
handler read stays in its slot (`labCall`, `woCall`, `recalc`, `req`,
`logCall`), so a stale read is a record of an older state. A `withScope`
transaction of the laboratory keeps its writes in the slot until it commits,
and its row locks as a guard on others. `WorkOrder` has the domain's
transition table, `transition()` as read, permit lookup and version-checked
write, `addLabor` with its two transactions (the hours left out), and the
devices' pushes between any two of these statements. `Attendance` has the
assignment of punches to shifts and the evaluation of a day as operators on
minutes. `AuthSession` covers both sides of a session: guard, cache, rotation,
and the clients' renewal with its single flight. `AccessReads` computes a
user's effective permissions from the rows of `user_roles` in every order the
database may return them, and asks of every possible row whether the lists, the
details, the counters and the feed agree about it.

**DeviceStores** runs the same calls on the three stores (`mem...`, `sql...`,
`dex...` variables) in every order overlapping cycles and a user can produce.
**DeviceScheduler** has the timers of both apps, the cycles they start as
sequences of awaits over the cursor, and both ways of a full resynchronisation.

**DocumentUpload** is the upload queue with its guard (`inFlight`), the calls
that wait for it, the requests on the network, and the server's `persist` as
the write of the file and the write of the row. **Outbox** is the abstract
specification: an item waits on the device until the server has taken it. The
refinement maps `waiting` to the queued records and `taken` to the photos that
have a row.

**PlantServices** puts the eight parts beside each other. They share a database
but no table that another's properties speak of, so a behaviour is a behaviour
of one of them (`desk`) with the others at rest: their product would only
multiply states. `OfflineSync` composes what does interact: client, network,
server, feed, office.

Abstractions in `OfflineSync`: the store writes of one result
(`HandleResult`) and of one conflict decision (the four awaits of
`client.ts:286-290` in `TakeLocal`) are one step each; an operation whose record
in `sync_idempotency` fails is in `PushService` only; forcing an
already forced operation again is left out; one sync cycle runs at a time;
overlapping cycles, the desktop's `syncNow` button and the full resync on demand
are in `DeviceScheduler` and `DeviceStores` instead;
`schemaVersion`, clock skew, backoff delays and `maxPullPages` are left out.
Abstractions in `SyncServer`: `sync_conflicts` and `devices` (the engine writes
them and never reads them), business numbers, identity stamps and audit columns.
Field names in an instance are the few the properties need; the policy tables
are complete.

## 3. Runs

| Run | Instance | Shows |
|---|---|---|
| `push_races` | 2 handlers, 1 work order, 1 shift log, 1 punch, 1 permit, a technician and a visitor who may push next to nothing; 3 pushes, 2 office edits, crashes, operations that cannot be recorded | `TypeOK`; `AckedOpTookEffect`: whatever is recorded or about to be reported as a success, the database took; `FeedReplaysRows`: the newest entry of a record is its row; `PushRespectsPolicy`: no push oversteps the policy, even deciding from a stale read |
| `sync_queue` | 1 desktop, 2 handlers, 2 edits, 1 fault, a gap of 1 so that full resyncs happen | `TypeOK` (each opId queued once); `QueuedWorkNotLost`: an operation leaves the queue only once the database has taken it or by the user's decision |
| `sync_answers` | 1 phone, 2 handlers, shift log, 1 fault, a user who may edit it and one whom the gate refuses | `EveryPushEnds`: a push that began ends, also one that waits for the row of an office transaction; `QueuedWorkAnswered`: every queued operation is accepted or the user sees its error or conflict; `ConflictIsGenuine`: what a conflict offers as the server's version was the row of that record once, unless the app has restarted since |
| `plant_services` | two request slots in each service; 1 sample with 1 result and 1 case, 1 order up to version 6, 1 night worker on 2 days with 2 corrections of one of them and 1 worker who left, 2 devices of one user, 1 shift log, 2 grants out of 3 roles, 1 record, 1 change of the feed | the 19 properties of section 3.1 |
| `document_uploads` | 2 photos, 2 flushes, 2 months, 1 fault, an order that leaves and re-enters the uploader's scope | `UploadTypeOK`; `RowHasBytes`; `FiledStaysFiledInItsMonth`: but for the office, only an upload of another month makes a filed document a draft; `EveryPhotoArrives`; `KeepsPhotos`: the queue implements `Outbox` |
| `push_approved_delete` | violation of `ApprovedRowNotDeleted` | an approved work order can be deleted by a technician: the row is read without the `approverId` the approval test needs |
| `push_lost_lines` | violation of `AppendedLinesKept` | two overlapping pushes that append to one text: the later write drops the other's line |
| `push_reapplied` | violation of `NoOpAppliedTwice` | a crash between the write and the record of the opId: the re-sent operation is applied again, over a newer edit |
| `sync_missed_change` | violation of `NoMissedChange` | after a push the device stores the end of the feed as its cursor and never pulls the change before it |
| `sync_stale_copy` | violation of `UneditedCopyFollowsFeed` | a device that edited nothing keeps an old title over the newer one |
| `lab_unseen_number` | violation of `ReviewerSawTheNumber` | a review endorses by id a result that an entry has replaced since the reviewer read it |
| `session_expiry` | violation of `ExpiryIsRenewed` | an expired access token costs the session: the refresh carries it, and the guard refuses the refresh |

The seven violations are disagreements between the code and what its own
comments and documents say; `PROJECT.json`, "findings", quotes each line.
Section 3.2 lists those that have no run.

### 3.1 The properties of `plant_services`

| Property | Says |
|---|---|
| `EveryBreachIsFollowedUp` | a breach an analyst entered has a case as soon as it is committed, whatever overlaps |
| `CasesAreDocumented` | no case stands at a corrective action without its text or is closed without a root cause, though updates decided from stale reads overwrite one another |
| `CertifiedBreachWasSettled` | a certificate shows a breach an analyst entered only when a case of that result was opened and none is open |
| `StatusChangesAreLogged` | an order's status changes only along a transition allowed from the status it has at that moment, and the log row written with it names both |
| `DangerousWorkHadPermit` | work starts on an order that needs a permit at that moment only if its permit came as far as HSE's approval |
| `AttTypeOK`, `NoPunchCountsTwice` | a punch starts or ends at most one day of an employee who keeps his shift |
| `CorrectionsCount` | an approved correction is in the day's row and in the payroll |
| `AuthTypeOK`, `OneLiveTokenPerFamily`, `HeldTokenIsLive` | one live refresh token per family, and a device holds it |
| `CacheFollowsVersion` | the guard judges by an old profile only in the three cases named there |
| `WidestGrantWins`, `WhatIsListedOpens` | permissions do not depend on the order of rows; lists, details, next steps, counters and the feed agree, for users whose permissions come together |
| `StoresAgreeOnQueue`, `UnsentEditIsReadable` | the three stores hold the same queue; a queued edit can be read |
| `HeartbeatNeverStops`, `CursorIsHonest` | a started device goes on synchronising; the cursor claims only what was pulled |
| `PreparerStands` | the preparer of a shift log is settled when its row is created, however many saves found no log |

Several carry exceptions, each written in the formula and its comment, and each
a real gap of the code: a family whose
refresh answer was lost (`excused`), a row written by a recalculation that had
read the corrections before a decision, left by one that died, or whose approval
a second, late decision overturned (`unseen`), the days of an
employee with a termination date (which an approval does not recalculate), an operation Dexie's
`failPending` wrote back (`overtakenOps`), a record wiped while being saved
(`tornRecs`), a wipe that crossed another cycle's pull (`crossed`). In
`WhatIsListedOpens` the exceptions are roles: `PLANT_MANAGER` is shown cases he
may not manage and `HSE_OFFICER` results of samples he may not list
(`GivenWith`), and of two grants the server ranks alike (`SELF`, `TEAM`, `NONE`)
the row that is read first decides (`Tied`). `NoPunchCountsTwice` is about
employees who keep their shift: of one whose shift changes the code does count a
punch for two days. The formulas say what holds outside of them.

### 3.2 Disagreements without a run

Modelling met more places where the code does not do what a line of the
repository says. No run shows them; the models contain the behaviour, but for
hours, the apps' shift-log pushes and what section 5 leaves out:

- A shift log is to be edited after approval only once it is reopened
  (`production.module.ts:17`); its preparer's save, and a save that read the log
  before the approval (`:39`), make it a draft. The sync contract calls an
  approved log locked (`sync.ts:63`); the engine and its test merge pushes into
  it (`engine.spec.ts:133`). The apps' own pushes of shift logs name the unit by
  its code, so the insert fails for want of `unitId`.
- One open case per result (`lab.service.ts:322`), and the table of a case's
  statuses: `updateOos` decides on a row read before (`:475`) and writes it by
  id (`:494`), so two managers can reopen a closed case beside a newer one.
- `lab.service.ts:380` makes a sample `REJECTED` on the rejection of any result.
  A rejected result has a reviewer and a time, so it is no longer counted as
  unverified (`:382`): the review of its last sibling makes the sample
  `VERIFIED`, and the certificate prints the rejected result as a verified row,
  against `lab.ts:178`. Two last reviews side by side each see the other's
  result unverified and leave the sample `RESULTED`.
- An entry that passed its check (`:268`) before a review committed writes into
  a reviewed sample, or beside a print that has read its rows: a certificate may
  show older values.
- The mark of a breach is to be the server's alone (`lab.service.ts:28-29`), but
  `DENIED_COLUMNS` does not hold `isOutOfSpec`, so a device's push sets it; a
  pushed value out of its limits opens no case.
- A permit in force (`work-order.service.ts:226`) is checked before the write
  and may be closed or run out by then; an order a device opens as `EMERGENCY`
  is not safety-critical as one opened in the office is. Labour may be entered
  on an order closed meanwhile (`:281`), the increment of `laborHours` leaves
  the null that `create` wrote (`:296`), a pushed labour entry raises no total
  and a push may overwrite it (`engine.spec.ts:104`).
- `append_only` entities are never to be updated (`sync.ts:13`); an operation on
  a row that exists updates it (`sync-engine.service.ts:263`).
- A retry is to replace the orphan file of a dead upload
  (`documents.service.ts:336`); `'wx'` refuses it until the month, and with it
  the key, turns.
- `documents.ts:236` has the queue read when the network comes back; nothing
  calls it then.

**Bounds.** `MaxSeq` bounds the office edits by the feed number, `MaxPush` the
batches, `MaxEdits` the edits per device, `MaxFaults` the lost requests and
restarts. Every hazard above involves two actors on one record and one fault;
two handlers, one contended record and one fault reach all of them, and a second
record is there where one record would hide a case (another conflict policy, or
a record filed under the wrong entity). `push_races` has three pushes so that a
third meets what two overlapping ones left, and four records so that each merge
policy is among them. `BatchSize = 1` and `PageLimit = 1`
make every multi-batch and multi-page path happen with two operations and two
changes. `MaxGap = 1` in `sync_queue` stands for the 500000 of the code. Two
edits allow a create followed by an edit or a delete. In `plant_services` two
slots per service are two overlapping requests, which every race named in the
hazards needs and no more, and any two calls of a service may overlap;
`MaxWoVersion = 6` takes an order a device opened (it starts `SUBMITTED`) to
`CLOSED`, and one opened in the office to `COMPLETED`, with versions to spare
for the pushes on shorter ways; with `MaxCases = 1` a
stale update can reopen the case it finds closed, and a breach after its closing
is left to the theorems, which hold for any number; `MaxIssued = 2` pairs and `MaxVersion = 2` allow one rotation and
one change of password; two days meet at a night shift's midnight. The runs of
the laboratory have one result, so the count of the others' reviews is always
zero there; nothing is claimed of it. `document_uploads` has one photo that others
act on (`Watched`: the office files or deletes it, its order leaves and
re-enters the scope, its bytes spoil) and one that is the technician's alone, two calls so that one
waits for the other's round, two months so that a key turns between file and row. The theorems do not depend
on any of these values. Symmetry (`HandlerSymmetry` in `push_races` and `sync_queue`, `Symmetry` in
`plant_services`, `LabSymmetry` in `lab_unseen_number`) is used only in runs
without liveness, whose formulas treat the permuted values alike.

Each property has a mutant of the code in the module it is about (a comment
"Mutant:" marks it): a dropped lock, a swallowed error reported as success, a
merge that forgets protected fields, a refusal that answers nothing, a queue
without its key, a client that takes a rejection for acceptance, and so on. TLC
finds the property violated under each.

**Deadlock** checking is off: when the bounds are used up the system rests.
"Everyone waits" is what the liveness properties exclude.

**Fairness.** `EveryPushEnds` needs that a handler whose next statement can run
is scheduled, and that an office transaction ends: Node's event loop and
PostgreSQL do the first, `withScope`'s callback the second. Nothing is assumed
of edits and faults. It is checked where the devices are the clients
(`OfflineSync`'s `FairSpec`); `PushService` has no fairness of its own. `QueuedWorkAnswered` assumes also that the app goes on
running cycles (in both apps a timer re-arms itself when a cycle ends, whatever
its outcome, and an edit nudges one sooner), that a
`queue()` under way ends, and that a response in a network that works arrives;
faults are bounded, so they stop. Nobody is assumed to decide a conflict.
`EveryPhotoArrives` (`UploadFairness`) assumes that a flush under way and a
handler under way take their next await, and that the month turns. Nothing
calls `flush` when the network comes back, whatever `documents.ts:236` says, so
the formula takes *the queue is read again and again* as its hypothesis and does
not promise it. All of it is weak fairness.

## 4. Theorems

Proved by TLAPS, for every value of the constants (sets of records, fields,
values, batches, handlers, orders, users, requests, photos, cycles; any bound;
any choice of faults). `SyncServerProofs` holds the lemmas of `PushServiceProofs` and `OfflineSyncProofs`;
section 2 says which module the others are about.

| Theorem | States | Argument |
|---|---|---|
| `TypeCorrect` | `Spec => []TypeOK` | one lemma per action |
| `NothingAcknowledgedIsLost` | `Spec => []AckedOpTookEffect` | `AckInv` adds that an operation in phase `stamp` has had its effect; without it the stamp step would be unprovable, since the statement that writes is behind it |
| `FeedIsComplete` | `Spec => []FeedReplaysRows` | `FeedInv` adds that every number of the log and of an open transaction is at most `lastSeq`, and that an open transaction's number is above every entry of its record: the row lock, which keeps pushes from writing that record meanwhile, preserves it. So late commits disorder the log, but never within a record |
| `PushKeepsPolicy` | `Spec => PushRespectsPolicy` | `PlanInv` says of a *decided write* what remains true however the row changes before it runs: its operation passed the permission gate, it sets no denied column, an update sets no protected column and in a merged entity nothing to blank, a delete is of an entity that can be deleted; an insert only runs where there is no row |
| `SyncInvariant` | `Spec => []SyncInv` of `OfflineSync` | the server's invariants again, now with devices as its clients, and: every opId on its way was issued by a device and a `queue()` under way has a number nobody saw (`Issued`); what handlers answer is honest (`HonestResult`); a waiting conflict was once a row (`Genuine`); feed numbers are unique (`FeedNumbers`) |
| `SyncTypeCorrect` | `Spec => []TypeOK` | from `SyncInv`; the push and the page the client sorts are sequences because queue and feed are finite |
| `ConflictsAreGenuine` | `Spec => []ConflictIsGenuine` | a conflict's answer carries a row that was read; rows and feed entries agree (`FeedInv`), so it is in the feed |
| `DevicesSeeAnHonestServer` | `Spec => [](AckedOpTookEffect /\ FeedReplaysRows)` | what `PushService` promises to any client, promised here to these |
| `QueueLosesNoWork` | `Spec => QueuedWorkNotLost` | an answer that says OK is honest, so the operation it removes took effect; the queue has one entry of an opId, so it removes no other |
| `LabInvariant` | `LabSpecification => []LabInv` | tables, calls and what each call has read fit together; a result out of specification has a case in the tables or in the transaction that writes it; every case, and every row of a case on its way to the table, has its texts |
| `BreachesAreFollowedUp`, `CasesStayDocumented` | `LabSpecification => []EveryBreachIsFollowedUp`, `LabSpecification => []CasesAreDocumented` | parts of `LabInv`, whatever overlaps |
| `CertifiedBreachesWereSettled` | `LabSpecification => CertifiedBreachWasSettled` | cases are never removed, and a result a print has read had its case by then: the print keeps what was true when it read, and the gate asks for the open cases at the end |
| `HeartbeatIsNeverLost` | `SchedSpec => []HeartbeatNeverStops` | inductive as it stands with the types: every action that disarms the timer leaves a `timer` cycle or a reader of the statistics behind |
| `CursorStaysHonest` | `SchedSpec => []CursorIsHonest` | `CursorInv` adds that, unless a wipe crossed a pull, no wipe and pull are under way together, a pull has every change up to its position, and a desktop's wipe finds the cursor at zero |
| `StoresInvariant` | `StoreSpec => []StoreInv` | `AgreeInv`: a row a `failPending` is about to put back is in IndexedDB or counted as overtaken; `ReadInv`: the rows of one edit are of one record, an edit to come is of none of them, and the record of an edit being saved is written |
| `StoresAgree`, `UnsentEditsAreReadable` | `StoreSpec => []StoresAgreeOnQueue`, `StoreSpec => []UnsentEditIsReadable` | parts of `StoreInv` |
| `WaitersAreWoken` | `UploadSpec => []UploadTypeOK` | one lemma per action; the guard names a call in a round, so a call that waits waits for one |
| `EveryRowHasBytes` | `UploadSpec => []RowHasBytes` | adds that a request past its first write has its file on disk, and that files of photos with a row are not removed |
| `FiledStays` | `UploadSpec => FiledStaysFiledInItsMonth` | `OnePerMonth`: of the uploads of one photo that have written their bytes no two did in one month, and none in the month of the row; the office's own step changes the row and nothing else |
| `QueueImplementsOutbox` | `UploadSpec => KeepsPhotos` | adds three invariants: the device's table (`TableInv`: a photo taken and without a row is queued), the rounds (`RoundInv`: what a round forgets has its row) and the uploads on their way (`AnswerInv`: one that says done has its row). Each step maps to `Put`, `Take`, `Drop`, `Again` or a stutter |
| `StatusChangesFollowTheTable` | `WoSpec => StatusChangesAreLogged` | `MovesAllowed`: a transition under way was allowed from the status it read, its version is at most the order's, and as long as it is equal the order still has that status. So the version check makes the old decision good for the row it writes |
| `PermitsComeFirst` | `WoSpec => DangerousWorkHadPermit` | `StartsSeen`: a call about to start a dangerous job has seen a permit HSE approved, and a permit never falls back behind that; a push that makes the job dangerous meanwhile raises the version, so the start comes to nothing |
| `PreparersStand` | `LogSpec => PreparerStands` | a save under way has seen no log or one with the preparer the log still has; an insert runs only where there is no row |
| `AttInvariant` | `AttSpec => []AttInv` | every row is what `evaluateDay` makes of punches assigned to that day, with no correction or one that was asked for (`RowEvaluated`); a recalculation that is writing has the corrections approved now, but of those it is blind to (`ReadsCurrent`); an approved correction of an employee who has not left shows, will be written by a call under way, or its row is in `unseen` (`ApprovalSeen`) |
| `AttendanceTypeCorrect` | `AttSpec => []AttTypeOK` | from `RowEvaluated` and the range of `evaluateDay` |
| `PunchesCountOnce` | `AttSpec => []NoPunchCountsTwice` | the earliest and the latest punch of a day lie in its window. The windows of two consecutive days meet in one instant only for the 12-hour shifts, and there `assignShift` gives a punch of either day to another shift (`BoundaryPunch`) |
| `ApprovalsCount` | `AttSpec => []CorrectionsCount` | from `ApprovalSeen`, when no call is under way |
| `AuthInvariant` | `AuthSpec => []AuthInv` | a pair is of its family's device, a request names pairs of its own device, and a device waits for one refresh at a time |
| `SessionsTypeCorrect`, `CacheIsFollowed` | `AuthSpec => []AuthTypeOK`, `AuthSpec => []CacheFollowsVersion` | from `AuthInv`; a load under way, an invalidation still to come and `overtaken` account for an old profile |
| `SessionInvariant` | `AuthSpec => []SessionInv` | `Secret`: a pair issued and not yet answered is known to nobody else, so no other request can rotate it; `OneLive`: a refresh that found its token live has its family's only live one; `HeldLive`: what a device holds is live, or the refresh it waits for is of that family |
| `OneLiveToken`, `HeldTokens` | `AuthSpec => []OneLiveTokenPerFamily`, `AuthSpec => []HeldTokenIsLive` | parts of `SessionInv` |
| `AccessInvariant` | `AccessSpec => []AccessInv` | a profile was computed from the rows there are, in one of their orders |
| `WidestGrantDecides` | `AccessSpec => []WidestGrantWins` | by induction over the roles of the loop: a permission nobody denies has the widest of the scopes given so far |
| `ListedRowsOpen` | `AccessSpec => []WhatIsListedOpens` | by the same induction: where whatever gives `c` gives `d`, the scope of `d` ranks no lower, and where they go together the scopes are equal |

The assumptions are the modules' ASSUMEs, which TLC evaluates in every run.
Records belong to the entity table, access contexts are well-formed, requests
are sequences of operations, `"none"` is no handler, bounds are numbers. What
users and devices may type is of the kind the clients send (`EditsAssumption`,
`LabAssumption`, `AttendanceAssumption`: days and times are numbers, the devices
hold finitely many punches). Scopes are those of the column's enumeration, and a
role has one row of exceptions per subdivision, which the schema's unique key
says (`AccessAssumption`).

No theorem has a hypothesis beyond these.

What stays with TLC. The liveness properties (`EveryPushEnds`,
`QueuedWorkAnswered`, `EveryPhotoArrives`): liveness and ENABLED are outside the
prover's reach. The seven violations, which are counterexamples. Every invariant
and every action property of the passing runs has a theorem.

Induction over data is available only in one form: the library's induction
theorems take an operator as a parameter, which the provers cannot instantiate,
and say nothing of `FoldLeft` or `FoldSet` that they could use. The proofs use
instead that a well-founded relation has minimal elements (`WFMin`), on the
subsets of a finite set and on the natural numbers: the set of counterexamples,
were it not empty, would have a smallest member. `SmallestSet`, `NoFirst` and
the least and greatest punch of a day are of this form. The models use no
recursive operator; the loop over a user's roles is a recursive function.

## 5. Not modelled, and the plan

Not modelled, by component:

- Sync: `schemaVersion` (its mismatch branch cannot be reached with the
  clients there are), backoff delays, clock skew, the tables `sync_conflicts`
  and `devices`, business numbers. The archive of the feed
  (`fn_archive_sync_log`) is run by an operator and by no code of the system.
- Work orders: numbers, assets, assignees, dates, hours, service levels, statistics.
  Service levels have no stated rule to hold them against: each start
  overwrites `actualStartAt`, and a reopened order keeps its end.
- Laboratory: texts, lists (but see `AccessReads`), samples pushed by devices,
  a severity typed in by hand.
- Authentication: the counter of failed logins and its lock, the first password
  that must be changed, the expiry of refresh tokens after days.
- Attendance: overlapping imports, `isLocked` (no handler reads it), leaves and
  rosters that change.
- Documents: presigned tickets, metadata other than the status, streaming; the
  phone's queue of documents, which no screen of the phone is wired to.
- Shift logs: readings, downtime, and lists.
- Constant tables of roles, permissions and subdivisions: instances take a few
  rows.
- The API shell, audit queries, user interfaces, schema, seed and scripts:
  wiring, presentation or one-off code.

Next, in this order:

1. The disagreements of section 3.2, each as a run of its own when the code or
  its comment is settled; first the shift log saved over its approval and the
  two open cases of a result.
2. The hazards without a property, which `PROJECT.json` explains one by one;
   an edit saved while a pull merges its record comes first.
3. The notes of the field repositories (`repo.ts`, `fieldRepo.ts`): `appendNote`
   reads the description before it queues the whole text.
4. The login lock and the first password in `AuthSession`, imports in
   `Attendance`.
