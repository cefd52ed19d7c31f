# A formal model of the Quipay backend

This directory holds TLA+ specifications of the Quipay backend (`src/`), the TLC
configurations that model-check them on small instances, and theorems about them
that the TLA+ proof system (TLAPS) checks for every value of the constants.
`PROJECT.json` maps each definition to the source lines it models and lists the
runs, the mutants, the hazards and the findings.

    tlasany M.tla                       parse a module
    tlc -workers 2 -config X.cfg M      model-check module M
    tlapm M.tla                         check the proofs of module M

## 1. The system

The backend is one Node.js process, run in several replicas that share a
PostgreSQL database. It serves an HTTP and WebSocket API and, in the same event
loop, runs background workers that follow a Soroban contract, execute payroll and
deliver webhooks. What makes it hard is the same everywhere: every `await` is a
point where another request, another timer or another replica runs; every
statement may fail; the process may die between any two of them; and state is
spread over a process's memory, the database and the ledger, none of which is
written together with another.

### Components

| Component | Source | State | Operations | Right when |
|---|---|---|---|---|
| Advisory lock | `utils/lock.ts`, `db/pool.ts` | session locks of PostgreSQL, sessions of the pool | lock, skip, run, unlock | two replicas never run a locked task together |
| Stream and treasury tables | `db/queries.ts` | `payroll_streams`, `treasury_balances`, `stream_audit_log` | upsert, soft delete | a stream is charged once and refunded at most once |
| Stream and employer routes | `routes/streams.ts`, `routes/employers.ts` | the same, and `vault_events` | create, cancel, deposit | the balance agrees with the books |
| Ledger syncer, event indexer | `syncer.ts`, `services/eventIndexer.ts` | `sync_cursors`, `withdrawals`, loops in memory | poll, fetch, ingest, save the cursor | no event below the cursor is missing; the cursor reaches the head |
| Async queue | `queue/asyncQueue.ts` | jobs in memory, `dead_letter_queue` | try, back off, give up | a job that fails for good is kept and reported |
| Webhook delivery and subscriptions | `delivery.ts`, `webhooks.ts` | `webhookStore` (memory), `webhook_outbound_events`, `_attempts` | subscribe, send, log, retry | every attempt is logged, no event is lost |
| Dead-letter queue and worker | `db/dlq.ts`, `webhookDlqWorker.ts` | `dead_letter_queue`, `audit_logs` | list, retry, settle, bury | bounded retries, every item settles |
| Admin routes | `adminRouter.ts` | the above | replay, retry, discard, queue an override | an intervention does not contradict a worker |
| Payroll scheduler | `scheduler/scheduler.ts` | cron jobs (memory), `payroll_schedules`, `scheduler_logs`, `scheduler_overrides` | refresh, fire, pay, log, override, stop | one payment per tick and per override; the log says what was paid |
| Report scheduler | `scheduler/reportScheduler.ts`, `db/payrollReportSchedule.ts`, `routes/reports.ts` | `payroll_report_schedules`, `generated_reports` | send, record, advance, edit | a due report is sent, and consecutive ones cover every day once |
| Treasury monitor, notifier | `monitor/monitor.ts`, `notifier/notifier.ts` | `treasury_monitor_log`; one lock | read, alert, log | an alert is about a treasury as it was |
| Worker notices | `scheduler/scheduler.ts:510-737`, `routes/payslips.ts:524-676` | `worker_notification_settings`, key sets (memory) | check, send, read and write preferences | nothing is sent that was turned off |
| Nonce manager | `services/nonceManager.ts` | sequence, released nonces (memory) | initialise, get, release | every number is in one place, every caller is answered |
| Idempotency | `middleware/idempotency.ts`, `services/idempotencyService.ts` | responses by key in Redis and in a table | get, execute, set | one execution per key |
| Audit logger | `audit/*.ts` | write queue (memory), `audit_logs` | enqueue, flush, shut down | an entry is stored once |
| Cross-chain transfers | `services/cctpIndexer.ts`, `services/attestationPoller.ts`, `routes/crossChain.ts` | last block (memory), `cross_chain_transfers` | index, attest | no burn in the range is passed over, each is attested |
| Wallet verification | `services/walletVerification.ts`, `routes/workers.ts` | `wallet_challenges`, `workers` | challenge, verify, link, clean up | one challenge per address |
| Key rotation and secrets | `services/keyRotation*.ts`, `services/vault*.ts`, `services/secretsBootstrap.ts` | keys and metadata in Vault, the environment | boot, refresh, rotate | a key and its metadata agree, an old key is replaced |
| Archive | `services/archiveService.ts`, `db/archivePool.ts` | two databases | list, copy, delete | a row is in at least one, as it was |
| Migrations | `db/migrationRunner.ts`, `db/migrate.ts`, `db/pool.ts` | `schema_migrations` | connect, apply, roll back | a replica serves on the whole schema, each migration applied once |
| Caches | `utils/cache.ts`, `services/payrollSummaryCache.ts`, `analytics.ts` | a map per process, Redis | get, set, drop | nothing stale outlives its invalidation |
| Payslips | `routes/payslips.ts`, `services/signatureService.ts` | `payslip_records` | generate, sign, store, verify | a payslip is found by its signature and verifies |
| Start and shutdown | `index.ts` | the handles of all of it | start, stop in order | what is queued is written before the pool closes |
| Others | `websocket/`, `ai*.ts`, `routes/branding.ts`, `health.ts`, `metrics.ts`, `middleware/`, schemas | none that several actors change, or kept by a library | reads, renderings, calls of external services | - |

### How they interact

* The **scheduler** pays through the contract under the **advisory lock**, writes
  its log, and in the same timer drains the **overrides** an **admin** queued. Its
  cron also runs the **dead-letter worker**, under another lock id.
* The **syncer** and the **event indexer** read the contract's events and write
  the same row of `sync_cursors`. The syncer fetches through the **async queue**
  and ingests into the **stream tables**, which the **routes** write too.
* `index.ts` starts the event indexer (line 416) and not the syncer: the only call
  of `startSyncer` in `src/` is in the admin's replay of a `ledger_sync_batch`
  item (`adminRouter.ts:277`). Each call adds a poll loop.
* A **notification** is posted to its subscribers by **delivery**; a failed one
  becomes an item of the **dead-letter queue**, which the worker retries and
  which owner and admin retry, replay or discard at the same time.
* Every stream change drops entries of the **caches**, after it has committed;
  every component logs through the **audit logger**, which writes through the same
  **pool** as everybody else.
* The **monitor**, the **archive** and the **payroll** run under the **advisory
  lock**; the **report scheduler**, the **key rotation**, the **CCTP indexer** and
  its **poller** run in every replica with nothing between them.
* `index.ts` runs the **migrations** before it serves and closes the pool before
  the audit logger has flushed.

The behaviours that are hard to test, each at its line and with the properties
that watch it, are the `hazards` of `PROJECT.json`.

## 2. The modules

    AdvisoryLock      <- MCAdvisoryLock, AdvisoryLockProofs
    StreamTables      <- StreamApi <- MCStreamApi, StreamApiProofs
                      <- LedgerSync <- MCLedgerSync, LedgerSyncProofs
    TreasuryPromise   <= StreamApi, LedgerSync
    DeadLetterPromise <= WebhookDelivery <- MCWebhookDelivery, WebhookDeliveryProofs
    OverridePromise   <= PayrollScheduler <- MCPayrollScheduler, PayrollSchedulerProofs
    NonceManager, CrossChain, KeyRotation, Migrations, ReportScheduler,
      Idempotency, SummaryCache, AuditLog, WalletVerification, Archive,
      TreasuryMonitor, Notices, Payslips            <- Services <- MCServices
    Services <- ServicesProofs <- BookkeepingProofs
    NonceManager, CrossChain, KeyRotation, Migrations, ReportScheduler,
      WebhookDelivery, PayrollScheduler (instances)  <- MCSettling
    SequenceLemmas    <- the proof modules but AdvisoryLockProofs

An arrow reads "is extended by", and `<=` "is implemented by". `StreamTables` has
no next-state relation of its own: it holds the tables and the two transactions on
them, and `StreamApi` (the HTTP handlers) and `LedgerSync` (the event ingestion)
compose it with their own state. A step of a model is one database statement, one transaction, or one call
of an external service, with the synchronous code up to the next `await`; a
process may be interrupted, and may die, between any two.

### AdvisoryLock

`withAdvisoryLock` issues `pg_try_advisory_lock`, the task and
`pg_advisory_unlock` as three separate uses of a pool. An advisory lock belongs to
the *session* it was taken in, so the model keeps `held[c]`, PostgreSQL's count
per session, and lets every statement run on any session of the caller's pool.
The pool may close a session at any time (idle timeout, `maxUses`, a failed
statement) and the process may crash. `churned[r]` is a history variable: replica
r lost a session that held the lock under a call that is still inside.

### StreamTables and StreamApi

`UpsertStream` and `SoftDeleteStream` are the two transactions of `queries.ts`;
both lock the stream's row first, so each is one step. A row keeps the columns
some property looks at; `Rejected` is what migration 013 refuses (a total of 0,
even when `ON CONFLICT` would turn the insert into an update; a second active
stream of a pair). The deposit handler is three steps, since it reads the balance,
writes the sum and records the deposit in three statements. `audit` counts the
rows of `stream_audit_log` and the amounts they carry; `disturbed` is a history
variable: a deposit wrote over a change it had not read, or stopped half way.

### LedgerSync

The chain is a constant sequence of events. `CloseLedger` lets the network
advance, and a node may answer with a head one ledger old. `sync[l]` is a cycle of
poll loop l of the syncer, from the reading of the cursor over the batches (each a
job of the queue with its attempts) to the saving of the cursor; `index` is the
same for the event indexer, once `indexing`. `Ingest` applies an event as
`ingestEvents` does: an error is logged (`failed`) and the next event's turn
comes. The lock of the loops is ideal here, `AdvisoryLock` shows what the real one
gives. The indexer's own ingestion changes nothing, since its `parseEvent` looks
for words in base64 text where the contract's symbols never read that way.

### WebhookDelivery

One subscription at a time; several events, several requests in flight
(`caller`), the worker's batches (`worker[b]`), interventions by hand. Batches
overlap: cron fires every 30 seconds without waiting for the last one, and the lock
around it is re-entrant on the session that holds it, or lost with that session
(`AdvisoryLock`). `shared[i]` is a history variable: how often a batch listed item i
while another one still held it, which is what an item may be tried beyond its limit
without a fault, and buried more than once. Every
statement of `attemptDeliveryOnce`, `retryWebhookEvent`, `pushToDLQ`,
`processWebhookDLQItem` and of the admin's routes is a step, and each update
writes what the code writes: values computed from what was read when the attempt
or the batch began, whatever the row says by now. `webhookStore` is in memory, so
a crash empties it (`known` are the events whose subscription it still has).
When an item is due is left open: the backoff only decides how much later.

### PayrollScheduler

`jobs[r]` is the job map of a replica, `refresh[r][k]` the refreshes in flight
(`setInterval` does not wait, so they overlap), `run[r][s]` an execution of a
schedule, `due` what the cron library is about to fire. `CreateStream` has the
three outcomes of a submitted transaction: paid, refused, and paid although the
call throws. In a replica of `Unconfigured`, one without
`AUTOMATION_GATEWAY_ADDRESS` or `PAYROLL_STREAM_ADDRESS` (as in `.env.example`), it
makes a stream id up instead, pays nothing and is taken for a success
(`scheduler.ts:153-156`); so is an override. `paid` and `made` count what the contract
has done, `simulated` and `simulatedFor` what was made up, `succeeded` what
`scheduler_logs` claims.

### The promises: TreasuryPromise, DeadLetterPromise, OverridePromise

Three small abstract specifications say what the big modules are for, without any of
the statements, batches and retries they are made of.

`TreasuryPromise` is a ledger: a contract is charged once, to one payer, who may get
some of that charge back once, when it is closed; apart from that a treasury changes
only by its owner's deposits. `StreamApi` implements it and so does `LedgerSync`, with
nobody depositing (`KeepsTreasury` in both). The mapping of `StreamTables` reads the
state of a contract off its row and the charge and the refund off the audit log, so the
refinement also says that row, balance and audit log change together. Deposits are left
wide open (`MovesByOwner` lets the new balance be anything): the lost update of
`employers.ts:82-95` is real, and `BooksBalance` is the property that measures it.

`OverridePromise` is the queue of overrides as the admin sees it: an order is queued,
taken in a batch, pays once and only while it is executed, ends completed (having paid)
or failed, and is final. Where the scheduler may simulate (`MayPretend`), an order may
pretend to pay instead, also once. `PayrollScheduler` implements it (`KeepsOrders`) although
refreshes overlap, in one replica and across replicas, and die half way.

`DeadLetterPromise` is a dead-letter queue: an item enters, is tried at most
`TryLimit` times, once more for each mishap and each time it was taken again while
somebody still had it (`again`), is closed for good, and is buried after all its
tries, once, or once more for each time it was taken again. `WebhookDelivery`
implements it (`KeepsPromise`) under the mapping `item` <- the status of the row,
`tries` <- the worker's deliveries, `buried` <- the audit rows, `mishaps` <- the
faults, `again` <- `shared`. The abstract module knows nothing of batches, snapshots,
requests by hand or statements: the refinement says that all of them together never
do more than its six steps.

### NonceManager

`nonceLine` is the PQueue of concurrency 1, `nonceLoading` a job that awaits
`loadAccount`; `releaseNonce` runs outside the queue, between any two steps. A load
succeeds, fails, or loses against the timeout. `GetNonce`, `NonceTurn`,
`AccountLoaded` and `AccountFails` are the four places where a job gives up control.

### Idempotency

One key and several requests: a lookup in Redis (and nowhere else), the handler, the
answer, then the two unawaited stores. An answer is named by the request it
answered, so that "the same answer" can be told from "an equal one".

### SummaryCache

Every cached key has the tables its query reads (`FromStreams`, `FromLiveStreams`,
`FromWithdrawals`) and every write the keys it drops, in the order it drops them
(`DropsFirst`, `DropsNext`, then the organisation's). An entry is the set of writes
its query has seen. A behaviour follows one key, since keys do not interact.

### AuditLog

Flushes overlap (the timer waits for nobody), and each of their statements runs on
whatever session is free: `auditSession[s]` holds the transaction that was left open
there, with the rows of whichever flush put them in. A statement of somebody else
that is sent to such a session is one more commit or rollback. Then the steps of
`shutdown` in `index.ts`: services stopped, pool closed, logger shut down, exit.

### CrossChain

Blocks are mined while the indexer scans; `cctLast` is in memory. `IndexScans`,
`IndexChecks` and `IndexInserts` are the log query, the lookup by transaction and
the INSERT; a log's error is caught and the next one's turn comes. `cctColumn` is
the width of `message_hash`, which migration 015 and `schema.ts` declare differently.

### WalletVerification, KeyRotation, Archive, Migrations

Each splits its operation at its statements. `WalletVerification` keeps the
challenges, the worker's wallet and its verified flag; a worker sends one request at a
time, so what two of the same worker do when they overlap is left out. `KeyRotation` has the three
calls of a rotation and the reads that decide whether one is due. `Archive` runs the
two kinds of rows (with and without dependants) side by side as `Promise.all` does,
and goes on to the unlock when one of them fails. `Migrations` runs one transaction
per migration after a plan that was made before it; the primary key of
`schema_migrations` decides between two replicas. Its `rollback()` is called by the
tests only (section 5); the model has it as a call an operator may make.

### ReportScheduler

Days pass, every process looks at midnight, and a schedule due by then is mailed,
recorded and moved on in three steps. A mail is tried up to `MaxAttempts` times.
`NextSend` has the branches of `calculateNextSendDate`: the next such day of the week,
or the day of the month one or three months after the month of sending, over a
calendar of months that the instance gives (`MonthStart`). `PeriodStart` is where the
report that is sent on a day begins, with `setDate` or `setMonth`. `NightInMonth` are
the schedules whose midnight is in the month of their day whatever the month; the others
pass over a period without anything being late (section 5).
`repMissed` and `repCrossed` are history: a report that was late, refused or edited,
and one that two processes sent at once.

### TreasuryMonitor and Notices

`TreasuryMonitor` separates the read of all balances from the read of each
employer's streams, and both from the alert and the row. A change of an employer's
tables is one transaction on either or on both of them, as the creation and the
cancellation of a stream are. `monTrue` collects every pair of balance and burn that
was true since the first read. `Notices` has the three checkers of the scheduler, whose
sets of keys are in memory, against requests that read, merge and write the
preferences and may be stored though their answer is lost. A process that shuts down
closes its pool under its checkers (`PoolCloses`), which then find no row and take
every kind for on: `blind` marks a notice that was decided so.

### Payslips

A signature is modelled by what it was made over: identifier, gross amount and time.
A request looks for a row, sums the streams, signs, and stores unless it found a
row; the row's own time is the database's.

### MCServices and MCSettling

The services of module `Services` share no variable, so it chooses in `ServicesInit`
which of them moves (`part`); `MCServices` gives it its instance: the run explores the sum of their state spaces and not
the product, and loses nothing, since no step of one enables or disables a step of
another. MCSettling does the same for those that promise something to happen, with
WebhookDelivery and PayrollScheduler as instances.

## 3. The runs

Passing runs; every property of each has a mutant of the code that breaks it.

| Run | Instance | What it shows |
|---|---|---|
| `advisory_lock` | 2 replicas, 2 sessions each, 3 calls, counts up to 3 | Whatever session each statement lands on, one session of a replica carries a count for every call inside it (`HeldCoversInside`), so tasks of two replicas overlap only after the pool closed a session that held the lock (`ExclusiveUnlessChurned`). |
| `stream_api` | 2 streams, 2 employers, 1 worker, 2 deposits | One charge, at most one refund, never more than was charged (`ChargedOnceRefundedOnce`); a replay never changes whose stream it is nor revives a deleted one (`RowIdentityKept`); each request is a step of `TreasuryPromise` or moves no money (`KeepsTreasury`); the balance agrees with `vault_events` and the audit log unless a deposit overlapped another change or stopped half way (`BooksBalance`). |
| `ledger_sync` | 4 ledgers, 4 events, 2 loops, batches of 2, 2 attempts, 2 faults, `getLatestLedger` one ledger behind, indexer on or off | With the syncer alone, the first event of every ledger below the cursor is in its table or was logged as failed (`FirstOfLedgerHandled`) and the cursor never moves back (`CursorNeverBack`); replaying a cycle charges nobody again (`KeepsTreasury`); with or without the indexer it reaches the head (`CatchesUp`). |
| `webhook_delivery` | 2 events, 2 requests, 2 batches of 2 that may overlap and share an item once, 2 retries, 1 intervention, 1 fault | The queue implements `DeadLetterPromise` (`KeepsPromise`: a closed item does not come back, is tried no more often than its limit, the faults and the batches that shared it allow, and buried after all its tries, once and once more per sharing), nothing is lost unless something failed (`NothingForgotten`), every counted attempt is logged (`AttemptsLogged`), and an item marked as replayed was delivered or has a successor (`ReplayedWasDelivered`). |
| `payroll_scheduler` | 2 replicas, one of them unconfigured, 1 schedule, 2 refreshes each, 2 overrides in a batch, 1 tick, 1 change of the schedule or 1 fault | The log claims no stream that was neither created nor simulated, and lacks one only for a fault (`RunsAccounted`; for a tick of which nothing was simulated that is: every success was paid, and the theorem covers instances without an unconfigured replica); the queue of overrides implements `OverridePromise` (`KeepsOrders`: none pays or pretends twice, or is taken up again); only a fault leaves one in `processing` (`StrandedByFault`). |
| `services` | for each of 13 services: 2 or 3 actors, 1 or 2 faults (`Services.cfg`) | See the next table. |
| `settling` | 1 or 2 actors each, 1 or 2 faults (`Settling.cfg`) | Every item leaves the dead-letter queue (`ItemsSettle`); the jobs end up in agreement with `payroll_schedules` (`JobsReconciled`); a transfer that Circle has attested is attested here (`TransferAttested`); every request for a number is answered, every old secret replaced, every due report sent, every start of a process over (`ServicesSettle`). |

What `services` shows, property by property (`ServicesTypeOK` types them all):

| Property | Module | It says | and excuses only |
|---|---|---|---|
| `NonceAccounted` | NonceManager | every number from the account's own to the manager's is used, free or in one hand: none twice, no gap | - |
| `IdemOnceUnlessOverlapped` | Idempotency | one execution, one answer everywhere | requests that overlapped, faults |
| `StaleOnlyByOverlap` | SummaryCache | a cached answer knows every write before it | a query that overlapped the write, a key the write does not drop, another replica's map, a call of the database or of Redis that failed anywhere |
| `AuditAccounted` | AuditLog | an entry is queued, in hand, written or dropped, and in one of these places | entries of a transaction somebody else ended, a ROLLBACK that threw, a closed pool |
| `RangeIndexed` | CrossChain | every burn between the first and the last block read has its row | burns whose own log failed |
| `OneChallengePerWallet` | WalletVerification | an address has at most one challenge | two workers that asked at the same moment (requests of one worker do not overlap) |
| `RotationsCounted` | KeyRotation | the metadata counts the values a secret has had | rotations that failed half way or were run by two processes at once |
| `ArchiveKeepsRows` | Archive | a row is in one of the databases, and its copy is what it was | rows changed after they had been listed or copied |
| `ServesMigrated` | Migrations | a replica serves on the whole schema, each migration applied once, unedited | what an operator rolled back |
| `ReportsTile` | ReportScheduler | a report's period begins where the last one ended, weekly, monthly or quarterly | schedules on the last day of a month, reports that were late, refused, edited or sent by two processes |
| `RunwayOfAMoment` | TreasuryMonitor | balance and burn of an alert were true together | both tables changed between the two reads, as any one creation or cancellation of a stream does: what is left to catch is a deposit or the end of a stream |
| `NotifiedAsAsked` | Notices | no notice of a kind that was turned off | requests about the preferences that overlapped, a checker whose process had closed its pool before it read them |
| `PayslipFound` | Payslips | the first payslip is found by its signature for ever | a request that overlapped it |

Runs that find a statement of the documentation violated by what the code does:

| Run | The statement | What happens |
|---|---|---|
| `payroll_replicas` | `README.md:151`: advisory locks "prevent duplicate processing across horizontal replicas" | Two replicas fire for one tick one after the other: the lock is free again, nothing recalls the tick, both pay. |
| `ledger_sync_stall` | `README.md:173`: "failed batches go to the dead-letter queue and the cursor is advanced to avoid a permanent stall" | `enqueueJob` does not reject after its last attempt, so the `catch` that advances the cursor never runs and the batch is enqueued for ever. |
| `ledger_sync_indexer` | `README.md:169`: the event indexer "handles backfill and structured persistence" | It recognises no event, stores nothing, and moves the cursor it shares with the syncer past events nobody has stored. |
| `ledger_sync_cancel` | `README.md:173`: the syncer "upserts stream/withdrawal rows" | A cancellation has no amount, so its upsert carries a total of 0, which the CHECK constraint of migration 013 refuses before `ON CONFLICT` applies. |
| `payslip_verify` | `pdfGeneratorService.ts:446`, on every payslip: "cryptographically signed. Verify authenticity at /verify-signature" | The signature covers the time of the request; the row takes the database's time, with which the verification computes. |

### Bounds, and why they are enough

* *Two of everything that interferes.* Every property relates one row, one item
  or one tick to the actors that touch it; a third actor repeats a role that the
  first two have. Three calls on two replicas are needed for the lock, since
  its count is re-entrant within one replica; three requests for a payslip and for
  an idempotency key, since two can overlap and the third come after both.
* *Retry limits of 2* give a first, a middle and a last try. *Batches of 2* give a
  batch that is full, one that is not, one with a rest and one without. The chain
  has an empty ledger, a ledger with two events and a foreign event.
* *Faults*: one fault tears any two steps apart; the run of the syncer allows a
  second one, for a fault that hits the recovery from the first. In
  `payroll_scheduler` a CONSTRAINT (`EditsOrFaults`) follows a change of
  the schedule with one override and without faults and simulated streams, and those
  with two overrides and without a change; `settling` has both in one. In
  `webhook_delivery` one (`InFewCases`) has both events, a call by hand and a fault in
  one behaviour only when the call was a replay, which creates the second event: with
  a retry or a discard, two events and a fault are followed without it, or one event
  with all of it.
* *Overlapping batches*: two, and an item is shared once (`MaxShared`). In
  `webhook_delivery` a CONSTRAINT (`InFewCases`) follows them with two events, or
  with one and a fault or a call by hand; in `settling` with a fault but without a call
  by hand. The theorems have no such bounds.
* *Interventions by hand*: one, which may overlap each step of the worker and of two
  requests.
* *Amounts*: totals of 0 (refused) and 2, withdrawals of 0 and 3 make a refund that
  is full and one that `GREATEST` clips; a deposit of 5 is told from all of them.
* *Services*: two migrations in order and a third that can be rolled back; a queue of
  one entry for the audit logger, so that it overflows; a batch depth of one block
  and a poll of one row (two for the liveness property, which holds where the rows fit into a
  poll: rows beyond the 50 of the code may starve, section 5); archive batches of one row, of which a cycle runs two;
  a week of two days and months of two and three days (`MCMonthStart`), so that three
  weekly reports and two monthly ones fit in.
* Symmetry is used on replicas, slots, events, callers, streams and deposits, only
  in runs without a liveness property. Deadlock is checked in
  `advisory_lock`, `stream_api`, `ledger_sync`, `webhook_delivery` and
  `payroll_scheduler`. It is off in `services`, `settling` and `payslip_verify`:
  migrations, payslips and reports are finite there and stop when they are done.

### Fairness

Only what the event loop and the timers give: a call that was sent is answered or
fails, a timer that is due fires, so each loop that has a step takes it (weak
fairness of `SyncStep`, `IndexStep`, `CallerStep`, `WorkerStep`, `RefreshStep`,
`RunStep`). Requests, interventions, crashes and faults are never obliged to
happen, and faults are bounded: the liveness properties speak of what happens once
they stop. `LedgerSync` adds that the network goes on closing ledgers and that a
loop which asks for the head for ever is not always told of an old one
(strong fairness); `PayrollScheduler` that a process which has stopped its
scheduler exits and is started again, as `index.ts` does on a signal.

`settling` asks for less than the modules do: one weak fairness condition on
`Progress`, the union of all these steps of the part that runs. That is enough
because none of the parts has a step of this kind that can be taken for ever while
another one waits, and it keeps the properties free of an assumption about which
of two due timers goes first. `KeyRotation` and `Migrations` have the start of a
process and the steps of its loop in it, `ReportScheduler` the nights.

## 4. The proofs

Checked by TLAPS, for any number of replicas, sessions, calls, streams, events,
employers and requests and for any amounts, retry limits and batch sizes. Every
invariant and every action property that a passing run checks is also a theorem of
its module, for every value of the constants; so are the refinements of the three
promises. Three properties are proved and no run checks them any more, since one of the
runs' properties says as much: `OverrideOnce` and the bound of `RetryBudget` follow from the
promises, and `NoEntryOverInside` is `ExclusiveUnlessChurned` from the side of the call that
enters. What each theorem needs is an inductive invariant: TLC checked it as an invariant of
a run first, and the proof has one lemma per action or group of actions under it.

* `AdvisoryLockProofs`: `TypeCorrect`, `CoverTheorem`, `ExclusionTheorem` and, of the
  steps, `NoEntryTheorem`. Exclusion is not inductive, since an unlock that lands on
  another session lets a count outlive its call; what is preserved is
  `HeldCoversInside`: *one* session of the replica has at least as many counts as there
  are calls inside. That needs cardinalities of `Inside`, from `CallsAssumption`
  (finitely many calls and sessions). The lock admits nobody over a count, hence
  `NoEntryOverInside`.

* `StreamApiProofs`: `TypeCorrect`, `ChargedOnceTheorem`, `RowIdentityTheorem`,
  `BooksTheorem`. `ChargedOnceRefundedOnce` is inductive with the types: a row's audit
  record is tied to its total and deletion mark, and no transaction changes the one
  without the other. The books are sums: over the streams of what each costs its
  employer (`Cost`), over the deposits of what is in the balance and not recorded yet
  (`Surplus`). Each handler changes one term, so `SumChanges` moves the sum by what the
  handler moves the balance. `TreasuryKept` is the refinement of `TreasuryPromise`: a
  first insertion charges, a soft deletion closes (its refund is within the charge
  because the charge is the row's total, from `ChargedOnceRefundedOnce`), a deposit's
  write is a deposit, and an upsert of a known stream stutters, since it keeps employer
  and deletion mark. Assumed are that amounts are naturals, that no row is
  `NoRow`, and that there are finitely many streams and deposits.

* `LedgerSyncProofs`: `TypeCorrect`, `NoLedgerSkipped`, `CursorTheorem` and
  `TreasuryKept`, the refinement of `TreasuryPromise`, for which a stream that does not
  exist has never been charged (`Uncharged`). The invariant
  follows a cycle: whatever step it has reached, the first event of each ledger behind
  it is handled or still in its batch (`Covered`), and it is ahead of the saved cursor
  (`CycleFine`); one loop at a time holds the lock (`LockHeldOnce`), and nobody is ahead
  of the network (`NobodyAhead`), though the latest ledger it is told may be old. The heart is that a batch that
  is cut by its limit goes on *after* the ledger of its last event: what it skips is
  never the first of a ledger. `ChainAssumption`: events come in the order of their
  ledgers. `getLatestLedger` may lag, `getEvents` answers up to the head.

* `WebhookDeliveryProofs`: `TypeCorrect`, `RetriesBounded`, `NoEventForgotten`,
  `EveryAttemptLogged`, `ReplayedOnlyDelivered`, and `PromiseKept`, the refinement of
  `DeadLetterPromise`. One invariant carries them all. What an item has had and is still to have
  (`Load`: its tries, and the batches in `Owing` that have yet to try it, less the faults
  and the sharings) is at most one ahead of the counter that any batch carries for it
  (`EntryInv`) and of the row's (`ItemInv`): a batch writes back a count it read long
  before, but then another held the item too, and the sharing accounts for the try. Who
  holds an item (`Holders`) may bury it once. The entry just tried is one try ahead
  (`TriedInv`); a request that will mark an item has
  seen its event delivered or put back (`CallerInv`). The queue's size is bounded by
  `Tokens`: rows and requests that may still add one are no more than the events and the
  calls by hand. The refinement then goes step by step: each action closes items, tries
  one, buries one, adds one, is a mishap, or stutters.

* `PayrollSchedulerProofs`: `TypeCorrect`, `OverrideOnceTheorem`, `RunsTheorem`,
  `StrandedTheorem`, and `OrdersKept`, the refinement of `OverridePromise`. For the
  overrides: one that a refresh has taken is in `processing`,
  in one place of one batch of one replica (`ClaimedOnce`), and has not been executed
  unless it is the head that just was (`Claimed`); a dequeue keeps that because it takes
  only `pending` rows, which no batch holds. The refinement needs nothing more: the head
  of a batch is in `processing` and unpaid before it is executed, and paid before it is
  marked completed. For the log: the payments it knows of and
  those in flight are no more than were made or simulated, and at most the faults fewer
  (`Balanced`). The second bound also counts the replicas that are down: their restart
  loses what they carry and costs no fault of its own, so the fault of their stop must
  still be to spend. For what is left in `processing`: a refresh past its overrides has
  none left (`StrandedInv`). `FiniteAssumption`: a batch lists a finite set of rows.

* `ServicesProofs`: `PayslipTheorem`, `NoticeTheorem`, `RunwayTheorem`,
  `IdempotencyTheorem`, `CacheTheorem`, `AuditTheorem`, about `PaySpec`, `NoticeSpec`,
  `MonSpec`, `IdemSpec`, `CacheSpec` and `AuditSpec`. The first five handlers read, wait
  and act, and the invariant says what the reading is still worth in between. A payslip:
  a request that nobody overlapped is alone under way (`AloneUnderWay`), and whoever
  comes after its row finds it (`OthersFound`). A notice: a PATCH that nobody overlapped
  holds the row that is still there (`AlonePatchReads`), so that only kinds the worker
  asked for are on (`PrefsAsAsked`), which a checker that still has its pool reads. An alert: until the streams of an employer are
  read, a table that has not changed is what it was at the first read (`HalfRead`), and
  the present is in the history of the cycle (`PresentKnown`). An idempotent request:
  an answer kept anywhere is that of a request that was executed (`AnswersKnown`), which
  without overlaps is one (`OneExecutes`). A cached answer: a write that has dropped the
  key is known to the entry or crossed its query, in the fills (`FillsCrossed`), in the
  map (`MapsFresh`) and in Redis (`RedisFresh`), each from its own step of the write on.
  An audit entry: it is somewhere, or went with a transaction (`NothingLost`), and as
  long as nothing fails in exactly one place (`OnePlace`). The first part is kept by
  every step; the second needs that nothing is ever rolled back then and that no
  snapshot has an entry twice (`Calm`), and adds up a count, a cardinality and a sum
  over the sessions, of which each statement moves one unit from one to another.

* `BookkeepingProofs`: `ArchiveTheorem`, `NonceTheorem`, `ChallengeTheorem`,
  `MigrationsTheorem`, `RotationTheorem`, `DepositsTheorem`, `ReportsTheorem`. Each
  property speaks of what is at rest, so each invariant adds what is on its way. A row
  of the archive: whatever was listed or copied is still true of the row or was raced by
  a retry (`ReadingsTrue`), and a delete is only ahead of what has been copied
  (`DeletesCopied`). A sequence number: the account is read only while no sequence is
  known, or numbers in use would be reset, and who waits in the queue waits once and
  holds nothing (`LineOrderly`). A challenge: an address has one row or one request
  about to insert it (`OneOrNone`). A migration: whose transaction is open has no row,
  and one replica holds its locks (`LocksHeld`); a replica with a plan is through with
  everything not in it, although the plan was made before (`PlanCovers`). A secret: one
  process at a time changes an undisturbed key, and the metadata is behind by that
  change (`Counted`). A burn: what a process counts as read is handled (`RangeRead`),
  and the logs of its cycle cover what it is about to count (`CycleCovers`). A report:
  a schedule that nothing disturbed is due on one of its days and at most one night ago
  (`OnTime`), one run has it (`OneReporter`), and its last mail went the night after the
  due day, or on the day with which the next report's period will begin (`Spaced`). For
  weekly schedules the dates are sums modulo the week, for the others the month of a day is
  found in a calendar of which only the order of its months is known; the module has
  lemmas for both.

* `SequenceLemmas`: what the proofs share. Batches that list a set, tables that grow or
  change in one row, a sequence cut in two, counting a finite set that gains or loses a
  member; and the community modules' `SumFunction`, which recurs over a finite set. The
  induction theorems of the library take an operator as a parameter and cannot be used,
  so what needs induction over data is proved from a least counterexample (`LeastOne`,
  itself from the well-foundedness of the naturals): a sum exists, any term can be taken
  out of it, it changes by what one term changes, it is zero over zeros and no less than
  each of its terms over naturals.

* The composition (`BookkeepingProofs`, over module `Services`): `ServicesTypes` and
  `ServicesTheorem`. The theorems above are about each service's own specification;
  these two say that the types and all thirteen guarantees hold of the processes that run
  them together. `ServicesInv` is the conjunction of the services' invariants; a step of
  one leaves the variables of the others as they are (`EachStepsAlone`), and an invariant
  speaks of no variable but its service's own. `ServicesTypes` needs more than that,
  because a type is a bound here and a counter must be shown to stop at it: the numbers
  used and the callers engaged together never exceed the bound on callers' calls, and
  the range between the account's number and the manager's fits into it because it is
  exactly what is used, free or in one hand (`NonceBounds`, `RangeFits`); the chain's
  head is the depth plus one plus the burns that were mined (`CctBounds`); a scheduler
  holds only versions in range (`KeyBounds`, `SeenBounded`); a replica that is to try
  again has attempts left (`MigBounds`).

### What is assumed

Sets of actors and rows that are counted or listed are finite: calls and sessions,
streams and deposits, events and requests, replicas and overrides, callers of the nonce
manager, users who ask for challenges, processes of the key rotation, burns, versions of
the schema, flushes and the sessions of their pool. Bounds on faults, interventions,
changes and counters are naturals; a batch, a retry limit and the attempts of a
connection or a mail are at least one, as the code's constants are. A value that stands
for "none" is not one of the values (`NoRow`, `NoEvent`, `NoAnswer`, `NoNonce`, `NoJob`,
`Nowhere`), and no caller of the nonce manager is called "initialize", the name of the
queue's own first job. Migrations are numbered from 1, as their files are, and those that
can be rolled back are among them (`MigrationsAssumption`). A week has at least two days,
a weekly schedule's day is one of them, and some process looks for due reports
(`ReportAssumption`). Months follow one another, the calendar outlasts the days by a
quarter, and every month has the day of every monthly or quarterly schedule, as every month
has the days 1 to 28 (`CalendarAssumption`). `VaultOrder` lists secrets (`RotationAssumption`). Accounts' sequence
numbers are integers. Rows with dependants, transactions with two messages and the first
amount of a treasury belong to the rows, burns and amounts there are. TLC evaluates each
assumption on the instances of the runs.

### Only model-checked

Everything under fairness (`CatchesUp`, `ItemsSettle`, `JobsReconciled`,
`TransferAttested`, `ServicesSettle`): TLAPS proves no ENABLED. No invariant and no action
property of a passing run is only model-checked. The violations are counterexamples and
need no proof.

## 5. Further divergences seen while modelling

* `lock.ts:36-39`: an unlock that runs on another session than the lock returns
  false, which nobody looks at; the lock stays with the pooled session, and other
  replicas skip the task until that session is closed.
* `queries.ts:263`: an upsert that changes the status of an existing stream writes
  no row of `stream_audit_log`, which migration 0009:35 calls an "Immutable audit
  trail of every status change on a payroll stream".
* `queries.ts:313`: a replayed withdrawal is a second row of `withdrawals`; the
  comment of `001_initial_schema.sql:4` reads as if replays were idempotent.
* `syncer.ts:368`: a full batch is continued at the last event's ledger + 1, so
  the rest of a ledger that a batch cuts is skipped. `FirstOfLedgerHandled` is the
  guarantee that remains.
* `adminRouter.ts:350`, `dlq.ts:167`: a discarded item becomes `replayed` when
  a retry that was in flight settles it, and a replayed one `discarded`.
* `delivery.ts:226`: a crash between the update of the event and the push to the
  dead-letter queue leaves a failed event that nothing retries.
* `adminRouter.ts:247-297`: a webhook replay looks for `payload.originalPayload`,
  which no item has, and marks the item as replayed although nothing was sent.
* `012_add_scheduler_overrides.sql:30`: an override a crash left in `processing` is
  never taken up again.
* `lock.ts:18`: the pool may close the idle session that holds the lock while the
  task runs, and another replica enters; `ExclusiveUnlessChurned` is what remains of
  `README.md:151`.
* `middleware/idempotency.ts:6`: the response is stored "after a successful request";
  the code stores error responses too, and replays them.
* `auditLogger.ts:463`: shutdown is to "flush remaining entries", but `index.ts:515` has
  closed the pool by then, and what was queued is lost (`CloseDb`, `AuditShutdown`).
* `auditLogger.ts:397`: a ROLLBACK that throws loses its batch; a statement of somebody
  else that lands on a session with an open transaction commits or rolls back with it.
* `cctpIndexer.ts:113`: a restarted indexer begins one batch behind the head, whatever
  it had read; a second message of one transaction is taken for an indexed one;
  nothing in `src/` sets a transfer to `completed` or `failed`.
  `attestationPoller.ts:36` takes 50 rows without an order, so rows that Circle never
  answers may keep others from being asked about for ever. The `message_hash`
  of migration 015 is VARCHAR(128), shorter than a message.
* `keyRotationScheduler.ts:148`: the new value is made for every secret of the path,
  the database's URL included, and has not the form of a Stellar secret.
  `secretsBootstrap.ts:293`: a refresh does not reach the environment, which the
  process goes on reading.
* `walletVerification.ts:168`: the answer is success also when the UPDATE matched no
  worker; `routes/workers.ts:214` replaces a wallet and leaves its verified flag.
* `dataLifecycle.ts:16`: nothing calls `startDataLifecycleJobs`, so nothing is
  archived unless somebody does.
* `scheduler.ts:153`: with the gateway's or the stream contract's address unset, which is
  what `.env.example` ships, nothing is paid, `scheduler_logs` says `success` with a random
  stream id, and an override ends `completed` with one (`Unconfigured`).
* `scheduler.ts:492`: batches of the dead-letter worker overlap, try an item beyond
  `WEBHOOK_DLQ_MAX_RETRIES` and write its permanent failure twice, although nothing failed
  (`shared`).
* `payrollReportSchedule.ts:93-104`: a monthly or quarterly date is counted from the month
  of sending, the midnight after the due day. A report due on the 28th of February goes out
  on the 1st of March and moves on to the 28th of April: the days between the 1st and the
  28th of March are in no report (`NightInMonth`).
* `queries.ts:999`, `index.ts:512`: shutdown closes the pool and neither stops nor awaits
  the checkers of the notices, which read no pool as no row and no row as every kind on: a
  notice that was turned off goes out (`PoolCloses`).
* `package.json:18`: `npm run migrate:rollback` starts `db/migrate.ts`, which ignores its
  argument and migrates forward; only tests call `MigrationRunner.rollback()`.
* `migrationRunner.ts:243`: `rollback` pads a version to three digits and so never
  finds `0004` to `0010`. `pool.ts:355`: of two replicas that start together the
  loser of a migration uses up one of its attempts.
* `reportScheduler.ts:198`: no lock keeps replicas from sending a report twice; a
  report that was mailed but not moved on is mailed again the next night; one that
  was late leaves a gap or an overlap in the days covered.
* `monitor.ts:254`: `sendTreasuryAlert` swallows its channels' failures
  (`Promise.allSettled`), so `alert_sent` is true whatever happened.
  `index.ts:324` answers with no employers while another cycle holds the lock.
* `scheduler.ts:510-586`: the notices go to employers with a balance, taken for
  workers; the runway is the balance over the whole liability, not over a day's;
  neither `email_enabled` nor `in_app_enabled` is looked at; a restart forgets
  what was sent.
* `routes/payslips.ts:249`: a payslip that is asked for again has a new identifier
  and signature that are not stored, and so is not found. `signatureService.ts:74`:
  without configured keys each call makes its own pair, where the comment says they
  "will change on restart".
* `brandingService.ts:253`: `JSON.parse` of a JSONB column, which the driver returns
  as an object: after the first logo every operation on an employer's branding
  throws. `:61`: the cache's 3600 "seconds" are passed as milliseconds.
* `index.ts:165`: the logging middleware comes after the routes and sees none of them.

## 6. What is not modelled, and the plan

Not modelled, because no state of theirs is shared by several actors or because a
library keeps it: the rendering of reports and payslips, the reporting queries, the
AI gateway, the WebSocket server's best-effort broadcasts, the proof, Stellar and
health routes, the middlewares, metrics, configuration and schemas. The circuit
breaker (the opossum library) appears as one of the ways a call can fail. The
Stellar listener and `SecureKeyManager` are started by nothing in the repository.

Branding is left out for another reason: every operation but an employer's first
upload throws (section 5), so that a model of the code has nothing to check, and a
model of what was meant would not be of this code.

Left out of modelled components: the KYB registration of the employer routes, user
administration in the admin routes, `POST /test-report`, the metric snapshot and
`adminAuditLog` (one INSERT each), Vault's policies, and the order in which
`shutdown` stops the services that neither log nor hold a session.

A schedule's row is its cron expression. A job keeps the row it was created with
(`scheduler.ts:408`), so a change of rate, token or worker would go unnoticed; but nothing
in `src/` writes those columns once the row exists (`updatePayrollSchedule` sets
`enabled`, `next_run_at` and `last_run_at`), and `README.md:146` promises only that new,
removed and re-timed schedules are reconciled.

Left for later: the pure algorithms (cron's next date, runway and vesting arithmetic,
CCTP message fields) as operators checked against reference definitions; the abstract
specification of a treasury with its deposits, once the handler adds in the database
instead of in memory.
