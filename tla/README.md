# Verification of the HR management platform

This directory is the TLA+ development kept beside the code of `src/`: a multi-tenant
HR platform (NestJS backend on PostgreSQL and Bull queues, Next.js frontend, a separate
Python service for biometric devices). The models are written from the backend's source.
They concentrate on the chain of decisions that ends in somebody being paid: approvals,
leave, the punches of the biometric terminals and those imported from older systems, the
attendance summary of a payroll period, the payroll run with its fines, and the payout of a
payslip.

Contents: [1 The system](#1-the-system), [2 Modules](#2-modules-and-how-they-correspond-to-the-code),
[3 Runs](#3-runs), [4 Proofs](#4-proofs), [5 Divergences](#5-divergences-between-code-and-documents),
[6 Not modelled](#6-what-is-not-modelled), [7 Plan](#7-plan).

## 1 The system

Two facts shape everything. First, almost every service method runs as an HTTP handler that
awaits one query after another on pooled connections, each its own transaction; only
methods that say `db.transaction` are atomic. Between two queries any other handler, cron job
or queue worker may run, and the process may die. Second, most methods read a row, decide in
TypeScript and write by primary key, so a write does not check that what was read is still
true. Where the code does protect itself it uses one of three means: a conditional `UPDATE ...
WHERE status = ...`, a unique index, or `SELECT ... FOR UPDATE` in a transaction.

| Component | State | Operations | Talks to | Hard part | What makes it correct |
|---|---|---|---|---|---|
| Approval chains (`branch-approval-chain.service.ts`) | `branch_approval_chains`: active flag, ordered steps, each with named approvers or a role | upsert with validation, activate, deactivate, resolve, advance | read by the engine on every decision | edited while requests are open; step numbers need not be contiguous | advancing visits the steps in increasing order and ends |
| Approval engine (`approval-engine.service.ts`) | `approval_requests` (status, current step, log) and a copy of status, step and log in the entity's own table | submit, approve, reject, cancel, escalate, expiry sweep | called by ~14 modules; reads chains and the payroll lock; writes entity tables and runs four side effects | handlers interleave between queries, die between them, write stale snapshots | no step passed unsigned, log is evidence, closed once, entity told the outcome |
| Leave (`leave.service.ts`) | `leave_balances` (allocated, used, available), requests, encashments | create, approve, reject, sync balances, deduct, encash | engine through `approveByEntity`; payroll lock; leave policy | check and deduction are several queries apart; the inbox bypasses the service | approved days are deducted once, the balance is consistent |
| Attendance summary (`attendance-summary.service.ts`) and payroll lock (`payroll-lock.service.ts`) | `payroll_attendance_summary` (status, figures, generation version), `..._versions` | compute (cron and HTTP), recompute, manual adjustment, approve, reject, request correction, cancel, lock, unlock, processing | attendance, leave, overtime (inputs); payroll run (consumer) | compute takes a dozen queries between reading the status and writing it back | figures under a lock do not change; what is approved agrees with what was reviewed, and the history with what is in force, in the fields that `compute` compares |
| Payroll payments (`payroll-payment.service.ts`, `payroll-payout.processor.ts`, Razorpay gateway and webhook) | `payroll_payments`, `payslips.status/active_payment_id`, the Bull queue, the gateway's payouts | initiate (single, bulk), retry, confirm, reverse, legacy mark-paid, payout job with three attempts, webhooks | queue, payment gateway | lost answers, retries, stalled jobs, webhooks repeated and reordered | one active payment, one payout per payment, paid means money moved, nothing sent for a settled payment |
| Payroll run (`payroll.service.ts`) | `payroll_runs`, one for the organisation and one for each branch, `payslips`, the run that backs a summary | create, generate, process | locked summaries, fines, salary structures | the generation of one scope may overlap with the other's; summaries are unlocked and fines move between generation and processing | a final payslip never changes; what is processed is processed together; what a payslip pays is traceable |
| Fines (`fines.service.ts`) | `employee_fines`, `deduction_payments` | raise, decide, cancel, waive, settle, verify a payment, charge to a payslip | engine, payroll run | set free and charged again by each generation; manual operations write what they decided on an earlier read | a deducted fine is on the payslip it names |
| Attendance (`attendance.service.ts`, `break-session.service.ts`, `overtime.service.ts`, shifts) | `attendance_records`, `break_sessions` | clock in and out, breaks, corrections, overtime | biometrics, engine side effects, lock | two writers of one day | one open session, no write into a locked period |
| Biometric ingestion (`biometrics/`: sync scheduler, adapter and cursor, ingestion service, queue processor, offline buffer, fingerprints, attendance engine) | sync jobs, `biometric_sync_cursors`, the ingestion queue, `biometric_offline_punch_buffers` and its Redis list, `punch_fingerprints`, `attendance_records.punch_sequence`, `pending_punch_reviews` | sync, submit, buffer, drain, process a batch, resolve a review | Bull, Redis, terminals, attendance | at-least-once delivery over a queue, a list and a table; retries against a dedup table that was written first | no punch the cursor has passed is forgotten, each reaches its record or a reviewer, the sync goes on |
| Biometric service (`src/biometric-service`) | its own database of devices and an outbox of punches | poll devices, push punches | backend ingestion API | forwards again after failure | nothing lost |
| Historical import (`historical-attendance-import/`) | batches with their status and statistics, staging rows, `..._progress`, `..._execution_jobs` and their Bull jobs; commits, snapshots, rollback runs | enqueue, execute chunk by chunk, pause, resume, cancel, retry, import without a job, validate; map, reconcile, commit, rebuild, roll back | connectors, Bull, attendance, summaries | a cursor kept in four places that several jobs and requests overwrite; jobs that fail, stall and begin again | nothing before a cursor is missing, completed means everything was read, a job that is not dropped ends on record; rollback restores only what the import changed |
| Authentication (`auth/`) | users, refresh tokens, MFA | login, refresh, logout, switch tenant | all guards | concurrent refresh | one session per token |
| Organization lifecycle, subscriptions (`operations/`, `organization-registration/`) | tenants, subscriptions, invoices | register, approve, suspend, renew, pay | billing | renewal against payment | state follows invoices |
| Recruitment, exit management | vacancies, applications, offers; exit requests, clearance, settlement | per-stage approvals, conversion; checklist, settlement | engine, employees, assets, leave | many rows decide one transition | an employee created once; settled once |
| Platform, employees, performance, finance, assets, compliance, notifications, reports, frontend | their own tables | CRUD, queries, delivery | everything | little shared state | see section 6 |

## 2 Modules and how they correspond to the code

| Module | Role |
|---|---|
| `BranchApprovalChain` | the chain row, validation, save/activate/deactivate, `NextStep` (= `computeAdvance`) |
| `ApprovalSpec` | what an approval promises to the module that submitted it |
| `ApprovalEngine` | the engine, EXTENDS the chain; implements `ApprovalSpec` (`KeepsPromise`) |
| `ApprovalEngineProofs` | theorems about the engine, for interleaved handlers |
| `ApprovalSerialProofs` | theorems about the engine when decisions follow each other, or when no handler dies |
| `LeaveService` | EXTENDS the engine and composes it with balances, policy and the calls of `/leaves` |
| `LeaveServiceProofs` | theorems about the balance |
| `AttendanceSummary` | summaries, reviews, versions, lock and unlock of one payroll period |
| `EmployeeFines` | fines and their payments, with the requests at work on them |
| `PayrollRun` | EXTENDS both and composes them with the runs and payslips of the period |
| `PayrollRunProofs` | theorems about the summaries, runs and payslips, for interleaved requests |
| `PayrollSerialProofs` | theorems about fines and summaries when requests do not overlap |
| `PunchIngestion` | the way of a punch from the terminal to the attendance record |
| `PunchIngestionProofs` | theorems about the ingestion |
| `ImportExecution` | the background import of a batch of historical attendance |
| `ImportExecutionProofs` | theorems about the import |
| `PayrollPayment` | payments of payslips, worker, gateway, webhooks |
| `PayrollPaymentProofs` | theorems about payments |
| `MC*` | values for the constants of the runs |

Every definition that stands for code names the lines it was translated from in
`PROJECT.json` (`map`). Definitions that a comment introduces with *Mutant* are deliberately wrong
variants of the definition that follows; nothing uses them. They exist to show that each
property would notice such a mistake.

**ApprovalEngine.** A handler is a record `task[h]`: its program counter, the operation, the
user, and `copy`, the row it read. Each awaited query is an action: `ReadRequest` (findOne
or findByEntity and the status check made on the result), `Authorise` (validateEligibility),
`Resolve` (resolveChain and computeAdvance, a *second* read of the chain), `CheckLock`
(assertPayrollUnlockedForEntity), `Decide` (the UPDATE of `approval_requests`: computed from
`copy`, addressed by id), `SyncEntity` (syncEntityStep or syncEntityStatus), `ApplyEffect` (the
four side effects, reduced to whether they ran). `CreateEntity` and `Submit` are the two
INSERTs of a submission. `ExpirySweep` is the cron's single UPDATE. `Crash` stops a handler
between two queries. `history` is the only variable the code does not have: every
decision ever written, which the log is compared with. The log is a set of entries:
the properties ask which decisions it holds, not in which order they stand. `Kinds` are the
twenty tables of the engine; those in `Stepless` have no column for the step, and `syncEntityStep`
leaves them alone. Decision reasons, attachments and notifications are left out. Approvers resolved through roles are a set
of users (`pool`), which is all that eligibility depends on.

**LeaveService.** One employee, one leave type, one year. `call[h]` is where the handler is
inside `createRequest`, `approveRequest` or their encashment counterparts; while the
call is inside the engine the steps are the engine's own (`EngineStep` wraps `HandlerStep`).
A leave checks the payroll lock and syncs the balance before it is validated, an encashment
does neither. The first sync makes the balance row; until then (`present`) an unpaid type is
not checked against it and a paid one is refused (`PaidType`, `Covers`). Validation and the INSERT
are steps of their own (`ValidateCreate`, `InsertRequest`). `EngineDecision` are the decisions that reach the engine without a deduction:
every rejection, and the approvals of the inbox (`InboxOps`). `ChangePolicy` is a new
policy template; it reaches the balance with the next sync.

**AttendanceSummary.** A worker (`job[w]`) is in the middle of compute, recompute, a manual
adjustment or lock. `ReadSummary`, `ComputeFigures`, `WriteSummary` and `WriteVersion`
are the statements of compute; reviews and unlock are single conditional UPDATEs and hence
single actions. What a summary says (day counts, hours, overtime terms, policy) is a value of
`Figures`, and `Compared` what the eleven `COMPARABLE_FIELDS` say of it. `compute` calls figures
changed only if they differ in `Compared`; its upsert replaces all of them in any case, and without a
change keeps the status and the version and writes no version row. So the properties about reviews
and history are stated for the compared fields, which is what the code keeps; that payroll pays by
the others is a finding (section 5, item 3). `reviewed` is the figures a reviewer last approved.

**EmployeeFines.** `fineJob[w]` is a request between its read and its update: `BeginFineJob` is
the read with its guard, `InsertPayment` the payment that waiving and settling insert first,
`WriteFine` the update by id. `DecideFine` is what the approval engine writes to the fine's
table. A fine is its status, whether it names a payslip, and whether its approval request is
open; `payments` are the kinds of its payment rows. Amounts are left out.

**PayrollRun.** `generatePayslips` is one transaction at READ COMMITTED, so its reads are steps
(`BeginGeneration`: the UPDATE that frees the fines of draft payslips; `LoadSummaries`: SELECT
... FOR UPDATE; `LoadFines`) and all its writes show in `CommitGeneration`; `generation[r]`
holds what it has read, and `SummaryHeld` and `FineHeld` are the row locks that make others
wait. Which employees have a salary structure is a choice (`paid`). `processPayrollRun` is a
transaction that first locks its run row, hence one step. The summaries and the fines move by
the actions of their own modules (`SummariesMove`, `FinesMove`) wherever a row is not held.
`Overlapping = FALSE` lets a request or generation begin only when none is at work.

**PunchIngestion.** `sync[s]` is a sync job between its queries (`StartSync`, `Submit`,
`Persist`, `Push`, `AdvanceCursor`), `drain` the drain of the offline buffer, `worker[w]` one of
the jobs the ingestion queue runs at once. A batch is the set of punches in `content`; its job id
in Bull is its request id, so `Add` of a known batch does nothing. Each error the code meets is
a kind in `Faults`; `MaxFaults` bounds how many happen in one behaviour. `lost`, the only
variable the code does not have, holds the punches an error made the code give up: a batch
whose buffer row could not be inserted, a punch whose error was caught, and what a job had
registered when it failed late. When a batch is through, its buffered row is marked (`MarkProcessed`,
whose errors are swallowed) before the job completes (`FinishJob`). A review goes from pending to
retrying (`MarkRetrying`) and, with its record written, to processed (`EndResolve`); an error sets
it back to pending, and if that UPDATE fails too, or the process dies, it stays retrying and is never
selected again (section 5, item 14). Resolving a review is an HTTP request of its own; it runs in the
place of a worker, so that with one worker less it still races the other. The
lookback window of a device that has never synced and the cursor types of devices and employees
are left out; an employee gets a code only for a punch under review.

**ImportExecution.** A chunk is what one read of a connector returns, and a cursor the number of
chunks before it; the rows of a chunk are staged in one transaction, so `staged` is a set of
chunks. The SQL connectors answer a cursor whenever a chunk is as long as asked for, so a source
whose last chunk is full is read once more: `LastRead` is `LastChunk` or one more, and the read
of an empty chunk stages nothing. `mark` and `checkpoint` are the two cursors of the batch (in its statistics and in its
progress row), `execution` the rows of the executions with two more (reported so far, and the payload
a resuming request built). `importer[e]` is the job of execution `e` between its queries:
`StartJob`, `CheckStatus`, `ReadChunk`, `StageChunk`, `PersistChunk`, `ReportCursor`,
`ReportProgress`, then `Interrupt` (or `CompleteExecution` and `CompleteBatch`) and `EndJob`; or
`Throw`, `FailExecution` and `FailBatch`. An error may come in any of these: inside the `try` it
counts an attempt, even when the execution is completed already; that of `markRunning`, which stands before
the `try`, or of `fail` itself in its `catch`, is `ThrowOutside`, and after the last attempt Bull drops
the job with no row saying so. It also drops a job that stalled too often (`Crash`). The step of
such a job is `"dropped"`. `importer[Direct]` is an import without a job. `request[c]` is a
request between its queries (`Transition`, `FindLatest`, `InsertExecution`, `OpenBatch`).
Two pairs of queries are one step each. The status check of `bulkStageConnectorRecords` and the
transaction after it: whatever comes between them changes neither what is staged nor the
cursor that was read, and a status set in between would have been overwritten or kept just as if it
came after. The INSERT of an execution and the `queue.add` after it: nothing selects a queued
row. Which stopped execution was updated last is left open, so a resume may continue from any. The
statuses uploading, processing, validation and ready are one (`"open"`): all guards treat them
alike. `SetStatus` is the PATCH that sets any status, and stands for what commit, reconciliation
and rollback do to the status too. Left out: a cursor or offset given by the user, a source that
changes during its import, and rows that fail to normalise, which a
chunk read again inserts again (they have no hash).

**PayrollPayment.** `clerk[c]` is a request between its reads and its transaction,
`job[p]` the payout job of a payment, `payout` what the gateway did, with every status it
has had (`past`), because it sends an event for each. The gateway and Bull are external and
modelled from what the code relies on: `createPayout` may succeed and yet fail for the caller
(`AnswerLost`), a job may be handed out again (`Stall`), events come late, repeatedly, in any
order or never (`ReceiveEvent` picks any past status at any time). `Commits` says whether the
transactions of the worker and the webhook commit: `{TRUE}` always, `{FALSE}` never, both for
a database that sometimes fails. With the schema of migration 063 it is `{FALSE}`: see
section 5. A worker that loses its lock may be dead or still running: `Stall` hands its job out again or
drops it (Bull decides by `maxStalledCount`; the model leaves it open at every stall), and `late`
keeps what the first worker knew, which then goes on beside the second: it may create its payout
(`LateSends`) and record it over whatever was written meanwhile (`LateRecords`). `MaxStalls` bounds
how many such workers there are. Two webhooks at once are not modelled.

## 3 Runs

Every run finishes well within five minutes on two workers. All bounds are constants or the
sets below. Deadlock is not checked: users may simply stop acting, each bounded model
ends when every request is closed, and no operation of the code waits for another, except for
row locks: a circle of those PostgreSQL breaks (`GenerationFails`).

| Run | Instance | Checks | Shows |
|---|---|---|---|
| `ApprovalConcurrent` | 2 handlers, 1 leave, steps 1 and 3, approve/reject/cancel, sweep, lock, crashes | `TypeOK`, `StepsSigned`, `ApprovedLogComplete` | although handlers overwrite each other's log entries and revive expired requests, no step is passed unsigned and an approved request carries its own evidence |
| `ApprovalSerial` | 1 handler, a correction and a branch transfer, chain saved, activated, deactivated meanwhile, one lockable period, weak fairness | `NoDuplicateDecision`, `EntityMirrorsRequest`, `EffectFollowsApproval`, `ResolvedIsFinal`, `KeepsPromise`, `DecisionReachesEntity` | one decision at a time, the engine implements `ApprovalSpec` and the entity learns the outcome |
| `LeaveDomain` | 1 handler, an unpaid type, 2 leaves and an auto-approved encashment of 2 days each, 4 days granted, chain edits, crashes, inbox approvals | `LeaveTypeOK`, `OnlyApprovedDeducted` | only approved days are deducted, each once |
| `LeaveConcurrent` | 2 handlers, a paid type, a leave and an encashment, policy 2 or 4 days, sweep, lock | `ApprovedIsDeducted`, `BalanceAddsUp` | no approved request escapes the balance through interleaving; a sync never loses a deduction |
| `PayrollSerial` | 1 employee, an organisation run and a branch run (symmetric), 1 fine, 1 fine request, 1 summary worker that may die, 3 figures of which two compare equal, 2 versions; one request or generation at a time | `PayrollTypeOK`, `ApprovedWasReviewed`, `VersionNamesFigures`, `ProcessedRunClosed`, `ProcessedTogether`, `FineHasPayslip`, `PayslipFinal` | over every sequence of reviews, locks, unlocks, generations by either run and fine operations: final payslips stay, no change that `compute` recognises stays approved or keeps its version, a deducted fine is on its payslip |
| `PayrollConcurrent` | 2 summary workers (symmetric) that compute, adjust and lock, 3 figures of which two compare equal, 1 run, all overlapping; no reviews that decline | `PayslipTraceable`, `HistoryHoldsSummary`, `FrozenIsFrozen` | whatever overwrites what, no figures are replaced under a lock that stays, and the compared figures in force and those of a payslip have their version row |
| `PunchDelivery` | 2 punches, 2 batches, 2 workers, a manual sync started any number of times, 2 attempts, 2 drains, 1 punch without an employee, any 2 of 10 kinds of fault, fairness | `PunchTypeOK`, `HandedOver`, `FetchedIsCounted` | no punch is forgotten, and each reaches its record, a reviewer or an administrator |
| `ImportResume` | 2 chunks found out in 3 reads, 2 executions, an import without a job, 3 requests taken one at a time but overlapping with both jobs, 2 chunks and 2 attempts a job, 1 stall, 2 faults of three kinds, PATCH to completed | `ImportTypeOK`, `CheckpointIsStaged`, `CompletedIsComplete`, `EndedIsRecorded` | whoever overwrites which cursor, no import goes on past a chunk that is missing, and a job that Bull does not drop ends with its execution saying how |
| `PaymentConcurrent` | 2 requests (symmetric), 1 payslip, 2 payments, 2 payouts, 1 attempt, 1 worker that loses its lock and goes on or dies, lost answers, failing queue and transactions | `PaymentTypeOK`, `OneActivePayment`, `PaidHasMoney`, `SentOnlyWhilePending` | the unique index holds under retries, reordered events and two workers on one job; the status guard of the worker holds as long as no second worker is past it |
| `PunchSyncStops` | the scheduled sync, no fault, fairness | `EveryPunchFetched` violated | section 5, item 1 |
| `PaymentDuplicatePayout` | 1 request, `Commits = {FALSE}`, no stall and no other fault | `OnePayoutPerPayment` violated | item 2 |
| `PayrollPaysUnreviewed` | 1 summary worker that computes and locks, 3 figures of which two compare equal, 1 version | `LockedAsApproved` violated | item 3 |

*Why the bounds are enough.* The hazards are pairwise: a handler that acts on what another has
changed. Two handlers and one request give every interleaving of two; a chain of two steps
numbered 1 and 3 has a first, a last and a gap. Two versions of a summary are one change
after the first computation, with the overwritten row as the third party. Two payments of one
payslip are a payment and its retry; two payouts let the same payment be sent twice. In
`PaymentConcurrent` a job runs again because it stalled, in `PaymentDuplicatePayout` because an
attempt failed; the first contains an exhausted job. One worker without a lock and the one that gets its job are the
two that can meet. Two runs over one employee are an organisation's and a
branch's generation, which write the same payslip and fine; a third party is the request on
the fine. Two figures that compare equal and a third make every change that `compute` sees and
one that it does not, and two versions make a payslip differ from its summary. Rejections,
corrections and cancellations are left out of `PayrollConcurrent`: they touch neither figures nor
versions; recompute, which writes as compute does, is in `PayrollSerial`. Two punches are a batch with a part already registered, or two batches; two faults
are a batch that is buffered and then loses its drain, or its job's last attempt. The
one step this leaves out is marking the buffered row of a job that failed finally, which needs three.
Two chunks and the empty read have a first, a last and an end that is known only afterwards; a
job may take two, so that it meets its limit once and needs a resume; two faults and one stall are a job
that is tried again and then fails, or that Bull drops; two executions and an import without a job are three that share the cursors. Three
requests are a start, a pause and a resume, or a start, a cancellation and a second start.
Versions, payments, payouts, attempts and stalls are
bounded only in guards, so a bound stops growth and changes nothing else.

*Why the serial runs are not idle.* They check the properties the documents state, which the code
keeps when operations do not overlap, over every sequence of operations and, where
stated, crashes. That the same properties fail with a second handler is section 5; the
concurrent runs show what still holds then.

*Views.* `PaymentView` forgets what a request remembers once it is not read again, the numbers of
payouts and `payslips.active_payment_id`, which no action reads; `Unghosted` leaves out
`reviewed`, which no action and no property of `PayrollConcurrent` reads.

*Fairness.* `FairSpec` is weak fairness of each handler's next query: an awaited query of
PostgreSQL returns or fails, and in `ApprovalSerial` nothing fails. Nobody is assumed to
take a decision. `FairPunchSpec`
is weak fairness of the steps of a sync job that is enqueued, of the cron that enqueues the
scheduled one, of the drain, whose interval fires every 60 seconds, and of each worker: Bull
starts what waits. Faults are among these steps, but bounded. Nobody is assumed to start a
manual sync, to retry a failed job or to resolve a review; the drain's steps are fair as a whole,
because it never waits for anything but its own queries.

## 4 Proofs

`ApprovalEngineProofs` holds for any users, handlers, requests, chain and operations allowed
by `EngineAssumption` and `ChainAssumption`, which say only that constants have their types.

- `TypeCorrect`, `TypesHold`: `Spec => []TypeOK`. The proof carries `TypeInv`, which adds that
  a handler inside the decision part of its code has a decision in hand and not a submission;
  without it `Outcome` and `ActionOf` would be applied to an operation they do not know.
- `NoStepUnsigned`: `SavedChains = {} => (Spec => []StepsSigned)`. `StepsSigned` alone is not
  inductive: a step writes what a handler carries, so the invariant must speak of what is
  carried. `SignInv` is `TypeInv` with `RowsSigned` (the steps behind the current
  step of every row are signed, as are all steps of an approved request or entity) and
  `TasksSigned` (the same of the copy each handler holds; and a handler past `Authorise` acts for
  somebody eligible for the step of its copy, its `next` being `NextStep` of that copy). The
  argument is that `history` only grows, so what was signed when a copy was taken is still
  signed when it is written, however stale it is; and that `NextStep` skips no step of the
  chain (`NextStepAdvances`). Locks, the sweep and crashes disturb nothing. Escalation is
  included: the theorem covers all four operations, more than the concurrent run.
- The lemmas about the chain (`LeastOfIsLeast`, `ChainSteps`, `NextStepAdvances`) say that the least
  element of a non-empty set of steps exists and that `NextStep` returns it among those after
  the current one.

- `ApprovalHasItsLog`: `ApprovedLogComplete`, when also nothing is escalated. `LogInv` adds to
  `SignInv` that status, step and log of every row and of every copy belong together
  (`LogSigned`): an open or approved row has a signed entry for each step behind it. A handler
  writes all three from one copy, so an overwritten entry goes together with the step it stood
  for. A rejection or cancellation breaks the bond (its UPDATE leaves `current_step` out), which
  is why the copies a handler decides on must be open ones, as its status check sees to.
  `escalate` is excluded because it moves a request on without an entry of that step's approver.

`SavedChains = {}` is needed: with a chain that is edited, "signed" refers to a
chain that no longer exists, and a request can be past steps that were added later.

`ApprovalSerialProofs` holds for any users, requests, steps and chains. Its hypotheses are not
properties of the code: they name the circumstances in which it keeps what its documents say, and
section 5 shows what happens outside of them. `OneHandler` says that decisions follow each other
(the run has one handler; the theorems speak of any set of handlers with at most one element).
`ChainsAgree` says that a step which one of the chains has and another lacks comes before all
steps of the other: with a chain saved otherwise `findIndex` gives -1 and the request goes back
(section 5, item 6). `WithSla = {}` is no deadline (item 8), and no escalation item 7. The chains
of `ApprovalSerial` satisfy all of them.

- `DecidedOnce`, `ResolvedStays`: `NoDuplicateDecision` and the action property `ResolvedIsFinal` (without deadlines), all with crashes. `SerialInv`
  says that the log *is* the history, has one entry for a step, and that while the
  request is open all entries are before the step it waits at (`RowSerial`); and that what the one
  handler carries is still the row (`TaskSerial`). `NextStepLater` is the fact about chains: whatever
  chain is in force, the step after a known step is a later one.
- `PromiseKept`: `Spec => KeepsPromise`, the refinement of `ApprovalSpec` with its mapping, step by
  step: the two INSERTs of a submission, `Decide` and `SyncEntity` are steps of the promise,
  everything else stutters. Crashes are allowed: the promise is a safety promise.
- `EntityFollowsRequest`: `EntityMirrorsRequest` also needs that no handler dies between its two
  UPDATEs. `MirrorInv` says that the rows differ only between the two writes of a submission or decision.
- `ApprovalTakesEffect`: `EffectFollowsApproval`, for any number of handlers, deadlines and any
  chains, when no handler dies and nothing is escalated: more than the run with its one handler. The
  handler whose `SyncEntity` approves the entity is the one that goes on to the effect (`EffectInv`).

`LeaveServiceProofs` holds for any leaves and encashments, days, users, chains and policies; it
assumes `LeaveAssumption`, by which the requests are finitely many (a sum of days is taken over
them). It rests on the types of the engine (`TypeInv`).

- *Sums.* `ApprovedDays` adds up days with `MapThenSumSet`, a fold whose defining function is
  recursive over subsets. What the proofs need of it (`SumUnfolds`, `SumTakes`, `SumAdds`, `SumGrows`: a
  sum takes its elements one by one in any order, grows with the set, and by exactly the new
  request's days) is not proved with an induction theorem, which would take an operator as a
  parameter, but by minimal counterexample: a set of finite sets that is not empty has a least
  one (`LeastSubset`, from the well-foundedness of strict inclusion), and the least set of which a fact fails is
  one element more than a set of which it holds.
- `LeaveTypesHold`, `ColumnsConsistent`: `LeaveTypeOK` and `BalanceAddsUp`, with nothing assumed about
  handlers, crashes, policy or inbox. `LeaveInv` ties a handler's call to its engine task:
  while the call waits for the engine (`"approving"`) the task decides the call's own request.
- `NoLeaveIsFree`: `ApprovedIsDeducted` for any number of handlers, if all approvals go through
  `/leaves` (`InboxOps = {}`) and no handler dies; item 9 of section 5 is what happens otherwise.
  `PaidInv`: the days of the approved requests that no call is about to deduct are at most the used
  days. Two handlers may deduct one leave twice, hence "at most".
- `OnlyGrantedDeducted`: `OnlyApprovedDeducted` with one handler at a time, with crashes, inbox,
  sweeps and changes of chain and policy, without escalation. `GrantInv` says that the engine never
  works on an approved entity, so an approval is new when it sets a call to deduct; `SpendInv`, that
  the used days, with those a call is about to take, are at most the approved days.

`PayrollPaymentProofs` holds for any payslips, requests, payments, payouts, attempts and stalls,
with or without lost answers, a failing queue and transactions that roll back; it assumes
`PaymentAssumption`, the types of the constants.

- `PaymentTypesHold`, `NeverTwoActive`, `PaidMeansMoney` and `NothingSentOnceSettled` establish
  `PaymentTypeOK`, `OneActivePayment`, `PaidHasMoney` and `SentOnlyWhilePending`. All four come
  from one invariant, `PaymentInv` (`PaymentInvHolds`), which TLC found to hold in the instance of
  `PaymentConcurrent`.
- Its parts say what makes reads that are written back later harmless: a job belongs to a
  gateway payment, and one past the guard of the worker to a payment that is still pending,
  unless a worker that lost its lock is past the guard too (`JobsSound`, `Shared`); that
  worker knows no less of the payment and the payout than the worker of a job (`LateSound`); what a request remembers of a payment, its payslip and its gateway, never
  changes, and a payment does not become pending again (`ClerksSound`); a payout recorded on a
  payment was made for it (`RowsSound`), and an event in the hands of the webhook handler is one
  the gateway sent for that payment (`HookSound`). `PaidHasMoney` needs the last two; the bound
  on the attempts, part of the type, needs that a payment gets one job only.
- `OneActivePayment` follows from the unique index, which every statement that can make a
  payment active meets: the insertion, the worker's record and the webhook. That the second query of
  `initiatePayment` finds no active payment is not used: without the index it is not enough.
- One lemma per kind of assignment (`StatusSet`, `PayoutSet`, `JobMoved`, `JobFailed`, ...) says what it
  leaves alone; then one lemma per action shows the invariant is kept.

`PunchIngestionProofs` holds for any punches, batches, sync jobs, workers, batch size, attempts and
faults; it assumes `PunchAssumption`, the types of the constants.

- `PunchTypesHold` and `NothingForgotten` establish `PunchTypeOK` and `HandedOver`. Neither is
  inductive: the cursor passes what a sync job *remembers*, several queries after its punches were
  fetched. `PunchInv` (`PunchInvHolds`), which TLC found to hold in the instance of
  `PunchDelivery`, adds what makes that safe. `SyncsOK`: up to where a job will move the cursor,
  every punch is safe or in the job's own batch until that is handed over, and safe afterwards.
  `CompletedIsKnown` and `WorkersOK`: a batch is let go by its job only with all its punches
  registered. `DrainOK`: a row is let go only with its job in the queue, and has an attempt left
  until then (which bounds the attempts, part of the type). `EmptyIsUnused`: a sync job that
  fills a fresh batch disturbs nobody else's.
- The argument is one lemma, `SafeStays`: registered and lost punches stay so (`Grows`), and a
  batch that is let go is registered (`HoldsOn`), so what was safe stays safe; every action is
  then shown to grow and to hold on. The frame lemmas (`SourceFrame`, `DrainStepKeeps`,
  `WorkStepKeeps`, ...) say once what the actions of a group leave alone.

`ImportExecutionProofs` holds for any chunks, executions, clients, limits, attempts, stalls and
faults, and for a PATCH to any statuses; it assumes `ImportAssumption`, the types of the constants.

- `ImportTypesCorrect`, `ResumesAfterStaged` and `NothingLeftBehind` establish `ImportTypeOK`,
  `CheckpointIsStaged` and `CompletedIsComplete` from one invariant, `ImportInv` (`InvHolds`). The
  three are not inductive: a job that has read a chunk will stage it, note a cursor and perhaps
  complete its execution on what it remembers. `JobsEndRecorded` is `EndedIsRecorded`, from the same
  invariant: a job about to end, by whichever way, has an execution that says so. `JobSafe` says what each step may remember: before
  staging chunk `k`, that the chunks before it are staged; before noting its cursor, that `k` is too; before
  completing, that all are. `RowSafe` and `RequestSafe` say the same of the rows and of a
  resuming request.
- The argument is that `staged` only grows (`SafeGrows`), so any cursor that was safe once is safe
  wherever and whenever it is written, and that the null cursor, with which the mark and the
  checkpoint start over, is always safe (`NoneIsSafe`). `CursorAnswered` is the heart of it: a
  chunk that answers no cursor is the last one, after which everything is staged.

`PayrollRunProofs` holds for any employees, runs with overlapping scopes, fines, workers, figures and
versions, one by one or overlapping; it assumes `SummaryAssumption` and `PayrollAssumption`, the
types of the constants and that no run and no figures are named like the absence of one.

- `PayrollTypes`, `RunsClose`, `ProcessedHasPayslip` and `FinalPayslips` establish `PayrollTypeOK`,
  `ProcessedRunClosed`, `ProcessedTogether` and the action property `PayslipFinal`. The invariant
  is `PayrollInv`, which TLC found to hold in the instance of `PayrollConcurrent`. Its heart is
  what workers remember (`JobOK`): one that will write a row back did not read a frozen one, so no
  upsert, however late, makes a summary `payroll_processed`; and `RunInv`: while a run is
  generating it is not processed, which is why a commit adds no draft to a processed run and
  writes over no final payslip. `FinalPayslips` is the fact about steps that `InvNext` proves with it.
- `FrozenStays`: the action property `FrozenIsFrozen`, for any number of workers and with crashes.
  A worker that writes back did not read a frozen row, so what it writes has another status: the
  upsert may take a lock off that was set meanwhile (item 4), but it never changes what
  stays locked; nor does a second lock, an unlock or a processing.
- `HistoryComplete` and `PayslipsTraceable` establish `HistoryHoldsSummary` and `PayslipTraceable` when no
  request dies between two statements (`CanFail = FALSE`; with it, a summary may lose its version
  row, which is why only the runs without it check them). Neither is inductive: between a write
  and its version row the history is behind, and a worker may write back figures it read long ago.
  `HistoryInv` says that the compared figures and the version of every summary, payslip and copy to be
  written back are in the history or owed to it by a worker (`Known`); an upsert that changes other
  fields only leaves them there; `KnownStays` is the argument, that
  the history grows and a worker that owes a version row moves on only by writing it.
- `SummaryStep` shows once that every operation of the summary service keeps its tables and
  makes no summary vanish or become processed (`SummaryMoves`); the runs need no more of it.

`PayrollSerialProofs` has the properties that hold when requests do not overlap, for the same
constants and from `PayrollInv`.

- `DeductedFineOnPayslip`: `FineHasPayslip` with `Overlapping = FALSE`, which is the circumstance of item 12 turned around: no fine request and no
  other generation is at work while a run generates. `FinesInv` says that a fine, its payments and its payslip tell
  one story (`FineTied`), that what a request read of its fine still holds when it writes
  (`FineJobTied`), and that a generation has set free every deducted fine of the drafts it may
  replace and takes no other but approved ones (`GenerationTied`). A run may be processed
  while another generates: then the commit of the second frees a fine that a final payslip still
  lists in its references, which the property does not forbid (item 12).
- `ReviewedStands`, `VersionsDistinct`: `ApprovedWasReviewed` and `VersionNamesFigures`, both of the
  compared fields, with one worker on the summaries (`OneWorker`), with any
  crashes, reviews, runs and overlapping generations. `AloneInv` says that the figures and version a worker read are
  still those of the row when it writes, although a review may have changed the status meanwhile,
  and that nobody can freeze the row in between (`JobAlone`); that each version number
  stands for one set of compared figures, none of them ahead of the summary, and that what is cleared
  compares equal to what was reviewed (`RowAlone`). With two workers both fail (item 10).

Every invariant and every action property of the runs that pass is stated by one of these theorems.
Only model-checked are the two liveness properties (`DecisionReachesEntity`, `FetchedIsCounted`),
because they rest on fairness, which TLAPS does not reason about; and the three properties that the
code violates.

## 5 Divergences between code and documents

The first three are runs; the others were seen with the same modules and the constants given, or
while translating.

1. The scheduled sync is added with one fixed job id. Bull ignores an id it knows, and completed
   jobs are kept, so the second tick, and every later one, adds nothing: "the next run
   re-fetches the same window" has no next run.
2. The worker and the webhook of payments insert audit rows that migration 063 refuses (`employee_id`
   missing in the worker, `actor_id` not a UUID in both). The transaction rolls back after the
   payout was created, the payment stays pending, and Bull retries: up to three payouts. For
   the same reason the payment is never marked failed: it stays pending, and nothing looks for it.
   Without that defect a lost answer of the gateway has the same effect
   (`Commits = {TRUE}`, `AnswersLost = TRUE`), since no idempotency key is sent; so has a worker that
   loses its lock and goes on (`MaxStalls = 1`): it sends again, and records over what was written
   meanwhile. A payment whose job the queue refused, or dropped as stalled, stays pending as well.
3. `compute` compares eleven fields and replaces all: a change of the hours or the overtime terms
   alone keeps the approval and the version, and the payslip pays by them. "A real change to
   the figures invalidates any prior review decision" (`attendance-summary.service.ts:147-149`). And "so
   payroll always matches what was actually approved/audited on the locked summary"
   (`payroll.service.ts:98`) fails once more: processing (`:672`) takes whatever payslips the run has,
   so a summary unlocked, computed and locked again after the generation is processed with other figures
   than its payslip. Of the figures paid, only the compared fields are in the version history
   (`PayslipTraceable`).
4. `escalate` approves the last step without `assertPayrollUnlockedForEntity`, although
   `PAYROLL_ATTENDANCE_SUMMARY_REPORT.md:88` says the lock can not be bypassed on any path;
   `approveRequest` re-validates the balance "to prevent race conditions" (`leave.service.ts:275`)
   but holds nothing, so two leaves approved at once overdraw it (`NeverOverdrawn`, which no run
   checks: `LeaveConcurrent` with two leaves of 2 days and 2 days granted); `compute` writes
   back over a summary that was locked after it was read, and so takes the lock off, although the
   report (:96) says locked summaries are always skipped. Nothing is changed under a lock that
   stays (`FrozenIsFrozen`).
5. Two approvers of one step at once: both decide (`NoDuplicateDecision`, two handlers,
   `Ops = {"approve"}`). One entry is lost (`DecisionsRecorded`, which no run checks: it fails in
   the instance of `ApprovalConcurrent`) although `approval_log` is a "Full immutable audit trail"
   (migration 054:48). What two handlers do keep of the log is `ApprovedLogComplete`.
6. A chain saved without the step a request waits at: `findIndex` gives -1 and the request goes
   back to the first step (`NoDuplicateDecision`, one handler, a chain of fewer steps in `SavedChains`).
7. `escalate` has no status guard: a rejected request can be escalated or approved
   (`ResolvedIsFinal`, `Ops = {"reject", "escalate"}`), and its final branch runs two of four side
   effects (`EffectFollowsApproval`, a correction, `Ops = {"escalate"}`).
8. The expiry sweep does not tell the entity (`EntityMirrorsRequest`, `WithSla = {r1}`), and
   it expires what its comment says to auto-approve.
9. A leave approved through the inbox deducts nothing (`ApprovedIsDeducted`,
   `InboxOps = {"approve"}`); nor does one whose handler dies after the engine's approval
   (`CanCrash = TRUE`).
10. `compute` that finds nothing changed writes back the status it read, over an adjustment or a
    review (`ApprovedWasReviewed`, two workers, compute and adjust); a crash between the
    upsert and the version row leaves a gap in the history (`HistoryHoldsSummary`,
    `CanFail = TRUE`).
11. The comment at `approval-engine.service.ts:184-188` and that of the lock service say
    that processed periods are closed too; the code looks for `payroll_locked` only.
12. Fines and generations that overlap (`PayrollSerial` with `Overlapping = TRUE`): a fine loaded
    by two generations ends up deducted without being on the payslip that was written last
    (`FineHasPayslip`); one waived or settled by a request that read it before the generation
    is waived and on a payslip. Also one at a time: an employee skipped by a second
    generation keeps his draft payslip with the fine on it while the fine is free again, to be waived
    or cancelled, and that payslip may become final; a
    waiver that dies after inserting its payment leaves the payment; a cancelled fine is approved
    later by its open approval request.
13. `verifyPayment` passes a parameter its UPDATE of the fine does not name, which PostgreSQL
    refuses; `validatePayrollNotLocked` looks at one arbitrary run of the period; a run created by
    hand can be processed before anything was generated (`generation_status` defaults to
    `completed`, migration 166:16).
14. Punches are given up where the code swallows an error (`lost`): the buffer's INSERT fails and
    the cursor advances; a punch's error is caught; a job fails after registering its
    fingerprints and its retry drops them as duplicates; a review whose retry dies stays
    `retrying`, which no query selects.
15. Two jobs that write one attendance record overwrite each other's punch: the processor runs ten
    at once (`FetchedIsCounted` with one record for both punches). `filterDuplicates` calls itself
    safe for concurrent callers (`punch-fingerprint.service.ts:33`), but looks first and
    registers later, so two deliveries of a batch are both processed; the merge makes that harmless.
16. Of punches with one timestamp, those cut off by the batch size are never fetched (`> @since`);
    nor are older punches a terminal uploads late.
17. A pause or cancellation set while a job is at work on a chunk is overwritten when the chunk is
    noted (`persistConnectorProgress` sets `processing` whatever the status is), and again by the last
    query of `enqueueImport`; the import goes on. The other way round, `fail` sets a batch to failed that was
    cancelled or completed meanwhile.
18. A resume that comes before the job has noticed the pause finds no stopped execution and starts
    none; if the job stops after that, the batch is processing without a job. A job that meets its
    chunk limit leaves its batch processing with a paused execution, and resuming needs
    a paused batch: it must be paused first.
19. A job that stalls more often than `maxStalledCount`, that the queue refused, or whose
    `markRunning` or `fail` throws on the last attempt (they are outside the `try`,
    `historical-attendance-import.processor.ts:24` and `:155`), leaves
    its execution running or queued for ever, and resume does not look for it. `EndedIsRecorded`
    says that nothing else does.
20. A REST source may answer a cursor with its last page, and the job takes that for its chunk limit:
    the execution is paused, never completed. So does a SQL source whose last chunk is full when the
    limit falls on it: all is staged, and a resume reads one empty chunk to find that out. An error
    after an execution completed (in `notifyCompletion` or the last `job.progress`) runs the whole
    job again, and its last attempt is recorded as failed.
21. Of commit and rollback, which are not modelled: `UNIQUE (batch_id)` on the commits keeps a
    batch that was rolled back from being committed again, and rolling back two batches in
    the wrong order puts back punches of the one rolled back first.

## 6 What is not modelled

Inside the modelled components: wording, notifications, audit logs of decisions, amounts and
currencies, gateway signatures, the calendar (which dates a period covers), holidays and
gender rules of leave types, leaves without a type, exit encashment, and administration of
leave types; the salary arithmetic, payslip snapshots and overtime links of a generation, the
approval of runs, payslip PDFs; appeals and editing of fines; validation of punches, terminals,
device and employee sync, push protocols and dashboards of the biometric module; sources, formats,
mapping, the checks of a validation, commit, rebuild and rollback of the historical import, and a job
of it whose stalled worker is in fact still running. Drains of the
offline buffer may overlap in the code when one takes longer than a minute; they are modelled one
at a time. The figures of a summary and the fields a side effect writes are abstracted as
said above.

Whole components, with the reason, are listed in `PROJECT.json`. Attendance
and breaks, the Python biometric service, authentication, organization lifecycle, recruitment and exit management have state machines worth modelling and are in
the plan. Platform administration, employees, performance, finance, assets, compliance,
notifications, dashboards, reports and the frontend are CRUD over single statements,
arithmetic, delivery or display: nothing for a model checker to find.

## 7 Plan

Order: what decides about money first, then what feeds it.

1. *Done:* `BranchApprovalChain`, `ApprovalEngine` with `ApprovalSpec`, `LeaveService`,
   `AttendanceSummary`, `PayrollPayment`, `EmployeeFines`, `PayrollRun`, `PunchIngestion`,
   `ImportExecution`; every safety property of their runs proved, and that one handler implements
   `ApprovalSpec`.
2. `ImportCommit` (commit and rollback against live changes), `BreakSession`.
3. `ExitSettlement`, `OfferApproval`, `Subscription`, sessions of `auth`.
4. Proofs: what of `ApprovalSpec` several handlers keep (a chain of signatures without the log),
   and of `FineHasPayslip` when only requests on other fines overlap a generation.
